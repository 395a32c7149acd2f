-------------------------- MODULE ForwardedHeaders --------------------------
(***************************************************************************)
(* How the forwarding relay rewrites the header of a message               *)
(* (internal/smtpforwarding/relay.go) so that it comes from the shared     *)
(* address.  A header line is a name and a value.  A value is an author,   *)
(* possibly writing by way of a shared address.                            *)
(***************************************************************************)
EXTENDS Sequences, FiniteSetsExt

CONSTANTS
    Authors, \* values of a header line
    NoValue  \* an empty value, and no shared address

\* The names the relay tells apart: every other header of
\* forwardingRewriteDroppedHeaders is like the signature, every header that is
\* not in it like the subject.  A malformed line has no name.
From == "From"
ReplyTo == "Reply-To"
XOriginalFrom == "X-Pinguin-Original-From"
Dropped == {From, ReplyTo, XOriginalFrom, "DKIM-Signature"}
HeaderNames == Dropped \cup {"Subject", "malformed"}

Value(author, route) == [author |-> author, via |-> route]
Header(name, value) == [name |-> name, value |-> value]

\* Lines as they come in.
Received == [name : HeaderNames, value : {Value(x, NoValue) : x \in Authors \cup {NoValue}}]

parses(headers) == \A i \in DOMAIN headers : headers[i].name # "malformed"

WithLine(lines, header, names) ==
    IF header.name \in names THEN Append(lines, header) ELSE lines

\* The lines that have one of the names, in order.
Lines(headers, names) ==
    LET upTo[n \in 0..Len(headers)] ==
            IF n = 0 THEN <<>> ELSE WithLine(upTo[n - 1], headers[n], names)
    IN upTo[Len(headers)]

Named(headers, name) == Lines(headers, {name})

firstHeaderValue(headers, name) ==
    LET found == Named(headers, name)
    IN  IF found = <<>> THEN NoValue ELSE found[1].value.author

\* The new From shows the author and has the address of the route.
forwardedFromHeader(route, originalFrom) == Value(originalFrom, route)

Unless(author, header) == IF author = NoValue THEN <<>> ELSE <<header>>

IdentityHeaders(route, originalFrom, replyTo) ==
    <<Header(From, forwardedFromHeader(route, originalFrom))>>
    \o Unless(replyTo, Header(ReplyTo, Value(replyTo, NoValue)))
    \o Unless(originalFrom, Header(XOriginalFrom, Value(originalFrom, NoValue)))

Kept(headers) == Lines(headers, HeaderNames \ Dropped)

\* A faulty form of the rewriting below: only the first From is looked at,
\* later ones are kept.
rewriteParsedKeepsFrom(route, headers) ==
    LET originalFrom == firstHeaderValue(headers, From)
    IN  IdentityHeaders(route, originalFrom, originalFrom)
        \o Lines(headers, (HeaderNames \ Dropped) \cup {From})

\* The identity headers stand where the first From was, or at the top.
rewriteParsed(route, headers) ==
    LET originalFrom == firstHeaderValue(headers, From)
        originalReplyTo == firstHeaderValue(headers, ReplyTo)
        replyTo == IF originalReplyTo = NoValue THEN originalFrom ELSE originalReplyTo
        froms == {i \in DOMAIN headers : headers[i].name = From}
        place == IF froms = {} THEN 0 ELSE Min(froms)
    IN  Kept(SubSeq(headers, 1, place))
        \o IdentityHeaders(route, originalFrom, replyTo)
        \o Kept(SubSeq(headers, place + 1, Len(headers)))

\* What Forward sends for a route: a message that does not parse goes out as
\* it came in.
Forwarded(route, headers) ==
    IF parses(headers) THEN rewriteParsed(route, headers) ELSE headers

-----------------------------------------------------------------------------
\* The author that an answer to the message reaches.
AnswersTo(headers) ==
    LET replyTo == firstHeaderValue(headers, ReplyTo)
    IN  IF replyTo = NoValue THEN firstHeaderValue(headers, From) ELSE replyTo

\* What rewriting promises: the route speaks, once and for the same author,
\* no signature of the old header is left, answers reach the one they reached
\* before, and everything else is there, in order.
SpeaksFor(route, headers, rewritten) ==
    /\ \A i \in DOMAIN rewritten : rewritten[i].name # "DKIM-Signature"
    /\ \E i \in DOMAIN rewritten :
        /\ rewritten[i] = Header(From, Value(firstHeaderValue(headers, From), route))
        /\ \A j \in DOMAIN rewritten \ {i} : rewritten[j].name # From
    /\ AnswersTo(headers) # NoValue => AnswersTo(rewritten) = AnswersTo(headers)
    /\ Named(rewritten, "Subject") = Named(headers, "Subject")
=============================================================================
