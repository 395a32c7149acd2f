--------------------------- MODULE SmtpForwarding ---------------------------
(***************************************************************************)
(* The inbound SMTP forwarding server                                      *)
(* (internal/smtpforwarding/server.go, relay.go) and the mail servers that *)
(* deliver to it.                                                          *)
(*                                                                         *)
(* A message stays with the sending server until every one of its          *)
(* recipients is acknowledged or refused for good; it may come back in any *)
(* number of transactions.  Routes are resolved at RCPT and used after     *)
(* DATA, one relay call per shared address, in the order of the addresses. *)
(* ResolveForwarding is one step here; SmtpIdentity has its details.       *)
(***************************************************************************)
EXTENDS SessionLimiter, ForwardedHeaders

CONSTANTS
    Sessions,      \* connection slots, reused after a close
    Addresses,     \* shared addresses, as numbers: routes are sorted
    Messages,
    To,            \* the shared addresses each message is for
    Contents,      \* the headers a message may have
    MaxRecipients,
    MaxFaults,     \* bound on failures of relay, resolver and connections
    None

ASSUME AddressesAssumption == Addresses \subseteq Nat /\ IsFiniteSet(Addresses)
ASSUME ToAssumption == To \in [Messages -> SUBSET Addresses]
ASSUME ForwardingBounds == MaxRecipients \in Nat \ {0} /\ MaxFaults \in Nat
ASSUME ContentsAssumption == Contents \subseteq Seq(Received)
ASSUME NoneIsNoMessage == None \notin Messages

VARIABLES
    configured,  \* addresses of active identities with recipients
    phase,       \* closed, or where the goroutine of the connection is
    host,
    session,     \* sessionState: mailFrom, number of recipients, routes
    left,        \* the routes that forwardRoutes has still to serve
    outstanding, \* what the sending server still has to deliver
    faults,
    \* history
    copies,      \* copies[m][a]: times the relay took message m for route a
    refused,     \* recipients that were given a 550 or 552
    tries        \* transactions of message m that reached the relay

mailVars == <<outstanding, refused, copies, tries>>
vars == <<limiterVars, configured, phase, host, session, left, mailVars, faults>>

Empty == [mailFrom |-> None, recipients |-> 0, routes |-> {}]

Init ==
    /\ InitLimiter
    /\ configured \in SUBSET Addresses
    /\ phase = [s \in Sessions |-> "closed"]
    /\ host \in [Sessions -> Hosts]
    /\ session = [s \in Sessions |-> Empty]
    /\ left = [s \in Sessions |-> {}]
    /\ outstanding = To
    /\ faults = 0
    /\ refused = [m \in Messages |-> {}]
    /\ copies = [m \in Messages |-> [a \in Addresses |-> 0]]
    /\ tries = [m \in Messages |-> 0]

GoTo(s, p) == phase' = [phase EXCEPT ![s] = p]

Reset(s) == session' = [session EXCEPT ![s] = Empty]

-----------------------------------------------------------------------------
(* Connections *)

Accept(s, h) ==
    /\ phase[s] = "closed"
    /\ acquire(h)
    /\ GoTo(s, "command")
    /\ host' = [host EXCEPT ![s] = h]
    /\ session' = [session EXCEPT ![s] = Empty]
    /\ UNCHANGED <<configured, left, mailVars>>

\* QUIT, a failing read or write, a deadline.
Close(s) ==
    /\ phase[s] = "command"
    /\ release(host[s])
    /\ GoTo(s, "closed")
    /\ session' = [session EXCEPT ![s] = Empty]
    /\ UNCHANGED <<configured, host, left, mailVars>>

-----------------------------------------------------------------------------
(* MAIL, RCPT, RSET *)

\* A sending server has each of its messages in one connection at a time.
MayStart(m, s) ==
    /\ outstanding[m] # {}
    /\ \A t \in Sessions \ {s} : session[t].mailFrom # m

Mail(s, m) ==
    /\ phase[s] = "command"
    /\ MayStart(m, s)
    /\ session' = [session EXCEPT ![s] = [mailFrom |-> m, recipients |-> 0, routes |-> {}]]
    /\ UNCHANGED <<limiterVars, configured, phase, host, left, mailVars>>

MayName(s, a) ==
    /\ phase[s] = "command"
    /\ session[s].mailFrom # None
    /\ session[s].recipients < MaxRecipients
    /\ a \in outstanding[session[s].mailFrom]

\* A route exists: 250.  The same address may be named twice.
Recipient(s, a) ==
    /\ MayName(s, a)
    /\ a \in configured
    /\ session' = [session EXCEPT ![s] =
            [mailFrom |-> session[s].mailFrom, recipients |-> session[s].recipients + 1,
             routes |-> session[s].routes \cup {a}]]
    /\ UNCHANGED <<limiterVars, configured, phase, host, left, mailVars>>

GiveUp(m, recipients) ==
    /\ outstanding' = [outstanding EXCEPT ![m] = @ \ recipients]
    /\ refused' = [refused EXCEPT ![m] = @ \cup (recipients \cap outstanding[m])]

\* A faulty form of the refusal below: a 451, which settles nothing.
RecipientUnknownDeferred(s, a) ==
    /\ MayName(s, a)
    /\ a \notin configured
    /\ UNCHANGED <<limiterVars, configured, phase, host, session, left, mailVars>>

\* No route: 550, and the sending server gives the recipient up.
RecipientUnknown(s, a) ==
    /\ MayName(s, a)
    /\ a \notin configured
    /\ GiveUp(session[s].mailFrom, {a})
    /\ UNCHANGED <<limiterVars, configured, phase, host, session, left, copies, tries>>

\* The lookup fails: 451, the recipient will be tried again.
RecipientDeferred(s, a) ==
    /\ MayName(s, a)
    /\ UNCHANGED <<limiterVars, configured, phase, host, session, left, mailVars>>

Rset(s) ==
    /\ phase[s] = "command"
    /\ Reset(s)
    /\ UNCHANGED <<limiterVars, configured, phase, host, left, mailVars>>

-----------------------------------------------------------------------------
(* DATA *)

BeginData(s) ==
    /\ phase[s] = "command"
    /\ session[s].mailFrom # None
    /\ session[s].recipients > 0
    /\ GoTo(s, "data")
    /\ UNCHANGED <<limiterVars, configured, host, session, left, mailVars>>

\* A failing read inside the body leaves the envelope as it was.
DataReadFails(s) ==
    /\ phase[s] = "data"
    /\ GoTo(s, "command")
    /\ UNCHANGED <<limiterVars, configured, host, session, left, mailVars>>

\* 552: the sending server gives up all the recipients of the transaction.
DataTooLarge(s) ==
    /\ phase[s] = "data"
    /\ GiveUp(session[s].mailFrom, session[s].routes)
    /\ Reset(s)
    /\ GoTo(s, "command")
    /\ UNCHANGED <<limiterVars, configured, host, left, copies, tries>>

DataReceived(s) ==
    /\ phase[s] = "data"
    /\ GoTo(s, "forward")
    /\ left' = [left EXCEPT ![s] = session[s].routes]
    /\ tries' = [tries EXCEPT ![session[s].mailFrom] = @ + 1]
    /\ UNCHANGED <<limiterVars, configured, host, session, outstanding, refused, copies>>

Taken(s, a) == copies' = [copies EXCEPT ![session[s].mailFrom][a] = @ + 1]

\* forwardRoutes: the relay takes the copies for one route.
Forward(s) ==
    /\ phase[s] = "forward"
    /\ left[s] # {}
    /\ Taken(s, Min(left[s]))
    /\ left' = [left EXCEPT ![s] = @ \ {Min(left[s])}]
    /\ UNCHANGED <<limiterVars, configured, phase, host, session, outstanding, refused, tries>>

\* A faulty form of the failure below: the route is skipped.
ForwardSkips(s, taken) ==
    /\ phase[s] = "forward"
    /\ left[s] # {}
    /\ IF taken THEN Taken(s, Min(left[s])) ELSE UNCHANGED copies
    /\ left' = [left EXCEPT ![s] = @ \ {Min(left[s])}]
    /\ UNCHANGED <<limiterVars, configured, phase, host, session, outstanding, refused, tries>>

\* The relay call fails, the copies taken or not: no further route is served,
\* the sending server gets a 451 and keeps the message.
ForwardFails(s, taken) ==
    /\ phase[s] = "forward"
    /\ left[s] # {}
    /\ IF taken THEN Taken(s, Min(left[s])) ELSE UNCHANGED copies
    /\ left' = [left EXCEPT ![s] = {}]
    /\ Reset(s)
    /\ GoTo(s, "command")
    /\ UNCHANGED <<limiterVars, configured, host, outstanding, refused, tries>>

\* All routes are served: 250.
Accepted(s) ==
    /\ phase[s] = "forward"
    /\ left[s] = {}
    /\ outstanding' = [outstanding EXCEPT ![session[s].mailFrom] = @ \ session[s].routes]
    /\ Reset(s)
    /\ GoTo(s, "command")
    /\ UNCHANGED <<limiterVars, configured, host, left, refused, copies, tries>>

\* The 250 never arrives: the sending server keeps the message.
AcceptedUnheard(s) ==
    /\ phase[s] = "forward"
    /\ left[s] = {}
    /\ Reset(s)
    /\ GoTo(s, "command")
    /\ UNCHANGED <<limiterVars, configured, host, left, mailVars>>

-----------------------------------------------------------------------------
\* Identities are created, deleted and edited at any time.
Reconfigure(a) ==
    /\ configured' = IF a \in configured THEN configured \ {a} ELSE configured \cup {a}
    /\ UNCHANGED <<limiterVars, phase, host, session, left, mailVars>>

\* The sending server has nothing more to say about the message.
Done(s) ==
    session[s].mailFrom # None =>
        session[s].recipients = 0 /\ outstanding[session[s].mailFrom] = {}

\* What a sending server does to get rid of its mail.
Deliver(s) ==
    \/ Done(s) /\ \E m \in Messages : Mail(s, m)
    \/ \E a \in Addresses : Recipient(s, a) \/ RecipientUnknown(s, a)
    \/ BeginData(s)

Serve(s) ==
    \/ DataReceived(s)
    \/ DataTooLarge(s)
    \/ Forward(s)
    \/ Accepted(s)

Open(s) == \E h \in Hosts : Accept(s, h)
Quit(s) == Done(s) /\ Close(s)

\* What comes in the way: a sending server that starts over or hangs up, a
\* failing resolver, relay or connection.
Disturb(s) ==
    \/ ~Done(s) /\ \E m \in Messages : Mail(s, m)
    \/ ~Done(s) /\ (Rset(s) \/ Close(s))
    \/ \E a \in Addresses : RecipientDeferred(s, a)
    \/ DataReadFails(s)
    \/ \E taken \in BOOLEAN : ForwardFails(s, taken)
    \/ AcceptedUnheard(s)

Fault == faults < MaxFaults /\ faults' = faults + 1

Next ==
    \/ \E s \in Sessions : (Open(s) \/ Deliver(s) \/ Serve(s) \/ Quit(s)) /\ UNCHANGED faults
    \/ \E s \in Sessions : Disturb(s) /\ Fault
    \/ \E a \in Addresses : Reconfigure(a) /\ Fault

Spec == Init /\ [][Next]_vars

\* Connections are accepted and served as long as the process runs (every read
\* and every relay call has a deadline).  A sending server connects again and
\* goes on until it has an answer for every recipient, as SMTP obliges it to.
Fairness ==
    \A s \in Sessions :
        /\ WF_vars(Open(s) /\ UNCHANGED faults)
        /\ WF_vars(Serve(s) /\ UNCHANGED faults)
        /\ SF_vars(Deliver(s) /\ UNCHANGED faults)
        /\ WF_vars(Quit(s) /\ UNCHANGED faults)

FairSpec == Spec /\ Fairness

-----------------------------------------------------------------------------
(* Properties *)

OpenSessions == {s \in Sessions : phase[s] # "closed"}

\* The limiter counts the connections that are open, in total and per host,
\* and they stay within the limits.
ForwardingSessionsAccounted ==
    /\ activeSessions <= MaxConcurrentSessions
    /\ \A h \in Hosts : activeSessionsByHost[h] <= MaxSessionsPerRemoteHost
    /\ activeSessions = Cardinality(OpenSessions)
    /\ \A h \in Hosts :
            activeSessionsByHost[h] = Cardinality({s \in OpenSessions : host[s] = h})

\* A recipient the sending server has crossed off was served by the relay or
\* refused for good: a 250 never covers a route that was skipped, whatever
\* failed in this or in an earlier transaction.  And a route is served once,
\* however often the recipient was named: only for messages addressed to it, at
\* most once per transaction, and again only after a fault, one copy each.
CopiesAccounted ==
    \A m \in Messages, a \in Addresses :
        /\ a \in To[m] \ (outstanding[m] \cup refused[m]) => copies[m][a] >= 1
        /\ copies[m][a] <= IF a \in To[m] THEN tries[m] ELSE 0
        /\ copies[m][a] <= 1 + faults

\* The routes for which every message that parses is rewritten as promised.
SpeakingRoutes ==
    {a \in Addresses : \A headers \in Contents :
        parses(headers) => SpeaksFor(a, headers, Forwarded(a, headers))}

\* A copy that went out for a route comes from the route alone, whatever header
\* the message came in with: repeated, missing or empty From and Reply-To
\* lines, signatures, and lines of an earlier forwarding.  The author is still
\* shown and answers still reach them.
ForwardedInTheNameOfRoute ==
    \A m \in Messages, a \in Addresses : copies[m][a] > 0 => a \in SpeakingRoutes

\* Every recipient of every message is settled in the end, however the
\* recipients are spread over transactions.
MailSettled == \A m \in Messages : <>(outstanding[m] = {})
=============================================================================
