-------------------------- MODULE SubmittedMessage --------------------------
(***************************************************************************)
(* One message on its way from a client that has authenticated to the mail *)
(* servers of its recipients: handleData and relayAcceptedMessage of       *)
(* internal/smtpsubmission/server.go with the direct relay.  The client    *)
(* sends the message again until it has an answer for good, as SMTP        *)
(* obliges it to.  SmtpSubmission has the sessions around this and the     *)
(* limits.                                                                 *)
(***************************************************************************)
EXTENDS SmtpData, DirectMXRelay

CONSTANTS
    Texts,      \* the texts a client may submit, sequences of lines
    MaxRecords, \* bound on the records of a lookup
    MaxFaults   \* bound on failures that make the client try again

ASSUME TextsAssumption == Texts \subseteq Seq(Line)
ASSUME SubmittedBounds == MaxRecords \in Nat /\ MaxFaults \in Nat

VARIABLES
    message, \* its lines, the domains of its recipients, whose From it has
    at,      \* where handleData is
    answer,  \* the answer for good that the client has
    faults,
    copies   \* copies that mail servers took, history

vars == <<dataVars, relayVars, message, at, answer, faults, copies>>

Init ==
    /\ NotReading
    /\ Idle
    /\ message \in [lines : Texts, domains : {1, 2}, ownFrom : BOOLEAN]
    /\ at = "idle"
    /\ answer = "none"
    /\ faults = 0
    /\ copies = 0

Text == Flat(message.lines)

\* handleData is over.
Return == at' = "idle" /\ StopReading /\ Forget

\* A 5xx or the 250: the client is done.
Answer(reply) == Return /\ answer' = reply

\* A 4xx, or no answer at all.
TryAgain == Return /\ UNCHANGED answer

Submit ==
    /\ at = "idle"
    /\ answer = "none"
    /\ at' = "reading"
    /\ StartReading(Encoded(message.lines))
    /\ UNCHANGED <<relayVars, message, answer, copies>>

-----------------------------------------------------------------------------
(* Reading and checking the message *)

Read ==
    /\ at = "reading"
    /\ ReadFragment
    /\ UNCHANGED <<relayVars, message, at, answer, copies>>

ReadEnds ==
    /\ at = "reading"
    /\ AtTerminator
    /\ at' = "read"
    /\ wire' = SubSeq(wire, Len(Fragment) + 1, Len(wire))
    /\ UNCHANGED <<data, tooLarge, firstFragment, relayVars, message, answer, copies>>

\* A faulty form of the answer below: a 4xx.
DataTooLargeDeferred ==
    /\ at = "read"
    /\ tooLarge
    /\ TryAgain
    /\ UNCHANGED <<message, copies>>

DataTooLarge ==
    /\ at = "read"
    /\ tooLarge
    /\ Answer("rejected")
    /\ UNCHANGED <<message, copies>>

SenderNotAuthorized ==
    /\ at = "read"
    /\ ~tooLarge /\ ~message.ownFrom
    /\ Answer("rejected")
    /\ UNCHANGED <<message, copies>>

Authorized == at = "read" /\ ~tooLarge /\ message.ownFrom

\* The message limit of the identity is reached.
Throttled ==
    /\ Authorized
    /\ TryAgain
    /\ UNCHANGED <<message, copies>>

\* Relay: recipients of one domain only.
BeginRelay ==
    /\ Authorized
    /\ IF message.domains > 1 THEN Answer("rejected")
       ELSE at' = "lookup" /\ UNCHANGED <<dataVars, relayVars, answer>>
    /\ UNCHANGED <<message, copies>>

-----------------------------------------------------------------------------
(* Relaying it *)

Found == UNION {[1..n -> MXRecord] : n \in 0..MaxRecords}

Lookup(found) ==
    /\ at = "lookup"
    /\ \/ RefusesMail(found) /\ Answer("rejected")
       \/ lookupTargets(found) /\ at' = "try" /\ UNCHANGED <<dataVars, answer>>
    /\ UNCHANGED <<message, copies>>

\* The lookup fails or times out, or its records name no host.
LookupFails ==
    /\ at = "lookup"
    /\ TryAgain
    /\ UNCHANGED <<message, copies>>

Taken == copies' = copies + 1

\* A faulty form of the loop below: it goes on after a success.
TargetAcceptsGoesOn ==
    /\ at = "try"
    /\ Taken
    /\ NextTarget
    /\ UNCHANGED <<dataVars, message, at, answer>>

\* The host takes the message for all recipients; what QUIT says is ignored.
TargetAccepts ==
    /\ at = "try" /\ targets # <<>>
    /\ Taken
    /\ Answer("accepted")
    /\ UNCHANGED message

\* The 250 does not reach the client.
TargetAcceptsUnheard ==
    /\ at = "try" /\ targets # <<>>
    /\ Taken
    /\ TryAgain
    /\ UNCHANGED message

\* A 5xx to any command, one recipient of several included.
TargetRefuses ==
    /\ at = "try" /\ targets # <<>>
    /\ Answer("rejected")
    /\ UNCHANGED <<message, copies>>

\* No connection, a 4xx, a failing handshake or a timeout: the host may have
\* taken the message when its last answer is lost.
TargetFails(taken) ==
    /\ at = "try"
    /\ NextTarget
    /\ IF taken THEN Taken ELSE UNCHANGED copies
    /\ UNCHANGED <<dataVars, message, at, answer>>

TargetsExhausted ==
    /\ at = "try" /\ targets = <<>>
    /\ TryAgain
    /\ UNCHANGED <<message, copies>>

\* The connection breaks or the process dies.
Disconnect ==
    /\ at # "idle"
    /\ TryAgain
    /\ UNCHANGED <<message, copies>>

-----------------------------------------------------------------------------
Work ==
    \/ Submit
    \/ Read
    \/ ReadEnds
    \/ DataTooLarge
    \/ SenderNotAuthorized
    \/ BeginRelay
    \/ \E found \in Found : Lookup(found)
    \/ TargetAccepts
    \/ TargetRefuses
    \/ TargetsExhausted

Disturb ==
    \/ Throttled
    \/ LookupFails
    \/ TargetAcceptsUnheard
    \/ \E taken \in BOOLEAN : TargetFails(taken)
    \/ Disconnect

Next ==
    \/ Work /\ UNCHANGED faults
    \/ faults < MaxFaults /\ Disturb /\ faults' = faults + 1

Spec == Init /\ [][Next]_vars

\* Reads, lookups and exchanges have deadlines; the client tries again.
FairSpec == Spec /\ WF_vars(Work /\ UNCHANGED faults)

-----------------------------------------------------------------------------
(* Properties *)

\* What has been read is the client's text, to the byte, wherever lines and
\* dots fall on the borders of the buffer; a text is too large exactly when it
\* is longer than the limit, and no byte is left that the command loop would
\* take for a command.
DataRoundTrips ==
    at = "read" =>
        /\ wire = <<>>
        /\ tooLarge <=> Len(Text) > MaxMessageBytes
        /\ ~tooLarge => data = Text

\* The client is told 250 only when a mail server has taken the message, and
\* mail servers take one copy for the 250 and one more for every failure at
\* most: a message that was rejected or is tried again has not been delivered
\* unless an answer was lost.
DeliveredAsAnswered ==
    /\ answer = "accepted" => copies >= 1
    /\ copies <= faults + (IF answer = "accepted" THEN 1 ELSE 0)

PrefsOf(h) == {records[i].pref : i \in {j \in DOMAIN records : records[j].host = h}}

\* A host is tried only after all hosts the domain prefers to it, and the
\* relay gives up only after all of them.
PreferredFirst ==
    at = "try" => \A i \in DOMAIN records :
        \/ records[i].host = Blank
        \/ \E k \in DOMAIN tried : tried[k] = records[i].host
        \/ targets # <<>> /\ \E p \in PrefsOf(Head(targets)) : p <= records[i].pref

\* Every submission gets an answer for good: what cannot succeed is refused,
\* not deferred.
SubmissionAnswered == <>(answer # "none")
=============================================================================
