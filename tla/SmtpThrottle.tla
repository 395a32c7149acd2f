---------------------------- MODULE SmtpThrottle ----------------------------
(***************************************************************************)
(* The limits of the SMTP submission server                                *)
(* (internal/smtpsubmission/throttle.go): concurrent sessions, failed      *)
(* logins per key and accepted messages per identity.  Every operation     *)
(* runs under the throttle's mutex, so each is one step.                   *)
(*                                                                         *)
(* The two sliding windows are lists of times, oldest first.  A time is    *)
(* kept as its age, counted up to the length of the window: from there on  *)
(* pruneWindow drops it, however old it gets.                              *)
(***************************************************************************)
EXTENDS Integers, Sequences, FiniteSets

CONSTANTS
    Hosts,                    \* remote hosts
    Identities,               \* SMTP identities, and their usernames
    MaxConcurrentSessions,
    MaxSessionsPerRemoteHost,
    AuthFailureLimit,
    AuthFailureWindow,
    MessageLimit,
    MessageWindow

ASSUME SessionLimitsAssumption ==
    MaxConcurrentSessions \in Nat \ {0} /\ MaxSessionsPerRemoteHost \in Nat \ {0}
ASSUME WindowsAssumption ==
    /\ AuthFailureLimit \in Nat \ {0} /\ AuthFailureWindow \in Nat \ {0}
    /\ MessageLimit \in Nat \ {0} /\ MessageWindow \in Nat \ {0}

VARIABLES
    activeSessions,
    activeSessionsByHost,
    authFailuresByKey,
    acceptedMessagesByKey

sessionLimitVars == <<activeSessions, activeSessionsByHost>>
windowVars == <<authFailuresByKey, acceptedMessagesByKey>>
throttleVars == <<sessionLimitVars, windowVars>>

\* authThrottleKey: the username, or the remote host when there is none.
AuthKeys == Identities \cup Hosts

InitThrottle ==
    /\ activeSessions = 0
    /\ activeSessionsByHost = [h \in Hosts |-> 0]
    /\ authFailuresByKey = [k \in AuthKeys |-> <<>>]
    /\ acceptedMessagesByKey = [k \in Identities |-> <<>>]

-----------------------------------------------------------------------------
(* Sessions *)

CanAcquire(h) ==
    /\ activeSessions < MaxConcurrentSessions
    /\ activeSessionsByHost[h] < MaxSessionsPerRemoteHost

acquireSession(h) ==
    /\ CanAcquire(h)
    /\ activeSessions' = activeSessions + 1
    /\ activeSessionsByHost' = [activeSessionsByHost EXCEPT ![h] = @ + 1]

\* A faulty form of the release below: the last session of a host leaves its
\* entry behind.
releaseSessionKeepsHost(h) ==
    /\ activeSessions' = IF activeSessions > 0 THEN activeSessions - 1 ELSE 0
    /\ activeSessionsByHost' =
            [activeSessionsByHost EXCEPT ![h] = IF @ <= 1 THEN @ ELSE @ - 1]

\* The entry of a host is deleted with its last session.
releaseSession(h) ==
    /\ activeSessions' = IF activeSessions > 0 THEN activeSessions - 1 ELSE 0
    /\ activeSessionsByHost' =
            [activeSessionsByHost EXCEPT ![h] = IF @ <= 1 THEN 0 ELSE @ - 1]

-----------------------------------------------------------------------------
(* Sliding windows *)

\* A faulty form of the pruning below: nothing ever leaves the window.
pruneWindowNever(events, window) == events

\* The place at which a loop over a window stops.
First(places) == CHOOSE i \in places : \A j \in places : i <= j

\* The longest suffix that starts inside the window.
pruneWindow(events, window) ==
    LET kept == {i \in DOMAIN events : events[i] < window}
    IN  IF kept = {} THEN <<>> ELSE SubSeq(events, First(kept), Len(events))

AuthAllowed(key) ==
    Len(pruneWindow(authFailuresByKey[key], AuthFailureWindow)) < AuthFailureLimit

MessageAllowed(identity) ==
    Len(pruneWindow(acceptedMessagesByKey[identity], MessageWindow)) < MessageLimit

\* The attempt is counted as a failure before its outcome is known.
reserveAuthAttempt(key) ==
    LET failures == pruneWindow(authFailuresByKey[key], AuthFailureWindow)
    IN  authFailuresByKey' = [authFailuresByKey EXCEPT ![key] =
            IF AuthAllowed(key) THEN Append(failures, 0) ELSE failures]

\* A successful login forgets every failure of its key.
clearAuthFailures(key) ==
    authFailuresByKey' = [authFailuresByKey EXCEPT ![key] = <<>>]

reserveAcceptedMessage(identity) ==
    LET messages == pruneWindow(acceptedMessagesByKey[identity], MessageWindow)
    IN  acceptedMessagesByKey' = [acceptedMessagesByKey EXCEPT ![identity] =
            IF MessageAllowed(identity) THEN Append(messages, 0) ELSE messages]

\* The window without its first slot of that age.
WithoutFirst(events, age) ==
    LET same == {i \in DOMAIN events : events[i] = age}
    IN  IF same = {} THEN events
        ELSE [i \in 1..Len(events) - 1 |->
                IF i < First(same) THEN events[i] ELSE events[i + 1]]

\* A faulty form of the cancellation below: the oldest slot is given back
\* instead of the reserved one.
cancelMessageReservationOldest(identity, age) ==
    acceptedMessagesByKey' = [acceptedMessagesByKey EXCEPT ![identity] =
            IF @ = <<>> THEN @ ELSE Tail(@)]

\* Gives back the first slot that was reserved at the same time.  A slot that
\* has left the window may be another stale one: it makes no difference,
\* every reservation prunes the stale ones first.
cancelMessageReservation(identity, age) ==
    acceptedMessagesByKey' =
        [acceptedMessagesByKey EXCEPT ![identity] = WithoutFirst(@, age)]

Older(age, window) == IF age < window THEN age + 1 ELSE window

\* Time passes for every event in a window.
AgeWindows ==
    /\ authFailuresByKey' = [k \in AuthKeys |->
            [i \in DOMAIN authFailuresByKey[k] |->
                Older(authFailuresByKey[k][i], AuthFailureWindow)]]
    /\ acceptedMessagesByKey' = [k \in Identities |->
            [i \in DOMAIN acceptedMessagesByKey[k] |->
                Older(acceptedMessagesByKey[k][i], MessageWindow)]]
=============================================================================
