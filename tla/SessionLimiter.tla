--------------------------- MODULE SessionLimiter ---------------------------
(***************************************************************************)
(* The limiter of concurrent sessions of the forwarding server             *)
(* (sessionLimiter in internal/smtpforwarding/server.go).  Both operations *)
(* run under its mutex.                                                    *)
(***************************************************************************)
EXTENDS Naturals

CONSTANTS Hosts, MaxConcurrentSessions, MaxSessionsPerRemoteHost

ASSUME LimitsAssumption ==
    MaxConcurrentSessions \in Nat \ {0} /\ MaxSessionsPerRemoteHost \in Nat \ {0}

VARIABLES activeSessions, activeSessionsByHost

limiterVars == <<activeSessions, activeSessionsByHost>>

InitLimiter == activeSessions = 0 /\ activeSessionsByHost = [h \in Hosts |-> 0]

acquire(h) ==
    /\ activeSessions < MaxConcurrentSessions
    /\ activeSessionsByHost[h] < MaxSessionsPerRemoteHost
    /\ activeSessions' = activeSessions + 1
    /\ activeSessionsByHost' = [activeSessionsByHost EXCEPT ![h] = @ + 1]

\* A faulty form of the release below: the early return comes first.
releaseLastOnly(h) ==
    IF activeSessionsByHost[h] <= 1
    THEN /\ activeSessionsByHost' = [activeSessionsByHost EXCEPT ![h] = 0]
         /\ UNCHANGED activeSessions
    ELSE /\ activeSessionsByHost' = [activeSessionsByHost EXCEPT ![h] = @ - 1]
         /\ activeSessions' = activeSessions - 1

\* The entry of a host is deleted with its last session.
release(h) ==
    /\ activeSessions' = IF activeSessions > 0 THEN activeSessions - 1 ELSE 0
    /\ activeSessionsByHost' =
            [activeSessionsByHost EXCEPT ![h] = IF @ <= 1 THEN 0 ELSE @ - 1]
=============================================================================
