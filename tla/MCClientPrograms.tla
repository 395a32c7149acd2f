-------------------------- MODULE MCClientPrograms --------------------------
(* Small instances of ClientPrograms for TLC. *)
EXTENDS ClientPrograms

CONSTANTS n1, c1, c2, t1, t2

MCOneTenant == [id \in Ids |-> t1]
\* Exponential backoff of the scheduler.
MCBackoff == [n \in 0..MaxRetries |-> 2^n]

\* Commands are run against active tenants.
MCInit ==
    /\ InitPrograms
    /\ command # None => \A t \in Tenants : tenantStatus[t] = "active"

MCSpec == MCInit /\ [][ProgramsNext]_programVars /\ ProgramsFairness
=============================================================================
