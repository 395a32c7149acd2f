------------------------------ MODULE PageVisit ------------------------------
(* One visit of a protected page: its session, and the bounds of the model. *)
EXTENDS Naturals, PageSession

CONSTANTS
    MaxChanges, \* bound on what the reader does
    MaxFaults   \* bound on requests that fail

ASSUME VisitAssumption == MaxChanges \in Nat /\ MaxFaults \in Nat

VARIABLES changes, faults

VisitInit ==
    /\ auth = "hydrating"
    /\ changes = 0
    /\ faults = 0

Change == changes < MaxChanges /\ changes' = changes + 1
Fault == faults < MaxFaults /\ faults' = faults + 1
=============================================================================
