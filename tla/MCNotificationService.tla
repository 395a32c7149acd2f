------------------------ MODULE MCNotificationService ------------------------
(* Small instances of NotificationService for TLC. *)
EXTENDS NotificationService, TLC

CONSTANTS n1, n2, c1, c2, t1, t2

MCTwoTenants == n1 :> t1 @@ n2 :> t2
MCOneTenant == [id \in Ids |-> t1]
\* Exponential backoff of the scheduler.
MCBackoff == [n \in 0..MaxRetries |-> 2^n]
MCClientSymmetry == Permutations(Clients)
=============================================================================
