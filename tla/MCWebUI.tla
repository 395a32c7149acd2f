------------------------------ MODULE MCWebUI ------------------------------
(* A small instance of WebUI for TLC. *)
EXTENDS WebUI, TLC

CONSTANTS t1, t2, d1, d2, i1, i2

\* Two rows of the same instant; the second tenant has none.
MCTwoCreated == <<2, 2>>
MCOneTenantOf == [i \in Ids |-> t1]
MCTexts == [i \in Ids |-> IF i = 1 THEN {"x"} ELSE {}]

\* Both addresses are of the first domain.
MCDomainOf == [i \in Identities |-> d1]

\* The first address has an identity; the parts that are not followed start in
\* one way only.
MCInit ==
    /\ WebInit
    /\ stored.identities[i1] = 1
    /\ part # "event-log" => status = [i \in Ids |-> "none"]
    /\ part # "session" => session /\ doc.page = "landing"

MCSpec == MCInit /\ [][WebNext]_web /\ WebFairness
=============================================================================
