--------------------------- MODULE MCSenderDomain ---------------------------
(* Small instances of SenderDomain for TLC. *)
EXTENDS SenderDomain, TLC

CONSTANTS u1, u2, adm, d1, r1, r2

MCRequestSymmetry == Permutations(Requests)
=============================================================================
