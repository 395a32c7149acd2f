--------------------------- MODULE MCSmtpIdentity ---------------------------
(* Small instances of SmtpIdentity for TLC. *)
EXTENDS SmtpIdentity, TLC

CONSTANTS u1, u2, adm, d1, a1, a2, m1, m2, c1, c2, l1, q1

MCDomainOf == [a \in Addresses |-> d1]
MCCallSymmetry == Permutations(Calls) \cup Permutations(Mailboxes)
=============================================================================
