-------------------------- MODULE MCSmtpForwarding --------------------------
(* A small instance of SmtpForwarding for TLC. *)
EXTENDS SmtpForwarding, SequencesExt

CONSTANTS m1, m2, s1, s2

MCTo == [m \in Messages |-> IF m = m1 THEN {1, 2} ELSE {2}]
MCContents == BoundedSeq(Received, 3)
=============================================================================
