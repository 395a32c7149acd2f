-------------------------- MODULE MCSmtpSubmission --------------------------
(* A small instance of SmtpSubmission for TLC: two connections. *)
EXTENDS SmtpSubmission

CONSTANTS s1, s2

MCSessions == {s1, s2}
=============================================================================
