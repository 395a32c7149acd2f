----------------------------- MODULE PageSession -----------------------------
(***************************************************************************)
(* What a protected page may rely on of the session it is shown: it waits, *)
(* the session starts at most once, and once it is over so is the page;    *)
(* the next one begins anew.                                               *)
(***************************************************************************)

VARIABLE auth  \* "hydrating", "in", or "out": no protected page

SessionInit == auth \in {"hydrating", "out"}

DocumentOpens == auth = "out" /\ auth' = "hydrating"
SessionStarts == auth = "hydrating" /\ auth' = "in"
SessionEnds == auth \in {"hydrating", "in"} /\ auth' = "out"

SessionSpec ==
    SessionInit /\ [][DocumentOpens \/ SessionStarts \/ SessionEnds]_auth
=============================================================================
