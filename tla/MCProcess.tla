----------------------------- MODULE MCProcess -----------------------------
(* Model checking instances of Process. *)
EXTENDS Process, TLC

CONSTANTS pInit, p1, p2, p3, p4

MCProc == {pInit, p1, p2, p3, p4}
Symmetric == Permutations({p1, p2, p3, p4})
=============================================================================
