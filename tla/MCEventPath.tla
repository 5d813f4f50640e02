---------------------------- MODULE MCEventPath ----------------------------
(* Model checking instances of EventPath. *)
EXTENDS EventPath, TLC

CONSTANTS a1, a2

MCApp == {a1, a2}
MCEvent == 1..LastEvent
Symmetric == Permutations(MCApp)
=============================================================================
