------------------------------ MODULE MCFat32 ------------------------------
(* Model checking instances of Fat32. *)
EXTENDS Fat32

CONSTANTS h1, h2, x, y

OneHandle == {h1}
TwoHandles == {h1, h2}
TwoValues == {x, y}

TwoFiles == {<<"a">>, <<"b">>}
Tree == {<<"a">>, <<"b">>, <<"a", "a">>}

OneFile == {<<"a">>}

Writers == {{"write", "create", "append"}, {"write", "trunc"}}
AnyFlags == {{"read"}, {"write", "create", "trunc"}, {"write", "append"}}

ValueSymmetry == Permutations(TwoValues)
HandleSymmetry == Permutations(TwoHandles)
=============================================================================
