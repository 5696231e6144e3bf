----------------------------- MODULE MCDynArray -----------------------------
(***************************************************************************)
(* Instances of DynArray for TLC: four objects in an array that grows from *)
(* two slots to four; o2 and o3 compare equal.                             *)
(***************************************************************************)
EXTENDS DynArray

CONSTANTS o1, o2, o3, o4

MCObjects == {o1, o2, o3, o4}
MCKey == [o \in MCObjects |-> CASE o = o1 -> 1 [] o = o4 -> 3 [] OTHER -> 2]
MCImports == {<<o2>>, <<o4, o3>>, <<o1, o2, o3>>}

ASSUME MCInBounds == MaximumIsDoubled /\ NoIndexWraps
=============================================================================
