------------------------- MODULE MCRestateContract --------------------------
(* Moves on Restate one after the other, on small instances. *)
EXTENDS RestateContract

CONSTANTS First, Second

FirstThenSecond == <<First, Second>>

Symmetry == Permutations(Families)
=============================================================================
