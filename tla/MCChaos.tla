------------------------------ MODULE MCChaos -------------------------------
(* The baseline saga under fault rules, the scenarios' among them. *)
EXTENDS Scenarios

Symmetry == Permutations(Families)
=============================================================================
