------------------------------- MODULE MCFat -------------------------------
(* Instances of Fat_Files: two entries of two bytes fit a cluster of five, *)
(* so that the third file makes the root grow, and there are no more       *)
(* clusters than that takes, so that every allocation fails at times.      *)
EXTENDS Fat_Files

CONSTANTS f, g, h

MCOffsets == {6}
MCHowMany == {6}
Symmetry == Permutations(Name)
=============================================================================
