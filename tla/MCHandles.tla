----------------------------- MODULE MCHandles -----------------------------
(***************************************************************************)
(* Handles on small trees: a directory in the root with a file in it.      *)
(***************************************************************************)
EXTENDS Handles, TLC

CONSTANTS d, f

MCPath == {Root, d, f}
MCDirs == {Root, d}
MCParent == [x \in MCPath |-> IF x = f THEN d ELSE Root]
=============================================================================
