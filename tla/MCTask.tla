------------------------------- MODULE MCTask -------------------------------
(***************************************************************************)
(* Task_Manager on small instances.  Three slots are the kernel, the shell *)
(* and one program at a time, so that slots run out and are used again;    *)
(* three threads besides the bootstrap thread are the shell and a program  *)
(* with a thread of its own, or two programs one after the other.          *)
(***************************************************************************)
EXTENDS Task_Manager, TLC

(* For the runs without liveness: thread identifiers are interchangeable.  *)
Symmetry == Permutations(Tid \ {Boot})
=============================================================================
