------------------------------- MODULE Callers -------------------------------
(***************************************************************************)
(* The threads that make system calls at the same time: the shell's, and   *)
(* those of the programs it starts and of their threads.                   *)
(***************************************************************************)
CONSTANTS
  Caller, \* threads; bound: no more than these run at once
  Shell

ASSUME ShellAssumption == Shell \in Caller

Program == Caller \ {Shell}
=============================================================================
