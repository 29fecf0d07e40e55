------------------------------- MODULE MCPipe -------------------------------
(***************************************************************************)
(* Pipe on small instances.  Two readers of one pipe compete for what a    *)
(* writer puts; two slots and four bytes make the ring fill, wrap and      *)
(* empty, and a Write of three bytes takes several turns.                  *)
(***************************************************************************)
EXTENDS Pipe
=============================================================================
