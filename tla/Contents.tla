------------------------------ MODULE Contents ------------------------------
(***************************************************************************)
(* What the disk promises: numbers in a table, a copy of the table that    *)
(* follows it when it is saved, the bytes of a file, and the bytes of all  *)
(* other clusters, which no call on the file changes.                      *)
(***************************************************************************)
EXTENDS Integers, Sequences

CONSTANTS
  Entry, Value, FAT_FREE,  \* indices and numbers of the table
  Byte, Buffers,           \* bytes, and the sequences of them that are written
  Edges                    \* where no range may begin that the promise is about

VARIABLES
  table, saved, content, others,
  breaks                   \* the positions that no such range may go across

vars == <<table, saved, content, others, breaks>>

Init ==
  /\ table = [e \in Entry |-> FAT_FREE] /\ saved = table
  /\ content \in Seq(Byte) /\ breaks \subseteq Nat

Set(e, v) ==
  /\ UNCHANGED content
  /\ table' = [table EXCEPT ![e] = v]
  /\ UNCHANGED <<others, breaks, saved>>

Save ==
  /\ UNCHANGED <<content, others, breaks, table>>
  /\ saved' = table

Promised(start, length) ==
  start \notin Edges /\ \A b \in breaks : ~(start < b /\ b < start + length)

Overwritten(start, buffer) ==
  SubSeq(content, 1, start) \o buffer \o SubSeq(content, start + Len(buffer) + 1, Len(content))

(* A write outside of the promise does something to the file, but only to  *)
(* the file.                                                               *)
Put(start, buffer) ==
  /\ start + Len(buffer) <= Len(content)
  /\ IF Promised(start, Len(buffer))
     THEN content' = Overwritten(start, buffer)
     ELSE content' \in [DOMAIN content -> Byte]
  /\ UNCHANGED <<others, breaks, table, saved>>

Next ==
  \/ \E e \in Entry, v \in Value : Set(e, v)
  \/ Save
  \/ \E start \in 0 .. (Len(content) - 1), buffer \in Buffers : Put(start, buffer)

Spec == Init /\ [][Next]_vars
=============================================================================
