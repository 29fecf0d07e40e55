---------------------------- MODULE FifoChannel ----------------------------
(***************************************************************************)
(* What a pipe of the kernel promises to the processes at its two ends,    *)
(* whatever buffer, locks and condition variables it is made of: a bounded *)
(* FIFO channel of bytes with an end-of-file mark that is final.           *)
(*                                                                         *)
(* Module Pipe, translated from sysfs_layer/pipe.cpp, implements it.       *)
(***************************************************************************)
EXTENDS Naturals, Sequences

CONSTANTS
  Byte,      \* the bytes that travel through the channel
  Capacity   \* how many bytes the channel stores at most

VARIABLES
  queue,     \* the bytes accepted from writers and not delivered yet
  received,  \* every byte delivered to a reader so far, in order
  finished   \* a reader has been told that the stream has ended

chan == <<queue, received, finished>>

Init ==
  /\ queue = << >>
  /\ received = << >>
  /\ finished = FALSE

(* Some bytes are accepted behind those already queued; never after a      *)
(* reader was told that the stream has ended.                              *)
Put ==
  /\ ~ finished
  /\ queue' \in Seq(Byte)
  /\ Len(queue') \in (Len(queue) + 1) .. Capacity
  /\ SubSeq(queue', 1, Len(queue)) = queue
  /\ UNCHANGED <<received, finished>>

(* A reader takes the first n queued bytes.  It may learn that the stream  *)
(* has ended only if it took everything there was.                         *)
Take(n) ==
  /\ n \in 0 .. Len(queue)
  /\ queue' = SubSeq(queue, n + 1, Len(queue))
  /\ received' = received \o SubSeq(queue, 1, n)
  /\ finished' \in BOOLEAN
  /\ finished => finished'
  /\ finished' /\ ~ finished => n = Len(queue)

Next == Put \/ \E n \in 0 .. Len(queue) : Take(n)

Spec == Init /\ [][Next]_chan
=============================================================================
