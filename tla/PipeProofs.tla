----------------------------- MODULE PipeProofs -----------------------------
(***************************************************************************)
(* Proofs about module Pipe for every number of threads, every buffer size *)
(* and every bound on the calls.                                           *)
(*                                                                         *)
(* FifoOrder, NoLostWakeup and EofIsFinal are not inductive on their own:  *)
(* FifoOrder needs to know that end is where begin and filled say it is    *)
(* (RingClosed), and EofIsFinal needs to know that a closed pipe has a     *)
(* destroyed end which no call in progress uses (ClosedMeansDestroyed), so *)
(* that a Read that finds the pipe closed was told so by the write end.    *)
(***************************************************************************)
EXTENDS Pipe, SequenceTheorems, TLAPS

RingClosed == end = Advance(begin, filled)

ClosedMeansDestroyed ==
  /\ partially_closed => \E e \in End : ends[e] = "closed"
  /\ \A e \in End : ends[e] = "closed" => ~ InUse(e)

IInv ==
  /\ TypeOK
  /\ RingClosed
  /\ ClosedMeansDestroyed
  /\ FifoOrder
  /\ NoLostWakeup
  /\ EofIsFinal

-----------------------------------------------------------------------------
(* The ring buffer.                                                        *)

(* A sequence whose first elements are those of a and whose others are     *)
(* those of b is their concatenation.                                      *)
LEMMA ConcatPointwise ==
  ASSUME NEW S, NEW a \in Seq(S), NEW b \in Seq(S), NEW c \in Seq(S),
         Len(c) = Len(a) + Len(b),
         \A j \in 1 .. Len(a) : c[j] = a[j],
         \A j \in 1 .. Len(b) : c[Len(a) + j] = b[j]
  PROVE  c = a \o b
<1>1. Len(a) \in Nat /\ Len(b) \in Nat
  BY LenProperties
<1>2. /\ a \o b \in Seq(S)
      /\ Len(a \o b) = Len(a) + Len(b)
      /\ \A i \in 1 .. Len(a) + Len(b) :
           (a \o b)[i] = IF i <= Len(a) THEN a[i] ELSE b[i - Len(a)]
  BY ConcatProperties
<1>3. ASSUME NEW i \in 1 .. Len(c) PROVE c[i] = (a \o b)[i]
  <2>1. CASE i <= Len(a)
    BY <1>1, <1>2, <2>1
  <2>2. CASE ~ (i <= Len(a))
    <3>1. i - Len(a) \in 1 .. Len(b) /\ Len(a) + (i - Len(a)) = i
      BY <1>1, <2>2
    <3>. QED
      BY <1>1, <1>2, <2>2, <3>1
  <2>. QED
    BY <2>1, <2>2
<1>. QED
  BY <1>2, <1>3, SeqEqual

(* Moving an iterator by at most the size of the array leaves it inside.   *)
LEMMA AdvanceInRange ==
  ASSUME NEW i \in Slots, NEW n \in 0 .. BufferSize
  PROVE  Advance(i, n) \in Slots
BY BufferSizeAssumption DEF Slots, Advance

(* What is fetched from the ring is a sequence of bytes.                   *)
LEMMA FetchedType ==
  ASSUME buffer \in [Slots -> Byte],
         NEW i \in Slots, NEW n \in 0 .. BufferSize
  PROVE  /\ Fetched(i, n) \in Seq(Byte)
         /\ Len(Fetched(i, n)) = n
         /\ \A j \in 1 .. n : Fetched(i, n)[j] = buffer[Advance(i, j - 1)]
<1>1. \A j \in 1 .. n : Advance(i, j - 1) \in Slots
  BY BufferSizeAssumption DEF Slots, Advance
<1>2. Fetched(i, n) \in [1 .. n -> Byte]
  BY <1>1 DEF Fetched
<1>. QED
  BY <1>2, BufferSizeAssumption DEF Fetched

(* Taking n bytes at begin splits the contents of the ring in two.         *)
LEMMA FetchSplits ==
  ASSUME buffer \in [Slots -> Byte],
         NEW i \in Slots, NEW m \in 0 .. BufferSize, NEW n \in 0 .. m
  PROVE  /\ Fetched(i, n) = SubSeq(Fetched(i, m), 1, n)
         /\ Fetched(Advance(i, n), m - n) = SubSeq(Fetched(i, m), n + 1, m)
         /\ Fetched(i, m) = Fetched(i, n) \o Fetched(Advance(i, n), m - n)
<1> DEFINE all == Fetched(i, m)
           front == Fetched(i, n)
           back == Fetched(Advance(i, n), m - n)
<1>1. n \in 0 .. BufferSize /\ m - n \in 0 .. BufferSize /\ n \in Nat /\ m \in Nat
  BY BufferSizeAssumption
<1>2. Advance(i, n) \in Slots
  BY <1>1, AdvanceInRange
<1>3. /\ all \in Seq(Byte) /\ Len(all) = m
      /\ \A j \in 1 .. m : all[j] = buffer[Advance(i, j - 1)]
  BY FetchedType
<1>4. /\ front \in Seq(Byte) /\ Len(front) = n
      /\ \A j \in 1 .. n : front[j] = buffer[Advance(i, j - 1)]
  BY <1>1, FetchedType
<1>5. /\ back \in Seq(Byte) /\ Len(back) = m - n
      /\ \A j \in 1 .. m - n : back[j] = buffer[Advance(Advance(i, n), j - 1)]
  BY <1>1, <1>2, FetchedType
<1>6. \A j \in 1 .. m - n : Advance(Advance(i, n), j - 1) = Advance(i, n + j - 1)
  BY BufferSizeAssumption DEF Slots, Advance
<1>7. \A j \in 1 .. m - n : back[j] = all[n + j]
  <2> SUFFICES ASSUME NEW j \in 1 .. m - n
               PROVE  back[j] = all[n + j]
    OBVIOUS
  <2>1. n + j \in 1 .. m
    BY <1>1
  <2>2. all[n + j] = buffer[Advance(i, n + j - 1)]
    BY <1>3, <2>1
  <2>3. back[j] = buffer[Advance(i, n + j - 1)]
    BY <1>5, <1>6
  <2> HIDE DEF all, back
  <2>. QED
    BY <2>2, <2>3
<1>8. \A j \in 1 .. n : front[j] = all[j]
  BY <1>1, <1>3, <1>4
<1> HIDE DEF all, front, back
<1>9. front = SubSeq(all, 1, n)
  BY <1>1, <1>3, <1>4, <1>8
<1>10. back = SubSeq(all, n + 1, m)
  BY <1>1, <1>3, <1>5, <1>7
<1>11. all = front \o back
  <2>1. /\ Len(all) = Len(front) + Len(back)
        /\ \A j \in 1 .. Len(front) : all[j] = front[j]
        /\ \A j \in 1 .. Len(back) : all[Len(front) + j] = back[j]
    BY <1>1, <1>3, <1>4, <1>5, <1>7, <1>8
  <2>. QED
    BY <1>3, <1>4, <1>5, <2>1, ConcatPointwise
<1>. QED
  BY <1>9, <1>10, <1>11 DEF all, front, back

(* Storing a chunk that fits at end appends it to the contents.            *)
LEMMA StoreAppends ==
  ASSUME NEW i \in Slots, NEW m \in 0 .. BufferSize,
         NEW s \in Seq(Byte), m + Len(s) <= BufferSize,
         buffer \in [Slots -> Byte], buffer' = Stored(Advance(i, m), s)
  PROVE  /\ buffer' \in [Slots -> Byte]
         /\ [j \in 1 .. m + Len(s) |-> buffer'[Advance(i, j - 1)]]
              = Fetched(i, m) \o s
<1> DEFINE e == Advance(i, m)
           new == [j \in 1 .. m + Len(s) |-> buffer'[Advance(i, j - 1)]]
<1>1. e \in Slots /\ m \in Nat /\ Len(s) \in Nat
  BY AdvanceInRange, BufferSizeAssumption
<1>2. \A k \in Slots : Distance(e, k) \in Nat
  BY <1>1, BufferSizeAssumption DEF Slots, Distance
<1>3. buffer' \in [Slots -> Byte]
  BY <1>1, <1>2 DEF Stored
<1>4. \A j \in 1 .. m : /\ Advance(i, j - 1) \in Slots
                        /\ Distance(e, Advance(i, j - 1)) >= Len(s)
  BY BufferSizeAssumption DEF Slots, Distance, Advance
<1>5. \A j \in 1 .. Len(s) : /\ Advance(i, m + j - 1) \in Slots
                             /\ Distance(e, Advance(i, m + j - 1)) = j - 1
  BY BufferSizeAssumption DEF Slots, Distance, Advance
<1>6. \A j \in 1 .. m : buffer'[Advance(i, j - 1)] = buffer[Advance(i, j - 1)]
  BY <1>1, <1>2, <1>4 DEF Stored
<1>7. \A j \in 1 .. Len(s) : buffer'[Advance(i, m + j - 1)] = s[j]
  BY <1>1, <1>2, <1>5 DEF Stored
<1>8. /\ Fetched(i, m) \in Seq(Byte) /\ Len(Fetched(i, m)) = m
      /\ \A j \in 1 .. m : Fetched(i, m)[j] = buffer[Advance(i, j - 1)]
  BY FetchedType
<1>9. /\ new \in Seq(Byte)
      /\ Len(new) = m + Len(s)
      /\ \A j \in 1 .. m + Len(s) : new[j] = buffer'[Advance(i, j - 1)]
  <2>1. \A j \in 1 .. m + Len(s) : Advance(i, j - 1) \in Slots
    BY <1>1, BufferSizeAssumption DEF Slots, Advance
  <2>2. new \in [1 .. m + Len(s) -> Byte]
    BY <1>3, <2>1
  <2>. QED
    BY <1>1, <2>2
<1>10. new = Fetched(i, m) \o s
  <2> HIDE DEF new
  <2>1. \A j \in 1 .. m : new[j] = Fetched(i, m)[j]
    BY <1>1, <1>6, <1>8, <1>9
  <2>2. \A j \in 1 .. Len(s) : new[m + j] = s[j]
    <3> SUFFICES ASSUME NEW j \in 1 .. Len(s) PROVE new[m + j] = s[j]
      OBVIOUS
    <3>1. m + j \in 1 .. m + Len(s)
      BY <1>1
    <3>. QED
      BY <1>7, <1>9, <3>1
  <2> DEFINE old == Fetched(i, m)
  <2>3. /\ old \in Seq(Byte) /\ new \in Seq(Byte)
        /\ Len(new) = Len(old) + Len(s)
        /\ \A j \in 1 .. Len(old) : new[j] = old[j]
        /\ \A j \in 1 .. Len(s) : new[Len(old) + j] = s[j]
    BY <1>8, <1>9, <2>1, <2>2
  <2> HIDE DEF old
  <2>4. new = old \o s
    BY <2>3, ConcatPointwise
  <2>. QED
    BY <2>4 DEF old
<1>. QED
  BY <1>3, <1>10

(* The same for the two changes of the ring, with its variables primed.    *)
LEMMA WriteRing ==
  ASSUME TypeOK, RingClosed,
         NEW s \in Seq(Byte), filled + Len(s) <= BufferSize,
         buffer' = Stored(end, s), end' = Advance(end, Len(s)),
         filled' = filled + Len(s), begin' = begin
  PROVE  /\ buffer' \in [Slots -> Byte]
         /\ end' \in Slots
         /\ filled' \in 0 .. BufferSize
         /\ RingClosed'
         /\ Fetched(begin, filled)' = Fetched(begin, filled) \o s
<1>1. /\ begin \in Slots /\ filled \in 0 .. BufferSize /\ Len(s) \in Nat
      /\ buffer \in [Slots -> Byte] /\ end = Advance(begin, filled)
  BY LenProperties DEF TypeOK, RingClosed
<1>2. Advance(Advance(begin, filled), Len(s)) = Advance(begin, filled + Len(s))
  BY <1>1, BufferSizeAssumption DEF Slots, Advance
<1>3. filled' \in 0 .. BufferSize
  BY <1>1, BufferSizeAssumption
<1>4. RingClosed'
  BY <1>1, <1>2 DEF RingClosed, Advance
<1>5. end' \in Slots
  BY <1>1, <1>2, <1>3, AdvanceInRange
<1>6. /\ buffer' \in [Slots -> Byte]
      /\ [j \in 1 .. filled + Len(s) |-> buffer'[Advance(begin, j - 1)]]
           = Fetched(begin, filled) \o s
  BY <1>1, StoreAppends
<1>7. Fetched(begin, filled)'
        = [j \in 1 .. filled + Len(s) |-> buffer'[Advance(begin, j - 1)]]
  BY DEF Fetched, Advance
<1>. QED
  BY <1>3, <1>4, <1>5, <1>6, <1>7

(* Taking n bytes from the ring moves them from its front to the reader.   *)
LEMMA ReadRing ==
  ASSUME TypeOK, RingClosed,
         NEW n \in 0 .. filled,
         begin' = Advance(begin, n), filled' = filled - n,
         UNCHANGED <<buffer, end>>
  PROVE  /\ begin' \in Slots
         /\ filled' \in 0 .. BufferSize
         /\ RingClosed'
         /\ Fetched(begin, n) \in Seq(Byte)
         /\ Fetched(begin, n) = SubSeq(Fetched(begin, filled), 1, n)
         /\ Fetched(begin, filled)' = SubSeq(Fetched(begin, filled), n + 1, filled)
         /\ Fetched(begin, filled) = Fetched(begin, n) \o Fetched(begin, filled)'
<1>1. /\ begin \in Slots /\ filled \in 0 .. BufferSize /\ n \in 0 .. BufferSize
      /\ buffer \in [Slots -> Byte] /\ end = Advance(begin, filled)
  BY BufferSizeAssumption DEF TypeOK, RingClosed
<1>2. Advance(Advance(begin, n), filled - n) = Advance(begin, filled)
  BY <1>1, BufferSizeAssumption DEF Slots, Advance
<1>3. RingClosed'
  BY <1>1, <1>2 DEF RingClosed, Advance
<1>4. begin' \in Slots /\ filled' \in 0 .. BufferSize
  BY <1>1, AdvanceInRange, BufferSizeAssumption
<1>5. Fetched(begin, filled)' = Fetched(Advance(begin, n), filled - n)
  BY DEF Fetched, Advance
<1>6. Fetched(begin, n) \in Seq(Byte)
  BY <1>1, FetchedType
<1>7. /\ Fetched(begin, n) = SubSeq(Fetched(begin, filled), 1, n)
      /\ Fetched(Advance(begin, n), filled - n)
           = SubSeq(Fetched(begin, filled), n + 1, filled)
      /\ Fetched(begin, filled)
           = Fetched(begin, n) \o Fetched(Advance(begin, n), filled - n)
  BY <1>1, FetchSplits
<1>. QED
  BY <1>3, <1>4, <1>5, <1>6, <1>7

-----------------------------------------------------------------------------
(* IInv holds initially.                                                   *)
LEMMA InitIInv == Init => IInv
<1> SUFFICES ASSUME Init PROVE IInv
  OBVIOUS
<1> USE DEF Init
<1>1. TypeOK
  <2>1. (CHOOSE b \in Byte : TRUE) \in Byte
    BY ByteAssumption
  <2>2. 0 \in Slots
    BY BufferSizeAssumption DEF Slots
  <2>3. << >> \in Seq(Byte)
    BY EmptySeq
  <2>4. buffer \in [Slots -> Byte]
    BY <2>1
  <2>5. source \in [Writers -> Seq(Byte)] /\ sent \in Seq(Byte) /\ received \in Seq(Byte)
    BY <2>3
  <2>6. /\ pc \in [Threads -> {"idle", "check", "lock", "wait"}]
        /\ ends \in [End -> {"open", "dropped", "closed"}]
        /\ limit \in [Readers -> Nat]
    OBVIOUS
  <2>7. partially_closed \in BOOLEAN /\ eof \in BOOLEAN
    OBVIOUS
  <2>8. begin \in Slots /\ end \in Slots /\ filled \in 0 .. BufferSize
    BY <2>2, BufferSizeAssumption
  <2> HIDE DEF Init
  <2>. QED
    BY <2>4, <2>5, <2>6, <2>7, <2>8 DEF TypeOK
<1>2. RingClosed
  BY BufferSizeAssumption DEF RingClosed, Advance
<1>3. ClosedMeansDestroyed
  BY DEF ClosedMeansDestroyed
<1>4. FifoOrder
  <2>1. Fetched(begin, filled) = << >>
    BY DEF Fetched
  <2>. QED
    BY <2>1 DEF FifoOrder
<1>5. NoLostWakeup
  BY DEF NoLostWakeup, Threads
<1>6. EofIsFinal
  BY DEF EofIsFinal
<1>. QED
  BY <1>1, <1>2, <1>3, <1>4, <1>5, <1>6 DEF IInv

-----------------------------------------------------------------------------
(* IInv is preserved by every action.                                      *)

(* A step that leaves the ring and the histories alone preserves what is   *)
(* said about them.                                                        *)
LEMMA SameRing ==
  ASSUME IInv, UNCHANGED <<ring, history>>
  PROVE  RingClosed' /\ FifoOrder'
BY DEF IInv, RingClosed, FifoOrder, Fetched, Advance, ring, history

(* A notification changes no thread but those that wait.                   *)
LEMMA NotifiedProperties ==
  ASSUME TypeOK, NEW T \in SUBSET Threads
  PROVE  /\ Notified(T) \in [Threads -> {"idle", "check", "lock", "wait"}]
         /\ \A t \in Threads : Notified(T)[t] = "idle" <=> pc[t] = "idle"
         /\ \A t \in T : Notified(T)[t] # "wait"
         /\ \A t \in Threads : Notified(T)[t] = "wait" => pc[t] = "wait"
BY DEF TypeOK, Notified

(* A call of Write_File begins: the write end is in use from here on, so   *)
(* that it cannot be closed before the call returns.                       *)
LEMMA WriteCallIInv ==
  ASSUME IInv, NEW w \in Writers, WriteCall(w)
  PROVE  IInv'
<1> USE DEF IInv, WriteCall, ring, history
<1>1. w \in Threads
  BY DEF Threads
<1>2. TypeOK'
  <2>1. PICK n \in 0 .. MaxLimit :
          \E s \in [1 .. n -> Byte] : source' = [source EXCEPT ![w] = s]
    OBVIOUS
  <2>2. PICK s \in [1 .. n -> Byte] : source' = [source EXCEPT ![w] = s]
    BY <2>1
  <2>3. s \in Seq(Byte)
    BY BoundsAssumption
  <2>. QED
    BY <1>1, <2>2, <2>3 DEF TypeOK
<1>3. RingClosed' /\ FifoOrder'
  BY SameRing
<1>4. ClosedMeansDestroyed'
  BY <1>1, ThreadsAssumption DEF ClosedMeansDestroyed, End, InUse, UsersOf, TypeOK, Threads
<1>5. NoLostWakeup'
  BY <1>1 DEF NoLostWakeup, TypeOK, Threads
<1>6. EofIsFinal'
  BY DEF EofIsFinal
<1>. QED
  BY <1>2, <1>3, <1>4, <1>5, <1>6

(* The unlocked test of partially_closed lets a writer in or sends it      *)
(* home; the ring is untouched.                                            *)
LEMMA WriteCheckIInv ==
  ASSUME IInv, NEW w \in Writers, WriteCheck(w)
  PROVE  IInv'
<1> USE DEF IInv, WriteCheck, ring, history
<1>1. w \in Threads
  BY DEF Threads
<1>2. TypeOK'
  BY <1>1, EmptySeq DEF TypeOK
<1>3. RingClosed' /\ FifoOrder'
  BY SameRing
<1>4. ClosedMeansDestroyed'
  BY <1>1 DEF ClosedMeansDestroyed, End, InUse, UsersOf, TypeOK, Threads
<1>5. NoLostWakeup'
  BY <1>1 DEF NoLostWakeup, TypeOK, Threads
<1>6. EofIsFinal'
  BY <1>1 DEF EofIsFinal, InUse, UsersOf, TypeOK, Threads
<1>. QED
  BY <1>2, <1>3, <1>4, <1>5, <1>6

(* A writer goes to sleep only on a full ring, where a sleeping writer is  *)
(* no lost wake-up.                                                        *)
LEMMA WriteWaitIInv ==
  ASSUME IInv, NEW w \in Writers, WriteWait(w)
  PROVE  IInv'
<1> USE DEF IInv, WriteWait, ring, history
<1>1. w \in Threads
  BY DEF Threads
<1>2. TypeOK'
  BY <1>1 DEF TypeOK
<1>3. RingClosed' /\ FifoOrder'
  BY SameRing
<1>4. ClosedMeansDestroyed'
  BY <1>1 DEF ClosedMeansDestroyed, End, InUse, UsersOf, TypeOK, Threads
<1>5. NoLostWakeup'
  BY <1>1, ThreadsAssumption DEF NoLostWakeup, TypeOK, Threads
<1>6. EofIsFinal'
  BY <1>1 DEF EofIsFinal, InUse, UsersOf, TypeOK, Threads
<1>. QED
  BY <1>2, <1>3, <1>4, <1>5, <1>6

(* A call of Read_File begins, on a read end that is open.                 *)
LEMMA ReadCallIInv ==
  ASSUME IInv, NEW r \in Readers, ReadCall(r)
  PROVE  IInv'
<1> USE DEF IInv, ReadCall, ring, history
<1>1. r \in Threads
  BY DEF Threads
<1>2. TypeOK'
  BY <1>1, BoundsAssumption DEF TypeOK
<1>3. RingClosed' /\ FifoOrder'
  BY SameRing
<1>4. ClosedMeansDestroyed'
  BY <1>1, ThreadsAssumption DEF ClosedMeansDestroyed, End, InUse, UsersOf, TypeOK, Threads
<1>5. NoLostWakeup'
  BY <1>1 DEF NoLostWakeup, TypeOK, Threads
<1>6. EofIsFinal'
  BY <1>1, ThreadsAssumption DEF EofIsFinal, InUse, UsersOf, TypeOK, Threads
<1>. QED
  BY <1>2, <1>3, <1>4, <1>5, <1>6

(* A reader goes to sleep only on an empty ring of an open pipe.           *)
LEMMA ReadWaitIInv ==
  ASSUME IInv, NEW r \in Readers, ReadWait(r)
  PROVE  IInv'
<1> USE DEF IInv, ReadWait, ring, history
<1>1. r \in Threads
  BY DEF Threads
<1>2. TypeOK'
  BY <1>1 DEF TypeOK
<1>3. RingClosed' /\ FifoOrder'
  BY SameRing
<1>4. ClosedMeansDestroyed'
  BY <1>1 DEF ClosedMeansDestroyed, End, InUse, UsersOf, TypeOK, Threads
<1>5. NoLostWakeup'
  BY <1>1, ThreadsAssumption DEF NoLostWakeup, TypeOK, Threads
<1>6. EofIsFinal'
  BY <1>1, ThreadsAssumption DEF EofIsFinal, InUse, UsersOf, TypeOK, Threads
<1>. QED
  BY <1>2, <1>3, <1>4, <1>5, <1>6

(* The descriptor table drops its reference; nobody who sleeps is          *)
(* concerned.                                                              *)
LEMMA CloseHandleIInv ==
  ASSUME IInv, NEW e \in End, CloseHandle(e)
  PROVE  IInv'
<1> USE DEF IInv, CloseHandle, ring, history
<1>2. TypeOK'
  BY DEF TypeOK
<1>3. RingClosed' /\ FifoOrder'
  BY SameRing
<1>4. ClosedMeansDestroyed'
  BY DEF ClosedMeansDestroyed, InUse, TypeOK
<1>5. NoLostWakeup'
  BY DEF NoLostWakeup
<1>6. EofIsFinal'
  BY DEF EofIsFinal, InUse, TypeOK, End
<1>. QED
  BY <1>2, <1>3, <1>4, <1>5, <1>6

(* The last reference to an end goes: the pipe is marked closed and every  *)
(* reader is awake, so that no reader sleeps on a closed pipe.             *)
LEMMA CloseEndIInv ==
  ASSUME IInv, NEW e \in End, CloseEnd(e)
  PROVE  IInv'
<1> USE DEF IInv, CloseEnd, ring, history
<1>1. /\ pc' \in [Threads -> {"idle", "check", "lock", "wait"}]
      /\ \A t \in Threads : pc'[t] = "idle" <=> pc[t] = "idle"
      /\ \A t \in Readers : pc'[t] # "wait"
      /\ \A t \in Threads : pc'[t] = "wait" => pc[t] = "wait"
  BY NotifiedProperties DEF Threads
<1>2. TypeOK'
  BY <1>1 DEF TypeOK
<1>3. RingClosed' /\ FifoOrder'
  BY SameRing
<1>4. \A x \in End : InUse(x)' <=> InUse(x)
  BY <1>1 DEF InUse, UsersOf, Threads
<1>5. ClosedMeansDestroyed'
  BY <1>4 DEF ClosedMeansDestroyed, TypeOK
<1>6. NoLostWakeup'
  BY <1>1 DEF NoLostWakeup, Threads
<1>7. EofIsFinal'
  BY <1>4 DEF EofIsFinal, TypeOK, End
<1>. QED
  BY <1>2, <1>3, <1>5, <1>6, <1>7

(* A thread that wakes for no reason tests the ring again.                 *)
LEMMA WakeSpuriouslyIInv ==
  ASSUME IInv, NEW t \in Threads, WakeSpuriously(t)
  PROVE  IInv'
<1> USE DEF IInv, WakeSpuriously, ring, history
<1>2. TypeOK'
  BY DEF TypeOK
<1>3. RingClosed' /\ FifoOrder'
  BY SameRing
<1>4. ClosedMeansDestroyed'
  BY DEF ClosedMeansDestroyed, End, InUse, UsersOf, TypeOK, Threads
<1>5. NoLostWakeup'
  BY DEF NoLostWakeup, TypeOK, Threads
<1>6. EofIsFinal'
  BY DEF EofIsFinal, InUse, UsersOf, TypeOK, Threads
<1>. QED
  BY <1>2, <1>3, <1>4, <1>5, <1>6

(* A writer's turn: the bytes that fit are appended to the ring and to     *)
(* what was sent, the readers are awake, and a writer that goes on has     *)
(* filled the ring.                                                        *)
LEMMA WriteChunkIInv ==
  ASSUME IInv, NEW w \in Writers, WriteChunk(w)
  PROVE  IInv'
<1> DEFINE n == AtMost(Len(source[w]), BufferSize - filled)
           chunk == SubSeq(source[w], 1, n)
           rest == SubSeq(source[w], n + 1, Len(source[w]))
<1>1. w \in Threads /\ TypeOK /\ InUse("write")
  BY DEF Threads, IInv, WriteChunk, InUse, UsersOf
<1>2. /\ n \in Nat /\ n <= Len(source[w]) /\ filled + n <= BufferSize
      /\ Len(source[w]) \in Nat /\ source[w] \in Seq(Byte)
  <2>1. source[w] \in Seq(Byte) /\ filled \in 0 .. BufferSize
    BY <1>1 DEF TypeOK
  <2>2. Len(source[w]) \in Nat
    BY <2>1, LenProperties
  <2>. QED
    BY <2>1, <2>2, BufferSizeAssumption DEF AtMost
<1> HIDE DEF n
<1>3. chunk \in Seq(Byte) /\ Len(chunk) = n /\ rest \in Seq(Byte)
  <2>1. \A i \in 1 .. Len(source[w]) : source[w][i] \in Byte
    BY <1>2, ElementOfSeq
  <2>. QED
    BY <1>2, <2>1, SubSeqProperties
<1>4. /\ buffer' = Stored(end, chunk) /\ end' = Advance(end, n)
      /\ filled' = filled + n /\ begin' = begin
      /\ sent' = sent \o chunk /\ received' = received /\ eof' = eof
      /\ source' = [source EXCEPT ![w] = rest]
      /\ pc' = [Notified(Readers) EXCEPT ![w] = IF rest = << >> THEN "idle" ELSE "lock"]
      /\ UNCHANGED <<partially_closed, limit, ends>>
  BY DEF WriteChunk, n
<1> HIDE DEF chunk, rest
<1>5. /\ buffer' \in [Slots -> Byte] /\ end' \in Slots
      /\ filled' \in 0 .. BufferSize
      /\ RingClosed'
      /\ Fetched(begin, filled)' = Fetched(begin, filled) \o chunk
  BY <1>1, <1>2, <1>3, <1>4, WriteRing DEF IInv
<1>6. /\ pc' \in [Threads -> {"idle", "check", "lock", "wait"}]
      /\ \A t \in Threads \ {w} : pc'[t] = "idle" <=> pc[t] = "idle"
      /\ \A t \in Readers : pc'[t] # "wait"
      /\ \A t \in Threads : pc'[t] = "wait" => pc[t] = "wait"
      /\ pc'[w] # "wait"
  <2>1. Readers \in SUBSET Threads
    BY DEF Threads
  <2>. QED
    BY <1>1, <1>4, <2>1, NotifiedProperties
<1>7. TypeOK'
  <2>1. sent' \in Seq(Byte) /\ source' \in [Writers -> Seq(Byte)]
    BY <1>1, <1>3, <1>4, ConcatProperties DEF TypeOK
  <2>. QED
    BY <1>1, <1>4, <1>5, <1>6, <2>1 DEF TypeOK
<1>8. ClosedMeansDestroyed'
  <2>1. \A e \in End : InUse(e)' => InUse(e)
    BY <1>1, <1>6, ThreadsAssumption DEF InUse, UsersOf, Threads, End
  <2>. QED
    BY <1>4, <2>1 DEF IInv, ClosedMeansDestroyed
<1>9. FifoOrder'
  <2>1. Fetched(begin, filled) \in Seq(Byte) /\ received \in Seq(Byte)
    BY <1>1, FetchedType DEF TypeOK
  <2>2. (received \o Fetched(begin, filled)) \o chunk
          = received \o (Fetched(begin, filled) \o chunk)
    BY <1>3, <2>1, ConcatAssociative
  <2>3. sent = received \o Fetched(begin, filled)
    BY DEF IInv, FifoOrder
  <2>4. FifoOrder' <=> sent' = received' \o Fetched(begin, filled)'
    BY DEF FifoOrder
  <2>. QED
    BY <1>4, <1>5, <2>2, <2>3, <2>4
<1>10. NoLostWakeup'
  <2>1. \A v \in Writers : pc'[v] # "wait"
    <3>1. filled < BufferSize
      BY DEF WriteChunk
    <3>2. \A v \in Writers : pc[v] # "wait"
      BY <1>1, <3>1, BufferSizeAssumption DEF IInv, NoLostWakeup, TypeOK
    <3>. QED
      BY <1>6, <3>2 DEF Threads
  <2>. QED
    BY <1>6, <2>1 DEF NoLostWakeup
<1>11. EofIsFinal'
  BY <1>1, <1>4 DEF IInv, EofIsFinal
<1>. QED
  BY <1>5, <1>7, <1>8, <1>9, <1>10, <1>11 DEF IInv

(* A reader's turn: the bytes go from the ring to what was received, the   *)
(* writers are awake, and the EOF mark is given only when no byte is left  *)
(* and no writer is inside its call.                                       *)
LEMMA ReadChunkIInv ==
  ASSUME IInv, NEW r \in Readers, ReadChunk(r)
  PROVE  IInv'
<1> DEFINE n == AtMost(limit[r], filled)
<1>1. r \in Threads /\ TypeOK /\ InUse("read")
  BY DEF Threads, IInv, ReadChunk, InUse, UsersOf
<1>2. /\ n \in 0 .. filled /\ limit[r] \in Nat
      /\ n < limit[r] \/ n = limit[r]
      /\ limit[r] > 0 /\ filled > 0 => n > 0
  BY <1>1, BufferSizeAssumption DEF TypeOK, AtMost
<1>3. /\ received' = received \o Fetched(begin, n)
      /\ begin' = Advance(begin, n) /\ filled' = filled - n
      /\ eof' = (eof \/ (partially_closed /\ filled' = 0 /\ n < limit[r]))
      /\ pc' = [Notified(Writers) EXCEPT ![r] = "idle"]
      /\ limit' = [limit EXCEPT ![r] = 0]
      /\ UNCHANGED <<buffer, end, partially_closed, source, ends, sent>>
  BY DEF ReadChunk
<1> HIDE DEF n
<1>4. /\ begin' \in Slots /\ filled' \in 0 .. BufferSize
      /\ RingClosed'
      /\ Fetched(begin, n) \in Seq(Byte)
      /\ Fetched(begin, filled) = Fetched(begin, n) \o Fetched(begin, filled)'
  BY <1>1, <1>2, <1>3, ReadRing DEF IInv
<1>5. /\ pc' \in [Threads -> {"idle", "check", "lock", "wait"}]
      /\ \A t \in Threads \ {r} : pc'[t] = "idle" <=> pc[t] = "idle"
      /\ \A t \in Writers : pc'[t] # "wait"
      /\ \A t \in Threads : pc'[t] = "wait" => pc[t] = "wait"
      /\ pc'[r] # "wait"
  <2>1. Writers \in SUBSET Threads /\ r \notin Writers
    BY ThreadsAssumption DEF Threads
  <2>. QED
    BY <1>1, <1>3, <2>1, NotifiedProperties
<1>6. TypeOK'
  <2>1. received' \in Seq(Byte)
    BY <1>1, <1>3, <1>4, ConcatProperties DEF TypeOK
  <2>2. eof' \in BOOLEAN
    BY <1>1, <1>3 DEF TypeOK
  <2>. QED
    BY <1>1, <1>3, <1>4, <1>5, <2>1, <2>2 DEF TypeOK
<1>7. \A e \in End : InUse(e)' => InUse(e)
  BY <1>1, <1>5, ThreadsAssumption DEF InUse, UsersOf, Threads, End
<1>8. ClosedMeansDestroyed'
  BY <1>3, <1>7 DEF IInv, ClosedMeansDestroyed
<1>9. FifoOrder'
  <2>1. Fetched(begin, filled)' \in Seq(Byte) /\ received \in Seq(Byte)
    <3>1. Fetched(begin, filled)' = [j \in 1 .. filled' |-> buffer'[Advance(begin', j - 1)]]
      BY DEF Fetched, Advance
    <3>2. /\ Fetched(begin', filled') \in Seq(Byte)
      BY <1>1, <1>3, <1>4, FetchedType DEF TypeOK
    <3>. QED
      BY <1>1, <1>3, <3>1, <3>2 DEF TypeOK, Fetched
  <2>2. (received \o Fetched(begin, n)) \o Fetched(begin, filled)'
          = received \o (Fetched(begin, n) \o Fetched(begin, filled)')
    BY <1>4, <2>1, ConcatAssociative
  <2>3. sent = received \o Fetched(begin, filled)
    BY DEF IInv, FifoOrder
  <2>4. FifoOrder' <=> sent' = received' \o Fetched(begin, filled)'
    BY DEF FifoOrder
  <2>. QED
    BY <1>3, <1>4, <2>2, <2>3, <2>4
<1>10. NoLostWakeup'
  <2>1. \A x \in Readers : pc'[x] # "wait"
    <3>1. filled > 0 \/ partially_closed
      BY DEF ReadChunk
    <3>2. \A x \in Readers : pc[x] # "wait"
      BY <1>1, <3>1 DEF IInv, NoLostWakeup, TypeOK
    <3>. QED
      BY <1>5, <3>2 DEF Threads
  <2>. QED
    BY <1>5, <2>1 DEF NoLostWakeup
<1>11. EofIsFinal'
  <2> SUFFICES ASSUME eof'
               PROVE  /\ received' = sent'
                      /\ ends'["write"] = "closed"
                      /\ ~ InUse("write")'
    BY DEF EofIsFinal
  <2>1. filled' = 0 /\ ends["write"] = "closed" /\ ~ InUse("write")
    <3>1. CASE eof
      <4>1. received = sent /\ ends["write"] = "closed" /\ ~ InUse("write")
        BY <3>1 DEF IInv, EofIsFinal
      <4>2. Fetched(begin, filled) = << >>
        <5>1. Fetched(begin, filled) \in Seq(Byte) /\ received \in Seq(Byte)
          BY <1>1, FetchedType DEF TypeOK
        <5>. QED
          BY <4>1, <5>1, ConcatEqualIffEmpty DEF IInv, FifoOrder
      <4>3. filled = 0
        BY <1>1, <4>2, FetchedType, EmptySeq DEF TypeOK
      <4>4. filled' = 0
        <5>1. n = 0
          BY <1>2, <4>3
        <5>2. filled' = filled - n
          BY <1>3
        <5>. QED
          BY <4>3, <5>1, <5>2
      <4>. QED
        BY <4>1, <4>4
    <3>2. CASE ~ eof
      <4>1. partially_closed /\ filled' = 0
        BY <1>3, <3>2
      <4>2. ends["read"] # "closed"
        BY <1>1 DEF IInv, ClosedMeansDestroyed, End
      <4>3. ends["write"] = "closed" /\ ~ InUse("write")
        BY <4>1, <4>2 DEF IInv, ClosedMeansDestroyed, End
      <4>. QED
        BY <4>1, <4>3
    <3>. QED
      BY <3>1, <3>2
  <2>2. Fetched(begin, filled)' = << >>
    BY <2>1 DEF Fetched
  <2>3. received' = sent'
    BY <1>6, <1>9, <2>2, ConcatEmptySeq DEF FifoOrder, TypeOK
  <2>. QED
    BY <1>3, <1>7, <2>1, <2>3 DEF End
<1>. QED
  BY <1>4, <1>6, <1>8, <1>9, <1>10, <1>11 DEF IInv

-----------------------------------------------------------------------------
(* Every step preserves the invariant.                                     *)
LEMMA NextIInv == IInv /\ [Next]_vars => IInv'
<1> SUFFICES ASSUME IInv, [Next]_vars PROVE IInv'
  OBVIOUS
<1>1. CASE UNCHANGED vars
  BY <1>1 DEF IInv, TypeOK, RingClosed, ClosedMeansDestroyed, FifoOrder, NoLostWakeup,
     EofIsFinal, InUse, UsersOf, Fetched, Advance, vars
<1>2. CASE Next
  BY <1>2, WriteCallIInv, WriteCheckIInv, WriteChunkIInv, WriteWaitIInv,
     ReadCallIInv, ReadChunkIInv, ReadWaitIInv, CloseHandleIInv, CloseEndIInv,
     WakeSpuriouslyIInv DEF Next, WriterStep, ReaderStep
<1>. QED
  BY <1>1, <1>2

(* The invariant holds in every reachable state.                           *)
LEMMA Invariance == Spec => []IInv
<1>1. Init => IInv
  BY InitIInv
<1>2. IInv /\ [Next]_vars => IInv'
  BY NextIInv
<1>. QED
  BY <1>1, <1>2, PTL DEF Spec

(* The types of the fields of Pipe::Base: no iterator leaves the array and *)
(* filled never exceeds BUFFER_SIZE, for every buffer size.                *)
THEOREM TypeCorrect == Spec => []TypeOK
BY Invariance, PTL DEF IInv

(* The pipe is a FIFO for every number of readers and writers: no byte is  *)
(* lost, duplicated or overtaken, however the ring wraps.                  *)
THEOREM Fifo == Spec => []FifoOrder
BY Invariance, PTL DEF IInv

(* No thread sleeps on a condition variable while its wait is over.        *)
THEOREM WakeupsAreNotLost == Spec => []NoLostWakeup
BY Invariance, PTL DEF IInv

(* The EOF mark is delivered only when everything sent has been received   *)
(* and no Write can add to it.                                             *)
THEOREM EofFinality == Spec => []EofIsFinal
BY Invariance, PTL DEF IInv

-----------------------------------------------------------------------------
(* The pipe implements the abstract channel.                               *)

(* A writer's turn puts its chunk into the channel.                        *)
LEMMA WriteChunkPuts ==
  ASSUME IInv, NEW w \in Writers, WriteChunk(w)
  PROVE  [Channel!Put]_(Channel!chan)
<1> DEFINE n == AtMost(Len(source[w]), BufferSize - filled)
           chunk == SubSeq(source[w], 1, n)
           queue == Fetched(begin, filled)
<1>1. TypeOK /\ RingClosed /\ ~ eof
  BY DEF Threads, IInv, WriteChunk, InUse, UsersOf, EofIsFinal
<1>2. /\ n \in Nat /\ n <= Len(source[w]) /\ filled + n <= BufferSize
      /\ source[w] \in Seq(Byte)
  <2>1. source[w] \in Seq(Byte) /\ filled \in 0 .. BufferSize
    BY <1>1 DEF TypeOK
  <2>2. Len(source[w]) \in Nat
    BY <2>1, LenProperties
  <2>. QED
    BY <2>1, <2>2, BufferSizeAssumption DEF AtMost
<1> HIDE DEF n
<1>3. chunk \in Seq(Byte) /\ Len(chunk) = n
  <2>1. \A i \in 1 .. n : source[w][i] \in Byte
    BY <1>2, ElementOfSeq
  <2>. QED
    BY <1>2, <2>1, SubSeqProperties
<1>4. /\ buffer' = Stored(end, chunk) /\ end' = Advance(end, n)
      /\ filled' = filled + n /\ begin' = begin
      /\ received' = received /\ eof' = eof
  BY DEF WriteChunk, n
<1> HIDE DEF chunk
<1>5. queue' = queue \o chunk
  BY <1>1, <1>2, <1>3, <1>4, WriteRing
<1>6. queue \in Seq(Byte) /\ Len(queue) = filled /\ filled \in 0 .. BufferSize
  BY <1>1, FetchedType DEF TypeOK
<1> HIDE DEF queue
<1>7. /\ queue' \in Seq(Byte)
      /\ Len(queue') = filled + n
      /\ SubSeq(queue', 1, Len(queue)) = queue
  <2> DEFINE both == queue \o chunk
             front == SubSeq(both, 1, Len(queue))
  <2>1. /\ both \in Seq(Byte) /\ Len(both) = filled + n
        /\ \A i \in 1 .. filled : both[i] = queue[i]
    <3>1. /\ both \in Seq(Byte) /\ Len(both) = Len(queue) + Len(chunk)
          /\ \A i \in 1 .. Len(queue) + Len(chunk) :
               both[i] = IF i <= Len(queue) THEN queue[i] ELSE chunk[i - Len(queue)]
      BY <1>3, <1>6, ConcatProperties
    <3> HIDE DEF both
    <3>. QED
      BY <1>2, <1>3, <1>6, <3>1
  <2> HIDE DEF both
  <2>2. \A i \in 1 .. filled : both[i] \in Byte
    BY <1>6, <2>1, ElementOfSeq
  <2>3. /\ front \in Seq(Byte) /\ Len(front) = filled
        /\ \A i \in 1 .. filled : front[i] = both[i]
    BY <1>6, <2>2, SubSeqProperties
  <2> HIDE DEF front
  <2>4. front = queue
    BY <1>6, <2>1, <2>3, SeqEqual
  <2>. QED
    BY <1>5, <2>1, <2>4 DEF both, front
<1>8. CASE n = 0
  <2>1. chunk = << >>
    BY <1>3, <1>8, EmptySeq
  <2>2. queue' = queue
    BY <1>5, <1>6, <2>1, ConcatEmptySeq
  <2>. QED
    BY <1>4, <2>2 DEF Channel!chan, queue
<1>9. CASE n # 0
  <2>1. Len(queue') \in (Len(queue) + 1) .. BufferSize
    BY <1>2, <1>6, <1>7, <1>9, BufferSizeAssumption
  <2>. QED
    BY <1>1, <1>4, <1>7, <2>1 DEF Channel!Put, queue
<1>. QED
  BY <1>8, <1>9

(* A reader's turn takes the front of the channel.                         *)
LEMMA ReadChunkTakes ==
  ASSUME IInv, NEW r \in Readers, ReadChunk(r)
  PROVE  \E n \in 0 .. Len(Fetched(begin, filled)) : Channel!Take(n)
<1> DEFINE n == AtMost(limit[r], filled)
           queue == Fetched(begin, filled)
<1>1. TypeOK /\ RingClosed /\ TypeOK'
  BY ReadChunkIInv DEF IInv
<1>2. n \in 0 .. filled /\ filled \in 0 .. BufferSize
  BY <1>1, BufferSizeAssumption DEF TypeOK, AtMost
<1>3. /\ received' = received \o Fetched(begin, n)
      /\ begin' = Advance(begin, n) /\ filled' = filled - n
      /\ eof' = (eof \/ (partially_closed /\ filled' = 0 /\ n < limit[r]))
      /\ UNCHANGED <<buffer, end>>
  BY DEF ReadChunk
<1> HIDE DEF n
<1>4. /\ Fetched(begin, n) = SubSeq(queue, 1, n)
      /\ queue' = SubSeq(queue, n + 1, filled)
  BY <1>1, <1>2, <1>3, ReadRing
<1>5. Len(queue) = filled
  BY <1>1, <1>2, FetchedType DEF TypeOK
<1>6. eof => eof'
  BY <1>1, <1>3 DEF TypeOK
<1>7. eof' /\ ~ eof => n = filled
  <2>1. eof' /\ ~ eof => filled' = 0
    BY <1>3
  <2>2. filled' = 0 => n = filled
    <3>1. filled' = filled - n
      BY <1>3
    <3>. QED
      BY <1>2, <3>1
  <2>. QED
    BY <2>1, <2>2
<1>8. eof' \in BOOLEAN
  BY <1>1 DEF TypeOK
<1>9. Channel!Take(n)
  BY <1>2, <1>3, <1>4, <1>5, <1>6, <1>7, <1>8 DEF Channel!Take
<1>. QED
  BY <1>2, <1>5, <1>9

(* Every step of the pipe is a step of the channel or leaves it alone: the *)
(* waits, the notifications and the closing of an end are invisible there. *)
THEOREM Refinement == Spec => ImplementsChannel
<1>1. Init => Channel!Init
  <2> SUFFICES ASSUME Init PROVE Channel!Init
    OBVIOUS
  <2>1. Fetched(begin, filled) = << >>
    BY DEF Init, Fetched
  <2>. QED
    BY <2>1 DEF Init, Channel!Init
<1>2. IInv /\ [Next]_vars => [Channel!Next]_(Channel!chan)
  <2> SUFFICES ASSUME IInv, [Next]_vars
               PROVE  [Channel!Next]_(Channel!chan)
    OBVIOUS
  <2>1. ASSUME UNCHANGED <<buffer, begin, filled, received, eof>>
        PROVE  UNCHANGED Channel!chan
    BY <2>1 DEF Channel!chan, Fetched, Advance
  <2>2. ASSUME NEW w \in Writers, WriteChunk(w)
        PROVE  [Channel!Next]_(Channel!chan)
    BY <2>2, WriteChunkPuts DEF Channel!Next
  <2>3. ASSUME NEW r \in Readers, ReadChunk(r)
        PROVE  [Channel!Next]_(Channel!chan)
    BY <2>3, ReadChunkTakes DEF Channel!Next
  <2>4. CASE UNCHANGED vars
    BY <2>1, <2>4 DEF vars
  <2>5. CASE /\ Next
             /\ ~ \E w \in Writers : WriteChunk(w)
             /\ ~ \E r \in Readers : ReadChunk(r)
    <3>1. UNCHANGED <<buffer, begin, filled, received, eof>>
      BY <2>5 DEF Next, WriterStep, ReaderStep, WriteCall, WriteCheck, WriteWait,
         ReadCall, ReadWait, CloseHandle, CloseEnd, WakeSpuriously, ring, history
    <3>. QED
      BY <2>1, <3>1
  <2>. QED
    BY <2>2, <2>3, <2>4, <2>5
<1>. QED
  BY <1>1, <1>2, Invariance, PTL DEF Spec, Channel!Spec, ImplementsChannel
=============================================================================
