-------------------------------- MODULE Pipe --------------------------------
(***************************************************************************)
(* The pipe of the kernel, sysfs_layer/pipe.{h,cpp}: a ring buffer of      *)
(* BUFFER_SIZE bytes behind one mutex and two condition variables, shared  *)
(* by a write end and a read end.                                          *)
(*                                                                         *)
(* Everything a thread does between locking and unlocking (or waiting on)  *)
(* Pipe::Base::mutex is one action; the check of partially_closed at the   *)
(* top of Write is outside the lock and is an action of its own.  A wait   *)
(* puts the thread on the condition variable, where only a notify_all of   *)
(* that variable, or a spurious wake-up, brings it back to the lock.       *)
(*                                                                         *)
(* An end of the pipe is a shared_ptr: the descriptor table holds one      *)
(* reference until the handle is closed, and every Read_File or Write_File *)
(* call in progress holds another (file_system.cpp keeps the element in a  *)
(* local), so the destructor of the end, which calls Close_End, runs when  *)
(* the handle is closed and the last call on that end has returned.        *)
(***************************************************************************)
EXTENDS Naturals, Sequences

CONSTANTS
  Writers,     \* threads that call Write_File on the write end
  Readers,     \* threads that call Read_File on the read end
  Byte,        \* bytes
  BufferSize,  \* BUFFER_SIZE, 4096 in the code
  MaxLimit,    \* bound: the largest count of one call
  MaxBytes     \* bound: no call starts that could send more bytes than this

ASSUME ThreadsAssumption == Writers \cap Readers = {}
ASSUME ByteAssumption == Byte # {}
ASSUME BufferSizeAssumption == BufferSize \in Nat \ {0}
ASSUME BoundsAssumption == MaxLimit \in Nat /\ MaxBytes \in Nat

VARIABLES
  buffer, begin, end, filled, partially_closed,  \* the fields of Pipe::Base
  pc,        \* where each thread is in Read or Write
  source,    \* the part of its buffer a writer has not copied yet
  limit,     \* how many bytes a reader asked for
  ends,      \* the life of the two shared_ptrs
  sent,      \* history: every byte copied into the ring, in order
  received,  \* history: every byte copied out of the ring, in order
  eof        \* history: some Read has appended the EOF mark

ring == <<buffer, begin, end, filled>>
history == <<sent, received, eof>>
vars == <<buffer, begin, end, filled, partially_closed, pc, source, limit,
          ends, sent, received, eof>>

Threads == Writers \cup Readers
End == {"write", "read"}
UsersOf(e) == IF e = "write" THEN Writers ELSE Readers
Slots == 0 .. (BufferSize - 1)

\* Mutant of AtMost: the copy loops do not look at the ring's fill.
Unlimited(a, b) == a

AtMost(a, b) == IF a <= b THEN a ELSE b

-----------------------------------------------------------------------------
(* The ring buffer.                                                        *)

\* Mutant of Advance: the comparison with cend() is off by one.
AdvancePastEnd(i, n) == IF i + n > BufferSize THEN i + n - BufferSize ELSE i + n

(* Iterator i moved by n <= BufferSize slots, back to buffer.begin() when  *)
(* it reaches the end of the array.                                        *)
Advance(i, n) == IF i + n >= BufferSize THEN i + n - BufferSize ELSE i + n

(* How many slots slot k lies behind slot i, going round the array.        *)
Distance(i, k) == IF k >= i THEN k - i ELSE k + BufferSize - i

(* The array after the bytes s were stored from slot i on.                 *)
Stored(i, s) ==
  [k \in Slots |-> IF Distance(i, k) < Len(s) THEN s[Distance(i, k) + 1]
                                              ELSE buffer[k]]

\* Mutant of Fetched: begin is advanced before the byte is taken.
FetchedLate(i, n) == [j \in 1 .. n |-> buffer[Advance(i, j)]]

(* The n bytes found from slot i on.                                       *)
Fetched(i, n) == [j \in 1 .. n |-> buffer[Advance(i, j - 1)]]

-----------------------------------------------------------------------------
\* Mutant of Notified: the notification is forgotten.
NotNotified(T) == [t \in Threads |-> pc[t]]

(* notify_all of the condition variable the threads T wait on.             *)
Notified(T) ==
  [t \in Threads |-> IF t \in T /\ pc[t] = "wait" THEN "lock" ELSE pc[t]]

\* Mutant of InUse: calls do not keep the end they work on alive.
NeverInUse(e) == FALSE

(* Some Read_File or Write_File call holds a reference to end e.           *)
InUse(e) == \E t \in UsersOf(e) : pc[t] # "idle"

Init ==
  /\ buffer = [k \in Slots |-> CHOOSE b \in Byte : TRUE]
  /\ begin = 0
  /\ end = 0
  /\ filled = 0
  /\ partially_closed = FALSE
  /\ pc = [t \in Threads |-> "idle"]
  /\ source = [w \in Writers |-> << >>]
  /\ limit = [r \in Readers |-> 0]
  /\ ends = [e \in End |-> "open"]
  /\ sent = << >>
  /\ received = << >>
  /\ eof = FALSE

-----------------------------------------------------------------------------
(* Write_File: the element is found in the descriptor table, which gives   *)
(* the call its reference to the write end.                                *)
WriteCall(w) ==
  /\ pc[w] = "idle"
  /\ ends["write"] = "open"
  /\ \E n \in 0 .. MaxLimit :
       /\ Len(sent) + n <= MaxBytes
       /\ \E s \in [1 .. n -> Byte] : source' = [source EXCEPT ![w] = s]
  /\ pc' = [pc EXCEPT ![w] = "check"]
  /\ UNCHANGED <<ring, partially_closed, limit, ends, history>>

(* The unlocked test at the top of Write: a closed pipe, or nothing to     *)
(* write, ends the call.                                                   *)
WriteCheck(w) ==
  /\ pc[w] = "check"
  /\ IF partially_closed \/ source[w] = << >>
     THEN /\ pc' = [pc EXCEPT ![w] = "idle"]
          /\ source' = [source EXCEPT ![w] = << >>]
     ELSE /\ pc' = [pc EXCEPT ![w] = "lock"]
          /\ UNCHANGED source
  /\ UNCHANGED <<ring, partially_closed, limit, ends, history>>

(* One turn of Write's loop: the wait is over, the ring takes as many      *)
(* bytes as fit and the readers are notified.                              *)
WriteChunk(w) ==
  /\ pc[w] = "lock"
  /\ filled < BufferSize
  /\ LET n == AtMost(Len(source[w]), BufferSize - filled)
         chunk == SubSeq(source[w], 1, n)
         rest == SubSeq(source[w], n + 1, Len(source[w]))
     IN /\ buffer' = Stored(end, chunk)
        /\ end' = Advance(end, n)
        /\ filled' = filled + n
        /\ sent' = sent \o chunk
        /\ source' = [source EXCEPT ![w] = rest]
        /\ pc' = [Notified(Readers) EXCEPT
                    ![w] = IF rest = << >> THEN "idle" ELSE "lock"]
  /\ UNCHANGED <<begin, partially_closed, limit, ends, received, eof>>

(* The ring is full: cond_writable.wait.  Its predicate does not look at   *)
(* partially_closed.                                                       *)
WriteWait(w) ==
  /\ pc[w] = "lock"
  /\ filled = BufferSize
  /\ pc' = [pc EXCEPT ![w] = "wait"]
  /\ UNCHANGED <<ring, partially_closed, source, limit, ends, history>>

-----------------------------------------------------------------------------
(* Read_File: the element is found in the descriptor table.                *)
ReadCall(r) ==
  /\ pc[r] = "idle"
  /\ ends["read"] = "open"
  /\ \E n \in 0 .. MaxLimit : limit' = [limit EXCEPT ![r] = n]
  /\ pc' = [pc EXCEPT ![r] = "lock"]
  /\ UNCHANGED <<ring, partially_closed, source, ends, history>>

(* Read past its wait: takes what there is up to the limit, notifies the   *)
(* writers, and appends the EOF mark if the pipe is closed, empty, and the *)
(* caller's buffer has room for it.                                        *)
ReadChunk(r) ==
  /\ pc[r] = "lock"
  /\ filled > 0 \/ partially_closed
  /\ LET n == AtMost(limit[r], filled)
     IN /\ received' = received \o Fetched(begin, n)
        /\ begin' = Advance(begin, n)
        /\ filled' = filled - n
        /\ eof' = (eof \/ (partially_closed /\ filled' = 0 /\ n < limit[r]))
  /\ pc' = [Notified(Writers) EXCEPT ![r] = "idle"]
  /\ limit' = [limit EXCEPT ![r] = 0]
  /\ UNCHANGED <<buffer, end, partially_closed, source, ends, sent>>

(* Nothing to read and nobody closed: cond_readable.wait.                  *)
ReadWait(r) ==
  /\ pc[r] = "lock"
  /\ filled = 0
  /\ ~ partially_closed
  /\ pc' = [pc EXCEPT ![r] = "wait"]
  /\ UNCHANGED <<ring, partially_closed, source, limit, ends, history>>

-----------------------------------------------------------------------------
(* Close_Handle on end e: the descriptor table drops its reference.        *)
CloseHandle(e) ==
  /\ ends[e] = "open"
  /\ ends' = [ends EXCEPT ![e] = "dropped"]
  /\ UNCHANGED <<ring, partially_closed, pc, source, limit, history>>

\* Mutant of CloseEnd: the pipe is marked closed and nobody is told.
CloseEndSilently(e) ==
  /\ ends[e] = "dropped"
  /\ ~ InUse(e)
  /\ ends' = [ends EXCEPT ![e] = "closed"]
  /\ partially_closed' = TRUE
  /\ UNCHANGED <<ring, pc, source, limit, history>>

(* The last reference to end e is gone: ~End runs Close_End, which wakes   *)
(* the readers and nobody else.                                            *)
CloseEnd(e) ==
  /\ ends[e] = "dropped"
  /\ ~ InUse(e)
  /\ ends' = [ends EXCEPT ![e] = "closed"]
  /\ partially_closed' = TRUE
  /\ pc' = Notified(Readers)
  /\ UNCHANGED <<ring, source, limit, history>>

(* A condition variable may wake a thread for no reason.                   *)
WakeSpuriously(t) ==
  /\ pc[t] = "wait"
  /\ pc' = [pc EXCEPT ![t] = "lock"]
  /\ UNCHANGED <<ring, partially_closed, source, limit, ends, history>>

-----------------------------------------------------------------------------
WriterStep(w) == WriteCheck(w) \/ WriteChunk(w) \/ WriteWait(w)
ReaderStep(r) == ReadChunk(r) \/ ReadWait(r)

Next ==
  \/ \E w \in Writers : WriteCall(w) \/ WriterStep(w)
  \/ \E r \in Readers : ReadCall(r) \/ ReaderStep(r)
  \/ \E e \in End : CloseHandle(e) \/ CloseEnd(e)
  \/ \E t \in Threads : WakeSpuriously(t)

Spec == Init /\ [][Next]_vars

(* The host system schedules every runnable thread: a call in progress     *)
(* goes on and a destructor runs.  Nobody has to make another call, close  *)
(* a handle or be woken spuriously.                                        *)
Fairness ==
  /\ \A w \in Writers : WF_vars(WriterStep(w))
  /\ \A r \in Readers : WF_vars(ReaderStep(r))
  /\ \A e \in End : WF_vars(CloseEnd(e))

FairSpec == Spec /\ Fairness

-----------------------------------------------------------------------------
(* Every variable has a value of its type; the iterators of the ring never *)
(* leave the array and filled never exceeds its size.                      *)
TypeOK ==
  /\ buffer \in [Slots -> Byte]
  /\ begin \in Slots
  /\ end \in Slots
  /\ filled \in 0 .. BufferSize
  /\ partially_closed \in BOOLEAN
  /\ pc \in [Threads -> {"idle", "check", "lock", "wait"}]
  /\ source \in [Writers -> Seq(Byte)]
  /\ limit \in [Readers -> Nat]
  /\ ends \in [End -> {"open", "dropped", "closed"}]
  /\ sent \in Seq(Byte)
  /\ received \in Seq(Byte)
  /\ eof \in BOOLEAN

(* The pipe is a FIFO: the bytes the readers got, followed by the bytes in *)
(* the ring from begin on, are the bytes the writers copied in, each once  *)
(* and in order, however the ring has wrapped.                             *)
FifoOrder == sent = received \o Fetched(begin, filled)

(* No wake-up is lost: a thread sleeps on its condition variable only      *)
(* while what it waits for is false, so every change that ends a wait is   *)
(* followed by the notification of those who wait.                         *)
NoLostWakeup ==
  /\ \A r \in Readers : pc[r] = "wait" => filled = 0 /\ ~ partially_closed
  /\ \A w \in Writers : pc[w] = "wait" => filled = BufferSize

(* The EOF mark is final: once a Read has appended it, every byte ever     *)
(* sent has been received, the write end is destroyed and no Write is in   *)
(* progress that could still copy bytes behind the mark.                   *)
EofIsFinal ==
  eof => /\ received = sent
         /\ ends["write"] = "closed"
         /\ ~ InUse("write")

(* A reader is released: once the write handle is closed, with no write    *)
(* stuck on it, every Read in progress returns.                            *)
ReaderReleased ==
  \A r \in Readers :
    ends["write"] = "closed" /\ pc[r] # "idle" ~> pc[r] = "idle"

(* The ring, its lock and its two reference counts implement a bounded     *)
(* FIFO channel whose end-of-file mark is final.                           *)
Channel == INSTANCE FifoChannel
             WITH Capacity <- BufferSize,
                  queue <- Fetched(begin, filled),
                  finished <- eof

ImplementsChannel == Channel!Spec
=============================================================================
