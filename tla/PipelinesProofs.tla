-------------------------- MODULE PipelinesProofs --------------------------
(***************************************************************************)
(* Proofs about Pipelines, for any lines, files, descriptors and slots,    *)
(* pipes of any size and any interleaving of the shell and the programs.   *)
(***************************************************************************)
EXTENDS Pipelines, TLAPS, WellFoundedInduction, FiniteSetTheorems, SequenceTheorems

USE BoundAssumption

-----------------------------------------------------------------------------
(* Numbers and descriptors.                                                *)

(* Min of a set of numbers is its least. *)
LEMMA MinIs ==
  ASSUME NEW S, S \subseteq Nat, S # {}
  PROVE  Min(S) \in S /\ \A x \in S : Min(S) <= x
<1>1. PICK x \in S : \A y \in S : ~(<<y, x>> \in OpToRel(<, Nat))
  BY NatLessThanWellFounded, WFMin
<1>2. \A y \in S : ~(y < x)
  BY <1>1 DEF OpToRel
<1>3. \A y \in S : x <= y
  BY <1>2
<1> QED BY <1>3 DEF Min

(* The ends of a new pipe: the write end gets the lower number. *)
LEMMA EndsOfPipe ==
  ASSUME NEW a \in Nat, NEW b \in Nat, a < b
  PROVE  WriteEndFirst({a, b}) = <<a, b>>
<1>1. Min({a, b}) = a
  BY MinIs
<1>2. Max({a, b}) = b
  BY DEF Max
<1> QED BY <1>1, <1>2 DEF WriteEndFirst

(* The least of two numbers. *)
LEMMA MinOfTwo ==
  ASSUME NEW a \in Nat, NEW b \in Nat
  PROVE  Min({a, b}) \in Nat /\ Min({a, b}) <= a /\ Min({a, b}) <= b
         /\ (a > 0 /\ b > 0 => Min({a, b}) > 0)
BY MinIs

(* The profile of every program. *)
LEMMA Profiles ==
  ASSUME NEW c, c \in Command, c.program \in Programs
  PROVE  LET p == ProfileOf(c) IN
         /\ p.source \in {"none", "input", "file", "proc"} /\ p.closes \in BOOLEAN
         /\ p.texts \in Seq(Nat)
         /\ p.source = "file" => p.closes
         /\ p.source \in {"none", "proc"} => ~p.closes
         /\ p.source = "proc" => c.program = "tasklist"
         /\ c.program = "rgen" => p.source = "input" /\ ~p.closes
<1>1. <<1>> \in Seq(Nat) /\ <<1, 1>> \in Seq(Nat) /\ <<Long>> \in Seq(Nat) /\ << >> \in Seq(Nat)
  OBVIOUS
<1> DEFINE p == ProfileOf(c)
<1>2. CASE c.program = "echo"
  BY <1>1, <1>2 DEF ProfileOf, echo
<1>3. CASE c.program = "freq"
  BY <1>1, <1>3 DEF ProfileOf, freq
<1>4. CASE c.program = "tasklist"
  BY <1>1, <1>4 DEF ProfileOf, tasklist
<1>5. CASE c.program = "dir"
  BY <1>1, <1>5 DEF ProfileOf, dir
<1>6. CASE c.program = "type"
  BY <1>1, <1>6 DEF ProfileOf, type, Failed
<1>7. CASE c.program = "sort"
  BY <1>1, <1>7 DEF ProfileOf, sort
<1>8. CASE c.program = "find"
  BY <1>1, <1>8 DEF ProfileOf, find
<1>9. CASE c.program = "rgen"
  BY <1>1, <1>9 DEF ProfileOf, rgen
<1> QED BY <1>2, <1>3, <1>4, <1>5, <1>6, <1>7, <1>8, <1>9 DEF Programs

-----------------------------------------------------------------------------
(* Types.                                                                  *)

(* Where the shell stands in its script.                                   *)
Creating == shell.pc \in {"input", "output", "process"}
Ending == shell.pc \in {"wait", "close_in", "close_out"}
Size == Len(shell.line)

(* The ends of the line's pipes, in the order of their use: those that the *)
(* shell still has to close, how many it has closed, how many were made.   *)
Ends == shell.used_pipes \o shell.pipe_queue
Gone ==
  IF ~Ending THEN 0
  ELSE IF shell.pc = "close_out" THEN 2 * shell.index - 2
  ELSE IF shell.index = 1 THEN 0 ELSE 2 * shell.index - 3
Made ==
  IF Ending THEN 2 * Size - 2
  ELSE IF ~Creating THEN 0
  ELSE IF shell.pc = "process" /\ shell.index < Size THEN 2 * shell.index
  ELSE 2 * shell.index - 2

(* The lists of the shell have the lengths that their use asks for.        *)
Script ==
  /\ shell.pc = "prompt" => shell = Idle
  /\ shell.pc # "prompt" => Len(typed) > 0 /\ shell.line = typed[Len(typed)]
  /\ Creating =>
       /\ shell.index \in 1 .. Size /\ Len(shell.handles) = shell.index - 1
       /\ Len(shell.used_pipes) = IF shell.index = 1 THEN 0 ELSE 2 * shell.index - 3
       /\ Len(shell.used_pipes) + Len(shell.pipe_queue) = Made
  /\ Ending =>
       /\ shell.index \in 1 .. Size /\ Len(shell.handles) = Size
       /\ shell.pipe_queue = << >> /\ Len(shell.used_pipes) = Made - Gone

(* A thread in the middle of a call holds the end it uses; only rgen has a *)
(* second thread, which ends before the first.                             *)
Threads ==
  /\ \A s \in Slots : at[Checker(s)] \in {"none", "read", "reading", "ended"}
  /\ \A s \in Slots : at[Checker(s)] # "none" => process[s] # NoProcess /\ IsRgen(s)
  /\ \A s \in Slots : process[s] # NoProcess => process[s].command.program \in Programs
  /\ \A s \in Slots :
       /\ at[Main(s)] \in {"begin", "create_thread"} => at[Checker(s)] = "none"
       /\ at[Main(s)] = "create_thread" => IsRgen(s)
       /\ at[Main(s)] = "ended" => at[Checker(s)] \in {"none", "ended"}
  /\ \A t \in Thread :
       /\ at[t] = "reading" => call[t].kind = "read"
       /\ at[t] = "writing" => call[t].kind = "write" /\ process[t[1]].texts # << >>
       /\ at[t] \notin {"reading", "writing"} => call[t] = None

TypeInv == TypeOK /\ Script /\ Threads

(* The kind and the rest of an element. *)
LEMMA ElementParts ==
  /\ \A kind, of : Element(kind, of).kind = kind /\ Element(kind, of).of = of
  /\ None.kind = "none" /\ \A id : Console(id).kind = "console" /\ Console(id).of = id
BY DEF None, Console, Element

(* The elements of descriptors. *)
LEMMA ElementTypes ==
  /\ None \in Elements /\ Element("proc", Nothing) \in Elements
  /\ Console(In) \in Elements /\ Console(Out) \in Elements
  /\ \A k \in Pipes : Element("write", k) \in Elements /\ Element("read", k) \in Elements
  /\ \A f \in Files : Element("file", f) \in Elements
BY DEF Elements

(* What an element may be. *)
LEMMA ElementIs ==
  ASSUME NEW e \in Elements
  PROVE  /\ e = Element(e.kind, e.of)
         /\ e.kind \in {"none", "proc", "console", "write", "read", "file"}
         /\ e.kind = "none" <=> e = None
         /\ e.kind = "console" => e = Console(In) \/ e = Console(Out)
         /\ e.kind \in {"write", "read"} => e.of \in Pipes
         /\ e.kind = "file" => e.of \in Files
<1>1. CASE e = None
  BY <1>1, ElementParts DEF None
<1>2. CASE e = Element("proc", Nothing)
  BY <1>2, ElementParts
<1>3. CASE e = Console(In) \/ e = Console(Out)
  BY <1>3, ElementParts DEF Console
<1>4. CASE \E kind \in {"write", "read"}, k \in Pipes : e = Element(kind, k)
  BY <1>4, ElementParts
<1>5. CASE \E f \in Files : e = Element("file", f)
  BY <1>5, ElementParts
<1> QED BY <1>1, <1>2, <1>3, <1>4, <1>5 DEF Elements

(* The lines are not empty, and only their last command has an output. *)
LEMMA LineFacts ==
  ASSUME NEW line \in Lines
  PROVE  /\ line \in Seq(Command) /\ Len(line) \in Nat /\ Len(line) > 0
         /\ DOMAIN line = 1 .. Len(line)
         /\ \A i \in 1 .. Len(line) : line[i] \in Command
         /\ \A i \in 1 .. (Len(line) - 1) : line[i].output = NoFile
<1>1. line \in Seq(Command) /\ line # << >>
  BY LinesAssumption
<1> QED BY <1>1, LinesAssumption

(* The parts of the shell's state. *)
LEMMA ShellFields ==
  ASSUME shell \in Shell
  PROVE  /\ shell.index \in Nat /\ shell.handle_in \in Id /\ shell.handle_out \in Id
         /\ shell.line \in Seq(Command) /\ Size \in Nat /\ DOMAIN shell.line = 1 .. Size
         /\ shell.pipe_queue \in Seq(Id) /\ shell.used_pipes \in Seq(Id)
         /\ shell.opened_files \in Seq(Id) /\ shell.handles \in Seq(Slots)
         /\ Len(shell.pipe_queue) \in Nat /\ Len(shell.used_pipes) \in Nat
         /\ Len(shell.opened_files) \in Nat /\ Len(shell.handles) \in Nat
         /\ \A p \in 1 .. Len(shell.pipe_queue) : shell.pipe_queue[p] \in Id
         /\ \A p \in 1 .. Len(shell.used_pipes) : shell.used_pipes[p] \in Id
         /\ \A p \in 1 .. Len(shell.handles) : shell.handles[p] \in Slots
         /\ \A p \in 1 .. Size : shell.line[p] \in Command
<1>1. shell.line \in Lines \/ shell.line = << >>
  BY DEF Shell
<1>2. shell.line \in Seq(Command)
  <2>1. CASE shell.line \in Lines
    BY <2>1, LineFacts
  <2>2. CASE shell.line = << >>
    BY <2>2
  <2> QED BY <1>1, <2>1, <2>2
<1>3. /\ shell.pipe_queue \in Seq(Id) /\ shell.used_pipes \in Seq(Id)
      /\ shell.opened_files \in Seq(Id) /\ shell.handles \in Seq(Slots)
      /\ shell.index \in Nat /\ shell.handle_in \in Id /\ shell.handle_out \in Id
  BY DEF Shell
<1> QED BY <1>2, <1>3 DEF Size

(* The parts of a process. *)
LEMMA ProcessFields ==
  ASSUME TypeInv, NEW s \in Slots, process[s] # NoProcess
  PROVE  /\ process[s] \in Process /\ process[s].command \in Command
         /\ process[s].command.program \in Programs
         /\ process[s].handle \in Id /\ process[s].handle_out \in Id
         /\ process[s].texts \in Seq(Nat) /\ process[s].left \in Nat
         /\ process[s].input \in Elements /\ process[s].output \in Elements
<1>1. process[s] \in Process
  BY DEF TypeInv, TypeOK
<1> QED BY <1>1 DEF Process, TypeInv, Threads

(* The two threads of a slot. *)
LEMMA ThreadFacts ==
  /\ \A s \in Slots : Main(s) \in Thread /\ Checker(s) \in Thread
  /\ \A s, o : Main(s)[1] = s /\ Checker(s)[1] = s /\ Main(s) # Checker(o)
  /\ \A s, o : Main(s) = Main(o) => s = o
  /\ \A s, o : Checker(s) = Checker(o) => s = o
  /\ \A t \in Thread : t[1] \in Slots /\ (t = Main(t[1]) \/ t = Checker(t[1]))
BY DEF Main, Checker, Thread

(* Descriptors are numbers, and so is the first one that is free. *)
LEMMA FreeFacts ==
  /\ Id \subseteq Nat /\ Free \subseteq Id /\ In \in Id /\ Out \in Id /\ In # Out
  /\ Free # {} => Min(Free) \in Free /\ \A x \in Free : Min(Free) <= x
<1>1. Id \subseteq Nat /\ Free \subseteq Id
  BY DEF Id, Free
<1>2. In \in Id /\ Out \in Id /\ In # Out
  BY DEF Id, In, Out
<1>3. Free # {} => Min(Free) \in Free /\ \A x \in Free : Min(Free) <= x
  BY <1>1, MinIs
<1> QED BY <1>1, <1>2, <1>3

(* Two descriptors for the ends of a pipe. *)
LEMMA FreePair ==
  ASSUME Cardinality(Free) > 1
  PROVE  LET a == Min(Free)  b == Min(Free \ {Min(Free)}) IN
         /\ a \in Free /\ b \in Free /\ a < b
         /\ WriteEndFirst({a, b}) = <<a, b>>
<1> DEFINE a == Min(Free)
           b == Min(Free \ {a})
<1>1. IsFiniteSet(Id)
  BY FS_Interval DEF Id
<1>2. IsFiniteSet(Free)
  BY <1>1, FS_Subset, FreeFacts
<1>3. Free # {}
  BY FS_EmptySet
<1>4. a \in Free /\ \A x \in Free : a <= x
  BY <1>3, FreeFacts
<1>5. Free \ {a} # {}
  <2>1. IsFiniteSet(Free \ {a}) /\ Cardinality(Free \ {a}) = Cardinality(Free) - 1
    BY <1>2, <1>4, FS_RemoveElement
  <2>2. Cardinality(Free) \in Nat
    BY <1>2, FS_CardinalityType
  <2>3. Cardinality({}) = 0
    BY FS_EmptySet
  <2>4. Cardinality(Free \ {a}) # 0
    BY <2>1, <2>2
  <2> QED BY <2>3, <2>4
<1>6. Free \ {a} \subseteq Nat
  BY FreeFacts
<1> HIDE DEF a
<1>7. b \in Free \ {a} /\ b \in Nat
  BY <1>5, <1>6, MinIs
<1> HIDE DEF b
<1>8. a \in Nat /\ a <= b /\ a # b
  BY <1>4, <1>7, FreeFacts
<1>10. a < b
  BY <1>7, <1>8
<1>9. WriteEndFirst({a, b}) = <<a, b>>
  BY <1>7, <1>8, <1>10, EndsOfPipe
<1> QED BY <1>4, <1>7, <1>10, <1>9 DEF a, b

(* What Closed returns. *)
LEMMA ClosedType ==
  ASSUME NEW table, NEW calls
  PROVE  /\ closed \in [Pipes -> BOOLEAN] => Closed(table, calls) \in [Pipes -> BOOLEAN]
         /\ \A k \in Pipes : closed[k] => Closed(table, calls)[k]
         /\ \A k \in Pipes : ~closed[k] /\ HasEnd("write", k, table, calls)
                               /\ HasEnd("read", k, table, calls) => ~Closed(table, calls)[k]
BY DEF Closed

(* A step of a thread, in which its process keeps its command. *)
LEMMA ThreadTypes ==
  ASSUME TypeInv, NEW s \in Slots, NEW t \in {Main(s), Checker(s)}, at[t] # "none",
         shell' = shell, typed' = typed,
         descriptors' \in [Id -> Elements], filled' \in [Pipes -> 0 .. BufferSize],
         closed' \in [Pipes -> BOOLEAN], is_eof' \in BOOLEAN,
         NEW step \in Steps \ {"none"}, at' = [at EXCEPT ![t] = step],
         t = Checker(s) => step \in {"read", "reading", "ended"} /\ at[t] # "ended",
         step # "begin", step = "create_thread" => IsRgen(s) /\ at[Checker(s)] = "none",
         t = Main(s) /\ step = "ended" => at[Checker(s)] \in {"none", "ended"},
         NEW e \in Elements, call' = [call EXCEPT ![t] = e],
         step = "reading" => e.kind = "read", step = "writing" => e.kind = "write",
         step \notin {"reading", "writing"} => e = None,
         NEW q \in Process, process' = [process EXCEPT ![s] = q], q.command = process[s].command,
         at'[Main(s)] = "writing" => q.texts # << >>
  PROVE  TypeInv'
<1>1. process[s] # NoProcess
  BY DEF TypeInv, TypeOK, Threads
<1>2. q # NoProcess
  BY MarkAssumption
<1>3. t \in Thread /\ t[1] = s
  BY ThreadFacts
<1>4. /\ process' \in [Slots -> Process \cup {NoProcess}]
      /\ at' \in [Thread -> Steps] /\ call' \in [Thread -> Elements]
      /\ process'[s] = q /\ \A o \in Slots \ {s} : process'[o] = process[o]
      /\ at'[t] = step /\ \A u \in Thread \ {t} : at'[u] = at[u]
      /\ call'[t] = e /\ \A u \in Thread \ {t} : call'[u] = call[u]
  BY <1>3 DEF TypeInv, TypeOK
<1>5. \A o \in Slots : process'[o] = NoProcess <=> process[o] = NoProcess
  BY <1>1, <1>2, <1>4
<1>6. \A u \in Thread : at'[u] = "none" <=> at[u] = "none"
  BY <1>4
<1>7. \A o \in Slots : process'[o] = NoProcess <=> at'[Main(o)] = "none"
  BY <1>5, <1>6, ThreadFacts DEF TypeInv, TypeOK
<1>8. TypeOK'
  BY <1>4, <1>7 DEF TypeInv, TypeOK, Shell
<1>9. Script'
  BY DEF TypeInv, Script, Creating, Ending, Size, Made, Gone, Idle
<1>10. \A o \in Slots : process'[o] # NoProcess => process'[o].command = process[o].command
  BY <1>4
<1>11. Threads'
  <2>1. \A o \in Slots : at'[Checker(o)] \in {"none", "read", "reading", "ended"}
    <3> TAKE o \in Slots
    <3>1. CASE Checker(o) = t
      <4>1. t = Checker(s)
        BY <3>1, ThreadFacts
      <4> QED BY <1>4, <3>1, <4>1
    <3>2. CASE Checker(o) # t
      <4>1. at'[Checker(o)] = at[Checker(o)]
        BY <1>4, <3>2, ThreadFacts
      <4> QED BY <4>1 DEF TypeInv, Threads
    <3> QED BY <3>1, <3>2
  <2>2. \A o \in Slots : at'[Checker(o)] # "none" =>
          process'[o] # NoProcess /\ process'[o].command.program = "rgen"
    BY <1>5, <1>6, <1>10, ThreadFacts DEF TypeInv, Threads, IsRgen
  <2>3. \A o \in Slots : process'[o] # NoProcess => process'[o].command.program \in Programs
    BY <1>5, <1>10 DEF TypeInv, Threads
  <2>5. ASSUME NEW o \in Slots
        PROVE  /\ at'[Main(o)] \in {"begin", "create_thread"} => at'[Checker(o)] = "none"
               /\ at'[Main(o)] = "create_thread" => IsRgen(o)'
               /\ at'[Main(o)] = "ended" => at'[Checker(o)] \in {"none", "ended"}
    <3>1. Main(o) \in Thread /\ Checker(o) \in Thread /\ Main(o) # Checker(o)
      BY ThreadFacts
    <3>2. CASE o # s
      <4>1. at'[Main(o)] = at[Main(o)] /\ at'[Checker(o)] = at[Checker(o)] /\ process'[o] = process[o]
        BY <1>4, <3>1, <3>2, ThreadFacts
      <4> QED BY <4>1 DEF TypeInv, Threads, IsRgen
    <3>3. CASE o = s /\ t = Main(s)
      <4>1. at'[Checker(o)] = at[Checker(o)] /\ at'[Main(o)] = step
        BY <1>4, <3>1, <3>3
      <4> QED BY <1>4, <3>3, <4>1 DEF IsRgen
    <3>4. CASE o = s /\ t = Checker(s)
      <4>1. at'[Main(o)] = at[Main(o)] /\ process'[o].command = process[o].command
        BY <1>4, <3>1, <3>4
      <4> QED BY <3>4, <4>1 DEF TypeInv, Threads, IsRgen
    <3> QED BY <3>2, <3>3, <3>4
  <2>4. ASSUME NEW u \in Thread
        PROVE  /\ at'[u] = "reading" => call'[u].kind = "read"
               /\ at'[u] = "writing" => call'[u].kind = "write" /\ process'[u[1]].texts # << >>
               /\ at'[u] \notin {"reading", "writing"} => call'[u] = None
    <3>1. CASE u = t
      <4>1. step = "writing" => t = Main(s)
        BY ThreadFacts
      <4> QED BY <1>3, <1>4, <3>1, <4>1
    <3>2. CASE u # t
      <4>1. at'[u] = at[u] /\ call'[u] = call[u]
        BY <1>4, <3>2
      <4>2. at[u] = "writing" /\ u[1] = s => u = Main(s)
        BY ThreadFacts DEF TypeInv, Threads
      <4> QED BY <1>4, <4>1, <4>2, ThreadFacts DEF TypeInv, Threads
    <3> QED BY <3>1, <3>2
  <2> QED BY <2>1, <2>2, <2>3, <2>4, <2>5 DEF Threads, IsRgen
<1> QED BY <1>8, <1>9, <1>11 DEF TypeInv

(* What changes nothing of a function. *)
LEMMA SameFunction ==
  ASSUME NEW S, NEW f, DOMAIN f = S, f = [x \in S |-> f[x]], NEW x \in S
  PROVE  f = [f EXCEPT ![x] = f[x]]
OBVIOUS

(* The same for the processes, the threads and their calls. *)
LEMMA SameOfThread ==
  ASSUME TypeInv, NEW s \in Slots, NEW t \in Thread
  PROVE  /\ process = [process EXCEPT ![s] = process[s]]
         /\ at = [at EXCEPT ![t] = at[t]] /\ call = [call EXCEPT ![t] = call[t]]
BY DEF TypeInv, TypeOK

(* A process with other texts, another handle or less left to read. *)
LEMMA ChangedProcess ==
  ASSUME TypeInv, NEW s \in Slots, process[s] # NoProcess
  PROVE  /\ \A texts \in Seq(Nat) :
              LET q == [process[s] EXCEPT !.texts = texts] IN
              /\ q \in Process /\ q.command = process[s].command /\ q.texts = texts
         /\ \A left \in Nat :
              LET q == [process[s] EXCEPT !.left = left] IN
              /\ q \in Process /\ q.command = process[s].command /\ q.texts = process[s].texts
         /\ \A id \in Id :
              LET q == [process[s] EXCEPT !.handle = id] IN
              /\ q \in Process /\ q.command = process[s].command /\ q.texts = process[s].texts
BY ProcessFields DEF Process

(* A thread that runs has a process. *)
LEMMA Running ==
  ASSUME TypeInv, NEW s \in Slots, NEW t \in {Main(s), Checker(s)}, at[t] # "none"
  PROVE  process[s] # NoProcess /\ t \in Thread /\ t[1] = s
<1>1. CASE t = Main(s)
  BY <1>1, ThreadFacts DEF TypeInv, TypeOK
<1>2. CASE t = Checker(s)
  BY <1>2, ThreadFacts DEF TypeInv, Threads
<1> QED BY <1>1, <1>2

(* The fields of the state that a step leaves keep their types. *)
LEMMA TypesStay ==
  ASSUME TypeInv
  PROVE  /\ descriptors' = descriptors => descriptors' \in [Id -> Elements]
         /\ filled' = filled => filled' \in [Pipes -> 0 .. BufferSize]
         /\ closed' = closed => closed' \in [Pipes -> BOOLEAN]
         /\ \A calls : closed' = Closed(descriptors, calls) => closed' \in [Pipes -> BOOLEAN]
         /\ is_eof' = is_eof => is_eof' \in BOOLEAN
BY ClosedType DEF TypeInv, TypeOK

(* Types through the first step of a program. *)
LEMMA BeginTypes ==
  ASSUME TypeInv, NEW s \in Slots, Begin(s)
  PROVE  TypeInv'
<1> DEFINE t == Main(s)
           p == ProfileIn(s)
           file == process[s].command.file
<1>1. /\ at[t] = "begin" /\ call' = call /\ is_eof' = is_eof /\ shell' = shell /\ typed' = typed
      /\ process[s] # NoProcess /\ t \in Thread /\ call[t] = None
  BY Running, ThreadFacts DEF Begin, OfShell, TypeInv, Threads
<1>2. process[s] \in Process /\ Failed.texts \in Seq(Nat)
  BY <1>1, ProcessFields DEF Failed
<1>3. call' = [call EXCEPT ![t] = None]
  BY <1>1, SameOfThread
<1>4. None \in Elements
  BY ElementTypes
<1>9. t \in {Main(s), Checker(s)} /\ t # Checker(s) /\ t = Main(s) /\ at[t] # "none"
  BY <1>1, ThreadFacts
<1>5. CASE UNCHANGED <<kernel, process>> /\ (GoTo(t, "write") \/ GoTo(t, "read"))
  <2> USE DEF kernel
  <2>1. process' = [process EXCEPT ![s] = process[s]]
    BY <1>1, <1>5, SameOfThread
  <2>2. /\ descriptors' \in [Id -> Elements] /\ filled' \in [Pipes -> 0 .. BufferSize]
        /\ closed' \in [Pipes -> BOOLEAN] /\ is_eof' \in BOOLEAN
    BY <1>1, <1>5, TypesStay
  <2>3. PICK step \in {"read", "write"} : at' = [at EXCEPT ![t] = step]
    BY <1>5 DEF GoTo
  <2>4. at'[t] # "writing" /\ step \in Steps \ {"none"}
    BY <1>1, <2>3 DEF TypeInv, TypeOK, Steps
  <2>5. process[s].command = process[s].command
    OBVIOUS
  <2> HIDE DEF t
  <2> QED BY <1>1, <1>2, <1>3, <1>4, <1>9, <2>1, <2>2, <2>3, <2>4, <2>5, ThreadTypes
<1>6. ASSUME NEW element \in Elements, Free # {}, Open(element), GoTo(t, "read"),
             process' = [process EXCEPT ![s].handle = Min(Free)]
      PROVE  TypeInv'
  <2> DEFINE q == [process[s] EXCEPT !.handle = Min(Free)]
  <2>1. q \in Process /\ q.command = process[s].command
    BY <1>1, <1>6, ChangedProcess, FreeFacts
  <2>2. process' = [process EXCEPT ![s] = q]
    BY <1>6
  <2>3. /\ descriptors' \in [Id -> Elements] /\ filled' \in [Pipes -> 0 .. BufferSize]
        /\ closed' \in [Pipes -> BOOLEAN] /\ is_eof' \in BOOLEAN
    BY <1>1, <1>6, TypesStay DEF Open, TypeInv, TypeOK
  <2>6. PICK step \in {"read"} : at' = [at EXCEPT ![t] = step]
    BY <1>6 DEF GoTo
  <2>4. at'[t] # "writing" /\ step \in Steps \ {"none", "writing", "reading"}
    BY <1>1, <2>6 DEF TypeInv, TypeOK, Steps
  <2>5. at'[Main(s)] = "writing" => q.texts # << >>
    BY <2>4
  <2> HIDE DEF t, q
  <2> QED BY <1>1, <1>3, <1>4, <1>9, <2>1, <2>2, <2>3, <2>4, <2>5, <2>6, ThreadTypes
<1>7. ASSUME GoTo(t, "write"), process' = [process EXCEPT ![s].texts = Failed.texts],
             UNCHANGED kernel
      PROVE  TypeInv'
  <2> DEFINE q == [process[s] EXCEPT !.texts = Failed.texts]
  <2>1. q \in Process /\ q.command = process[s].command
    BY <1>1, <1>2, ChangedProcess
  <2>2. process' = [process EXCEPT ![s] = q]
    BY <1>7
  <2>3. /\ descriptors' \in [Id -> Elements] /\ filled' \in [Pipes -> 0 .. BufferSize]
        /\ closed' \in [Pipes -> BOOLEAN] /\ is_eof' \in BOOLEAN
    BY <1>1, <1>7, TypesStay DEF kernel
  <2>6. PICK step \in {"write"} : at' = [at EXCEPT ![t] = step]
    BY <1>7 DEF GoTo
  <2>4. at'[t] # "writing" /\ step \in Steps \ {"none", "writing", "reading"}
    BY <1>1, <2>6 DEF TypeInv, TypeOK, Steps
  <2>5. at'[Main(s)] = "writing" => q.texts # << >>
    BY <2>4
  <2> HIDE DEF t, q
  <2> QED BY <1>1, <1>3, <1>4, <1>9, <2>1, <2>2, <2>3, <2>4, <2>5, <2>6, ThreadTypes
<1>8. Element("proc", Nothing) \in Elements /\ (Openable(file) => Element("file", file) \in Elements)
  BY ElementTypes DEF Openable
<1> QED BY <1>5, <1>6, <1>7, <1>8 DEF Begin

(* A step that only moves a thread on, to something else than a call. *)
LEMMA MovesOn ==
  ASSUME TypeInv, NEW s \in Slots, NEW t \in {Main(s), Checker(s)}, at[t] # "none",
         shell' = shell, typed' = typed,
         descriptors' \in [Id -> Elements], filled' \in [Pipes -> 0 .. BufferSize],
         closed' \in [Pipes -> BOOLEAN], is_eof' \in BOOLEAN,
         NEW step \in Steps \ {"none", "reading", "writing"}, at' = [at EXCEPT ![t] = step],
         t = Checker(s) => step \in {"read", "ended"} /\ at[t] # "ended",
         step # "begin", step = "create_thread" => IsRgen(s) /\ at[Checker(s)] = "none",
         t = Main(s) /\ step = "ended" => at[Checker(s)] \in {"none", "ended"},
         call' = [call EXCEPT ![t] = None], process' = process
  PROVE  TypeInv'
<1>1. process[s] # NoProcess /\ t \in Thread
  BY Running
<1>2. process' = [process EXCEPT ![s] = process[s]] /\ process[s] \in Process
  BY <1>1, SameOfThread, ProcessFields
<1>3. at'[Main(s)] = "writing" => at[Main(s)] = "writing"
  BY <1>1, ThreadFacts DEF TypeInv, TypeOK
<1>4. at'[Main(s)] = "writing" => process[s].texts # << >>
  BY <1>3, ThreadFacts DEF TypeInv, Threads
<1>5. None \in Elements /\ step \in Steps \ {"none"}
  BY ElementTypes
<1>6. process[s].command = process[s].command
  OBVIOUS
<1> QED BY <1>1, <1>2, <1>4, <1>5, ThreadTypes

(* Where a thread goes at the end of its input. *)
LEMMA EofSteps ==
  ASSUME NEW s \in Slots, NEW t \in {Main(s), Checker(s)}, AtEof(t)
  PROVE  /\ is_eof' = is_eof \/ is_eof' = TRUE
         /\ \E step \in {"write", "close", "ended"} :
              /\ at' = [at EXCEPT ![t] = step] /\ (t = Checker(s) <=> step = "ended")
<1>1. t[1] = s
  BY ThreadFacts
<1> QED BY <1>1, ThreadFacts DEF AtEof, GoTo

(* Types at the end of input. *)
LEMMA EofTypes ==
  ASSUME TypeInv, NEW s \in Slots, NEW t \in {Main(s), Checker(s)}, at[t] \in {"read", "reading"}, AtEof(t),
         shell' = shell, typed' = typed, descriptors' = descriptors, process' = process,
         filled' \in [Pipes -> 0 .. BufferSize], closed' \in [Pipes -> BOOLEAN],
         call' = [call EXCEPT ![t] = None]
  PROVE  TypeInv'
<1>1. PICK step \in {"write", "close", "ended"} :
        at' = [at EXCEPT ![t] = step] /\ (t = Checker(s) <=> step = "ended")
  BY EofSteps
<1>2. is_eof' \in BOOLEAN /\ descriptors' \in [Id -> Elements]
  BY EofSteps DEF TypeInv, TypeOK
<1>3. /\ step \in Steps \ {"none", "reading", "writing"}
      /\ t = Checker(s) => step \in {"read", "ended"} /\ at[t] # "ended"
      /\ at[t] # "none" /\ (t = Main(s) => step # "ended") /\ step \notin {"begin", "create_thread"}
  BY <1>1, ThreadFacts DEF Steps
<1> QED BY <1>1, <1>2, <1>3, MovesOn

(* Types through the reads. *)
LEMMA ReadTypes ==
  ASSUME TypeInv, NEW s \in Slots, NEW t \in {Main(s), Checker(s)}, Read(t)
  PROVE  TypeInv'
<1> DEFINE id == process[s].handle
           kind == descriptors[id].kind
<1>1. /\ at[t] = "read" /\ process[s] # NoProcess /\ t \in Thread /\ t[1] = s
      /\ shell' = shell /\ typed' = typed /\ UNCHANGED kernel
  BY Running DEF Read, OfShell
<1>2. /\ descriptors' = descriptors
      /\ descriptors' \in [Id -> Elements] /\ filled' \in [Pipes -> 0 .. BufferSize]
      /\ closed' \in [Pipes -> BOOLEAN]
  BY <1>1, TypesStay DEF kernel
<1>3. call[t] = None /\ call = [call EXCEPT ![t] = None] /\ None \in Elements
  BY <1>1, SameOfThread, ElementTypes DEF TypeInv, Threads
<1>4. process[s] \in Process /\ descriptors[id] \in Elements
  BY <1>1, ProcessFields DEF TypeInv, TypeOK
<1>5. at = [at EXCEPT ![t] = "read"] /\ process = [process EXCEPT ![s] = process[s]]
  BY <1>1, SameOfThread
<1>6. at[Main(s)] = "writing" => process[s].texts # << >>
  BY ThreadFacts DEF TypeInv, Threads
<1>7. CASE /\ kind = "read" /\ call' = [call EXCEPT ![t] = descriptors[id]]
           /\ GoTo(t, "reading") /\ UNCHANGED <<process, is_eof>>
  <2>1. at' = [at EXCEPT ![t] = "reading"] /\ "reading" \in Steps \ {"none"}
    BY <1>7 DEF GoTo, Steps
  <2>2. at'[Main(s)] = "writing" => at[Main(s)] = "writing"
    BY <1>1, <2>1, ThreadFacts DEF TypeInv, TypeOK
  <2>3. is_eof' \in BOOLEAN /\ process' = [process EXCEPT ![s] = process[s]]
    BY <1>5, <1>7, TypesStay
  <2> QED BY <1>1, <1>2, <1>4, <1>6, <1>7, <2>1, <2>2, <2>3, ThreadTypes
<1>8. CASE /\ kind \in {"file", "proc"} /\ process[s].left > 0
           /\ process' = [process EXCEPT ![s].left = @ - 1] /\ UNCHANGED <<at, call, is_eof>>
  <2> DEFINE q == [process[s] EXCEPT !.left = process[s].left - 1]
  <2>1. process[s].left - 1 \in Nat
    BY <1>1, <1>8, ProcessFields
  <2>2. q \in Process /\ q.command = process[s].command /\ q.texts = process[s].texts
    BY <1>1, <2>1, ChangedProcess
  <2>3. process' = [process EXCEPT ![s] = q]
    BY <1>8
  <2>4. is_eof' \in BOOLEAN /\ at' = [at EXCEPT ![t] = "read"] /\ call' = [call EXCEPT ![t] = None]
    BY <1>3, <1>5, <1>8, TypesStay
  <2>5. "read" \in Steps \ {"none"}
    BY DEF Steps
  <2>6. at'[Main(s)] = "writing" => q.texts # << >>
    BY <1>6, <1>8, <2>2
  <2> HIDE DEF q
  <2> QED BY <1>1, <1>2, <1>3, <2>2, <2>3, <2>4, <2>5, <2>6, ThreadTypes
<1>9. CASE AtEof(t) /\ UNCHANGED <<process, call>>
  BY <1>1, <1>2, <1>3, <1>9, EofTypes
<1>10. CASE /\ process[s].command.program = "freq"
            /\ process' = [process EXCEPT ![s].texts = Failed.texts]
            /\ GoTo(t, "write") /\ UNCHANGED <<call, is_eof>>
  <2> DEFINE q == [process[s] EXCEPT !.texts = Failed.texts]
  <2>1. Failed.texts \in Seq(Nat) /\ Failed.texts # << >>
    BY DEF Failed
  <2>2. q \in Process /\ q.command = process[s].command /\ q.texts = Failed.texts
    BY <1>1, <2>1, ChangedProcess
  <2>3. process' = [process EXCEPT ![s] = q]
    BY <1>10
  <2>4. is_eof' \in BOOLEAN /\ at' = [at EXCEPT ![t] = "write"] /\ call' = [call EXCEPT ![t] = None]
    BY <1>3, <1>10, TypesStay DEF GoTo
  <2>5. "write" \in Steps \ {"none"} /\ t # Checker(s)
    BY <1>1, <1>10 DEF Steps, TypeInv, Threads, IsRgen
  <2> HIDE DEF q
  <2> QED BY <1>1, <1>2, <1>3, <2>1, <2>2, <2>3, <2>4, <2>5, ThreadTypes
<1> QED BY <1>1, <1>7, <1>8, <1>9, <1>10 DEF Read

(* Types when the user types something. *)
LEMMA ReadConsoleTypes ==
  ASSUME TypeInv, NEW t \in Thread, ReadConsole(t)
  PROVE  TypeInv'
<1>1. /\ at[t] = "read" /\ shell' = shell /\ typed' = typed
      /\ UNCHANGED kernel /\ process' = process /\ call' = call
      /\ AtEof(t) \/ UNCHANGED <<at, is_eof>>
  BY DEF ReadConsole, OfShell
<1>2. PICK s \in Slots : t \in {Main(s), Checker(s)}
  BY ThreadFacts
<1>3. /\ descriptors' = descriptors
      /\ descriptors' \in [Id -> Elements] /\ filled' \in [Pipes -> 0 .. BufferSize]
      /\ closed' \in [Pipes -> BOOLEAN]
  BY <1>1, TypesStay DEF kernel
<1>4. call = [call EXCEPT ![t] = None] /\ at = [at EXCEPT ![t] = "read"]
  BY <1>1, SameOfThread, <1>2 DEF TypeInv, Threads
<1>5. CASE AtEof(t)
  BY <1>1, <1>2, <1>3, <1>4, <1>5, EofTypes
<1>6. CASE UNCHANGED <<at, is_eof>>
  <2>1. is_eof' \in BOOLEAN /\ "read" \in Steps \ {"none", "reading", "writing"}
    BY <1>6, TypesStay DEF Steps
  <2> QED BY <1>1, <1>2, <1>3, <1>4, <1>6, <2>1, MovesOn
<1> QED BY <1>1, <1>5, <1>6

(* Types through a read of a pipe. *)
LEMMA ReadPipeTypes ==
  ASSUME TypeInv, NEW s \in Slots, NEW t \in {Main(s), Checker(s)}, ReadPipe(t)
  PROVE  TypeInv'
<1> DEFINE k == call[t].of
           bytes == Min({filled[k], ReadLimit})
<1>1. /\ at[t] = "reading" /\ process[s] # NoProcess /\ t \in Thread /\ t[1] = s
      /\ shell' = shell /\ typed' = typed /\ descriptors' = descriptors /\ process' = process
      /\ call' = [call EXCEPT ![t] = None] /\ closed' = Closed(descriptors, call')
      /\ filled' = [filled EXCEPT ![k] = filled[k] - bytes]
      /\ AtEof(t) \/ (GoTo(t, "read") /\ is_eof' = is_eof)
  BY Running DEF ReadPipe, OfShell, Return
<1>2. call[t] \in Elements /\ call[t].kind = "read"
  BY <1>1 DEF TypeInv, TypeOK, Threads
<1>3. k \in Pipes
  BY <1>2, ElementIs
<1>4. filled[k] \in 0 .. BufferSize
  BY <1>3 DEF TypeInv, TypeOK
<1>5. bytes \in Nat /\ bytes <= filled[k]
  BY <1>4, MinOfTwo
<1> HIDE DEF k, bytes
<1>6. filled' \in [Pipes -> 0 .. BufferSize]
  <2>1. filled[k] - bytes \in 0 .. BufferSize
    BY <1>4, <1>5
  <2> QED BY <1>1, <2>1 DEF TypeInv, TypeOK
<1>7. closed' \in [Pipes -> BOOLEAN] /\ descriptors' \in [Id -> Elements]
  BY <1>1, TypesStay
<1>8. CASE AtEof(t)
  BY <1>1, <1>6, <1>7, <1>8, EofTypes
<1>9. CASE GoTo(t, "read") /\ is_eof' = is_eof
  <2>1. PICK step \in {"read"} : at' = [at EXCEPT ![t] = step]
    BY <1>9 DEF GoTo
  <2>2. step \in Steps \ {"none", "reading", "writing"} /\ is_eof' \in BOOLEAN
    BY <1>9, TypesStay DEF Steps
  <2> QED BY <1>1, <1>6, <1>7, <2>1, <2>2, MovesOn
<1> QED BY <1>1, <1>8, <1>9

(* Types when a program closes a handle. *)
LEMMA CloseTypes ==
  ASSUME TypeInv, NEW s \in Slots, Close(s)
  PROVE  TypeInv'
<1>1. /\ at[Main(s)] = "close" /\ process[s] # NoProcess /\ Main(s) \in Thread
      /\ shell' = shell /\ typed' = typed /\ process' = process /\ call' = call /\ is_eof' = is_eof
      /\ CloseHandle(process[s].handle) /\ GoTo(Main(s), "write")
  BY Running DEF Close, OfShell
<1>2. process[s].handle \in Id
  BY <1>1, ProcessFields
<1>3. /\ descriptors' \in [Id -> Elements] /\ filled' \in [Pipes -> 0 .. BufferSize]
      /\ closed' \in [Pipes -> BOOLEAN] /\ is_eof' \in BOOLEAN
  BY <1>1, <1>2, ElementTypes, ClosedType DEF CloseHandle, TypeInv, TypeOK
<1>4. call' = [call EXCEPT ![Main(s)] = None]
  BY <1>1, SameOfThread DEF TypeInv, Threads
<1>5. PICK step \in {"write"} : at' = [at EXCEPT ![Main(s)] = step]
  BY <1>1 DEF GoTo
<1>6. PICK t \in {Main(s), Checker(s)} : t = Main(s) /\ t # Checker(s)
  BY ThreadFacts
<1>7. step \in Steps \ {"none", "reading", "writing"}
  BY DEF Steps
<1> QED BY <1>1, <1>3, <1>4, <1>5, <1>6, <1>7, MovesOn

(* Types when a program calls Write_File. *)
LEMMA WriteTypes ==
  ASSUME TypeInv, NEW s \in Slots, Write(s)
  PROVE  TypeInv'
<1> DEFINE element == descriptors[process[s].handle_out]
           q == [process[s] EXCEPT !.texts = Tail(process[s].texts)]
<1>1. /\ at[Main(s)] = "write" /\ process[s].texts # << >> /\ process[s] # NoProcess /\ Main(s) \in Thread
      /\ shell' = shell /\ typed' = typed /\ is_eof' = is_eof /\ UNCHANGED kernel
  BY Running DEF Write, OfShell
<1>2. PICK t \in {Main(s), Checker(s)} : t = Main(s) /\ t # Checker(s)
  BY ThreadFacts
<1>3. /\ descriptors' \in [Id -> Elements] /\ filled' \in [Pipes -> 0 .. BufferSize]
      /\ closed' \in [Pipes -> BOOLEAN] /\ is_eof' \in BOOLEAN
  BY <1>1, TypesStay DEF kernel
<1>4. process[s] \in Process /\ element \in Elements /\ Tail(process[s].texts) \in Seq(Nat)
  BY <1>1, ProcessFields DEF TypeInv, TypeOK
<1>5. call[t] = None /\ call = [call EXCEPT ![t] = None] /\ None \in Elements
  BY <1>1, <1>2, SameOfThread, ElementTypes DEF TypeInv, Threads
<1>6. CASE /\ element.kind = "write" /\ call' = [call EXCEPT ![Main(s)] = element]
           /\ GoTo(Main(s), "writing") /\ UNCHANGED process
  <2>1. PICK step \in {"writing"} : at' = [at EXCEPT ![t] = step]
    BY <1>2, <1>6 DEF GoTo
  <2>2. step \in Steps \ {"none"} /\ process' = [process EXCEPT ![s] = process[s]]
    BY <1>1, <1>6, SameOfThread DEF Steps
  <2> HIDE DEF element
  <2> QED BY <1>1, <1>2, <1>3, <1>4, <1>6, <2>1, <2>2, ThreadTypes
<1>7. CASE process' = [process EXCEPT ![s].texts = Tail(@)] /\ UNCHANGED <<at, call>>
  <2>1. q \in Process /\ q.command = process[s].command
    BY <1>1, <1>4, ChangedProcess
  <2>2. process' = [process EXCEPT ![s] = q]
    BY <1>7
  <2>3. PICK step \in {"write"} : at' = [at EXCEPT ![t] = step]
    BY <1>1, <1>2, <1>7, SameOfThread
  <2>4. step \in Steps \ {"none"} /\ at'[Main(s)] # "writing"
    BY <1>1, <1>7 DEF Steps
  <2>5. call' = [call EXCEPT ![t] = None]
    BY <1>5, <1>7
  <2> HIDE DEF q
  <2> QED BY <1>1, <1>2, <1>3, <1>5, <2>1, <2>2, <2>3, <2>4, <2>5, ThreadTypes
<1> QED BY <1>6, <1>7 DEF Write

(* Types through a turn of a write to a pipe. *)
LEMMA WritePipeTypes ==
  ASSUME TypeInv, NEW s \in Slots, WritePipe(s)
  PROVE  TypeInv'
<1> DEFINE k == call[Main(s)].of
           texts == process[s].texts
           bytes == Fitting(Head(texts), k)
           rest == Head(texts) - bytes
           q(new) == [process[s] EXCEPT !.texts = new]
<1>1. /\ at[Main(s)] = "writing" /\ process[s] # NoProcess /\ Main(s) \in Thread
      /\ shell' = shell /\ typed' = typed /\ descriptors' = descriptors /\ is_eof' = is_eof
      /\ filled' = [filled EXCEPT ![k] = filled[k] + bytes]
      /\ \/ /\ process' = [process EXCEPT ![s].texts = Tail(@)]
            /\ GoTo(Main(s), "write") /\ Return(Main(s))
         \/ /\ process' = [process EXCEPT ![s].texts = <<rest>> \o Tail(@)]
            /\ UNCHANGED <<at, call, closed>>
  BY Running DEF WritePipe, OfShell
<1>2. PICK t \in {Main(s), Checker(s)} : t = Main(s) /\ t # Checker(s)
  BY ThreadFacts
<1>3. /\ call[Main(s)] \in Elements /\ call[Main(s)].kind = "write" /\ texts # << >>
      /\ texts \in Seq(Nat) /\ process[s] \in Process
  <2>1. call[Main(s)] \in Elements
    BY <1>1 DEF TypeInv, TypeOK
  <2>2. call[Main(s)].kind = "write" /\ texts # << >>
    BY <1>1, ThreadFacts DEF TypeInv, Threads
  <2> QED BY <1>1, <2>1, <2>2, ProcessFields
<1>4. k \in Pipes
  BY <1>3, ElementIs
<1>5. filled[k] \in 0 .. BufferSize /\ Head(texts) \in Nat /\ Tail(texts) \in Seq(Nat)
  <2>1. filled[k] \in 0 .. BufferSize
    BY <1>4 DEF TypeInv, TypeOK
  <2> HIDE DEF k, texts
  <2> QED BY <1>3, <2>1, HeadTailProperties
<1>6. /\ bytes \in Nat /\ bytes <= Head(texts) /\ bytes <= BufferSize - filled[k]
  <2> HIDE DEF k, texts
  <2>1. BufferSize - filled[k] \in Nat
    BY <1>5
  <2> QED BY <1>5, <2>1, MinOfTwo DEF Fitting
<1> HIDE DEF k, bytes
<1>7. filled' \in [Pipes -> 0 .. BufferSize]
  <2>1. filled[k] + bytes \in 0 .. BufferSize
    BY <1>5, <1>6
  <2> QED BY <1>1, <2>1 DEF TypeInv, TypeOK
<1>8. descriptors' \in [Id -> Elements] /\ is_eof' \in BOOLEAN /\ None \in Elements
  BY <1>1, TypesStay, ElementTypes
<1>9. CASE /\ process' = [process EXCEPT ![s].texts = Tail(@)]
           /\ GoTo(Main(s), "write") /\ Return(Main(s))
  <2> DEFINE r == q(Tail(texts))
  <2>1. r \in Process /\ r.command = process[s].command
    BY <1>1, <1>5, ChangedProcess
  <2>2. process' = [process EXCEPT ![s] = r]
    BY <1>9
  <2>3. PICK step \in {"write"} : at' = [at EXCEPT ![t] = step]
    BY <1>2, <1>9 DEF GoTo
  <2>4. step \in Steps \ {"none"} /\ at'[Main(s)] # "writing"
    BY <1>1, <1>2, <2>3 DEF Steps, TypeInv, TypeOK
  <2>5. call' = [call EXCEPT ![t] = None] /\ closed' \in [Pipes -> BOOLEAN]
    BY <1>2, <1>9, TypesStay DEF Return
  <2> HIDE DEF r
  <2> QED BY <1>1, <1>2, <1>7, <1>8, <2>1, <2>2, <2>3, <2>4, <2>5, ThreadTypes
<1>10. CASE /\ process' = [process EXCEPT ![s].texts = <<rest>> \o Tail(@)]
            /\ UNCHANGED <<at, call, closed>>
  <2> DEFINE r == q(<<rest>> \o Tail(texts))
  <2>1. rest \in Nat
    BY <1>5, <1>6
  <2>2. <<rest>> \o Tail(texts) \in Seq(Nat) /\ <<rest>> \o Tail(texts) # << >>
    <3>1. <<rest>> \in Seq(Nat) /\ Len(<<rest>>) = 1
      BY <2>1
    <3> QED BY <1>5, <3>1, ConcatProperties, EmptySeq
  <2>3. r \in Process /\ r.command = process[s].command /\ r.texts # << >>
    BY <1>1, <2>2, ChangedProcess
  <2>4. process' = [process EXCEPT ![s] = r]
    BY <1>10
  <2>5. PICK step \in {"writing"} : at' = [at EXCEPT ![t] = step]
    BY <1>1, <1>2, <1>10, SameOfThread
  <2>6. step \in Steps \ {"none"} /\ closed' \in [Pipes -> BOOLEAN]
    BY <1>10, TypesStay DEF Steps
  <2>7. call' = [call EXCEPT ![t] = call[t]] /\ call[t] \in Elements /\ call[t].kind = "write"
    BY <1>1, <1>2, <1>3, <1>10, SameOfThread
  <2> HIDE DEF r
  <2> QED BY <1>1, <1>2, <1>7, <1>8, <2>3, <2>4, <2>5, <2>6, <2>7, ThreadTypes
<1> QED BY <1>1, <1>9, <1>10

(* Types through the steps in a program's memory, and at its end. *)
LEMMA LocalTypes ==
  ASSUME TypeInv, NEW s \in Slots, End(s) \/ ClearFlag(s) \/ Loop(s) \/ Join(s)
  PROVE  TypeInv'
<1>1. /\ at[Main(s)] \in {"write", "begin", "join"} /\ process[s] # NoProcess /\ Main(s) \in Thread
      /\ shell' = shell /\ typed' = typed /\ UNCHANGED kernel /\ call' = call /\ is_eof' \in BOOLEAN
  BY Running, TypesStay DEF End, ClearFlag, Loop, Join, OfShell
<1>2. PICK t \in {Main(s), Checker(s)} : t = Main(s) /\ t # Checker(s)
  BY ThreadFacts
<1>3. /\ descriptors' \in [Id -> Elements] /\ filled' \in [Pipes -> 0 .. BufferSize]
      /\ closed' \in [Pipes -> BOOLEAN]
  BY <1>1, TypesStay DEF kernel
<1>4. call' = [call EXCEPT ![t] = None]
  BY <1>1, <1>2, SameOfThread DEF TypeInv, Threads
<1>5. ASSUME process' = process, NEW step \in {"ended", "create_thread", "join"}, GoTo(Main(s), step),
             step = "create_thread" => ClearFlag(s), step = "ended" => End(s) \/ Join(s)
      PROVE  TypeInv'
  <2>1. at' = [at EXCEPT ![t] = step]
    BY <1>2, <1>5 DEF GoTo
  <2>2. step \in Steps \ {"none", "reading", "writing"}
    BY DEF Steps
  <2>3. step = "create_thread" => IsRgen(s) /\ at[Checker(s)] = "none"
    BY <1>5 DEF ClearFlag, TypeInv, Threads
  <2>4. step = "ended" => at[Checker(s)] \in {"none", "ended"}
    BY <1>5 DEF End, Join, TypeInv, Threads
  <2> QED BY <1>1, <1>2, <1>3, <1>4, <1>5, <2>1, <2>2, <2>3, <2>4, MovesOn
<1>6. CASE at[Main(s)] = "write" /\ at' = at /\ process' = [process EXCEPT ![s].texts = <<1>>]
  <2> DEFINE q == [process[s] EXCEPT !.texts = <<1>>]
  <2>1. <<1>> \in Seq(Nat)
    OBVIOUS
  <2>2. q \in Process /\ q.command = process[s].command
    BY <1>1, <2>1, ChangedProcess
  <2>3. process' = [process EXCEPT ![s] = q]
    BY <1>6
  <2>4. PICK step \in {"write"} : at' = [at EXCEPT ![t] = step]
    BY <1>1, <1>2, <1>6, SameOfThread
  <2>5. step \in Steps \ {"none", "reading", "writing"} /\ at'[Main(s)] # "writing"
    BY <1>1, <1>2, <1>6 DEF Steps
  <2>6. None \in Elements
    BY ElementTypes
  <2> HIDE DEF q
  <2> QED BY <1>1, <1>2, <1>3, <1>4, <2>2, <2>3, <2>4, <2>5, <2>6, ThreadTypes
<1>7. CASE End(s)
  BY <1>5, <1>7 DEF End
<1>8. CASE ClearFlag(s)
  BY <1>5, <1>8 DEF ClearFlag
<1>9. CASE Loop(s)
  BY <1>5, <1>6, <1>9 DEF Loop
<1>10. CASE Join(s)
  BY <1>5, <1>10 DEF Join
<1> QED BY <1>7, <1>8, <1>9, <1>10

(* Types when rgen starts its second thread. *)
LEMMA CreateThreadTypes ==
  ASSUME TypeInv, NEW s \in Slots, CreateThread(s)
  PROVE  TypeInv'
<1>1. /\ at[Main(s)] = "create_thread" /\ process[s] # NoProcess
      /\ shell' = shell /\ typed' = typed /\ UNCHANGED kernel /\ process' = process
      /\ call' = call /\ is_eof' = is_eof
      /\ at' = [at EXCEPT ![Main(s)] = "write", ![Checker(s)] = "read"]
  BY Running DEF CreateThread, OfShell
<1>2. /\ at' \in [Thread -> Steps] /\ at'[Main(s)] = "write" /\ at'[Checker(s)] = "read"
      /\ \A t \in Thread \ {Main(s), Checker(s)} : at'[t] = at[t]
  BY <1>1, ThreadFacts DEF TypeInv, TypeOK, Steps
<1>3. \A o \in Slots : at'[Main(o)] = "none" <=> at[Main(o)] = "none"
  <2> TAKE o \in Slots
  <2>1. Main(o) # Checker(s) /\ Main(o) \in Thread
    BY ThreadFacts
  <2> QED BY <1>1, <1>2, <2>1
<1>4. TypeOK'
  BY <1>1, <1>2, <1>3 DEF TypeInv, TypeOK, Shell, kernel
<1>5. Script'
  BY <1>1 DEF TypeInv, Script, Creating, Ending, Size, Made, Gone, Idle
<1>6. Threads'
  <2>1. ASSUME NEW o \in Slots
        PROVE  /\ at'[Checker(o)] \in {"none", "read", "reading", "ended"}
               /\ at'[Checker(o)] # "none" => process'[o] # NoProcess /\ IsRgen(o)'
               /\ at'[Main(o)] \in {"begin", "create_thread"} => at'[Checker(o)] = "none"
               /\ at'[Main(o)] = "create_thread" => IsRgen(o)'
               /\ at'[Main(o)] = "ended" => at'[Checker(o)] \in {"none", "ended"}
    <3>1. CASE o = s
      BY <1>1, <1>2, <3>1 DEF IsRgen, TypeInv, Threads
    <3>2. CASE o # s
      <4>1. at'[Checker(o)] = at[Checker(o)] /\ at'[Main(o)] = at[Main(o)]
        <5>1. Checker(o) \in Thread \ {Main(s), Checker(s)} /\ Main(o) \in Thread \ {Main(s), Checker(s)}
          BY <3>2, ThreadFacts
        <5> QED BY <1>2, <5>1
      <4> QED BY <1>1, <4>1 DEF TypeInv, Threads, IsRgen
    <3> QED BY <3>1, <3>2
  <2>2. ASSUME NEW t \in Thread
        PROVE  /\ at'[t] = "reading" => call'[t].kind = "read"
               /\ at'[t] = "writing" => call'[t].kind = "write" /\ process'[t[1]].texts # << >>
               /\ at'[t] \notin {"reading", "writing"} => call'[t] = None
    <3>1. CASE t \in {Main(s), Checker(s)}
      <4>1. at[Checker(s)] = "none"
        BY <1>1 DEF TypeInv, Threads
      <4> QED BY <1>1, <1>2, <3>1, <4>1 DEF TypeInv, Threads
    <3>2. CASE t \notin {Main(s), Checker(s)}
      BY <1>1, <1>2, <3>2 DEF TypeInv, Threads
    <3> QED BY <3>1, <3>2
  <2> QED BY <1>1, <2>1, <2>2 DEF Threads, TypeInv
<1> QED BY <1>4, <1>5, <1>6 DEF TypeInv

(* A step of the shell that changes no program. *)
LEMMA ShellTypes ==
  ASSUME TypeInv, process' = process, at' = at, call' = call, is_eof' = is_eof,
         descriptors' \in [Id -> Elements], filled' \in [Pipes -> 0 .. BufferSize],
         closed' \in [Pipes -> BOOLEAN], typed' \in Seq(Lines), shell' \in Shell, Script'
  PROVE  TypeInv'
<1>1. /\ shell'.pc \notin {"prompt", "files"} => shell'.index \in DOMAIN shell'.line
      /\ shell'.pc \in {"wait", "close_in", "close_out"} => Len(shell'.handles) = Len(shell'.line)
  <2>1. DOMAIN shell'.line = 1 .. Size'
    <3>1. shell'.line \in Lines \/ shell'.line = << >>
      BY DEF Shell
    <3>2. ASSUME shell'.line \in Lines
          PROVE  DOMAIN shell'.line = 1 .. Size'
      BY <3>2, LineFacts DEF Size
    <3> QED BY <3>1, <3>2 DEF Size
  <2>2. shell'.pc \in {"prompt", "input", "output", "process", "wait", "close_in", "close_out", "files"}
    BY DEF Shell
  <2> QED BY <2>1, <2>2 DEF Script, Creating, Ending, Size
<1>2. TypeOK'
  BY <1>1 DEF TypeInv, TypeOK
<1>3. Threads'
  BY DEF TypeInv, Threads, IsRgen
<1> QED BY <1>2, <1>3 DEF TypeInv

(* Opening and closing keep the kernel's types. *)
LEMMA KernelTypes ==
  ASSUME TypeInv
  PROVE  /\ UNCHANGED kernel => /\ descriptors' \in [Id -> Elements] /\ filled' \in [Pipes -> 0 .. BufferSize]
                                /\ closed' \in [Pipes -> BOOLEAN]
         /\ \A e \in Elements : Free # {} /\ Open(e) =>
              /\ descriptors' \in [Id -> Elements] /\ filled' \in [Pipes -> 0 .. BufferSize]
              /\ closed' \in [Pipes -> BOOLEAN] /\ Min(Free) \in Id
         /\ \A id : CloseHandle(id) =>
              /\ descriptors' \in [Id -> Elements] /\ filled' \in [Pipes -> 0 .. BufferSize]
              /\ closed' \in [Pipes -> BOOLEAN]
<1>1. UNCHANGED kernel => /\ descriptors' \in [Id -> Elements] /\ filled' \in [Pipes -> 0 .. BufferSize]
                          /\ closed' \in [Pipes -> BOOLEAN]
  BY TypesStay DEF kernel
<1>2. ASSUME NEW e \in Elements, Free # {}, Open(e)
      PROVE  /\ descriptors' \in [Id -> Elements] /\ filled' \in [Pipes -> 0 .. BufferSize]
             /\ closed' \in [Pipes -> BOOLEAN] /\ Min(Free) \in Id
  BY <1>2, FreeFacts DEF Open, TypeInv, TypeOK
<1>3. ASSUME NEW id, CloseHandle(id)
      PROVE  /\ descriptors' \in [Id -> Elements] /\ filled' \in [Pipes -> 0 .. BufferSize]
             /\ closed' \in [Pipes -> BOOLEAN]
  BY <1>3, ElementTypes, ClosedType DEF CloseHandle, TypeInv, TypeOK
<1> QED BY <1>1, <1>2, <1>3

(* The prompt. *)
LEMMA IdleFacts ==
  /\ Idle \in Shell /\ Idle.pc = "prompt" /\ Idle.index = 1 /\ Idle.line = << >> /\ Idle.handles = << >>
  /\ Idle.used_pipes = << >> /\ Idle.pipe_queue = << >> /\ Idle.opened_files = << >>
BY FreeFacts DEF Idle, Shell

(* Back at the prompt. *)
LEMMA PromptTypes ==
  ASSUME TypeInv, process' = process, at' = at, call' = call, is_eof' = is_eof, UNCHANGED kernel,
         typed' = typed, shell' = Idle
  PROVE  TypeInv'
<1>1. shell' \in Shell
  BY IdleFacts
<1>2. Script'
  BY IdleFacts DEF Script, Creating, Ending
<1>3. typed' \in Seq(Lines)
  BY DEF TypeInv, TypeOK
<1> QED BY <1>1, <1>2, <1>3, ShellTypes, KernelTypes

(* Types when a line is typed. *)
LEMMA TypeTypes ==
  ASSUME TypeInv, NEW line \in Lines, Type(line)
  PROVE  TypeInv'
<1>1. /\ typed' = Append(typed, line) /\ shell' = [Idle EXCEPT !.pc = "input", !.line = line]
      /\ UNCHANGED <<kernel, process, at, OfPrograms>>
  BY DEF Type
<1>2. /\ shell' \in Shell /\ shell'.pc = "input" /\ shell'.line = line /\ shell'.index = 1
      /\ shell'.handles = << >> /\ shell'.used_pipes = << >> /\ shell'.pipe_queue = << >>
  BY <1>1, IdleFacts DEF Shell, Idle
<1>3. typed' \in Seq(Lines) /\ Len(typed') > 0 /\ typed'[Len(typed')] = line
  BY <1>1, AppendProperties DEF TypeInv, TypeOK
<1>4. Len(line) \in Nat /\ Len(line) > 0
  BY LineFacts
<1>5. Script'
  BY <1>2, <1>3, <1>4 DEF Script, Creating, Ending, Made, Gone, Size
<1> QED BY <1>1, <1>2, <1>3, <1>5, ShellTypes, KernelTypes DEF OfPrograms

(* The parts of the state that the shell's steps leave alone. *)
LEMMA ShellSame ==
  ASSUME TypeInv
  PROVE  /\ shell \in Shell /\ typed \in Seq(Lines)
         /\ \A pc \in {"prompt", "input", "output", "process", "wait", "close_in", "close_out", "files"} :
              [shell EXCEPT !.pc = pc] \in Shell
BY DEF TypeInv, TypeOK, Shell

(* Giving a line up, or going on to the files when all is done. *)
LEMMA FilesTypes ==
  ASSUME TypeInv, process' = process, at' = at, call' = call, is_eof' = is_eof,
         descriptors' \in [Id -> Elements], filled' \in [Pipes -> 0 .. BufferSize],
         closed' \in [Pipes -> BOOLEAN], typed' = typed, shell.pc # "prompt",
         shell' \in Shell, shell'.pc = "files", shell'.line = shell.line
  PROVE  TypeInv'
<1>1. Script'
  BY DEF TypeInv, Script, Creating, Ending
<1> QED BY <1>1, ShellTypes DEF TypeInv, TypeOK

(* Types when the shell opens an input file. *)
LEMMA OpenInputTypes ==
  ASSUME TypeInv, OpenInput
  PROVE  TypeInv'
<1> DEFINE file == CurrentCommand.input
<1>1. shell.pc = "input" /\ UNCHANGED <<process, at, call, is_eof, typed>>
  BY DEF OpenInput, OfPrograms
<1>2. shell \in Shell /\ shell.pc # "prompt"
  BY <1>1, ShellSame
<1>3. ASSUME NEW in \in Id, NEW files \in Seq(Id),
             shell' = [shell EXCEPT !.pc = "output", !.handle_in = in, !.opened_files = files],
             descriptors' \in [Id -> Elements], filled' \in [Pipes -> 0 .. BufferSize],
             closed' \in [Pipes -> BOOLEAN]
      PROVE  TypeInv'
  <2>1. /\ shell' \in Shell /\ shell'.pc = "output" /\ shell'.line = shell.line
        /\ shell'.index = shell.index /\ shell'.handles = shell.handles
        /\ shell'.used_pipes = shell.used_pipes /\ shell'.pipe_queue = shell.pipe_queue
    BY <1>2, <1>3 DEF Shell
  <2>2. Script'
    BY <1>1, <2>1 DEF TypeInv, Script, Creating, Ending, Made, Gone, Size
  <2> QED BY <1>1, <1>3, <2>1, <2>2, ShellSame, ShellTypes
<1>4. CASE shell' = [shell EXCEPT !.pc = "output", !.handle_in = In] /\ UNCHANGED kernel
  <2>1. shell' = [shell EXCEPT !.pc = "output", !.handle_in = In, !.opened_files = shell.opened_files]
    BY <1>2, <1>4 DEF Shell
  <2>2. shell.opened_files \in Seq(Id) /\ In \in Id
    BY <1>2, ShellFields, FreeFacts
  <2> QED BY <1>3, <1>4, <2>1, <2>2, KernelTypes
<1>5. CASE /\ Openable(file) /\ Free # {} /\ Open(Element("file", file))
           /\ shell' = [shell EXCEPT !.pc = "output", !.handle_in = Min(Free),
                                     !.opened_files = Append(@, Min(Free))]
  <2>1. Element("file", file) \in Elements
    BY <1>5, ElementTypes DEF Openable
  <2>2. /\ descriptors' \in [Id -> Elements] /\ filled' \in [Pipes -> 0 .. BufferSize]
        /\ closed' \in [Pipes -> BOOLEAN] /\ Min(Free) \in Id
    BY <1>5, <2>1, KernelTypes
  <2>3. Append(shell.opened_files, Min(Free)) \in Seq(Id)
    BY <1>2, <2>2, ShellFields, AppendProperties
  <2> QED BY <1>3, <1>5, <2>2, <2>3
<1>6. CASE shell' = [shell EXCEPT !.pc = "files"] /\ UNCHANGED kernel
  <2>1. shell' \in Shell /\ shell'.pc = "files" /\ shell'.line = shell.line
    BY <1>2, <1>6 DEF Shell
  <2> QED BY <1>1, <1>2, <1>6, <2>1, KernelTypes, FilesTypes
<1> QED BY <1>4, <1>5, <1>6 DEF OpenInput

(* Types when the shell opens an output file or makes a pipe. *)
LEMMA OpenOutputTypes ==
  ASSUME TypeInv, OpenOutput
  PROVE  TypeInv'
<1> DEFINE file == CurrentCommand.output
<1>1. shell.pc = "output" /\ UNCHANGED <<process, at, call, is_eof, typed>>
  BY DEF OpenOutput, OfPrograms
<1>2. shell \in Shell /\ shell.pc # "prompt" /\ shell.index \in 1 .. Size
  BY <1>1, ShellSame DEF TypeInv, Script, Creating
<1>3. ASSUME NEW out \in Id, NEW files \in Seq(Id), shell.index = Size,
             shell' = [shell EXCEPT !.pc = "process", !.handle_out = out, !.opened_files = files],
             descriptors' \in [Id -> Elements], filled' \in [Pipes -> 0 .. BufferSize],
             closed' \in [Pipes -> BOOLEAN]
      PROVE  TypeInv'
  <2>1. /\ shell' \in Shell /\ shell'.pc = "process" /\ shell'.line = shell.line
        /\ shell'.index = shell.index /\ shell'.handles = shell.handles
        /\ shell'.used_pipes = shell.used_pipes /\ shell'.pipe_queue = shell.pipe_queue
    BY <1>2, <1>3 DEF Shell
  <2>3. /\ Len(shell.handles) = shell.index - 1 /\ Len(typed) > 0 /\ shell.line = typed[Len(typed)]
        /\ Len(shell.used_pipes) = IF shell.index = 1 THEN 0 ELSE 2 * shell.index - 3
        /\ Len(shell.used_pipes) + Len(shell.pipe_queue) = 2 * shell.index - 2
    BY <1>1 DEF TypeInv, Script, Creating, Ending, Made
  <2>4. /\ Creating' /\ ~Ending' /\ shell'.pc = "process" /\ Size' = Size /\ shell'.index = Size
        /\ Size \in Nat /\ typed' = typed
    BY <1>1, <1>2, <1>3, <2>1, ShellFields DEF Creating, Ending, Size
  <2>5. Made' = 2 * shell.index - 2
    BY <1>3, <2>1, <2>4 DEF Made
  <2>2. Script'
    BY <1>2, <2>1, <2>3, <2>4, <2>5 DEF Script
  <2> QED BY <1>1, <1>3, <2>1, <2>2, ShellSame, ShellTypes
<1>4. CASE /\ file = NoFile /\ IsLast
           /\ shell' = [shell EXCEPT !.pc = "process", !.handle_out = Out] /\ UNCHANGED kernel
  <2>1. shell' = [shell EXCEPT !.pc = "process", !.handle_out = Out, !.opened_files = shell.opened_files]
    BY <1>2, <1>4 DEF Shell
  <2>2. shell.opened_files \in Seq(Id) /\ Out \in Id
    BY <1>2, ShellFields, FreeFacts
  <2> QED BY <1>3, <1>4, <2>1, <2>2, KernelTypes DEF IsLast, Size
<1>5. CASE /\ Openable(file) /\ Free # {} /\ Open(Element("file", file))
           /\ shell' = [shell EXCEPT !.pc = "process", !.handle_out = Min(Free),
                                     !.opened_files = Append(@, Min(Free))]
  <2>1. Element("file", file) \in Elements /\ file # NoFile
    BY <1>5, ElementTypes DEF Openable
  <2>2. /\ descriptors' \in [Id -> Elements] /\ filled' \in [Pipes -> 0 .. BufferSize]
        /\ closed' \in [Pipes -> BOOLEAN] /\ Min(Free) \in Id
    BY <1>5, <2>1, KernelTypes
  <2>3. Append(shell.opened_files, Min(Free)) \in Seq(Id)
    BY <1>2, <2>2, ShellFields, AppendProperties
  <2>4. shell.index = Size
    <3>1. shell.line \in Lines
      BY <1>2 DEF Shell, Size
    <3>2. \A i \in 1 .. (Size - 1) : shell.line[i].output = NoFile
      BY <3>1, LineFacts DEF Size
    <3>3. Size \in Nat
      BY <3>1, LineFacts DEF Size
    <3> QED BY <1>2, <2>1, <3>2, <3>3 DEF CurrentCommand
  <2> QED BY <1>3, <1>5, <2>2, <2>3, <2>4
<1>6. CASE shell' = [shell EXCEPT !.pc = "files"] /\ UNCHANGED kernel
  <2>1. shell' \in Shell /\ shell'.pc = "files" /\ shell'.line = shell.line
    BY <1>2, <1>6 DEF Shell
  <2> QED BY <1>1, <1>2, <1>6, <2>1, KernelTypes, FilesTypes
<1>7. ASSUME NEW ids, file = NoFile, ~IsLast, Cardinality(Free) > 1, UnusedPipes # {},
             ids = {Min(Free), Min(Free \ {Min(Free)})}, CreatePipe(Min(UnusedPipes), ids),
             shell' = [shell EXCEPT !.pc = "process", !.pipe_queue = @ \o WriteEndFirst(ids)]
      PROVE  TypeInv'
  <2> DEFINE k == Min(UnusedPipes)
             ends == WriteEndFirst(ids)
  <2>1. k \in Pipes
    BY <1>7, MinIs DEF UnusedPipes
  <2>2. ends = <<Min(Free), Min(Free \ {Min(Free)})>> /\ Min(Free) \in Id /\ Min(Free \ {Min(Free)}) \in Id
    BY <1>7, FreePair, FreeFacts
  <2>3. ends[1] \in Id /\ ends[2] \in Id /\ ends \in Seq(Id) /\ Len(ends) = 2
    BY <2>2
  <2>4. Element("write", k) \in Elements /\ Element("read", k) \in Elements
    BY <2>1, ElementTypes
  <2> HIDE DEF k, ends
  <2>5. /\ descriptors' \in [Id -> Elements] /\ filled' \in [Pipes -> 0 .. BufferSize]
        /\ closed' \in [Pipes -> BOOLEAN]
    <3>1. CreatePipe(k, ids)
      BY <1>7 DEF k
    <3> QED BY <2>1, <2>3, <2>4, <3>1 DEF CreatePipe, ends, TypeInv, TypeOK
  <2>6. shell.pipe_queue \o ends \in Seq(Id) /\ Len(shell.pipe_queue \o ends) = Len(shell.pipe_queue) + 2
    <3>1. shell.pipe_queue \in Seq(Id)
      BY <1>2, ShellFields
    <3>2. \A a, b \in Seq(Id) : a \o b \in Seq(Id) /\ Len(a \o b) = Len(a) + Len(b)
      BY ConcatProperties
    <3> QED BY ONLY <2>3, <3>1, <3>2
  <2>7. shell' = [shell EXCEPT !.pc = "process", !.pipe_queue = shell.pipe_queue \o ends]
    BY <1>7 DEF ends
  <2> DEFINE queue == shell.pipe_queue \o ends
  <2> HIDE DEF queue
  <2>8. /\ shell' \in Shell /\ shell'.pc = "process" /\ shell'.line = shell.line
        /\ shell'.index = shell.index /\ shell'.handles = shell.handles
        /\ shell'.used_pipes = shell.used_pipes /\ shell'.pipe_queue = queue
        /\ queue \in Seq(Id) /\ Len(queue) = Len(shell.pipe_queue) + 2
    BY <1>2, <2>6, <2>7 DEF Shell, queue
  <2>9. shell.index < Size /\ Len(shell.pipe_queue) \in Nat /\ Len(shell.used_pipes) \in Nat
    BY <1>2, <1>7, ShellFields DEF IsLast, Size
  <2>11. /\ Len(shell.handles) = shell.index - 1 /\ Len(typed) > 0 /\ shell.line = typed[Len(typed)]
         /\ Len(shell.used_pipes) = IF shell.index = 1 THEN 0 ELSE 2 * shell.index - 3
         /\ Len(shell.used_pipes) + Len(shell.pipe_queue) = 2 * shell.index - 2
    BY <1>1 DEF TypeInv, Script, Creating, Ending, Made
  <2>12. shell.index \in Nat /\ Size \in Nat /\ Size' = Size
    BY <1>2, <2>8, ShellFields DEF Size
  <2>13. Creating' /\ ~Ending' /\ shell'.pc = "process" /\ typed' = typed
    BY <1>1, <2>8 DEF Creating, Ending
  <2>14. Made' = 2 * shell.index
    BY <2>8, <2>9, <2>12, <2>13 DEF Made
  <2>15. Len(shell'.used_pipes) + Len(shell'.pipe_queue) = Made'
    <3>1. ASSUME NEW u \in Nat, NEW q \in Nat, NEW i \in Nat, u + q = 2 * i - 2
          PROVE  u + (q + 2) = 2 * i
      BY <3>1
    <3>3. Len(shell.used_pipes) + Len(shell.pipe_queue) = 2 * shell.index - 2
      BY <2>11
    <3>2. Len(shell.used_pipes) + (Len(shell.pipe_queue) + 2) = 2 * shell.index
      BY ONLY <2>9, <3>3, <2>12, <3>1
    <3> QED BY <2>8, <2>14, <3>2
  <2>10. Script'
    BY <1>2, <2>8, <2>11, <2>12, <2>13, <2>15 DEF Script
  <2> QED BY <1>1, <2>5, <2>8, <2>10, ShellSame, ShellTypes
<1> QED BY <1>4, <1>5, <1>6, <1>7 DEF OpenOutput


(* The part of the queue of pipes that a new process takes. *)
LEMMA QueueTaken ==
  ASSUME TypeInv, shell.pc = "process"
  PROVE  /\ PipesNeeded \in Nat /\ PipesNeeded <= Len(shell.pipe_queue)
         /\ SubSeq(shell.pipe_queue, PipesNeeded + 1, Len(shell.pipe_queue)) \in Seq(Id)
         /\ Len(SubSeq(shell.pipe_queue, PipesNeeded + 1, Len(shell.pipe_queue)))
              = Len(shell.pipe_queue) - PipesNeeded
         /\ shell.used_pipes \o SubSeq(shell.pipe_queue, 1, PipesNeeded) \in Seq(Id)
         /\ Len(shell.used_pipes \o SubSeq(shell.pipe_queue, 1, PipesNeeded))
              = Len(shell.used_pipes) + PipesNeeded
         /\ Len(shell.pipe_queue) = IF Size = 1 THEN 0
                                    ELSE IF shell.index = Size THEN 1 ELSE IF shell.index = 1 THEN 2 ELSE 3
<1> DEFINE queue == shell.pipe_queue
           n == PipesNeeded
<1>1. /\ shell.index \in 1 .. Size /\ Size \in Nat /\ shell.index \in Nat
      /\ queue \in Seq(Id) /\ Len(queue) \in Nat /\ shell.used_pipes \in Seq(Id)
      /\ Len(shell.used_pipes) \in Nat
  BY ShellSame, ShellFields DEF TypeInv, Script, Creating
<1>2. /\ Len(shell.used_pipes) = IF shell.index = 1 THEN 0 ELSE 2 * shell.index - 3
      /\ Len(shell.used_pipes) + Len(queue)
           = IF shell.index < Size THEN 2 * shell.index ELSE 2 * shell.index - 2
  BY DEF TypeInv, Script, Creating, Ending, Made
<1>3. Len(queue) = IF Size = 1 THEN 0
                   ELSE IF shell.index = Size THEN 1 ELSE IF shell.index = 1 THEN 2 ELSE 3
  BY <1>1, <1>2
<1>4. n = IF shell.index = 1 \/ shell.index = Size THEN (IF Size = 1 THEN 0 ELSE 1) ELSE 2
  BY DEF PipesNeeded, IsLast, Size
<1>5. n \in Nat /\ n <= Len(queue)
  BY <1>1, <1>3, <1>4
<1> HIDE DEF n
<1>6. /\ SubSeq(queue, n + 1, Len(queue)) \in Seq(Id)
      /\ Len(SubSeq(queue, n + 1, Len(queue))) = Len(queue) - n
  BY <1>1, <1>5, SubSeqProperties
<1>7. SubSeq(queue, 1, n) \in Seq(Id) /\ Len(SubSeq(queue, 1, n)) = n
  BY <1>1, <1>5, SubSeqProperties
<1> DEFINE front == SubSeq(queue, 1, n)
<1> HIDE DEF front
<1>8. front \in Seq(Id) /\ Len(front) = n
  BY <1>7 DEF front
<1>9. shell.used_pipes \o front \in Seq(Id) /\ Len(shell.used_pipes \o front) = Len(shell.used_pipes) + n
  BY ONLY <1>1, <1>8, ConcatProperties
<1> QED BY <1>3, <1>5, <1>6, <1>9 DEF n, front

(* The handles of a new process are descriptors. *)
LEMMA HandlesTypes ==
  ASSUME TypeInv, shell.pc = "process"
  PROVE  HandleIn \in Id /\ HandleOut \in Id
<1>1. /\ shell.index \in 1 .. Size /\ Size \in Nat /\ shell.pipe_queue \in Seq(Id)
      /\ shell.handle_in \in Id /\ shell.handle_out \in Id
      /\ \A p \in 1 .. Len(shell.pipe_queue) : shell.pipe_queue[p] \in Id
  BY ShellSame, ShellFields DEF TypeInv, Script, Creating
<1>2. Len(shell.pipe_queue) = IF Size = 1 THEN 0
                              ELSE IF shell.index = Size THEN 1 ELSE IF shell.index = 1 THEN 2 ELSE 3
  BY QueueTaken
<1>3. HandleIn \in Id
  <2>1. CASE shell.index > 1
    <3>1. Len(shell.pipe_queue) > 0
      BY <1>1, <1>2, <2>1
    <3>2. Head(shell.pipe_queue) = shell.pipe_queue[1] /\ 1 \in 1 .. Len(shell.pipe_queue)
      BY <1>1, <3>1
    <3> QED BY <1>1, <2>1, <3>2 DEF HandleIn
  <2>2. CASE ~(shell.index > 1)
    BY <1>1, <2>2 DEF HandleIn
  <2> QED BY <2>1, <2>2
<1>4. HandleOut \in Id
  <2>1. CASE ~IsLast
    <3>1. PipesNeeded = IF shell.index = 1 THEN (IF Size = 1 THEN 0 ELSE 1) ELSE 2
      BY <2>1 DEF PipesNeeded, Size
    <3>2. shell.index < Size
      BY <1>1, <2>1 DEF IsLast, Size
    <3>3. PipesNeeded \in 1 .. Len(shell.pipe_queue)
      BY <1>1, <1>2, <3>1, <3>2
    <3> QED BY <1>1, <2>1, <3>3 DEF HandleOut
  <2>2. CASE IsLast
    BY <1>1, <2>2 DEF HandleOut
  <2> QED BY <2>1, <2>2
<1> QED BY <1>3, <1>4

(* A new process has its type. *)
LEMMA NewProcess ==
  ASSUME TypeInv, shell.pc = "process", CurrentCommand.program \in Programs
  PROVE  LET new == [command |-> CurrentCommand, handle |-> HandleIn, handle_out |-> HandleOut,
                     texts |-> ProfileOf(CurrentCommand).texts, left |-> 1,
                     input |-> descriptors[HandleIn], output |-> descriptors[HandleOut]]
         IN  new \in Process /\ new # NoProcess /\ CurrentCommand \in Command
<1>1. shell.index \in 1 .. Size
  BY DEF TypeInv, Script, Creating
<1>2. CurrentCommand \in Command
  BY <1>1, ShellSame, ShellFields DEF CurrentCommand
<1>3. ProfileOf(CurrentCommand).texts \in Seq(Nat)
  BY <1>2, Profiles
<1>4. descriptors[HandleIn] \in Elements /\ descriptors[HandleOut] \in Elements
  BY HandlesTypes DEF TypeInv, TypeOK
<1> QED BY <1>2, <1>3, <1>4, HandlesTypes, MarkAssumption DEF Process

(* The least of the free slots. *)
LEMMA FreeSlot ==
  ASSUME NEW slots, slots = {s \in Slots : process[s] = NoProcess}, slots # {}
  PROVE  Min(slots) \in Slots /\ process[Min(slots)] = NoProcess
<1>1. slots \subseteq Nat
  OBVIOUS
<1>2. Min(slots) \in slots
  BY <1>1, MinIs
<1> QED BY <1>2

(* A slot gets a process. *)
LEMMA StartTypes ==
  ASSUME TypeInv, NEW s \in Slots, process[s] = NoProcess,
         NEW new \in Process, new.command.program \in Programs,
         process' = [process EXCEPT ![s] = new], GoTo(Main(s), "begin"), call' = call
  PROVE  Threads' /\ (\A o \in Slots : process'[o] = NoProcess <=> at'[Main(o)] = "none")
         /\ at' \in [Thread -> Steps] /\ process' \in [Slots -> Process \cup {NoProcess}]
<1>1. Main(s) \in Thread /\ at[Checker(s)] = "none" /\ at[Main(s)] = "none" /\ call[Main(s)] = None
  BY ThreadFacts DEF TypeInv, TypeOK, Threads
<1>2. /\ at' \in [Thread -> Steps] /\ process' \in [Slots -> Process \cup {NoProcess}]
      /\ at'[Main(s)] = "begin" /\ \A t \in Thread \ {Main(s)} : at'[t] = at[t]
      /\ process'[s] = new /\ \A o \in Slots \ {s} : process'[o] = process[o]
  BY <1>1 DEF GoTo, TypeInv, TypeOK, Steps
<1>3. new # NoProcess
  BY MarkAssumption
<1>4. ASSUME NEW o \in Slots
      PROVE  /\ process'[o] = NoProcess <=> at'[Main(o)] = "none"
             /\ at'[Checker(o)] \in {"none", "read", "reading", "ended"}
             /\ at'[Checker(o)] # "none" => process'[o] # NoProcess /\ IsRgen(o)'
             /\ process'[o] # NoProcess => process'[o].command.program \in Programs
             /\ at'[Main(o)] \in {"begin", "create_thread"} => at'[Checker(o)] = "none"
             /\ at'[Main(o)] = "create_thread" => IsRgen(o)'
             /\ at'[Main(o)] = "ended" => at'[Checker(o)] \in {"none", "ended"}
  <2>1. Main(o) \in Thread /\ Checker(o) \in Thread \ {Main(s)}
    BY ThreadFacts
  <2>2. at'[Checker(o)] = at[Checker(o)]
    BY <1>2, <2>1
  <2>3. CASE o = s
    BY <1>1, <1>2, <1>3, <2>2, <2>3
  <2>4. CASE o # s
    <3>1. at'[Main(o)] = at[Main(o)] /\ process'[o] = process[o]
      BY <1>2, <2>1, <2>4, ThreadFacts
    <3> QED BY <2>2, <3>1 DEF TypeInv, TypeOK, Threads, IsRgen
  <2> QED BY <2>3, <2>4
<1>5. ASSUME NEW t \in Thread
      PROVE  /\ at'[t] = "reading" => call'[t].kind = "read"
             /\ at'[t] = "writing" => call'[t].kind = "write" /\ process'[t[1]].texts # << >>
             /\ at'[t] \notin {"reading", "writing"} => call'[t] = None
  <2>1. CASE t = Main(s)
    BY <1>1, <1>2, <2>1
  <2>2. CASE t # Main(s)
    <3>1. at'[t] = at[t]
      BY <1>2, <2>2
    <3>2. at[t] = "writing" => t[1] # s
      BY <1>1, <2>2, ThreadFacts
    <3> QED BY <1>2, <3>1, <3>2, ThreadFacts DEF TypeInv, Threads
  <2> QED BY <2>1, <2>2
<1>6. Threads'
  BY <1>4, <1>5 DEF Threads
<1> QED BY <1>2, <1>4, <1>6

(* Types when a process is created. *)
LEMMA CreateProcessTypes ==
  ASSUME TypeInv, CreateProcess
  PROVE  TypeInv'
<1> DEFINE rest == SubSeq(shell.pipe_queue, PipesNeeded + 1, Len(shell.pipe_queue))
           used == shell.used_pipes \o SubSeq(shell.pipe_queue, 1, PipesNeeded)
           slots == {s \in Slots : process[s] = NoProcess}
           s == Min(slots)
           new == [command |-> CurrentCommand, handle |-> HandleIn, handle_out |-> HandleOut,
                   texts |-> ProfileOf(CurrentCommand).texts, left |-> 1,
                   input |-> descriptors[HandleIn], output |-> descriptors[HandleOut]]
<1>1. shell.pc = "process" /\ UNCHANGED <<kernel, call, is_eof, typed>> /\ shell \in Shell
  BY ShellSame DEF CreateProcess, OfPrograms
<1>2. /\ rest \in Seq(Id) /\ used \in Seq(Id) /\ PipesNeeded \in Nat
      /\ Len(rest) = Len(shell.pipe_queue) - PipesNeeded
      /\ Len(used) = Len(shell.used_pipes) + PipesNeeded
      /\ Len(shell.pipe_queue) = IF Size = 1 THEN 0
                                 ELSE IF shell.index = Size THEN 1 ELSE IF shell.index = 1 THEN 2 ELSE 3
      /\ PipesNeeded = IF shell.index = 1 \/ shell.index = Size THEN (IF Size = 1 THEN 0 ELSE 1) ELSE 2
  <2>1. PipesNeeded = IF shell.index = 1 \/ shell.index = Size THEN (IF Size = 1 THEN 0 ELSE 1) ELSE 2
    BY DEF PipesNeeded, IsLast, Size
  <2> QED BY <1>1, <2>1, QueueTaken
<1>3. /\ shell.index \in 1 .. Size /\ Size \in Nat /\ Len(shell.handles) = shell.index - 1
      /\ Len(shell.used_pipes) = IF shell.index = 1 THEN 0 ELSE 2 * shell.index - 3
      /\ Len(typed) > 0 /\ shell.line = typed[Len(typed)]
      /\ shell.handles \in Seq(Slots)
  BY <1>1, ShellFields DEF TypeInv, Script, Creating
<1>4. /\ descriptors' \in [Id -> Elements] /\ filled' \in [Pipes -> 0 .. BufferSize]
      /\ closed' \in [Pipes -> BOOLEAN]
  BY <1>1, TypesStay DEF kernel
<1> HIDE DEF rest, used
<1>5. CASE /\ shell' = [shell EXCEPT !.pipe_queue = rest, !.used_pipes = used, !.pc = "files"]
           /\ UNCHANGED <<process, at>>
  <2>1. shell' \in Shell /\ shell'.pc = "files" /\ shell'.line = shell.line
    BY <1>1, <1>2, <1>5 DEF Shell
  <2> QED BY <1>1, <1>4, <1>5, <2>1, FilesTypes
<1>6. ASSUME CurrentCommand.program \in Programs, slots # {},
             process' = [process EXCEPT ![s] = new], GoTo(Main(s), "begin"),
             shell' = [shell EXCEPT !.pipe_queue = rest, !.used_pipes = used,
                                    !.handles = Append(@, s), !.pc = IF IsLast THEN "wait" ELSE "input",
                                    !.index = IF IsLast THEN 1 ELSE @ + 1]
      PROVE  TypeInv'
  <2>1. s \in Slots /\ process[s] = NoProcess
    BY <1>6, FreeSlot
  <2>2. new \in Process /\ new.command.program \in Programs
    BY <1>1, <1>6, NewProcess
  <2> HIDE DEF s, new
  <2>3. Threads' /\ (\A o \in Slots : process'[o] = NoProcess <=> at'[Main(o)] = "none")
         /\ at' \in [Thread -> Steps] /\ process' \in [Slots -> Process \cup {NoProcess}]
    BY <1>1, <1>6, <2>1, <2>2, StartTypes
  <2>4. Append(shell.handles, s) \in Seq(Slots) /\ Len(Append(shell.handles, s)) = shell.index
    BY <1>3, <2>1, AppendProperties
  <2> DEFINE handles == Append(shell.handles, s)
  <2> HIDE DEF handles
  <2>5. shell' = [shell EXCEPT !.pipe_queue = rest, !.used_pipes = used,
                               !.handles = handles, !.pc = IF IsLast THEN "wait" ELSE "input",
                               !.index = IF IsLast THEN 1 ELSE shell.index + 1]
    BY <1>6 DEF handles
  <2>11. handles \in Seq(Slots) /\ Len(handles) = shell.index
    BY <2>4 DEF handles
  <2>12. (IF IsLast THEN 1 ELSE shell.index + 1) \in Nat
    BY <1>3
  <2>6. /\ shell' \in Shell /\ shell'.line = shell.line /\ shell'.handles = handles
        /\ shell'.pipe_queue = rest /\ shell'.used_pipes = used
        /\ shell'.pc = (IF IsLast THEN "wait" ELSE "input")
        /\ shell'.index = (IF IsLast THEN 1 ELSE shell.index + 1)
        /\ handles \in Seq(Slots) /\ Len(handles) = shell.index
    BY <1>1, <1>2, <2>11, <2>12, <2>5 DEF Shell
  <2>7. Size' = Size /\ (IsLast <=> shell.index = Size)
    BY <2>6 DEF Size, IsLast
  <2>8. Script'
    <3>1. CASE IsLast
      <4>1. shell.index = Size /\ shell'.pc = "wait" /\ shell'.index = 1
        BY <2>6, <2>7, <3>1
      <4>2. Len(rest) = 0 /\ Len(used) = 2 * Size - 2
        BY <1>2, <1>3, <4>1
      <4>3. rest = << >>
        BY <1>2, <4>2, EmptySeq
      <4> QED BY <1>1, <1>3, <2>6, <2>7, <4>1, <4>2, <4>3 DEF Script, Creating, Ending, Made, Gone
    <3>2. CASE ~IsLast
      <4>1. shell.index < Size /\ shell'.pc = "input" /\ shell'.index = shell.index + 1
        BY <1>3, <2>6, <2>7, <3>2
      <4>2. Len(used) = 2 * (shell.index + 1) - 3 /\ Len(used) + Len(rest) = 2 * (shell.index + 1) - 2
        <5>1. ASSUME NEW u \in Nat, NEW i \in Nat, NEW n \in Nat, i > 0,
                     u = (IF i = 1 THEN 0 ELSE 2 * i - 3), n = (IF i = 1 THEN 1 ELSE 2)
              PROVE  u + n = 2 * (i + 1) - 3
          BY <5>1
        <5>2. shell.index \in Nat /\ shell.index > 0 /\ shell.index # Size /\ Size # 1
          BY <1>3, <4>1
        <5>3. PipesNeeded = (IF shell.index = 1 THEN 1 ELSE 2) /\ Len(shell.used_pipes) \in Nat
          BY <1>1, <1>2, <5>2, ShellFields
        <5>4. Len(used) = 2 * (shell.index + 1) - 3
          BY <1>2, <1>3, <5>1, <5>2, <5>3
        <5>5. Len(rest) = 1
          BY <1>2, <5>2, <5>3
        <5> QED BY <5>2, <5>4, <5>5
      <4>3. Creating' /\ ~Ending' /\ shell'.pc # "prompt"
        BY <4>1 DEF Creating, Ending
      <4>4. Made' = 2 * (shell.index + 1) - 2
        BY <4>1, <4>3 DEF Made
      <4>5. shell.index + 1 \in 1 .. Size /\ shell.index + 1 # 1
        BY <1>3, <4>1
      <4>6. shell'.index \in 1 .. Size' /\ Len(shell'.handles) = shell'.index - 1
        BY <1>3, <2>6, <2>7, <4>1, <4>5
      <4>7. /\ Len(shell'.used_pipes) = IF shell'.index = 1 THEN 0 ELSE 2 * shell'.index - 3
            /\ Len(shell'.used_pipes) + Len(shell'.pipe_queue) = Made'
        BY <2>6, <4>1, <4>2, <4>4, <4>5
      <4>8. Len(typed') > 0 /\ shell'.line = typed'[Len(typed')]
        BY <1>1, <1>3, <2>6
      <4> QED BY <4>3, <4>6, <4>7, <4>8 DEF Script
    <3> QED BY <3>1, <3>2
  <2>9. DOMAIN shell'.line = 1 .. Size'
    <3>1. DOMAIN shell.line = 1 .. Size
      BY <1>1, ShellFields
    <3> QED BY <2>6, <2>7, <3>1
  <2>10. TypeOK'
    BY <1>1, <1>3, <1>4, <2>3, <2>6, <2>7, <2>8, <2>9
    DEF TypeInv, TypeOK, Script, Creating, Ending, Size
  <2> QED BY <2>3, <2>8, <2>10 DEF TypeInv
<1> QED BY <1>5, <1>6 DEF CreateProcess, rest, used

(* Types when the shell has waited for a process. *)
LEMMA ReadExitCodeTypes ==
  ASSUME TypeInv, ReadExitCode
  PROVE  TypeInv'
<1> DEFINE s == shell.handles[shell.index]
<1>1. /\ shell.pc = "wait" /\ at[Main(s)] = "ended" /\ UNCHANGED <<kernel, call, is_eof, typed>>
      /\ process' = [process EXCEPT ![s] = NoProcess]
      /\ at' = [at EXCEPT ![Main(s)] = "none", ![Checker(s)] = "none"]
      /\ shell' = [shell EXCEPT !.pc = "close_in"] /\ shell \in Shell
  BY ShellSame DEF ReadExitCode, OfPrograms
<1>2. /\ shell.index \in 1 .. Size /\ Len(shell.handles) = Size /\ s \in Slots
  <2>1. shell.index \in 1 .. Size /\ Len(shell.handles) = Size
    BY <1>1 DEF TypeInv, Script, Ending
  <2> QED BY <1>1, <2>1, ShellFields
<1> HIDE DEF s
<1>3. /\ shell' \in Shell /\ shell'.pc = "close_in" /\ shell'.line = shell.line
      /\ shell'.index = shell.index /\ shell'.handles = shell.handles
      /\ shell'.used_pipes = shell.used_pipes /\ shell'.pipe_queue = shell.pipe_queue
  BY <1>1 DEF Shell
<1>4. Script'
  BY <1>1, <1>2, <1>3 DEF TypeInv, Script, Creating, Ending, Made, Gone, Size
<1>5. /\ descriptors' \in [Id -> Elements] /\ filled' \in [Pipes -> 0 .. BufferSize]
      /\ closed' \in [Pipes -> BOOLEAN]
  BY <1>1, TypesStay DEF kernel
<1>6. /\ at' \in [Thread -> Steps] /\ at'[Main(s)] = "none" /\ at'[Checker(s)] = "none"
      /\ \A t \in Thread \ {Main(s), Checker(s)} : at'[t] = at[t]
      /\ process' \in [Slots -> Process \cup {NoProcess}] /\ process'[s] = NoProcess
      /\ \A o \in Slots \ {s} : process'[o] = process[o]
  BY <1>1, <1>2, ThreadFacts DEF TypeInv, TypeOK, Steps
<1>7. ASSUME NEW o \in Slots
      PROVE  /\ process'[o] = NoProcess <=> at'[Main(o)] = "none"
             /\ at'[Checker(o)] \in {"none", "read", "reading", "ended"}
             /\ at'[Checker(o)] # "none" => process'[o] # NoProcess /\ IsRgen(o)'
             /\ process'[o] # NoProcess => process'[o].command.program \in Programs
             /\ at'[Main(o)] \in {"begin", "create_thread"} => at'[Checker(o)] = "none"
             /\ at'[Main(o)] = "create_thread" => IsRgen(o)'
             /\ at'[Main(o)] = "ended" => at'[Checker(o)] \in {"none", "ended"}
  <2>1. CASE o = s
    BY <1>6, <2>1
  <2>2. CASE o # s
    <3>1. Main(o) \in Thread \ {Main(s), Checker(s)} /\ Checker(o) \in Thread \ {Main(s), Checker(s)}
      BY <2>2, ThreadFacts
    <3>2. at'[Main(o)] = at[Main(o)] /\ at'[Checker(o)] = at[Checker(o)] /\ process'[o] = process[o]
      BY <1>6, <2>2, <3>1
    <3> QED BY <3>2 DEF TypeInv, TypeOK, Threads, IsRgen
  <2> QED BY <2>1, <2>2
<1>8. ASSUME NEW t \in Thread
      PROVE  /\ at'[t] = "reading" => call'[t].kind = "read"
             /\ at'[t] = "writing" => call'[t].kind = "write" /\ process'[t[1]].texts # << >>
             /\ at'[t] \notin {"reading", "writing"} => call'[t] = None
  <2>1. CASE t \in {Main(s), Checker(s)}
    <3>1. at[t] \in {"none", "ended"} /\ t \in Thread
      BY <1>1, <1>2, <2>1, ThreadFacts DEF TypeInv, Threads
    <3> QED BY <1>1, <1>6, <2>1, <3>1 DEF TypeInv, Threads
  <2>2. CASE t \notin {Main(s), Checker(s)}
    <3>1. t[1] # s /\ at'[t] = at[t] /\ t[1] \in Slots
      BY <1>6, <2>2, ThreadFacts
    <3> QED BY <1>1, <1>6, <3>1 DEF TypeInv, Threads
  <2> QED BY <2>1, <2>2
<1>9. Threads'
  BY <1>7, <1>8 DEF Threads
<1>10. shell'.index \in DOMAIN shell'.line /\ Len(shell'.handles) = Len(shell'.line)
  BY <1>1, <1>2, <1>3, ShellFields DEF Size
<1>11. TypeOK'
  BY <1>1, <1>3, <1>5, <1>6, <1>7, <1>10 DEF TypeInv, TypeOK
<1> QED BY <1>4, <1>9, <1>11 DEF TypeInv

(* What the shell's list of used pipes holds while it closes them. *)
LEMMA UsedFacts ==
  ASSUME TypeInv, Ending
  PROVE  /\ shell.index \in 1 .. Size /\ shell.index \in Nat /\ Size \in Nat /\ Len(shell.handles) = Size
         /\ shell.used_pipes \in Seq(Id) /\ shell.pipe_queue = << >>
         /\ Len(shell.used_pipes) = 2 * Size - 2 - Gone
         /\ Len(shell.used_pipes) > 0 =>
              /\ Head(shell.used_pipes) \in Id /\ Head(shell.used_pipes) = shell.used_pipes[1]
              /\ Tail(shell.used_pipes) \in Seq(Id)
              /\ Len(Tail(shell.used_pipes)) = Len(shell.used_pipes) - 1
<1>1. /\ shell.index \in 1 .. Size /\ Len(shell.handles) = Size
      /\ shell.pipe_queue = << >> /\ Len(shell.used_pipes) = 2 * Size - 2 - Gone
  BY DEF TypeInv, Script, Made
<1>2. shell.used_pipes \in Seq(Id) /\ Size \in Nat /\ shell.index \in Nat
  BY ShellSame, ShellFields
<1> DEFINE used == shell.used_pipes
<1> HIDE DEF used
<1>3. used \in Seq(Id)
  BY <1>2 DEF used
<1>4. Len(used) > 0 => /\ Head(used) \in Id /\ Head(used) = used[1] /\ Tail(used) \in Seq(Id)
                       /\ Len(Tail(used)) = Len(used) - 1
  BY <1>3
<1> QED BY <1>1, <1>2, <1>4 DEF used

(* Types when the shell closes the next end of a pipe. *)
LEMMA CloseNextTypes ==
  ASSUME TypeInv, Ending, UNCHANGED <<process, at, OfPrograms, typed>>, Len(shell.used_pipes) > 0,
         CloseHandle(Head(shell.used_pipes)),
         NEW pc \in {"wait", "close_out"}, NEW index \in 1 .. Size,
         shell' = [shell EXCEPT !.pc = pc, !.index = index, !.used_pipes = Tail(shell.used_pipes)],
         (IF pc = "close_out" THEN 2 * index - 2 ELSE IF index = 1 THEN 0 ELSE 2 * index - 3) = Gone + 1
  PROVE  TypeInv' /\ Gone' = Gone + 1 /\ Ending' /\ Size' = Size
<1>1. shell \in Shell /\ shell.pc # "prompt" /\ shell.line = typed[Len(typed)] /\ Len(typed) > 0
  BY ShellSame DEF Ending, TypeInv, Script
<1>2. Tail(shell.used_pipes) \in Seq(Id) /\ Len(Tail(shell.used_pipes)) = Len(shell.used_pipes) - 1
  BY UsedFacts
<1>3. /\ shell' \in Shell /\ shell'.pc = pc /\ shell'.line = shell.line
      /\ shell'.index = index /\ shell'.handles = shell.handles
      /\ shell'.used_pipes = Tail(shell.used_pipes) /\ shell'.pipe_queue = << >>
  <2>1. index \in Nat /\ shell.pipe_queue = << >>
    BY UsedFacts
  <2>2. pc \in {"prompt", "input", "output", "process", "wait", "close_in", "close_out", "files"}
    OBVIOUS
  <2> QED BY <1>1, <1>2, <2>1, <2>2 DEF Shell
<1>4. Ending' /\ ~Creating' /\ Size' = Size
  BY <1>3 DEF Ending, Creating, Size
<1>5. Gone' = Gone + 1
  BY <1>3, <1>4 DEF Gone
<1>6. Made' = 2 * Size - 2
  BY <1>4 DEF Made
<1>8. Gone \in Int
  <2>1. shell.index \in Nat
    BY UsedFacts
  <2> QED BY <2>1 DEF Gone
<1>9. Len(shell'.used_pipes) = Made' - Gone'
  <2>1. Len(shell.used_pipes) = 2 * Size - 2 - Gone /\ Size \in Nat
    BY UsedFacts
  <2> QED BY <1>2, <1>3, <1>5, <1>6, <1>8, <2>1
<1>10. shell'.index \in 1 .. Size' /\ Len(shell'.handles) = Size'
  BY <1>3, <1>4, UsedFacts
<1>11. Len(typed') > 0 /\ shell'.line = typed'[Len(typed')]
  BY <1>1, <1>3
<1>7. Script'
  BY <1>3, <1>4, <1>9, <1>10, <1>11 DEF Script
<1> QED BY <1>3, <1>4, <1>5, <1>7, ShellSame, ShellTypes, KernelTypes DEF OfPrograms

(* Types when the shell closes a program's input. *)
LEMMA CloseInTypes ==
  ASSUME TypeInv, CloseIn
  PROVE  TypeInv'
<1>1. /\ shell.pc = "close_in" /\ UNCHANGED <<process, at, OfPrograms, typed>> /\ Ending
  BY DEF CloseIn, Ending
<1>2. shell \in Shell /\ shell.index \in 1 .. Size /\ shell.index \in Nat /\ Size \in Nat
  BY <1>1, UsedFacts, ShellSame
<1>3. Gone = IF shell.index = 1 THEN 0 ELSE 2 * shell.index - 3
  BY <1>1 DEF Gone
<1>4. CASE shell.index > 1
  <2>1. Len(shell.used_pipes) > 0
    <3>1. Len(shell.used_pipes) = 2 * Size - 2 - Gone
      BY <1>1, UsedFacts
    <3> QED BY <1>2, <1>3, <1>4, <3>1
  <2>2. /\ CloseHandle(Head(shell.used_pipes))
        /\ shell' = [[shell EXCEPT !.pc = "close_out"] EXCEPT !.used_pipes = Tail(@)]
    BY <1>4 DEF CloseIn, CloseFirstPipe
  <2>3. PICK pc \in {"wait", "close_out"} : pc = "close_out"
    OBVIOUS
  <2>4. shell' = [shell EXCEPT !.pc = pc, !.index = shell.index, !.used_pipes = Tail(shell.used_pipes)]
    BY <1>2, <2>2, <2>3 DEF Shell
  <2>5. (IF pc = "close_out" THEN 2 * shell.index - 2
         ELSE IF shell.index = 1 THEN 0 ELSE 2 * shell.index - 3) = Gone + 1
    BY <1>2, <1>3, <1>4, <2>3
  <2> QED BY <1>1, <1>2, <2>1, <2>2, <2>4, <2>5, CloseNextTypes
<1>5. CASE ~(shell.index > 1)
  <2>1. shell' = [shell EXCEPT !.pc = "close_out"] /\ UNCHANGED kernel
    BY <1>5 DEF CloseIn
  <2>2. /\ shell' \in Shell /\ shell'.pc = "close_out" /\ shell'.line = shell.line
        /\ shell'.index = shell.index /\ shell'.handles = shell.handles
        /\ shell'.used_pipes = shell.used_pipes /\ shell'.pipe_queue = shell.pipe_queue
    BY <1>2, <2>1 DEF Shell
  <2>3. shell.index = 1
    BY <1>2, <1>5
  <2>4. Script'
    BY <1>1, <2>2, <2>3 DEF TypeInv, Script, Creating, Ending, Made, Gone, Size
  <2> QED BY <1>1, <2>1, <2>2, <2>4, ShellSame, ShellTypes, KernelTypes DEF OfPrograms
<1> QED BY <1>4, <1>5

(* Types when the shell closes a program's output. *)
LEMMA CloseOutTypes ==
  ASSUME TypeInv, CloseOut
  PROVE  TypeInv'
<1>1. /\ shell.pc = "close_out" /\ UNCHANGED <<process, at, OfPrograms, typed>> /\ Ending
  BY DEF CloseOut, Ending
<1>2. shell \in Shell /\ shell.index \in 1 .. Size /\ shell.index \in Nat /\ Size \in Nat
  BY <1>1, UsedFacts, ShellSame
<1>3. Gone = 2 * shell.index - 2
  BY <1>1 DEF Gone, Ending
<1>4. CASE ~IsLast
  <2>6. shell.index < Size
    BY <1>2, <1>4 DEF IsLast, Size
  <2>1. Len(shell.used_pipes) > 0
    <3>1. Len(shell.used_pipes) = 2 * Size - 2 - Gone
      BY <1>1, UsedFacts
    <3> QED BY <1>2, <1>3, <2>6, <3>1
  <2>2. /\ CloseHandle(Head(shell.used_pipes))
        /\ shell' = [[shell EXCEPT !.pc = "wait", !.index = @ + 1] EXCEPT !.used_pipes = Tail(@)]
    BY <1>4 DEF CloseOut, CloseFirstPipe
  <2>3. PICK pc \in {"wait", "close_out"} : pc = "wait"
    OBVIOUS
  <2> DEFINE index == shell.index + 1
  <2>4. shell' = [shell EXCEPT !.pc = pc, !.index = index, !.used_pipes = Tail(shell.used_pipes)]
    BY <1>2, <2>2, <2>3 DEF Shell
  <2>5. (IF pc = "close_out" THEN 2 * index - 2
         ELSE IF index = 1 THEN 0 ELSE 2 * index - 3) = Gone + 1
    BY <1>2, <1>3, <2>3
  <2>7. index \in 1 .. Size
    BY <1>2, <2>6
  <2> HIDE DEF index
  <2> QED BY <1>1, <1>2, <2>1, <2>2, <2>4, <2>5, <2>7, CloseNextTypes
<1>5. CASE IsLast
  <2>1. shell' = [shell EXCEPT !.pc = "files"] /\ UNCHANGED kernel
    BY <1>5 DEF CloseOut
  <2>2. shell' \in Shell /\ shell'.pc = "files" /\ shell'.line = shell.line
    BY <1>2, <2>1 DEF Shell
  <2>3. shell.pc # "prompt"
    BY <1>1
  <2> QED BY <1>1, <2>1, <2>2, <2>3, KernelTypes, FilesTypes DEF OfPrograms
<1> QED BY <1>4, <1>5

(* Types when the shell closes the files of a line. *)
LEMMA CloseFilesTypes ==
  ASSUME TypeInv, CloseFiles
  PROVE  TypeInv'
<1>1. /\ shell.pc = "files" /\ UNCHANGED <<process, at, OfPrograms, typed>> /\ shell \in Shell
  BY ShellSame DEF CloseFiles
<1>2. CASE shell.opened_files = << >>
  BY <1>1, <1>2, PromptTypes, KernelTypes DEF CloseFiles, OfPrograms
<1>3. CASE shell.opened_files # << >>
  <2>1. /\ CloseHandle(Head(shell.opened_files))
        /\ shell' = [shell EXCEPT !.opened_files = Tail(@)]
    BY <1>3 DEF CloseFiles
  <2>2. Tail(shell.opened_files) \in Seq(Id)
    BY <1>1, <1>3, ShellFields
  <2>3. shell' \in Shell /\ shell'.pc = "files" /\ shell'.line = shell.line
    BY <1>1, <2>1, <2>2 DEF Shell
  <2>4. shell.pc # "prompt"
    BY <1>1
  <2> QED BY <1>1, <2>1, <2>3, <2>4, KernelTypes, FilesTypes DEF OfPrograms
<1> QED BY <1>2, <1>3

(* The types hold at the start. *)
LEMMA InitTypes ==
  ASSUME Init
  PROVE  TypeInv
<1>1. descriptors \in [Id -> Elements]
  BY ElementTypes DEF Init
<1>2. /\ filled \in [Pipes -> 0 .. BufferSize] /\ closed \in [Pipes -> BOOLEAN]
      /\ process \in [Slots -> Process \cup {NoProcess}]
      /\ at \in [Thread -> Steps] /\ call \in [Thread -> Elements] /\ is_eof \in BOOLEAN
      /\ typed \in Seq(Lines)
  <2>1. 0 \in 0 .. BufferSize /\ None \in Elements /\ "none" \in Steps /\ << >> \in Seq(Lines)
    BY ElementTypes DEF Steps
  <2>2. filled \in [Pipes -> 0 .. BufferSize] /\ closed \in [Pipes -> BOOLEAN]
    BY <2>1 DEF Init
  <2>3. at \in [Thread -> Steps] /\ call \in [Thread -> Elements]
    BY <2>1 DEF Init
  <2>4. process \in [Slots -> Process \cup {NoProcess}]
    BY DEF Init
  <2> QED BY <2>1, <2>2, <2>3, <2>4 DEF Init
<1>3. \A s \in Slots : process[s] = NoProcess /\ at[Main(s)] = "none"
  BY ThreadFacts DEF Init
<1>4. shell = Idle /\ shell \in Shell /\ shell.pc = "prompt"
  BY IdleFacts DEF Init, Idle
<1>5. TypeOK
  BY <1>1, <1>2, <1>3, <1>4 DEF TypeOK
<1>6. Script
  BY <1>4 DEF Script, Creating, Ending
<1>7. Threads
  BY <1>3, ThreadFacts DEF Init, Threads
<1> QED BY <1>5, <1>6, <1>7 DEF TypeInv

(* No step leaves the types. *)
LEMMA TypesKept ==
  ASSUME TypeInv, [Next]_vars
  PROVE  TypeInv'
<1>1. CASE UNCHANGED vars
  <2>1. UNCHANGED <<descriptors, filled, closed, process, at, call, is_eof, shell, typed>>
    BY <1>1 DEF vars, kernel
  <2> QED BY <2>1 DEF TypeInv, TypeOK, Script, Threads, Creating, Ending, Made, Gone, Size, IsRgen
<1>2. ASSUME NEW s \in Slots, ProgramStep(s) \/ CheckerStep(s)
      PROVE  TypeInv'
  <2>1. Main(s) \in {Main(s), Checker(s)} /\ Checker(s) \in {Main(s), Checker(s)}
    OBVIOUS
  <2>2. CASE Begin(s)
    BY <2>2, BeginTypes
  <2>3. CASE Read(Main(s)) \/ Read(Checker(s))
    BY <2>1, <2>3, ReadTypes
  <2>4. CASE ReadPipe(Main(s)) \/ ReadPipe(Checker(s))
    BY <2>1, <2>4, ReadPipeTypes
  <2>5. CASE Close(s)
    BY <2>5, CloseTypes
  <2>6. CASE Write(s)
    BY <2>6, WriteTypes
  <2>7. CASE WritePipe(s)
    BY <2>7, WritePipeTypes
  <2>8. CASE End(s) \/ ClearFlag(s) \/ Loop(s) \/ Join(s)
    BY <2>8, LocalTypes
  <2>9. CASE CreateThread(s)
    BY <2>9, CreateThreadTypes
  <2> QED BY <1>2, <2>2, <2>3, <2>4, <2>5, <2>6, <2>7, <2>8, <2>9 DEF ProgramStep, CheckerStep
<1>3. CASE ShellStep
  <2>1. CASE ChangeDirectory
    BY <2>1, PromptTypes, KernelTypes DEF ChangeDirectory, OfPrograms
  <2> QED BY <1>3, <2>1, OpenInputTypes, OpenOutputTypes, CreateProcessTypes, ReadExitCodeTypes,
             CloseInTypes, CloseOutTypes, CloseFilesTypes DEF ShellStep
<1>4. CASE User
  BY <1>4, TypeTypes, ReadConsoleTypes DEF User
<1> QED BY <1>1, <1>2, <1>3, <1>4 DEF Next

(* Each component has its type in every reachable state; a pipe never      *)
(* holds more bytes than it can, and the shell, which walks through four   *)
(* queues while it creates a line's programs and again while it waits for  *)
(* them, never takes the front of an empty one nor looks past their end.   *)
THEOREM TypeCorrect == Spec => []TypeOK
<1>1. Init => TypeInv
  BY InitTypes
<1>2. TypeInv /\ [Next]_vars => TypeInv'
  BY TypesKept
<1>3. TypeInv => TypeOK
  BY DEF TypeInv
<1> QED BY <1>1, <1>2, <1>3, PTL DEF Spec

-----------------------------------------------------------------------------
(* What holds between the shell and the programs while all lines typed are *)
(* sound.                                                                  *)

(* The lines of which FilesStayOpen speaks.                                *)
Sound(line) == Startable(line) /\ (Chained(line) \/ Len(line) <= 3)
AllSound == \A i \in DOMAIN typed : Sound(typed[i])

(* The programs of the line that run or whose end nobody has seen, from    *)
(* the first to the last that the shell has created.                       *)
First ==
  IF Creating THEN 1
  ELSE IF shell.pc = "wait" THEN shell.index
  ELSE IF Ending THEN shell.index + 1
  ELSE Len(shell.handles) + 1
Live == First .. Len(shell.handles)
Slot(m) == shell.handles[m]
Program(m) == process[Slot(m)]
At(m) == at[Main(Slot(m))]
CommandOf(m) == shell.line[m]
Profile(m) == ProfileOf(CommandOf(m))
Reads(m) == ReadsInput(CommandOf(m))
HasFile(m) == Profile(m).source = "file" /\ At(m) \in {"read", "close"}

(* The program has closed, as sort does, the input that it was given.      *)
Past(m) == Reads(m) /\ Profile(m).closes /\ At(m) \in {"write", "writing", "ended"}

(* The numbers of all ends, in the order of their creation, the closed     *)
(* ones counted.                                                           *)
EndAt(p) == Ends[p - Gone]
Kept == (Gone + 1) .. Made

Processes ==
  /\ \A m, l \in 1 .. Len(shell.handles) : Slot(m) = Slot(l) => m = l
  /\ \A s \in Slots : process[s] # NoProcess => \E m \in Live : Slot(m) = s
  /\ \A m \in Live : Program(m) # NoProcess /\ Program(m).command = CommandOf(m)
  /\ shell.pc = "files" => Ends = << >>

(* No two descriptors have the same end of a pipe or the same file.        *)
Unique ==
  /\ \A id \in Id, x \in {In, Out} : descriptors[id] = Console(x) <=> id = x
  /\ \A id, other \in Id :
       /\ descriptors[id].kind \in {"write", "read", "file"}
       /\ descriptors[id] = descriptors[other]
       => id = other
Distinct == \A p, q \in 1 .. Len(Ends) : Ends[p] = Ends[q] => p = q

(* Both ends of the pipe after program j are open.                         *)
Pair(j) ==
  \E k \in Pipes :
    /\ descriptors[EndAt(2 * j - 1)] = Element("write", k)
    /\ descriptors[EndAt(2 * j)] = Element("read", k)
    /\ ~closed[k] /\ EndAt(2 * j - 1) < EndAt(2 * j)
Paired == {j \in 1 .. Size : 2 * j - 1 \in Kept /\ 2 * j \in Kept}
Pairs == \A j \in Paired : Pair(j)

(* What a program was given, and for how long it is there.                 *)
OutputOf(m) ==
  /\ m < Size => /\ Program(m).handle_out = EndAt(2 * m - 1)
                 /\ Program(m).output = descriptors[EndAt(2 * m - 1)]
  /\ m = Size => Program(m).output.kind # "write"
PipedInput(m) ==
  /\ Program(m).input.kind = "read"
  /\ Reads(m) => Program(m).handle = EndAt(2 * m - 2)
  /\ ~Past(m) => descriptors[EndAt(2 * m - 2)] = Program(m).input
OwnInput(m) ==
  Reads(m) =>
    \/ Program(m).handle = In /\ Program(m).input = Console(In)
    \/ /\ Program(m).input = Element("file", CommandOf(m).input)
       /\ ~Past(m) => descriptors[Program(m).handle] = Program(m).input
InputOf(m) == IF m > 1 THEN PipedInput(m) ELSE OwnInput(m)

(* A program comes to the end of a pipe when its other end is closed, and  *)
(* closes nothing but that pipe's end, the shell's file or its own.        *)
ReadingOf(m) ==
  /\ At(m) = "close" => Profile(m).closes
  /\ Reads(m) =>
       /\ At(m) = "close" => Program(m).handle # In /\ (m > 1 => closed[Program(m).input.of])
       /\ At(m) = "reading" => call[Main(Slot(m))] = Program(m).input
  /\ Profile(m).source = "file" => At(m) # "reading"
  /\ HasFile(m) => descriptors[Program(m).handle] = Element("file", CommandOf(m).file)
Given == \A m \in Live : OutputOf(m) /\ InputOf(m) /\ ReadingOf(m)
Owned == \A m, l \in Live : HasFile(m) /\ HasFile(l) /\ Program(m).handle = Program(l).handle => m = l

(* What the shell has opened for the program it is about to create.        *)
Handed ==
  /\ shell.pc \in {"output", "process"} /\ shell.index = 1 =>
       \/ shell.handle_in = In
       \/ descriptors[shell.handle_in] = Element("file", CommandOf(1).input)
  /\ shell.pc = "process" /\ shell.index = Size =>
       \/ shell.handle_out = Out
       \/ descriptors[shell.handle_out] = Element("file", CommandOf(Size).output)

(* The shell closes the input of a program that has ended.  Its number may *)
(* be free, but no file has it: one that is opened takes a lower number.   *)
NextEnd ==
  shell.pc \in {"wait", "close_in"} /\ shell.index > 1 =>
    descriptors[Ends[1]].kind \in {"read", "none"}
Hole ==
  shell.pc \in {"wait", "close_in"} /\ shell.index = 2 /\ Size = 3 /\ At(3) = "begin" =>
    \/ \E x \in Free : x < Ends[1]
    \/ /\ descriptors[Ends[1]].kind = "read"
       /\ shell.pc = "wait" => ~(Reads(2) /\ Profile(2).closes)

(* Whose each descriptor is, and who has named each file.                  *)
Numbers(list) == {list[p] : p \in 1 .. Len(list)}
Accounted ==
  \A id \in Id \ {In, Out} :
    \/ descriptors[id].kind \in {"none", "proc"}
    \/ id \in Numbers(Ends) \cup Numbers(shell.opened_files)
    \/ \E m \in Live : HasFile(m) /\ Program(m).handle = id
FilesNamed ==
  Creating =>
    \A id \in Id : descriptors[id].kind = "file" =>
      \/ \E j \in 1 .. (shell.index - 1) : descriptors[id].of \in Named(CommandOf(j))
      \/ shell.pc # "input" /\ descriptors[id].of = CommandOf(shell.index).input
      \/ shell.pc = "process" /\ descriptors[id].of = CommandOf(shell.index).output
Listed == Numbers(shell.opened_files) \cap {In, Out} = {}

Order ==
  /\ Processes /\ Unique /\ Distinct /\ Pairs /\ Given /\ Owned
  /\ Handed /\ NextEnd /\ Hole /\ Accounted /\ FilesNamed /\ Listed

(* What the state's parts are where the shell stands. *)
EndsOK ==
  /\ Ends \in Seq(Id) /\ Gone \in Nat /\ Made \in Nat /\ Len(Ends) \in Nat
  /\ shell.pc # "files" => Len(Ends) = Made - Gone
  /\ \A p \in 1 .. Len(Ends) : Ends[p] \in Id
  /\ shell.pc # "files" =>
       /\ \A p \in Kept : p \in Nat /\ p - Gone \in 1 .. Len(Ends) /\ EndAt(p) = Ends[p - Gone] /\ EndAt(p) \in Id
       /\ \A p \in 1 .. Len(Ends) : p + Gone \in Kept /\ Ends[p] = EndAt(p + Gone)
       /\ Distinct => \A p, q \in Kept : EndAt(p) = EndAt(q) => p = q

(* They hold by the lengths that the shell's script gives its lists.       *)
LEMMA EndFacts == TypeInv => EndsOK
<1> SUFFICES ASSUME TypeInv PROVE EndsOK
  OBVIOUS
<1>1. /\ shell.index \in Nat /\ Size \in Nat /\ shell.used_pipes \in Seq(Id) /\ shell.pipe_queue \in Seq(Id)
      /\ Len(shell.used_pipes) \in Nat /\ Len(shell.pipe_queue) \in Nat
  BY ShellSame, ShellFields
<1>2. Ends \in Seq(Id) /\ Len(Ends) = Len(shell.used_pipes) + Len(shell.pipe_queue)
  BY <1>1, ConcatProperties DEF Ends
<1>3. Creating \/ Ending => shell.index \in 1 .. Size /\ shell.index >= 1 /\ Size >= 1
  <2>1. Creating \/ Ending => shell.index \in 1 .. Size
    BY DEF TypeInv, Script
  <2> QED BY <1>1, <2>1
<1>4. Gone \in Nat
  <2>1. \A i \in Nat : i >= 1 => 2 * i - 2 \in Nat /\ (i # 1 => 2 * i - 3 \in Nat)
    OBVIOUS
  <2> QED BY <1>1, <1>3, <2>1 DEF Gone
<1>5. Made \in Nat
  <2>1. \A i \in Nat : i >= 1 => 2 * i - 2 \in Nat /\ 2 * i \in Nat
    OBVIOUS
  <2> QED BY <1>1, <1>3, <2>1 DEF Made
<1>6. shell.pc # "files" => Len(Ends) = Made - Gone
  <2>1. shell.pc \in {"prompt", "input", "output", "process", "wait", "close_in", "close_out", "files"}
    BY ShellSame DEF Shell
  <2>2. CASE shell.pc = "prompt"
    <3>1. shell = Idle
      BY <2>2 DEF TypeInv, Script
    <3>2. Len(shell.used_pipes) = 0 /\ Len(shell.pipe_queue) = 0
      BY <3>1 DEF Idle
    <3>3. Made = 0 /\ Gone = 0
      BY <2>2 DEF Made, Gone, Creating, Ending
    <3> QED BY <1>2, <3>2, <3>3
  <2>3. CASE Creating
    <3>1. Gone = 0
      BY <2>3 DEF Gone, Creating, Ending
    <3>2. Len(shell.used_pipes) + Len(shell.pipe_queue) = Made
      BY <2>3 DEF TypeInv, Script
    <3>3. Len(Ends) = Made
      BY <1>2, <3>2
    <3> QED BY <1>5, <3>1, <3>3
  <2>4. CASE Ending
    <3>1. Len(shell.pipe_queue) = 0 /\ Len(shell.used_pipes) = Made - Gone
      BY <2>4 DEF TypeInv, Script
    <3> QED BY <1>1, <1>2, <3>1
  <2> QED BY <2>1, <2>2, <2>3, <2>4 DEF Creating, Ending
<1>7. Len(Ends) \in Nat /\ \A p \in 1 .. Len(Ends) : Ends[p] \in Id
  <2>1. Ends \in Seq(Id)
    BY <1>2
  <2> HIDE DEF Ends
  <2> QED BY ONLY <2>1
<1>8. ASSUME shell.pc # "files"
      PROVE  /\ \A p \in Kept : p \in Nat /\ p - Gone \in 1 .. Len(Ends) /\ EndAt(p) = Ends[p - Gone] /\ EndAt(p) \in Id
             /\ \A p \in 1 .. Len(Ends) : p + Gone \in Kept /\ Ends[p] = EndAt(p + Gone)
             /\ Distinct => \A p, q \in Kept : EndAt(p) = EndAt(q) => p = q
  <2>1. Len(Ends) = Made - Gone
    BY <1>6, <1>8
  <2>2. \A p \in Kept : p \in Nat /\ p - Gone \in 1 .. Len(Ends)
    BY <1>4, <1>5, <2>1 DEF Kept
  <2>3. \A p \in Kept : EndAt(p) = Ends[p - Gone] /\ EndAt(p) \in Id
    BY <1>7, <2>2 DEF EndAt
  <2>4. \A p \in 1 .. Len(Ends) : p + Gone \in Kept /\ (p + Gone) - Gone = p
    BY <1>4, <1>5, <2>1 DEF Kept
  <2>5. \A p \in 1 .. Len(Ends) : Ends[p] = EndAt(p + Gone)
    BY <2>4 DEF EndAt
  <2>6. ASSUME Distinct, NEW p \in Kept, NEW q \in Kept, EndAt(p) = EndAt(q)
        PROVE  p = q
    <3>1. p - Gone = q - Gone
      BY <2>2, <2>3, <2>6 DEF Distinct
    <3> QED BY <1>4, <2>2, <3>1
  <2> QED BY <2>2, <2>3, <2>4, <2>5, <2>6
<1> QED BY <1>2, <1>4, <1>5, <1>6, <1>7, <1>8 DEF EndsOK

(* Where a live program stands in its line. *)
LiveOK ==
  /\ First \in Nat /\ First >= 1 /\ Len(shell.handles) \in Nat /\ Size \in Nat
  /\ \A m \in Live :
       /\ Creating \/ Ending
       /\ m \in Nat /\ m >= 1 /\ m <= Size /\ m >= First /\ m <= Len(shell.handles) /\ Slot(m) \in Slots
       /\ CommandOf(m) \in Command
       /\ Creating => m < shell.index
       /\ m < Size => m \in Paired /\ 2 * m - 1 \in Kept /\ 2 * m \in Kept
       /\ m > 1 => 2 * m - 2 \in Kept
       /\ m > 1 /\ m - 1 \notin Paired => shell.pc = "wait" /\ m = shell.index

(* The programs that live are those of the line, each between its pipes.   *)
LEMMA LiveFacts == TypeInv => LiveOK
<1> SUFFICES ASSUME TypeInv PROVE LiveOK
  OBVIOUS
<1>1. /\ shell.index \in Nat /\ Size \in Nat /\ Len(shell.handles) \in Nat /\ shell.handles \in Seq(Slots)
      /\ \A p \in 1 .. Len(shell.handles) : shell.handles[p] \in Slots
      /\ \A p \in 1 .. Size : shell.line[p] \in Command
  BY ShellSame, ShellFields
<1>2. Creating \/ Ending => shell.index \in 1 .. Size /\ shell.index >= 1 /\ Size >= 1
  <2>1. Creating \/ Ending => shell.index \in 1 .. Size
    BY DEF TypeInv, Script
  <2> QED BY <1>1, <2>1
<1>3. First \in Nat /\ First >= 1
  BY <1>1, <1>2 DEF First, Ending
<1>4. shell.pc \in {"prompt", "input", "output", "process", "wait", "close_in", "close_out", "files"}
  BY ShellSame DEF Shell
<1>5. ASSUME NEW m \in Live
      PROVE  /\ Creating \/ Ending
             /\ m \in Nat /\ m >= 1 /\ m <= Size /\ m >= First /\ m <= Len(shell.handles) /\ Slot(m) \in Slots
             /\ CommandOf(m) \in Command
             /\ Creating => m < shell.index
             /\ m < Size => m \in Paired /\ 2 * m - 1 \in Kept /\ 2 * m \in Kept
             /\ m > 1 => 2 * m - 2 \in Kept
             /\ m > 1 /\ m - 1 \notin Paired => shell.pc = "wait" /\ m = shell.index
  <2>1. m \in Nat /\ m >= 1 /\ m >= First /\ m <= Len(shell.handles)
    BY <1>1, <1>3, <1>5 DEF Live
  <2>2. Creating \/ Ending
    <3>1. CASE ~(Creating \/ Ending)
      <4>1. First = Len(shell.handles) + 1
        BY <3>1 DEF First, Ending
      <4> QED BY <1>1, <2>1, <4>1
    <3> QED BY <3>1
  <2>3. Creating => Len(shell.handles) = shell.index - 1
    BY DEF TypeInv, Script
  <2>4. Ending => Len(shell.handles) = Size
    BY DEF TypeInv, Script
  <2>5. m <= Size /\ (Creating => m < shell.index)
    BY <1>1, <1>2, <2>1, <2>2, <2>3, <2>4
  <2>6. Slot(m) \in Slots /\ CommandOf(m) \in Command
    BY <1>1, <2>1, <2>5 DEF Slot, CommandOf
  <2>7. CASE Creating
    <3>1. Gone = 0 /\ Made >= 2 * shell.index - 2 /\ Made \in Nat
      <4>1. Gone = 0
        BY <2>7 DEF Gone, Creating, Ending
      <4>2. Made \in Nat
        BY EndFacts DEF EndsOK
      <4>3. Made = 2 * shell.index \/ Made = 2 * shell.index - 2
        BY <2>7 DEF Made, Creating, Ending
      <4> QED BY <1>1, <4>1, <4>2, <4>3
    <3>2. 2 * m <= Made
      BY <1>1, <2>1, <2>5, <2>7, <3>1
    <3>3. 2 * m - 1 \in Kept /\ 2 * m \in Kept /\ (m > 1 => 2 * m - 2 \in Kept /\ 2 * (m - 1) - 1 \in Kept /\ 2 * (m - 1) \in Kept)
      BY <2>1, <3>1, <3>2 DEF Kept
    <3>4. m > 1 => m - 1 \in 1 .. Size
      BY <1>1, <2>1, <2>5
    <3> QED BY <1>1, <2>1, <2>2, <2>5, <2>6, <3>3, <3>4 DEF Paired
  <2>8. CASE Ending
    <3>1. Made = 2 * Size - 2
      BY <2>8 DEF Made
    <3>2. shell.index >= 1 /\ shell.index <= m
      BY <1>1, <1>2, <2>1, <2>8 DEF First, Creating, Ending
    <3>3. Gone \in Nat /\ Gone < 2 * m - 1 /\ (m > 1 => Gone < 2 * m - 2)
          /\ (m > 1 /\ ~(shell.pc = "wait" /\ m = shell.index) => Gone < 2 * m - 3)
      <4>0. Gone \in Nat
        BY EndFacts DEF EndsOK
      <4>1. CASE shell.pc = "close_out"
        <5>1. m >= shell.index + 1 /\ Gone = 2 * shell.index - 2
          BY <2>1, <2>8, <4>1 DEF First, Gone, Creating
        <5> QED BY <1>1, <2>1, <3>2, <4>0, <4>1, <5>1
      <4>2. CASE shell.pc = "close_in"
        <5>1. m >= shell.index + 1 /\ Gone = (IF shell.index = 1 THEN 0 ELSE 2 * shell.index - 3)
          BY <2>1, <2>8, <4>2 DEF First, Gone, Creating
        <5> QED BY <1>1, <2>1, <3>2, <4>0, <4>2, <5>1
      <4>3. CASE shell.pc = "wait"
        <5>1. m >= shell.index /\ Gone = (IF shell.index = 1 THEN 0 ELSE 2 * shell.index - 3)
          BY <2>1, <2>8, <4>3 DEF First, Gone, Creating
        <5> QED BY <1>1, <2>1, <3>2, <4>0, <4>3, <5>1
      <4> QED BY <2>8, <4>1, <4>2, <4>3 DEF Ending
    <3>4. m < Size => 2 * m - 1 \in Kept /\ 2 * m \in Kept
      BY <1>1, <2>1, <3>1, <3>3 DEF Kept
    <3>5. m > 1 => 2 * m - 2 \in Kept
      BY <1>1, <2>1, <2>5, <3>1, <3>3 DEF Kept
    <3>6. m > 1 /\ ~(shell.pc = "wait" /\ m = shell.index) => m - 1 \in Paired
      <4>1. ASSUME m > 1, ~(shell.pc = "wait" /\ m = shell.index)
            PROVE  2 * (m - 1) - 1 \in Kept /\ 2 * (m - 1) \in Kept /\ m - 1 \in 1 .. Size
        BY <1>1, <2>1, <2>5, <3>1, <3>3, <4>1 DEF Kept
      <4> QED BY <4>1 DEF Paired
    <3>7. m \in 1 .. Size
      BY <1>1, <2>1, <2>5
    <3> QED BY <2>1, <2>2, <2>5, <2>6, <2>8, <3>4, <3>5, <3>6, <3>7 DEF Paired, Creating, Ending
  <2> QED BY <2>2, <2>7, <2>8
<1> QED BY <1>1, <1>3, <1>5 DEF LiveOK

(* The same for the next state. *)
LEMMA NextFacts == TypeInv' => EndsOK' /\ LiveOK'
BY EndFacts, LiveFacts, PTL

(* The line that the shell is at is one of those typed, so it is sound. *)
LEMMA SoundLine ==
  ASSUME TypeInv, AllSound, shell.pc # "prompt"
  PROVE  /\ Size \in Nat /\ Size >= 1 /\ Size <= Cardinality(Slots)
         /\ DOMAIN shell.line = 1 .. Size
         /\ shell.line \in Lines
         /\ \A i \in 1 .. Size :
              /\ CommandOf(i) \in Command /\ CommandOf(i).program \in Programs
              /\ Redirected(CommandOf(i)) \subseteq Files
              /\ CommandOf(i).input = CommandOf(i).output => CommandOf(i).input = NoFile
              /\ \A j \in 1 .. Size : i # j => Redirected(CommandOf(i)) \cap Named(CommandOf(j)) = {}
         /\ Size <= 3 \/ \A i \in 1 .. Size : i > 1 => Reads(i)
<1>1. shell.line = typed[Len(typed)] /\ Len(typed) > 0 /\ typed \in Seq(Lines)
  BY DEF TypeInv, Script, TypeOK
<1>2. Len(typed) \in DOMAIN typed /\ shell.line \in Lines
  BY <1>1
<1>3. Sound(shell.line)
  BY <1>1, <1>2 DEF AllSound
<1>4. Size \in Nat /\ Size > 0 /\ DOMAIN shell.line = 1 .. Size /\ \A i \in 1 .. Size : CommandOf(i) \in Command
  BY <1>2, LineFacts DEF Size, CommandOf
<1>5. Startable(shell.line) /\ (Chained(shell.line) \/ Size <= 3)
  BY <1>3 DEF Sound, Size
<1>6. Size <= Cardinality(Slots)
  BY <1>5 DEF Startable, Size
<1>7. \A i \in 1 .. Size :
        /\ CommandOf(i).program \in Programs
        /\ Redirected(CommandOf(i)) \subseteq Files
        /\ CommandOf(i).input = CommandOf(i).output => CommandOf(i).input = NoFile
        /\ \A j \in 1 .. Size : i # j => Redirected(CommandOf(i)) \cap Named(CommandOf(j)) = {}
  BY <1>4, <1>5 DEF Startable, CommandOf
<1>8. Chained(shell.line) => \A i \in 1 .. Size : i > 1 => Reads(i)
  BY <1>4 DEF Chained, Reads, CommandOf
<1> QED BY <1>2, <1>4, <1>5, <1>6, <1>7, <1>8

(* What a program is called with names no file that another is. *)
LEMMA FilesDiffer ==
  ASSUME TypeInv, AllSound, shell.pc # "prompt", NEW i \in 1 .. Size, NEW j \in 1 .. Size, i # j
  PROVE  /\ CommandOf(i).input \in Files =>
              CommandOf(i).input \notin {CommandOf(j).input, CommandOf(j).output, CommandOf(j).file}
         /\ CommandOf(i).output \in Files =>
              CommandOf(i).output \notin {CommandOf(j).input, CommandOf(j).output, CommandOf(j).file}
<1>1. Redirected(CommandOf(i)) \cap Named(CommandOf(j)) = {}
  BY SoundLine
<1> QED BY <1>1, SoundLine DEF Redirected, Named

(* A step in which the shell does nothing leaves all that is the shell's.  *)
LEMMA ShellStays ==
  ASSUME shell' = shell, typed' = typed
  PROVE  /\ (Creating' <=> Creating) /\ (Ending' <=> Ending) /\ Size' = Size /\ Ends' = Ends /\ Gone' = Gone
         /\ Made' = Made /\ First' = First /\ Live' = Live /\ Kept' = Kept /\ Paired' = Paired
         /\ (AllSound' <=> AllSound)
         /\ \A m : Slot(m)' = Slot(m) /\ CommandOf(m)' = CommandOf(m) /\ Profile(m)' = Profile(m)
                   /\ (Reads(m)' <=> Reads(m))
         /\ \A p : EndAt(p)' = EndAt(p)
<1>1. (Creating' <=> Creating) /\ (Ending' <=> Ending) /\ Size' = Size /\ Ends' = Ends
  BY DEF Creating, Ending, Size, Ends
<1>2. Gone' = Gone /\ Made' = Made
  BY <1>1 DEF Gone, Made
<1>3. First' = First
  BY <1>1 DEF First
<1>4. Live' = Live /\ Kept' = Kept
  BY <1>2, <1>3 DEF Live, Kept
<1>5. Paired' = Paired /\ (AllSound' <=> AllSound)
  BY <1>1, <1>4 DEF Paired, AllSound
<1>6. \A m : Slot(m)' = Slot(m) /\ CommandOf(m)' = CommandOf(m) /\ Profile(m)' = Profile(m)
             /\ (Reads(m)' <=> Reads(m))
  BY DEF Slot, CommandOf, Profile, Reads
<1>7. \A p : EndAt(p)' = EndAt(p)
  BY <1>1, <1>2 DEF EndAt
<1> QED BY <1>1, <1>2, <1>3, <1>4, <1>5, <1>6, <1>7

(* The claims about a program that is left alone still hold when the       *)
(* numbers it uses are.                                                    *)
LEMMA ClaimsKept ==
  ASSUME TypeInv, NEW m \in Live, OutputOf(m), InputOf(m), ReadingOf(m),
         CommandOf(m)' = CommandOf(m), Size' = Size,
         Program(m)' = Program(m), At(m)' = At(m),
         call'[Main(Slot(m)')] = call[Main(Slot(m))],
         m < Size => /\ EndAt(2 * m - 1)' = EndAt(2 * m - 1)
                     /\ descriptors'[EndAt(2 * m - 1)] = descriptors[EndAt(2 * m - 1)],
         m > 1 => EndAt(2 * m - 2)' = EndAt(2 * m - 2),
         m > 1 /\ ~Past(m) => descriptors'[EndAt(2 * m - 2)] = descriptors[EndAt(2 * m - 2)],
         Reads(m) /\ ~(m > 1) /\ ~Past(m) /\ Program(m).input # Console(In) =>
           descriptors'[Program(m).handle] = descriptors[Program(m).handle],
         HasFile(m) => descriptors'[Program(m).handle] = descriptors[Program(m).handle],
         m > 1 /\ Reads(m) /\ At(m) = "close" /\ closed[Program(m).input.of] => closed'[Program(m).input.of]
  PROVE  OutputOf(m)' /\ InputOf(m)' /\ ReadingOf(m)'
<1>1. /\ Profile(m)' = Profile(m) /\ (Reads(m)' <=> Reads(m)) /\ (HasFile(m)' <=> HasFile(m))
      /\ (Past(m)' <=> Past(m))
  BY DEF Profile, Reads, HasFile, Past
<1>2. OutputOf(m)'
  BY DEF OutputOf
<1>3. InputOf(m)'
  <2>1. CASE m > 1
    <3>1. PipedInput(m)
      BY <2>1 DEF InputOf
    <3>2. PipedInput(m)'
      BY <1>1, <2>1, <3>1 DEF PipedInput
    <3> QED BY <2>1, <3>2 DEF InputOf
  <2>2. CASE ~(m > 1)
    <3>1. OwnInput(m)
      BY <2>2 DEF InputOf
    <3>3. \A f : Element("file", f) # Console(In)
      BY ElementParts DEF Console
    <3>2. OwnInput(m)'
      BY <1>1, <2>2, <3>1, <3>3 DEF OwnInput
    <3> QED BY <2>2, <3>2 DEF InputOf
  <2> QED BY <2>1, <2>2
<1>4. ReadingOf(m)'
  BY <1>1 DEF ReadingOf
<1> QED BY <1>2, <1>3, <1>4

(* Program m does a step; it stays what it was started as.                 *)
Stepping(m) ==
  /\ m \in Live /\ shell' = shell /\ typed' = typed
  /\ \A s \in Slots \ {Slot(m)} :
       process'[s] = process[s] /\ at'[Main(s)] = at[Main(s)] /\ call'[Main(s)] = call[Main(s)]
  /\ process'[Slot(m)] # NoProcess /\ Program(m)'.command = Program(m).command
  /\ Program(m)'.handle_out = Program(m).handle_out
  /\ Program(m)'.input = Program(m).input /\ Program(m)'.output = Program(m).output

(* The other programs do nothing then. *)
LEMMA Others ==
  ASSUME TypeInv, Processes, NEW m, Stepping(m), NEW l \in Live, l # m
  PROVE  /\ Program(l)' = Program(l) /\ At(l)' = At(l)
         /\ call'[Main(Slot(l)')] = call[Main(Slot(l))]
         /\ (HasFile(l)' <=> HasFile(l)) /\ Slot(l) # Slot(m)
<1>1. /\ Slot(l)' = Slot(l) /\ Slot(m)' = Slot(m) /\ Profile(l)' = Profile(l)
  BY ShellStays DEF Stepping
<1>2. Slot(l) \in Slots /\ l \in 1 .. Len(shell.handles) /\ m \in 1 .. Len(shell.handles)
  BY LiveFacts DEF LiveOK, Stepping
<1>3. Slot(l) # Slot(m)
  BY <1>2 DEF Processes
<1> QED BY <1>1, <1>2, <1>3 DEF Stepping, Program, At, HasFile

(* Which process runs in which slot does not change with a step of one. *)
LEMMA ProcessesKept ==
  ASSUME TypeInv, Processes, NEW m, Stepping(m)
  PROVE  Processes'
<1>1. Ends' = Ends /\ Live' = Live /\ \A l : Slot(l)' = Slot(l) /\ CommandOf(l)' = CommandOf(l)
  BY ShellStays DEF Stepping
<1>2. \A s \in Slots : process'[s] # NoProcess => \E l \in Live' : Slot(l)' = s
  <2> TAKE s \in Slots
  <2>1. CASE s = Slot(m)
    BY <1>1, <2>1 DEF Stepping
  <2>2. CASE s # Slot(m)
    BY <1>1, <2>2 DEF Stepping, Processes
  <2> QED BY <2>1, <2>2
<1>3. ASSUME NEW l \in Live
      PROVE  Program(l)' # NoProcess /\ Program(l)'.command = CommandOf(l)
  <2>1. CASE l = m
    BY <1>1, <1>3, <2>1 DEF Stepping, Processes, Program
  <2>2. CASE l # m
    BY <1>3, <2>2, Others DEF Processes
  <2> QED BY <2>1, <2>2
<1> QED BY <1>1, <1>2, <1>3 DEF Processes, Stepping

(* A program's step keeps the order when it touches no number that the     *)
(* shell or another program counts on.                                     *)
LEMMA StepKeeps ==
  ASSUME TypeInv, Order, NEW m, Stepping(m),
         NEW x, \A id \in Id \ {x} : descriptors'[id] = descriptors[id],
         Unique',
         \A j \in Paired : EndAt(2 * j - 1) # x /\ EndAt(2 * j) # x,
         \A k \in Pipes : closed[k] => closed'[k],
         \A k \in Pipes : ~closed[k] /\ (\E id \in Id : descriptors'[id] = Element("write", k))
                                     /\ (\E id \in Id : descriptors'[id] = Element("read", k)) => ~closed'[k],
         \A l \in Live \ {m} :
           /\ l > 1 /\ ~Past(l) => EndAt(2 * l - 2) # x
           /\ Reads(l) /\ ~(l > 1) /\ ~Past(l) /\ Program(l).input # Console(In) => Program(l).handle # x
           /\ HasFile(l) => Program(l).handle # x,
         InputOf(m)', ReadingOf(m)',
         HasFile(m)' => \A l \in Live \ {m} : HasFile(l) => Program(m)'.handle # Program(l).handle,
         shell.pc = "process" /\ shell.index = Size => shell.handle_out = Out \/ shell.handle_out # x,
         NextEnd', Hole',
         x \in Id => descriptors'[x].kind \in {"none", "proc"} \/ (HasFile(m)' /\ Program(m)'.handle = x),
         HasFile(m) /\ Program(m).handle # x => HasFile(m)' /\ Program(m)'.handle = Program(m).handle,
         x \in Id /\ descriptors'[x].kind = "file" => descriptors'[x].of = CommandOf(m).file
  PROVE  Order'
<1>1. /\ Creating' <=> Creating
      /\ Size' = Size /\ Ends' = Ends /\ Live' = Live /\ Kept' = Kept /\ Paired' = Paired
      /\ \A l : Slot(l)' = Slot(l) /\ CommandOf(l)' = CommandOf(l) /\ Profile(l)' = Profile(l)
                /\ (Reads(l)' <=> Reads(l))
      /\ \A p : EndAt(p)' = EndAt(p)
  BY ShellStays DEF Stepping
<1>2. shell' = shell /\ m \in Live /\ Creating => shell.index > 1
  BY LiveFacts, ShellSame, ShellFields DEF LiveOK, Stepping
<1>3. Processes'
  BY ProcessesKept DEF Order
<1>4. Distinct' /\ Listed'
  BY <1>1 DEF Order, Distinct, Listed, Numbers, Stepping
<1>5. \A j \in Paired : EndAt(2 * j - 1) \in Id /\ EndAt(2 * j) \in Id
  <2>1. CASE shell.pc = "files"
    <3>1. Live = {}
      BY <2>1, LiveFacts DEF LiveOK, Creating, Ending
    <3> QED BY <3>1 DEF Stepping
  <2>2. CASE shell.pc # "files"
    BY <2>2, EndFacts DEF EndsOK, Paired
  <2> QED BY <2>1, <2>2
<1>6. Pairs'
  <2>1. ASSUME NEW j \in Paired
        PROVE  Pair(j)'
    <3>1. PICK k \in Pipes : /\ descriptors[EndAt(2 * j - 1)] = Element("write", k)
                             /\ descriptors[EndAt(2 * j)] = Element("read", k)
                             /\ ~closed[k] /\ EndAt(2 * j - 1) < EndAt(2 * j)
      BY <2>1 DEF Order, Pairs, Pair
    <3>2. /\ descriptors'[EndAt(2 * j - 1)] = Element("write", k)
          /\ descriptors'[EndAt(2 * j)] = Element("read", k)
      BY <1>5, <2>1, <3>1
    <3>3. ~closed'[k]
      BY <1>5, <2>1, <3>1, <3>2
    <3> QED BY <1>1, <3>1, <3>2, <3>3 DEF Pair
  <2> QED BY <1>1, <2>1 DEF Pairs
<1>7. ASSUME NEW l \in Live, l < Size
      PROVE  EndAt(2 * l - 1) \in Id /\ descriptors'[EndAt(2 * l - 1)] = descriptors[EndAt(2 * l - 1)]
  <2>1. l \in Paired
    BY <1>7, LiveFacts DEF LiveOK
  <2> QED BY <1>5, <2>1
<1>8. Given'
  <2>1. ASSUME NEW l \in Live
        PROVE  OutputOf(l)' /\ InputOf(l)' /\ ReadingOf(l)'
    <3>1. CASE l = m
      <4>1. OutputOf(m)
        BY <2>1, <3>1 DEF Order, Given
      <4>2. OutputOf(m)'
        BY <1>1, <1>7, <2>1, <3>1, <4>1 DEF OutputOf, Stepping
      <4> QED BY <3>1, <4>2
    <3>2. CASE l # m
      <4>1. OutputOf(l) /\ InputOf(l) /\ ReadingOf(l) /\ Program(l) # NoProcess /\ Slot(l) \in Slots
        BY <2>1, LiveFacts DEF Order, Given, Processes, LiveOK
      <4>2. Program(l)' = Program(l) /\ At(l)' = At(l) /\ call'[Main(Slot(l)')] = call[Main(Slot(l))]
        BY <2>1, <3>2, Others DEF Order
      <4>3. Program(l).handle \in Id /\ Program(l).input \in Elements
        BY <4>1, ProcessFields DEF Program
      <4>4. l > 1 => EndAt(2 * l - 2) \in Id
        BY <2>1, LiveFacts, EndFacts DEF LiveOK, EndsOK, Creating, Ending
      <4>5. l > 1 /\ ~Past(l) => descriptors'[EndAt(2 * l - 2)] = descriptors[EndAt(2 * l - 2)]
        BY <2>1, <3>2, <4>4
      <4>6. Reads(l) /\ ~(l > 1) /\ ~Past(l) /\ Program(l).input # Console(In) =>
              descriptors'[Program(l).handle] = descriptors[Program(l).handle]
        BY <2>1, <3>2, <4>3
      <4>7. HasFile(l) => descriptors'[Program(l).handle] = descriptors[Program(l).handle]
        BY <2>1, <3>2, <4>3
      <4>8. l > 1 /\ Reads(l) /\ At(l) = "close" /\ closed[Program(l).input.of] => closed'[Program(l).input.of]
        <5>1. ASSUME l > 1 PROVE Program(l).input.of \in Pipes
          <6>1. Program(l).input.kind = "read"
            BY <4>1, <5>1 DEF InputOf, PipedInput
          <6> QED BY <4>3, <6>1, ElementIs
        <5> QED BY <5>1
      <4> QED BY <1>1, <1>7, <2>1, <4>1, <4>2, <4>5, <4>6, <4>7, <4>8, ClaimsKept
    <3> QED BY <3>1, <3>2
  <2> QED BY <1>1, <2>1 DEF Given
<1>9. Owned'
  <2>1. ASSUME NEW l \in Live, NEW o \in Live, HasFile(l)', HasFile(o)',
               Program(l)'.handle = Program(o)'.handle
        PROVE  l = o
    <3>1. \A i \in Live : i # m => Program(i)' = Program(i) /\ (HasFile(i)' <=> HasFile(i))
      BY Others DEF Order
    <3>2. CASE l # m /\ o # m
      BY <2>1, <3>1, <3>2 DEF Order, Owned
    <3>3. CASE l = m /\ o # m
      BY <2>1, <3>1, <3>3
    <3>4. CASE l # m /\ o = m
      BY <2>1, <3>1, <3>4
    <3> QED BY <3>2, <3>3, <3>4
  <2> QED BY <1>1, <2>1 DEF Owned
<1>10. Handed'
  <2>1. shell.pc \in {"output", "process"} => shell.index > 1 /\ shell.index # 1
    BY <1>2, ShellSame, ShellFields DEF Creating, Stepping
  <2>2. shell.handle_out \in Id
    BY ShellSame, ShellFields
  <2> QED BY <1>1, <1>2, <2>1, <2>2 DEF Order, Handed, Stepping
<1>11. Accounted'
  <2>1. ASSUME NEW id \in Id \ {In, Out},
               descriptors'[id].kind \notin {"none", "proc"}, id \notin Numbers(Ends) \cup Numbers(shell.opened_files)
        PROVE  \E l \in Live : HasFile(l)' /\ Program(l)'.handle = id
    <3>1. CASE id = x
      BY <2>1, <3>1 DEF Stepping
    <3>2. CASE id # x
      <4>1. descriptors[id].kind \notin {"none", "proc"}
        BY <2>1, <3>2
      <4>2. PICK l \in Live : HasFile(l) /\ Program(l).handle = id
        BY <2>1, <4>1 DEF Order, Accounted
      <4>3. CASE l = m
        BY <3>2, <4>2, <4>3
      <4>4. CASE l # m
        BY <4>2, <4>4, Others DEF Order
      <4> QED BY <4>3, <4>4
    <3> QED BY <3>1, <3>2
  <2>2. Numbers(Ends)' = Numbers(Ends) /\ Numbers(shell.opened_files)' = Numbers(shell.opened_files)
    BY <1>1 DEF Numbers, Stepping
  <2> QED BY <1>1, <2>1, <2>2 DEF Accounted
<1>12. FilesNamed'
  <2>1. ASSUME Creating, NEW id \in Id, descriptors'[id].kind = "file"
        PROVE  \/ \E j \in 1 .. (shell.index - 1) : descriptors'[id].of \in Named(CommandOf(j))
               \/ shell.pc # "input" /\ descriptors'[id].of = CommandOf(shell.index).input
               \/ shell.pc = "process" /\ descriptors'[id].of = CommandOf(shell.index).output
    <3>1. CASE id = x
      <4>1. m \in 1 .. (shell.index - 1)
        BY <2>1, LiveFacts, ShellSame, ShellFields DEF LiveOK, Stepping
      <4>2. descriptors'[id].of = CommandOf(m).file
        BY <2>1, <3>1
      <4>3. CommandOf(m).file \in Named(CommandOf(m))
        BY DEF Named
      <4> QED BY <4>1, <4>2, <4>3
    <3>2. CASE id # x
      BY <2>1, <3>2 DEF Order, FilesNamed
    <3> QED BY <3>1, <3>2
  <2>2. \A i : Named(CommandOf(i))' = Named(CommandOf(i))
    BY <1>1 DEF Named, Redirected
  <2> QED BY <1>1, <2>1, <2>2 DEF FilesNamed, Stepping
<1> QED BY <1>3, <1>4, <1>6, <1>8, <1>9, <1>10, <1>11, <1>12 DEF Order

(* A pipe that was closed stays so; one with both ends in the table is not *)
(* closed by what a thread or the shell does.                              *)
LEMMA ClosedKept ==
  ASSUME TypeInv, closed' = closed \/ \E calls : closed' = Closed(descriptors', calls)
  PROVE  /\ \A k \in Pipes : closed[k] => closed'[k]
         /\ \A k \in Pipes : ~closed[k] /\ (\E id \in Id : descriptors'[id] = Element("write", k))
                                        /\ (\E id \in Id : descriptors'[id] = Element("read", k)) => ~closed'[k]
BY DEF Closed, HasEnd

(* Whatever runs is a program of the line. *)
LEMMA SlotOfLine ==
  ASSUME TypeInv, Order, NEW s \in Slots, process[s] # NoProcess
  PROVE  \E m \in Live : /\ Slot(m) = s /\ Program(m) = process[s] /\ At(m) = at[Main(s)]
                         /\ CommandOf(m) = process[s].command /\ Profile(m) = ProfileIn(s)
                         /\ (Reads(m) <=> ProfileIn(s).source = "input")
                         /\ (HasFile(m) <=> ProfileIn(s).source = "file" /\ at[Main(s)] \in {"read", "close"})
<1>1. PICK m \in Live : Slot(m) = s
  BY DEF Order, Processes
<1>2. Program(m) = process[s] /\ At(m) = at[Main(s)] /\ CommandOf(m) = process[s].command
  BY <1>1 DEF Order, Processes, Program, At
<1>3. Profile(m) = ProfileIn(s) /\ (Reads(m) <=> ProfileIn(s).source = "input")
  BY <1>2 DEF Profile, ProfileIn, Reads, ReadsInput
<1> QED BY <1>1, <1>2, <1>3 DEF HasFile

(* A step of one of the threads of a slot. *)
LEMMA ThreadStep ==
  ASSUME TypeInv, Order, NEW s \in Slots, process[s] # NoProcess, shell' = shell, typed' = typed,
         NEW t \in {Main(s), Checker(s)},
         \A u \in Thread \ {t, Checker(s)} : at'[u] = at[u] /\ call'[u] = call[u],
         \A o \in Slots \ {s} : process'[o] = process[o], process'[s] \in Process,
         process'[s].command = process[s].command, process'[s].handle_out = process[s].handle_out,
         process'[s].input = process[s].input, process'[s].output = process[s].output
  PROVE  \E m \in Live :
           /\ Stepping(m) /\ Slot(m) = s /\ Program(m) = process[s] /\ At(m) = at[Main(s)]
           /\ CommandOf(m) = process[s].command /\ Profile(m) = ProfileIn(s)
           /\ (Reads(m) <=> ProfileIn(s).source = "input")
           /\ (HasFile(m) <=> ProfileIn(s).source = "file" /\ at[Main(s)] \in {"read", "close"})
           /\ Program(m)' = process'[s] /\ At(m)' = at'[Main(s)]
           /\ call'[Main(Slot(m)')] = call'[Main(s)]
           /\ t # Main(s) => At(m)' = At(m) /\ call'[Main(s)] = call[Main(s)]
<1>1. PICK m \in Live :
        /\ Slot(m) = s /\ Program(m) = process[s] /\ At(m) = at[Main(s)]
        /\ CommandOf(m) = process[s].command /\ Profile(m) = ProfileIn(s)
        /\ (Reads(m) <=> ProfileIn(s).source = "input")
        /\ (HasFile(m) <=> ProfileIn(s).source = "file" /\ at[Main(s)] \in {"read", "close"})
  BY SlotOfLine
<1>2. Slot(m)' = Slot(m)
  BY DEF Slot
<1>3. /\ \A o \in Slots : Main(o) \in Thread /\ Main(o) # Checker(s) /\ (o # s => Main(o) # t)
      /\ t \in Thread /\ t[1] = s
  BY ThreadFacts
<1>4. Program(m)' = process'[s] /\ process'[s] # NoProcess /\ At(m)' = at'[Main(s)]
  BY <1>1, <1>2, MarkAssumption DEF Program, At
<1>5. \A o \in Slots \ {s} : at'[Main(o)] = at[Main(o)] /\ call'[Main(o)] = call[Main(o)]
  BY <1>3
<1>6. Stepping(m)
  BY <1>1, <1>2, <1>4, <1>5 DEF Stepping, Program
<1>7. t # Main(s) => at'[Main(s)] = at[Main(s)] /\ call'[Main(s)] = call[Main(s)]
  BY <1>3
<1> QED BY <1>1, <1>2, <1>4, <1>6, <1>7

(* What a program that reads finds at its handle. *)
LEMMA ReadingFacts ==
  ASSUME TypeInv, Order, NEW s \in Slots, process[s] # NoProcess
  PROVE  LET p == ProfileIn(s)  a == at[Main(s)]  id == process[s].handle IN
         /\ p.source = "input" /\ a \in {"begin", "read", "reading", "close"} => descriptors[id] = process[s].input
         /\ p.source = "file" /\ a \in {"read", "close"} =>
              descriptors[id] = Element("file", process[s].command.file) /\ id # In
         /\ p.source = "file" => a # "reading"
         /\ a = "close" => p.closes
         /\ p.source = "input" /\ a = "close" =>
              id # In /\ (process[s].input.kind = "read" => closed[process[s].input.of])
         /\ p.source = "input" /\ a = "reading" => call[Main(s)] = process[s].input
         /\ p.source = "input" => process[s].input.kind \in {"read", "file", "console"}
<1>1. PICK m \in Live :
        /\ Slot(m) = s /\ Program(m) = process[s] /\ At(m) = at[Main(s)]
        /\ CommandOf(m) = process[s].command /\ Profile(m) = ProfileIn(s)
        /\ (Reads(m) <=> ProfileIn(s).source = "input")
        /\ (HasFile(m) <=> ProfileIn(s).source = "file" /\ at[Main(s)] \in {"read", "close"})
  BY SlotOfLine
<1>2. InputOf(m) /\ ReadingOf(m)
  BY DEF Order, Given
<1>3. In \in Id /\ descriptors[In] = Console(In)
  BY FreeFacts DEF Order, Unique
<1>4. \A f : Element("file", f) # Console(In) /\ Element("file", f).kind = "file"
  BY ElementParts DEF Console
<1>5. CASE m > 1
  BY <1>1, <1>2, <1>3, <1>4, <1>5 DEF InputOf, PipedInput, ReadingOf, Past
<1>6. CASE ~(m > 1)
  <2>1. OwnInput(m)
    BY <1>2, <1>6 DEF InputOf
  <2>2. ReadsInput(process[s].command) =>
          \/ process[s].handle = In /\ process[s].input = Console(In)
          \/ /\ process[s].input = Element("file", CommandOf(m).input)
             /\ at[Main(s)] \notin {"write", "writing", "ended"} => descriptors[process[s].handle] = process[s].input
    BY <1>1, <2>1 DEF OwnInput, Past, Reads
  <2>3. process[s].input = Console(In) => process[s].input.kind = "console"
    BY ElementParts
  <2>4. Reads(m) <=> ReadsInput(process[s].command)
    BY <1>1 DEF Reads
  <2> QED BY <1>1, <1>2, <1>3, <1>4, <2>2, <2>3, <2>4 DEF ReadingOf
<1> QED BY <1>5, <1>6

-----------------------------------------------------------------------------
(* The steps of the programs keep the order.                               *)

(* A step of a program that opens and closes nothing. *)
LEMMA QuietKeeps ==
  ASSUME TypeInv, Order, NEW s \in Slots, process[s] # NoProcess, shell' = shell, typed' = typed,
         NEW t \in {Main(s), Checker(s)},
         \A u \in Thread \ {t, Checker(s)} : at'[u] = at[u] /\ call'[u] = call[u],
         \A o \in Slots \ {s} : process'[o] = process[o], process'[s] \in Process,
         process'[s].command = process[s].command, process'[s].handle_out = process[s].handle_out,
         process'[s].input = process[s].input, process'[s].output = process[s].output,
         process'[s].handle = process[s].handle,
         descriptors' = descriptors, closed' = closed \/ \E calls : closed' = Closed(descriptors', calls),
         t = Main(s) =>
           /\ at'[t] # "begin"
           /\ ProfileIn(s).closes /\ at[t] \in {"write", "writing", "ended"} => at'[t] \in {"write", "writing", "ended"}
           /\ at'[t] = "close" =>
                /\ ProfileIn(s).closes /\ process[s].handle # In
                /\ ProfileIn(s).source = "input" /\ process[s].input.kind = "read" => closed'[process[s].input.of]
           /\ ProfileIn(s).source = "input" /\ at'[t] = "reading" => call'[t] = process[s].input
           /\ ProfileIn(s).source = "file" =>
                at'[t] # "reading" /\ (at'[t] \in {"read", "close"} <=> at[t] \in {"read", "close"})
  PROVE  Order'
<1>1. PICK m \in Live :
        /\ Stepping(m) /\ Slot(m) = s /\ Program(m) = process[s] /\ At(m) = at[Main(s)]
        /\ CommandOf(m) = process[s].command /\ Profile(m) = ProfileIn(s)
        /\ (Reads(m) <=> ProfileIn(s).source = "input")
        /\ (HasFile(m) <=> ProfileIn(s).source = "file" /\ at[Main(s)] \in {"read", "close"})
        /\ Program(m)' = process'[s] /\ At(m)' = at'[Main(s)]
        /\ call'[Main(Slot(m)')] = call'[Main(s)]
        /\ t # Main(s) => At(m)' = At(m) /\ call'[Main(s)] = call[Main(s)]
  BY ThreadStep
<1>2. /\ Size' = Size /\ Ends' = Ends /\ Paired' = Paired
      /\ \A l : Slot(l)' = Slot(l) /\ CommandOf(l)' = CommandOf(l) /\ Profile(l)' = Profile(l)
                /\ (Reads(l)' <=> Reads(l))
      /\ \A p : EndAt(p)' = EndAt(p)
  BY ShellStays
<1>3. /\ \A k \in Pipes : closed[k] => closed'[k]
      /\ \A k \in Pipes : ~closed[k] /\ (\E id \in Id : descriptors'[id] = Element("write", k))
                                     /\ (\E id \in Id : descriptors'[id] = Element("read", k)) => ~closed'[k]
  BY ClosedKept
<1>4. HasFile(m)' <=> HasFile(m)
  BY <1>1, <1>2 DEF HasFile
<1>5. Past(m) => Past(m)'
  BY <1>1, <1>2 DEF Past
<1>6. InputOf(m) /\ ReadingOf(m) /\ process[s].input \in Elements
  BY ProcessFields DEF Order, Given
<1>7. InputOf(m)'
  <2>1. CASE m > 1
    <3>1. PipedInput(m)'
      BY <1>1, <1>2, <1>5, <1>6, <2>1 DEF InputOf, PipedInput
    <3> QED BY <2>1, <3>1 DEF InputOf
  <2>2. CASE ~(m > 1)
    <3>1. OwnInput(m)'
      BY <1>1, <1>2, <1>5, <1>6, <2>2 DEF InputOf, OwnInput
    <3> QED BY <2>2, <3>1 DEF InputOf
  <2> QED BY <2>1, <2>2
<1>8. m > 1 => process[s].input.kind = "read" /\ process[s].input.of \in Pipes
  BY <1>1, <1>6, ElementIs DEF InputOf, PipedInput
<1>9. ReadingOf(m)'
  <2>1. CASE t = Main(s)
    <3>1. At(m)' = at'[t] /\ At(m) = at[t]
      BY <1>1, <2>1
    <3>2. At(m)' = "close" => Profile(m)'.closes
      BY <1>1, <1>2, <2>1, <3>1
    <3>3. Reads(m)' /\ At(m)' = "close" =>
            Program(m)'.handle # In /\ (m > 1 => closed'[Program(m)'.input.of])
      BY <1>1, <1>2, <1>8, <2>1, <3>1
    <3>4. Reads(m)' /\ At(m)' = "reading" => call'[Main(Slot(m)')] = Program(m)'.input
      BY <1>1, <1>2, <2>1, <3>1
    <3>5. Profile(m)'.source = "file" => At(m)' # "reading"
      BY <1>1, <1>2, <2>1, <3>1
    <3>6. HasFile(m)' => descriptors'[Program(m)'.handle] = Element("file", CommandOf(m)'.file)
      BY <1>1, <1>2, <1>4, <1>6 DEF ReadingOf
    <3> QED BY <3>2, <3>3, <3>4, <3>5, <3>6 DEF ReadingOf
  <2>2. CASE t # Main(s)
    <3>1. m > 1 /\ closed[Program(m).input.of] => closed'[Program(m)'.input.of]
      BY <1>1, <1>3, <1>8
    <3>2. At(m)' = At(m) /\ call'[Main(Slot(m)')] = call[Main(Slot(m))] /\ Program(m)'.input = Program(m).input
          /\ Program(m)'.handle = Program(m).handle
      BY <1>1, <2>2
    <3> QED BY <1>2, <1>4, <1>6, <3>1, <3>2 DEF ReadingOf
  <2> QED BY <2>1, <2>2
<1>10. NextEnd'
  BY <1>2 DEF Order, NextEnd
<1>11. Hole'
  <2>1. Free' = Free
    BY DEF Free
  <2>2. ASSUME shell.pc \in {"wait", "close_in"}, shell.index = 2, Size = 3
        PROVE  3 \in Live
    <3>1. Ending /\ Len(shell.handles) = 3
      BY <2>2, UsedFacts DEF Ending
    <3>2. First \in {2, 3}
      BY <2>2, <3>1 DEF First, Creating
    <3> QED BY <3>1, <3>2 DEF Live
  <2>3. ASSUME shell.pc \in {"wait", "close_in"}, shell.index = 2, Size = 3, At(3)' = "begin"
        PROVE  At(3) = "begin"
    <3>1. 3 \in Live
      BY <2>2, <2>3
    <3>2. CASE m = 3
      BY <1>1, <2>3, <3>2
    <3>3. CASE m # 3
      BY <1>1, <2>3, <3>1, <3>3, Others DEF Order
    <3> QED BY <3>2, <3>3
  <2> QED BY <1>2, <2>1, <2>3 DEF Order, Hole
<1>12. Unique'
  BY DEF Order, Unique
<1>13. MaxId + 1 \notin Id
  BY DEF Id
<1> DEFINE x == MaxId + 1
<1>14. \A l \in Live : Program(l).handle \in Id
  <2>1. \A l \in Live : Program(l) # NoProcess /\ Slot(l) \in Slots
    BY LiveFacts DEF Order, Processes, LiveOK
  <2> QED BY <2>1, ProcessFields DEF Program
<1>15. shell.pc # "files" /\ shell.handle_out \in Id
  BY LiveFacts, ShellSame, ShellFields DEF LiveOK, Creating, Ending
<1>16. \A p \in Kept : EndAt(p) \in Id
  BY <1>15, EndFacts DEF EndsOK
<1>17. \A j \in Paired : EndAt(2 * j - 1) # x /\ EndAt(2 * j) # x
  BY <1>13, <1>16 DEF Paired
<1>18. \A l \in Live \ {m} :
         /\ l > 1 /\ ~Past(l) => EndAt(2 * l - 2) # x
         /\ Reads(l) /\ ~(l > 1) /\ ~Past(l) /\ Program(l).input # Console(In) => Program(l).handle # x
         /\ HasFile(l) => Program(l).handle # x
  <2> TAKE l \in Live \ {m}
  <2>1. Program(l).handle # x
    BY <1>13, <1>14
  <2>2. l > 1 => EndAt(2 * l - 2) # x
    BY <1>13, <1>16, LiveFacts DEF LiveOK
  <2> QED BY <2>1, <2>2
<1>19. HasFile(m)' => \A l \in Live \ {m} : HasFile(l) => Program(m)'.handle # Program(l).handle
  BY <1>1, <1>4 DEF Order, Owned
<1>20. \A id \in Id \ {x} : descriptors'[id] = descriptors[id]
  OBVIOUS
<1>21. shell.pc = "process" /\ shell.index = Size => shell.handle_out = Out \/ shell.handle_out # x
  BY <1>13, <1>15
<1>22. HasFile(m) /\ Program(m).handle # x => HasFile(m)' /\ Program(m)'.handle = Program(m).handle
  BY <1>1, <1>4
<1>23. x \notin Id
  BY <1>13
<1> HIDE DEF x
<1> QED BY <1>1, <1>3, <1>7, <1>9, <1>10, <1>11, <1>12, <1>17, <1>18, <1>19, <1>20, <1>21, <1>22, <1>23,
           StepKeeps

(* Where a thread goes that does not stand still. *)
LEMMA Goes ==
  ASSUME TypeInv, NEW t \in Thread, NEW step, GoTo(t, step)
  PROVE  at'[t] = step /\ \A u \in Thread \ {t} : at'[u] = at[u]
BY DEF GoTo, TypeInv, TypeOK

(* The end of input, in the same terms. *)
LEMMA EofGoes ==
  ASSUME TypeInv, NEW s \in Slots, NEW t \in {Main(s), Checker(s)}, AtEof(t)
  PROVE  /\ \A u \in Thread \ {t} : at'[u] = at[u]
         /\ t = Main(s) => at'[t] = IF ProfileIn(s).closes /\ process[s].handle # In THEN "close" ELSE "write"
<1>1. t \in Thread /\ t[1] = s
  BY ThreadFacts
<1>2. CASE t = Checker(s)
  BY <1>1, <1>2, ThreadFacts DEF AtEof, GoTo, TypeInv, TypeOK
<1>3. CASE t # Checker(s)
  <2>1. GoTo(t, IF ProfileIn(s).closes /\ process[s].handle # In THEN "close" ELSE "write")
    BY <1>1, <1>3 DEF AtEof
  <2> QED BY <1>1, <1>3, <2>1, Goes
<1> QED BY <1>2, <1>3

(* A process that gets other texts or has less left to read. *)
LEMMA SameProcess ==
  ASSUME TypeInv, NEW s \in Slots, process[s] # NoProcess, NEW q,
         q = process[s] \/ (\E texts \in Seq(Nat) : q = [process[s] EXCEPT !.texts = texts])
                        \/ (\E left \in Nat : q = [process[s] EXCEPT !.left = left]),
         process' = [process EXCEPT ![s] = q]
  PROVE  /\ \A o \in Slots \ {s} : process'[o] = process[o]
         /\ process'[s] \in Process /\ process'[s].command = process[s].command
         /\ process'[s].handle_out = process[s].handle_out /\ process'[s].input = process[s].input
         /\ process'[s].output = process[s].output /\ process'[s].handle = process[s].handle
<1>1. process[s] \in Process /\ process'[s] = q /\ \A o \in Slots \ {s} : process'[o] = process[o]
  BY ProcessFields DEF TypeInv, TypeOK
<1>2. CASE q = process[s]
  BY <1>1, <1>2
<1>3. ASSUME NEW texts \in Seq(Nat), q = [process[s] EXCEPT !.texts = texts]
      PROVE  /\ q \in Process /\ q.command = process[s].command
             /\ q.handle_out = process[s].handle_out /\ q.input = process[s].input
             /\ q.output = process[s].output /\ q.handle = process[s].handle
  BY <1>1, <1>3 DEF Process
<1>4. ASSUME NEW left \in Nat, q = [process[s] EXCEPT !.left = left]
      PROVE  /\ q \in Process /\ q.command = process[s].command
             /\ q.handle_out = process[s].handle_out /\ q.input = process[s].input
             /\ q.output = process[s].output /\ q.handle = process[s].handle
  BY <1>1, <1>4 DEF Process
<1> QED BY <1>1, <1>2, <1>3, <1>4

(* A process that does not change at all. *)
LEMMA UnchangedProcess ==
  ASSUME TypeInv, NEW s \in Slots, process[s] # NoProcess, process' = process
  PROVE  /\ \A o \in Slots \ {s} : process'[o] = process[o]
         /\ process'[s] \in Process /\ process'[s].command = process[s].command
         /\ process'[s].handle_out = process[s].handle_out /\ process'[s].input = process[s].input
         /\ process'[s].output = process[s].output /\ process'[s].handle = process[s].handle
BY ProcessFields

(* The end of a program's input. *)
LEMMA EofKeeps ==
  ASSUME TypeInv, Order, NEW s \in Slots, NEW t \in {Main(s), Checker(s)}, at[t] \in {"read", "reading"},
         AtEof(t), shell' = shell, typed' = typed, process' = process, descriptors' = descriptors,
         closed' = closed \/ \E calls : closed' = Closed(descriptors', calls),
         \A u \in Thread \ {t} : call'[u] = call[u],
         t = Main(s) /\ ProfileIn(s).source = "input" /\ process[s].input.kind = "read" =>
           closed[process[s].input.of],
         t = Main(s) /\ ProfileIn(s).source = "file" => at[t] = "read"
  PROVE  Order'
<1>1. process[s] # NoProcess /\ t \in Thread
  BY Running
<1>2. /\ \A u \in Thread \ {t} : at'[u] = at[u]
      /\ t = Main(s) => at'[t] = IF ProfileIn(s).closes /\ process[s].handle # In THEN "close" ELSE "write"
  BY EofGoes
<1>3. /\ \A o \in Slots \ {s} : process'[o] = process[o]
      /\ process'[s] \in Process /\ process'[s].command = process[s].command
      /\ process'[s].handle_out = process[s].handle_out /\ process'[s].input = process[s].input
      /\ process'[s].output = process[s].output /\ process'[s].handle = process[s].handle
  BY <1>1, UnchangedProcess
<1>4. \A k \in Pipes : closed[k] => closed'[k]
  BY ClosedKept
<1>5. process[s].input.kind = "read" => process[s].input.of \in Pipes
  BY <1>1, ProcessFields, ElementIs
<1>6. ProfileIn(s).source = "file" => ProfileIn(s).closes
  BY <1>1, ProcessFields, Profiles DEF ProfileIn
<1>7. ProfileIn(s).source = "file" /\ at[Main(s)] = "read" => process[s].handle # In
  BY <1>1, ReadingFacts
<1>8. t = Main(s) =>
        /\ at'[t] # "begin"
        /\ ProfileIn(s).closes /\ at[t] \in {"write", "writing", "ended"} => at'[t] \in {"write", "writing", "ended"}
        /\ at'[t] = "close" =>
             /\ ProfileIn(s).closes /\ process[s].handle # In
             /\ ProfileIn(s).source = "input" /\ process[s].input.kind = "read" => closed'[process[s].input.of]
        /\ ProfileIn(s).source = "input" /\ at'[t] = "reading" => call'[t] = process[s].input
        /\ ProfileIn(s).source = "file" =>
             at'[t] # "reading" /\ (at'[t] \in {"read", "close"} <=> at[t] \in {"read", "close"})
  <2>1. CASE ProfileIn(s).closes /\ process[s].handle # In
    BY <1>2, <1>4, <1>5, <2>1
  <2>2. CASE ~(ProfileIn(s).closes /\ process[s].handle # In)
    BY <1>2, <1>6, <1>7, <2>2
  <2> QED BY <2>1, <2>2
<1> QED BY <1>1, <1>2, <1>3, <1>8, QuietKeeps

(* The reads of anything but a pipe, and the start of a pipe's. *)
LEMMA ReadKeeps ==
  ASSUME TypeInv, Order, NEW s \in Slots, NEW t \in {Main(s), Checker(s)}, Read(t)
  PROVE  Order'
<1> DEFINE id == process[s].handle
           kind == descriptors[id].kind
<1>1. /\ at[t] = "read" /\ process[s] # NoProcess /\ t \in Thread /\ t[1] = s
      /\ shell' = shell /\ typed' = typed /\ descriptors' = descriptors /\ closed' = closed
  BY Running DEF Read, OfShell, kernel
<1>2. t = Main(s) =>
        /\ ProfileIn(s).source = "input" => descriptors[id] = process[s].input
        /\ ProfileIn(s).source = "file" => kind = "file"
  BY <1>1, ReadingFacts, ElementParts
<1>3. closed' = closed \/ \E calls : closed' = Closed(descriptors', calls)
  BY <1>1
<1>4. CASE /\ kind = "read" /\ call' = [call EXCEPT ![t] = descriptors[id]]
           /\ GoTo(t, "reading") /\ UNCHANGED <<process, is_eof>>
  <2>1. at'[t] = "reading" /\ \A u \in Thread \ {t} : at'[u] = at[u]
    BY <1>1, <1>4, Goes
  <2>2. call'[t] = descriptors[id] /\ \A u \in Thread \ {t} : call'[u] = call[u]
    BY <1>1, <1>4 DEF TypeInv, TypeOK
  <2>3. /\ \A o \in Slots \ {s} : process'[o] = process[o]
        /\ process'[s] \in Process /\ process'[s].command = process[s].command
        /\ process'[s].handle_out = process[s].handle_out /\ process'[s].input = process[s].input
        /\ process'[s].output = process[s].output /\ process'[s].handle = process[s].handle
    BY <1>1, <1>4, UnchangedProcess
  <2> QED BY <1>1, <1>2, <1>3, <1>4, <2>1, <2>2, <2>3, QuietKeeps
<1>5. CASE /\ process[s].left > 0
           /\ process' = [process EXCEPT ![s].left = @ - 1] /\ UNCHANGED <<at, call, is_eof>>
  <2>1. process[s].left - 1 \in Nat
    BY <1>1, <1>5, ProcessFields
  <2> DEFINE q == [process[s] EXCEPT !.left = process[s].left - 1]
  <2>2. process' = [process EXCEPT ![s] = q] /\ \E left \in Nat : q = [process[s] EXCEPT !.left = left]
    BY <1>5, <2>1
  <2> HIDE DEF q
  <2>3. /\ \A o \in Slots \ {s} : process'[o] = process[o]
        /\ process'[s] \in Process /\ process'[s].command = process[s].command
        /\ process'[s].handle_out = process[s].handle_out /\ process'[s].input = process[s].input
        /\ process'[s].output = process[s].output /\ process'[s].handle = process[s].handle
    BY <1>1, <2>2, SameProcess
  <2> QED BY <1>1, <1>3, <1>5, <2>3, QuietKeeps
<1>6. CASE /\ \/ kind \in {"file", "proc"} \/ kind = "write" \/ descriptors[id] = Console(Out)
           /\ AtEof(t) /\ UNCHANGED <<process, call>>
  <2>1. kind # "read"
    BY <1>6, ElementParts
  <2> QED BY <1>1, <1>2, <1>3, <1>6, <2>1, EofKeeps
<1>7. CASE /\ kind = "none" /\ process[s].command.program = "freq"
           /\ process' = [process EXCEPT ![s].texts = Failed.texts]
           /\ GoTo(t, "write") /\ UNCHANGED <<call, is_eof>>
  <2>1. at'[t] = "write" /\ \A u \in Thread \ {t} : at'[u] = at[u]
    BY <1>1, <1>7, Goes
  <2> DEFINE q == [process[s] EXCEPT !.texts = Failed.texts]
  <2>2. process' = [process EXCEPT ![s] = q] /\ \E texts \in Seq(Nat) : q = [process[s] EXCEPT !.texts = texts]
    <3>1. Failed.texts \in Seq(Nat)
      BY DEF Failed
    <3> QED BY <1>7, <3>1
  <2> HIDE DEF q
  <2>3. /\ \A o \in Slots \ {s} : process'[o] = process[o]
        /\ process'[s] \in Process /\ process'[s].command = process[s].command
        /\ process'[s].handle_out = process[s].handle_out /\ process'[s].input = process[s].input
        /\ process'[s].output = process[s].output /\ process'[s].handle = process[s].handle
    BY <1>1, <2>2, SameProcess
  <2>4. ProfileIn(s).source = "input"
    BY <1>7 DEF ProfileIn, ProfileOf, freq
  <2> QED BY <1>1, <1>3, <1>7, <2>1, <2>3, <2>4, QuietKeeps
<1> QED BY <1>1, <1>4, <1>5, <1>6, <1>7 DEF Read

(* The user types something. *)
LEMMA ReadConsoleKeeps ==
  ASSUME TypeInv, Order, NEW t \in Thread, ReadConsole(t)
  PROVE  Order'
<1>1. PICK s \in Slots : t \in {Main(s), Checker(s)}
  BY ThreadFacts
<1>2. /\ at[t] = "read" /\ process[s] # NoProcess /\ t[1] = s /\ descriptors[process[s].handle] = Console(In)
      /\ shell' = shell /\ typed' = typed /\ descriptors' = descriptors /\ closed' = closed
      /\ process' = process /\ call' = call
  BY <1>1, Running DEF ReadConsole, OfShell, kernel
<1>3. closed' = closed \/ \E calls : closed' = Closed(descriptors', calls)
  BY <1>2
<1>4. CASE AtEof(t)
  <2>1. t = Main(s) /\ ProfileIn(s).source = "input" => process[s].input.kind = "console"
    BY <1>2, ReadingFacts, ElementParts
  <2> QED BY <1>1, <1>2, <1>3, <1>4, <2>1, EofKeeps
<1>5. CASE UNCHANGED <<at, is_eof>>
  <2>1. /\ \A o \in Slots \ {s} : process'[o] = process[o]
        /\ process'[s] \in Process /\ process'[s].command = process[s].command
        /\ process'[s].handle_out = process[s].handle_out /\ process'[s].input = process[s].input
        /\ process'[s].output = process[s].output /\ process'[s].handle = process[s].handle
    BY <1>2, UnchangedProcess
  <2> QED BY <1>1, <1>2, <1>3, <1>5, <2>1, QuietKeeps
<1> QED BY <1>4, <1>5 DEF ReadConsole

(* A read of a pipe. *)
LEMMA ReadPipeKeeps ==
  ASSUME TypeInv, Order, NEW s \in Slots, NEW t \in {Main(s), Checker(s)}, ReadPipe(t)
  PROVE  Order'
<1> DEFINE k == call[t].of
           bytes == Min({filled[k], ReadLimit})
<1>1. /\ at[t] = "reading" /\ process[s] # NoProcess /\ t \in Thread /\ t[1] = s
      /\ shell' = shell /\ typed' = typed /\ descriptors' = descriptors /\ process' = process
      /\ call' = [call EXCEPT ![t] = None] /\ closed' = Closed(descriptors, call')
      /\ IF closed[k] /\ bytes = filled[k] /\ bytes < ReadLimit
         THEN AtEof(t) ELSE GoTo(t, "read") /\ UNCHANGED is_eof
  BY Running DEF ReadPipe, OfShell, Return
<1>2. \A u \in Thread \ {t} : call'[u] = call[u]
  BY <1>1 DEF TypeInv, TypeOK
<1>3. closed' = closed \/ \E calls : closed' = Closed(descriptors', calls)
  BY <1>1
<1>4. t = Main(s) =>
        /\ ProfileIn(s).source = "input" => call[t] = process[s].input
        /\ ProfileIn(s).source # "file"
  BY <1>1, ReadingFacts
<1> HIDE DEF bytes
<1>5. CASE AtEof(t) /\ closed[k]
  BY <1>1, <1>2, <1>3, <1>4, <1>5, EofKeeps
<1>6. CASE GoTo(t, "read")
  <2>1. at'[t] = "read" /\ \A u \in Thread \ {t} : at'[u] = at[u]
    BY <1>1, <1>6, Goes
  <2>2. /\ \A o \in Slots \ {s} : process'[o] = process[o]
        /\ process'[s] \in Process /\ process'[s].command = process[s].command
        /\ process'[s].handle_out = process[s].handle_out /\ process'[s].input = process[s].input
        /\ process'[s].output = process[s].output /\ process'[s].handle = process[s].handle
    BY <1>1, UnchangedProcess
  <2> QED BY <1>1, <1>2, <1>3, <1>4, <2>1, <2>2, QuietKeeps
<1> QED BY <1>1, <1>5, <1>6

(* A call of Write_File. *)
LEMMA WriteKeeps ==
  ASSUME TypeInv, Order, NEW s \in Slots, Write(s)
  PROVE  Order'
<1> DEFINE element == descriptors[process[s].handle_out]
           q == [process[s] EXCEPT !.texts = Tail(process[s].texts)]
<1>1. /\ at[Main(s)] = "write" /\ process[s] # NoProcess /\ Main(s) \in Thread /\ process[s].texts # << >>
      /\ shell' = shell /\ typed' = typed /\ descriptors' = descriptors /\ closed' = closed
  BY Running DEF Write, OfShell, kernel
<1>2. PICK t \in {Main(s), Checker(s)} : t = Main(s) /\ t # Checker(s)
  BY ThreadFacts
<1>3. closed' = closed \/ \E calls : closed' = Closed(descriptors', calls)
  BY <1>1
<1>4. CASE /\ call' = [call EXCEPT ![Main(s)] = element]
           /\ GoTo(Main(s), "writing") /\ UNCHANGED process
  <2> HIDE DEF element
  <2>1. at'[t] = "writing" /\ \A u \in Thread \ {t} : at'[u] = at[u]
    BY <1>1, <1>2, <1>4, Goes
  <2>2. \A u \in Thread \ {t} : call'[u] = call[u]
    BY <1>1, <1>2, <1>4 DEF TypeInv, TypeOK
  <2>3. /\ \A o \in Slots \ {s} : process'[o] = process[o]
        /\ process'[s] \in Process /\ process'[s].command = process[s].command
        /\ process'[s].handle_out = process[s].handle_out /\ process'[s].input = process[s].input
        /\ process'[s].output = process[s].output /\ process'[s].handle = process[s].handle
    BY <1>1, <1>4, UnchangedProcess
  <2> QED BY <1>1, <1>2, <1>3, <2>1, <2>2, <2>3, QuietKeeps
<1>5. CASE process' = [process EXCEPT ![s].texts = Tail(@)] /\ UNCHANGED <<at, call>>
  <2>1. Tail(process[s].texts) \in Seq(Nat)
    BY <1>1, ProcessFields
  <2>2. process' = [process EXCEPT ![s] = q] /\ \E texts \in Seq(Nat) : q = [process[s] EXCEPT !.texts = texts]
    BY <1>5, <2>1
  <2> HIDE DEF q
  <2>3. /\ \A o \in Slots \ {s} : process'[o] = process[o]
        /\ process'[s] \in Process /\ process'[s].command = process[s].command
        /\ process'[s].handle_out = process[s].handle_out /\ process'[s].input = process[s].input
        /\ process'[s].output = process[s].output /\ process'[s].handle = process[s].handle
    BY <1>1, <2>2, SameProcess
  <2> QED BY <1>1, <1>2, <1>3, <1>5, <2>3, QuietKeeps
<1> QED BY <1>4, <1>5 DEF Write

(* A turn of a write to a pipe. *)
LEMMA WritePipeKeeps ==
  ASSUME TypeInv, Order, NEW s \in Slots, WritePipe(s)
  PROVE  Order'
<1> DEFINE k == call[Main(s)].of
           texts == process[s].texts
           bytes == Fitting(Head(texts), k)
           rest == Head(texts) - bytes
<1>1. /\ at[Main(s)] = "writing" /\ process[s] # NoProcess /\ Main(s) \in Thread
      /\ shell' = shell /\ typed' = typed /\ descriptors' = descriptors
      /\ \/ /\ process' = [process EXCEPT ![s].texts = Tail(@)]
            /\ GoTo(Main(s), "write") /\ Return(Main(s))
         \/ /\ process' = [process EXCEPT ![s].texts = <<rest>> \o Tail(@)]
            /\ UNCHANGED <<at, call, closed>>
  BY Running DEF WritePipe, OfShell
<1>2. PICK t \in {Main(s), Checker(s)} : t = Main(s) /\ t # Checker(s)
  BY ThreadFacts
<1>3. /\ call[Main(s)] \in Elements /\ call[Main(s)].kind = "write" /\ texts # << >> /\ texts \in Seq(Nat)
  <2>1. call[Main(s)] \in Elements
    BY <1>1 DEF TypeInv, TypeOK
  <2>2. call[Main(s)].kind = "write" /\ texts # << >>
    BY <1>1, ThreadFacts DEF TypeInv, Threads
  <2> QED BY <1>1, <2>1, <2>2, ProcessFields
<1>4. k \in Pipes
  BY <1>3, ElementIs
<1>5. filled[k] \in 0 .. BufferSize /\ Head(texts) \in Nat /\ Tail(texts) \in Seq(Nat)
  <2>1. filled[k] \in 0 .. BufferSize
    BY <1>4 DEF TypeInv, TypeOK
  <2> HIDE DEF k, texts
  <2> QED BY <1>3, <2>1, HeadTailProperties
<1>6. rest \in Nat
  <2> HIDE DEF k, texts
  <2>1. BufferSize - filled[k] \in Nat
    BY <1>5
  <2>2. bytes \in Nat /\ bytes <= Head(texts)
    BY <1>5, <2>1, MinOfTwo DEF Fitting
  <2> HIDE DEF bytes
  <2> QED BY <1>5, <2>2
<1>7. <<rest>> \o Tail(texts) \in Seq(Nat)
  <2>1. <<rest>> \in Seq(Nat)
    BY <1>6
  <2> QED BY <1>5, <2>1, ConcatProperties
<1> HIDE DEF rest
<1>8. ASSUME NEW new \in Seq(Nat), process' = [process EXCEPT ![s].texts = new]
      PROVE  /\ \A o \in Slots \ {s} : process'[o] = process[o]
             /\ process'[s] \in Process /\ process'[s].command = process[s].command
             /\ process'[s].handle_out = process[s].handle_out /\ process'[s].input = process[s].input
             /\ process'[s].output = process[s].output /\ process'[s].handle = process[s].handle
  <2> DEFINE q == [process[s] EXCEPT !.texts = new]
  <2>1. process' = [process EXCEPT ![s] = q] /\ \E x \in Seq(Nat) : q = [process[s] EXCEPT !.texts = x]
    BY <1>8
  <2> HIDE DEF q
  <2> QED BY <1>1, <2>1, SameProcess
<1>9. CASE /\ process' = [process EXCEPT ![s].texts = Tail(@)]
           /\ GoTo(Main(s), "write") /\ Return(Main(s))
  <2>1. at'[t] = "write" /\ \A u \in Thread \ {t} : at'[u] = at[u]
    BY <1>1, <1>2, <1>9, Goes
  <2>2. \A u \in Thread \ {t} : call'[u] = call[u]
    BY <1>1, <1>2, <1>9 DEF TypeInv, TypeOK, Return
  <2>3. closed' = closed \/ \E calls : closed' = Closed(descriptors', calls)
    BY <1>1, <1>9 DEF Return
  <2>4. process' = [process EXCEPT ![s].texts = Tail(texts)]
    BY <1>9
  <2>5. /\ \A o \in Slots \ {s} : process'[o] = process[o]
        /\ process'[s] \in Process /\ process'[s].command = process[s].command
        /\ process'[s].handle_out = process[s].handle_out /\ process'[s].input = process[s].input
        /\ process'[s].output = process[s].output /\ process'[s].handle = process[s].handle
    BY <1>5, <1>8, <2>4
  <2> QED BY <1>1, <1>2, <2>1, <2>2, <2>3, <2>5, QuietKeeps
<1>10. CASE /\ process' = [process EXCEPT ![s].texts = <<rest>> \o Tail(@)]
            /\ UNCHANGED <<at, call, closed>>
  <2>1. process' = [process EXCEPT ![s].texts = <<rest>> \o Tail(texts)]
    BY <1>10
  <2>2. /\ \A o \in Slots \ {s} : process'[o] = process[o]
        /\ process'[s] \in Process /\ process'[s].command = process[s].command
        /\ process'[s].handle_out = process[s].handle_out /\ process'[s].input = process[s].input
        /\ process'[s].output = process[s].output /\ process'[s].handle = process[s].handle
    BY <1>7, <1>8, <2>1
  <2>3. closed' = closed \/ \E calls : closed' = Closed(descriptors', calls)
    BY <1>10
  <2> QED BY <1>1, <1>2, <1>10, <2>2, <2>3, QuietKeeps
<1> QED BY <1>1, <1>9, <1>10

(* The steps in a program's own memory, its end, and rgen's second thread. *)
LEMMA LocalKeeps ==
  ASSUME TypeInv, Order, NEW s \in Slots,
         End(s) \/ ClearFlag(s) \/ CreateThread(s) \/ Loop(s) \/ Join(s)
  PROVE  Order'
<1>1. /\ at[Main(s)] \in {"write", "begin", "create_thread", "join"}
      /\ process[s] # NoProcess /\ Main(s) \in Thread /\ Checker(s) \in Thread
      /\ shell' = shell /\ typed' = typed /\ descriptors' = descriptors /\ closed' = closed /\ call' = call
  BY Running, ThreadFacts DEF End, ClearFlag, CreateThread, Loop, Join, OfShell, kernel
<1>2. PICK t \in {Main(s), Checker(s)} : t = Main(s) /\ t # Checker(s)
  BY ThreadFacts
<1>3. closed' = closed \/ \E calls : closed' = Closed(descriptors', calls)
  BY <1>1
<1>4. IsRgen(s) => ProfileIn(s).source = "input" /\ ~ProfileIn(s).closes
  BY <1>1, ProcessFields, Profiles DEF IsRgen, ProfileIn
<1>5. ASSUME process' = process, \A u \in Thread \ {t, Checker(s)} : at'[u] = at[u],
             at'[t] \in {"ended", "create_thread", "join", "write"},
             at'[t] \in {"create_thread", "join"} => IsRgen(s)
      PROVE  Order'
  <2>1. /\ \A o \in Slots \ {s} : process'[o] = process[o]
        /\ process'[s] \in Process /\ process'[s].command = process[s].command
        /\ process'[s].handle_out = process[s].handle_out /\ process'[s].input = process[s].input
        /\ process'[s].output = process[s].output /\ process'[s].handle = process[s].handle
    BY <1>1, <1>5, UnchangedProcess
  <2> QED BY <1>1, <1>2, <1>3, <1>4, <1>5, <2>1, QuietKeeps
<1>6. CASE at[Main(s)] = "write" /\ at' = at /\ process' = [process EXCEPT ![s].texts = <<1>>]
  <2> DEFINE q == [process[s] EXCEPT !.texts = <<1>>]
  <2>1. <<1>> \in Seq(Nat)
    OBVIOUS
  <2>2. process' = [process EXCEPT ![s] = q] /\ \E texts \in Seq(Nat) : q = [process[s] EXCEPT !.texts = texts]
    BY <1>6, <2>1
  <2> HIDE DEF q
  <2>3. /\ \A o \in Slots \ {s} : process'[o] = process[o]
        /\ process'[s] \in Process /\ process'[s].command = process[s].command
        /\ process'[s].handle_out = process[s].handle_out /\ process'[s].input = process[s].input
        /\ process'[s].output = process[s].output /\ process'[s].handle = process[s].handle
    BY <1>1, <2>2, SameProcess
  <2> QED BY <1>1, <1>2, <1>3, <1>6, <2>3, QuietKeeps
<1>7. CASE End(s) \/ Join(s)
  <2>1. GoTo(Main(s), "ended") /\ process' = process
    BY <1>7 DEF End, Join
  <2>2. at'[t] = "ended" /\ \A u \in Thread \ {t} : at'[u] = at[u]
    BY <1>1, <1>2, <2>1, Goes
  <2> QED BY <1>5, <2>1, <2>2
<1>8. CASE ClearFlag(s)
  <2>1. GoTo(Main(s), "create_thread") /\ process' = process /\ IsRgen(s)
    BY <1>8 DEF ClearFlag
  <2>2. at'[t] = "create_thread" /\ \A u \in Thread \ {t} : at'[u] = at[u]
    BY <1>1, <1>2, <2>1, Goes
  <2> QED BY <1>5, <2>1, <2>2
<1>9. CASE CreateThread(s)
  <2>1. process' = process /\ at' = [at EXCEPT ![Main(s)] = "write", ![Checker(s)] = "read"]
    BY <1>9 DEF CreateThread
  <2>2. at'[t] = "write" /\ \A u \in Thread \ {t, Checker(s)} : at'[u] = at[u]
    BY <1>1, <1>2, <2>1 DEF TypeInv, TypeOK
  <2> QED BY <1>5, <2>1, <2>2
<1>10. CASE Loop(s)
  <2>1. CASE GoTo(Main(s), "join") /\ UNCHANGED process
    <3>1. at'[t] = "join" /\ (\A u \in Thread \ {t} : at'[u] = at[u]) /\ IsRgen(s)
      BY <1>1, <1>2, <1>10, <2>1, Goes DEF Loop
    <3> QED BY <1>5, <2>1, <3>1
  <2>2. CASE process' = [process EXCEPT ![s].texts = <<1>>] /\ UNCHANGED at
    BY <1>6, <1>10, <2>2 DEF Loop
  <2> QED BY <1>10, <2>1, <2>2 DEF Loop
<1> QED BY <1>7, <1>8, <1>9, <1>10

(* The program that the shell waits for still has the end of the pipe that *)
(* is its input, unless it has closed it.                                  *)
LEMMA WaitEnd ==
  ASSUME TypeInv, Order, shell.pc = "wait", shell.index > 1
  PROVE  /\ shell.index \in Live /\ Ends[1] = EndAt(2 * shell.index - 2) /\ Ends[1] \in Id
         /\ ~Past(shell.index) => descriptors[Ends[1]].kind = "read"
<1>1. shell.index \in 1 .. Size /\ Size \in Nat /\ shell.index \in Nat /\ Len(shell.handles) = Size
  BY UsedFacts DEF Ending
<1>2. First = shell.index /\ Gone = 2 * shell.index - 3
  BY <1>1 DEF First, Gone, Creating, Ending
<1>3. shell.index \in Live
  BY <1>1, <1>2 DEF Live
<1>4. 2 * shell.index - 2 - Gone = 1
  BY <1>1, <1>2
<1>5. Ends[1] = EndAt(2 * shell.index - 2)
  BY <1>4 DEF EndAt
<1>6. 2 * shell.index - 2 \in Kept
  BY <1>3, LiveFacts DEF LiveOK
<1>7. Ends[1] \in Id
  BY <1>5, <1>6, EndFacts DEF EndsOK
<1>8. PipedInput(shell.index)
  BY <1>3 DEF Order, Given, InputOf
<1> QED BY <1>3, <1>5, <1>7, <1>8 DEF PipedInput

(* The third of three programs lives while the shell is at the second.     *)
LEMMA ThirdLives ==
  ASSUME TypeInv, shell.pc \in {"wait", "close_in"}, shell.index = 2, Size = 3
  PROVE  3 \in Live /\ \A m \in Live : m = 3 \/ (m = 2 /\ shell.pc = "wait")
<1>1. Ending /\ Len(shell.handles) = 3
  BY UsedFacts DEF Ending
<1>2. First = IF shell.pc = "wait" THEN 2 ELSE 3
  BY <1>1 DEF First, Creating
<1> QED BY <1>1, <1>2 DEF Live

(* A number that is free is nobody's. *)
LEMMA FreeNumber ==
  ASSUME TypeInv, Order, NEW x \in Free
  PROVE  /\ x \notin {In, Out}
         /\ \A j \in Paired : EndAt(2 * j - 1) # x /\ EndAt(2 * j) # x
         /\ \A l \in Live :
              /\ l > 1 /\ ~Past(l) => EndAt(2 * l - 2) # x
              /\ Reads(l) /\ ~(l > 1) /\ ~Past(l) /\ Program(l).input # Console(In) => Program(l).handle # x
              /\ HasFile(l) => Program(l).handle # x
         /\ shell.pc = "process" /\ shell.index = Size => shell.handle_out = Out \/ shell.handle_out # x
<1>1. x \in Id /\ descriptors[x] = None /\ descriptors[x].kind = "none"
  BY FreeFacts, ElementParts DEF Free
<1>2. x \notin {In, Out}
  BY <1>1, ElementParts, FreeFacts DEF Order, Unique
<1>3. \A j \in Paired : EndAt(2 * j - 1) # x /\ EndAt(2 * j) # x
  BY <1>1, ElementParts DEF Order, Pairs, Pair
<1>4. ASSUME NEW l \in Live
      PROVE  /\ l > 1 /\ ~Past(l) => EndAt(2 * l - 2) # x
             /\ Reads(l) /\ ~(l > 1) /\ ~Past(l) /\ Program(l).input # Console(In) => Program(l).handle # x
             /\ HasFile(l) => Program(l).handle # x
  <2>1. InputOf(l) /\ ReadingOf(l)
    BY <1>4 DEF Order, Given
  <2>2. l > 1 /\ ~Past(l) => EndAt(2 * l - 2) # x
    BY <1>1, <2>1 DEF InputOf, PipedInput
  <2>3. Reads(l) /\ ~(l > 1) /\ ~Past(l) /\ Program(l).input # Console(In) => Program(l).handle # x
    BY <1>1, <2>1, ElementParts DEF InputOf, OwnInput
  <2>4. HasFile(l) => Program(l).handle # x
    BY <1>1, <2>1, ElementParts DEF ReadingOf
  <2> QED BY <2>2, <2>3, <2>4
<1>5. shell.pc = "process" /\ shell.index = Size => shell.handle_out = Out \/ shell.handle_out # x
  BY <1>1, ElementParts DEF Order, Handed
<1> QED BY <1>2, <1>3, <1>4, <1>5

(* A program that starts opens its file.  The number it gets is not the    *)
(* one that the shell closes next, although that one may be free.          *)
LEMMA OpenKeeps ==
  ASSUME TypeInv, AllSound, Order, NEW s \in Slots, NEW x \in Free, \A y \in Free : x <= y,
         at[Main(s)] = "begin", NEW e \in Elements,
         \/ e = Element("proc", Nothing) /\ ProfileIn(s).source = "proc"
         \/ /\ e = Element("file", process[s].command.file) /\ ProfileIn(s).source = "file"
            /\ \A id \in Id : descriptors[id] # e,
         descriptors' = [descriptors EXCEPT ![x] = e], closed' = closed, call' = call,
         GoTo(Main(s), "read"), process' = [process EXCEPT ![s].handle = x],
         shell' = shell, typed' = typed
  PROVE  Order'
<1>1. process[s] # NoProcess /\ Main(s) \in Thread /\ x \in Id
  BY Running, FreeFacts
<1>2. PICK t \in {Main(s), Checker(s)} : t = Main(s) /\ t # Checker(s)
  BY ThreadFacts
<1>3. at'[Main(s)] = "read" /\ \A u \in Thread \ {t} : at'[u] = at[u]
  BY <1>1, <1>2, Goes
<1>4. /\ \A o \in Slots \ {s} : process'[o] = process[o]
      /\ process'[s] \in Process /\ process'[s].command = process[s].command
      /\ process'[s].handle_out = process[s].handle_out /\ process'[s].input = process[s].input
      /\ process'[s].output = process[s].output /\ process'[s].handle = x
  <2>1. process[s] \in Process
    BY <1>1, ProcessFields
  <2> DEFINE q == [process[s] EXCEPT !.handle = x]
  <2>2. process'[s] = q /\ \A o \in Slots \ {s} : process'[o] = process[o]
    BY DEF TypeInv, TypeOK
  <2>3. /\ q \in Process /\ q.command = process[s].command
        /\ q.handle_out = process[s].handle_out /\ q.input = process[s].input
        /\ q.output = process[s].output /\ q.handle = x
    BY <1>1, <2>1 DEF Process
  <2> HIDE DEF q
  <2> QED BY <2>2, <2>3
<1>5. PICK m \in Live :
        /\ Stepping(m) /\ Slot(m) = s /\ Program(m) = process[s] /\ At(m) = at[Main(s)]
        /\ CommandOf(m) = process[s].command /\ Profile(m) = ProfileIn(s)
        /\ (Reads(m) <=> ProfileIn(s).source = "input")
        /\ (HasFile(m) <=> ProfileIn(s).source = "file" /\ at[Main(s)] \in {"read", "close"})
        /\ Program(m)' = process'[s] /\ At(m)' = at'[Main(s)]
        /\ call'[Main(Slot(m)')] = call'[Main(s)]
        /\ t # Main(s) => At(m)' = At(m) /\ call'[Main(s)] = call[Main(s)]
  BY <1>1, <1>2, <1>3, <1>4, ThreadStep
<1>6. /\ Size' = Size /\ Ends' = Ends /\ Paired' = Paired
      /\ \A l : Slot(l)' = Slot(l) /\ CommandOf(l)' = CommandOf(l) /\ Profile(l)' = Profile(l)
                /\ (Reads(l)' <=> Reads(l))
      /\ \A p : EndAt(p)' = EndAt(p)
  BY ShellStays
<1>7. /\ descriptors[x] = None /\ descriptors'[x] = e /\ \A id \in Id \ {x} : descriptors'[id] = descriptors[id]
  BY <1>1 DEF TypeInv, TypeOK, Free
<1>8. ~Reads(m) /\ ~HasFile(m) /\ ~Past(m)
  BY <1>5 DEF Past
<1>9. /\ x \notin {In, Out}
      /\ \A j \in Paired : EndAt(2 * j - 1) # x /\ EndAt(2 * j) # x
      /\ \A l \in Live :
           /\ l > 1 /\ ~Past(l) => EndAt(2 * l - 2) # x
           /\ Reads(l) /\ ~(l > 1) /\ ~Past(l) /\ Program(l).input # Console(In) => Program(l).handle # x
           /\ HasFile(l) => Program(l).handle # x
      /\ shell.pc = "process" /\ shell.index = Size => shell.handle_out = Out \/ shell.handle_out # x
  BY FreeNumber
<1>10. Unique'
  <2>1. ASSUME NEW id \in Id, NEW y \in {In, Out}
        PROVE  descriptors'[id] = Console(y) <=> id = y
    <3>1. e # Console(y)
      BY ElementParts
    <3> QED BY <1>7, <1>9, <3>1 DEF Order, Unique
  <2>2. ASSUME NEW id \in Id, NEW other \in Id, descriptors'[id].kind \in {"write", "read", "file"},
               descriptors'[id] = descriptors'[other]
        PROVE  id = other
    <3>1. CASE id # x /\ other # x
      BY <1>7, <2>2, <3>1 DEF Order, Unique
    <3>2. CASE id = x \/ other = x
      <4>1. e.kind = "file" /\ \A i \in Id : descriptors[i] # e
        BY <1>7, <2>2, <3>2, ElementParts
      <4> QED BY <1>7, <2>2, <3>2, <4>1
    <3> QED BY <3>1, <3>2
  <2> QED BY <2>1, <2>2 DEF Unique
<1>11. m > 1 => EndAt(2 * m - 2) \in Id /\ EndAt(2 * m - 2) # x
  <2>1. m > 1 => EndAt(2 * m - 2) \in Id
    BY LiveFacts, EndFacts DEF LiveOK, EndsOK, Creating, Ending
  <2> QED BY <1>8, <1>9, <2>1
<1>12. InputOf(m)'
  <2>1. InputOf(m)
    BY DEF Order, Given
  <2>2. CASE m > 1
    <3>1. PipedInput(m)
      BY <2>1, <2>2 DEF InputOf
    <3>2. PipedInput(m)'
      BY <1>4, <1>5, <1>6, <1>7, <1>8, <1>11, <2>2, <3>1 DEF PipedInput
    <3> QED BY <2>2, <3>2 DEF InputOf
  <2>3. CASE ~(m > 1)
    BY <1>6, <1>8, <2>3 DEF InputOf, OwnInput
  <2> QED BY <2>2, <2>3
<1>13. HasFile(m)' => Program(m)'.handle = x /\ e = Element("file", CommandOf(m).file)
  <2>1. HasFile(m)' => ProfileIn(s).source = "file"
    BY <1>5, <1>6 DEF HasFile
  <2> QED BY <1>4, <1>5, <2>1
<1>14. ReadingOf(m)'
  BY <1>3, <1>5, <1>6, <1>7, <1>8, <1>13 DEF ReadingOf
<1>15. shell.pc \in {"wait", "close_in"} /\ shell.index > 1 => Ends[1] # x /\ Ends[1] \in Id
  <2> SUFFICES ASSUME shell.pc \in {"wait", "close_in"}, shell.index > 1
               PROVE  Ends[1] # x /\ Ends[1] \in Id
    OBVIOUS
  <2>1. shell.index \in 1 .. Size /\ Size \in Nat /\ shell.index \in Nat
    BY UsedFacts DEF Ending
  <2>2. m \in Nat /\ m <= Size /\ m >= First
    BY LiveFacts DEF LiveOK
  <2>3. First = IF shell.pc = "wait" THEN shell.index ELSE shell.index + 1
    BY DEF First, Creating, Ending
  <2>4. m >= 2 /\ m \in 1 .. Size
    BY <2>1, <2>2, <2>3
  <2>5. Size <= 3
    BY <1>8, <2>4, SoundLine
  <2>6. CASE m = shell.index
    <3>1. shell.pc = "wait"
      BY <2>1, <2>2, <2>3, <2>6
    <3>2. descriptors[Ends[1]].kind = "read" /\ Ends[1] \in Id
      BY <1>8, <2>6, <3>1, WaitEnd
    <3> QED BY <1>7, <3>2, ElementParts
  <2>7. CASE m # shell.index
    <3>1. m = 3 /\ shell.index = 2 /\ Size = 3
      BY <2>1, <2>2, <2>3, <2>4, <2>5, <2>7
    <3>2. At(3) = "begin"
      BY <1>5, <3>1
    <3>3. \/ \E y \in Free : y < Ends[1]
          \/ descriptors[Ends[1]].kind = "read"
      BY <3>1, <3>2 DEF Order, Hole
    <3>4. Len(Ends) > 0
      <4>1. Len(Ends) = Made - Gone
        BY EndFacts DEF EndsOK
      <4>2. Made = 4 /\ Gone = 1
        BY <3>1 DEF Made, Gone, Ending
      <4> QED BY <4>1, <4>2
    <3>5. Ends[1] \in Id
      BY <3>4, EndFacts DEF EndsOK
    <3>6. x \in Nat /\ Ends[1] \in Nat /\ \A y \in Free : y \in Nat
      BY <1>1, <3>5, FreeFacts
    <3> QED BY <1>7, <3>3, <3>5, <3>6, ElementParts
  <2> QED BY <2>6, <2>7
<1>16. NextEnd'
  BY <1>6, <1>7, <1>15 DEF Order, NextEnd
<1>17. Hole'
  <2> SUFFICES ASSUME shell.pc \in {"wait", "close_in"}, shell.index = 2, Size = 3, At(3)' = "begin"
               PROVE  descriptors'[Ends[1]].kind = "read" /\ (shell.pc = "wait" => ~(Reads(2) /\ Profile(2).closes))
    BY <1>6 DEF Hole
  <2>1. m # 3
    BY <1>3, <1>5
  <2>2. m = 2 /\ shell.pc = "wait"
    BY <2>1, ThirdLives
  <2>3. descriptors[Ends[1]].kind = "read"
    BY <1>8, <2>2, WaitEnd
  <2> QED BY <1>7, <1>8, <1>15, <2>2, <2>3
<1>18. HasFile(m)' => \A l \in Live \ {m} : HasFile(l) => Program(m)'.handle # Program(l).handle
  BY <1>9, <1>13
<1>19. descriptors'[x].kind \in {"none", "proc"} \/ (HasFile(m)' /\ Program(m)'.handle = x)
  <2>1. CASE e = Element("proc", Nothing)
    BY <1>7, <2>1, ElementParts
  <2>2. CASE ProfileIn(s).source = "file"
    BY <1>3, <1>4, <1>5, <1>6, <2>2 DEF HasFile
  <2> QED BY <2>1, <2>2
<1>20. descriptors'[x].kind = "file" => descriptors'[x].of = CommandOf(m).file
  BY <1>5, <1>7, ElementParts
<1> QED BY <1>5, <1>7, <1>8, <1>9, <1>10, <1>12, <1>14, <1>16, <1>17, <1>18, <1>19, <1>20, StepKeeps

(* The first step of a program. *)
LEMMA BeginKeeps ==
  ASSUME TypeInv, AllSound, Order, NEW s \in Slots, Begin(s)
  PROVE  Order'
<1> DEFINE p == ProfileIn(s)
           file == process[s].command.file
<1>1. /\ at[Main(s)] = "begin" /\ process[s] # NoProcess /\ Main(s) \in Thread
      /\ shell' = shell /\ typed' = typed /\ call' = call
  BY Running DEF Begin, OfShell
<1>2. PICK t \in {Main(s), Checker(s)} : t = Main(s) /\ t # Checker(s)
  BY ThreadFacts
<1>3. CASE /\ p.source \in {"none", "input"} /\ UNCHANGED <<kernel, process>>
           /\ GoTo(Main(s), "write") \/ (p.source = "input" /\ GoTo(Main(s), "read"))
  <2>1. at'[t] \in {"write", "read"} /\ \A u \in Thread \ {t} : at'[u] = at[u]
    BY <1>1, <1>2, <1>3, Goes
  <2>2. /\ \A o \in Slots \ {s} : process'[o] = process[o]
        /\ process'[s] \in Process /\ process'[s].command = process[s].command
        /\ process'[s].handle_out = process[s].handle_out /\ process'[s].input = process[s].input
        /\ process'[s].output = process[s].output /\ process'[s].handle = process[s].handle
    BY <1>1, <1>3, UnchangedProcess
  <2>3. descriptors' = descriptors /\ closed' = closed
    BY <1>3 DEF kernel
  <2>4. closed' = closed \/ \E calls : closed' = Closed(descriptors', calls)
    BY <2>3
  <2> QED BY <1>1, <1>2, <1>3, <2>1, <2>2, <2>3, <2>4, QuietKeeps
<1>4. CASE /\ p.source = "file" /\ GoTo(Main(s), "write")
           /\ process' = [process EXCEPT ![s].texts = Failed.texts] /\ UNCHANGED kernel
  <2>1. at'[t] = "write" /\ \A u \in Thread \ {t} : at'[u] = at[u]
    BY <1>1, <1>2, <1>4, Goes
  <2> DEFINE q == [process[s] EXCEPT !.texts = Failed.texts]
  <2>2. process' = [process EXCEPT ![s] = q] /\ \E texts \in Seq(Nat) : q = [process[s] EXCEPT !.texts = texts]
    <3>1. Failed.texts \in Seq(Nat)
      BY DEF Failed
    <3> QED BY <1>4, <3>1
  <2> HIDE DEF q
  <2>3. /\ \A o \in Slots \ {s} : process'[o] = process[o]
        /\ process'[s] \in Process /\ process'[s].command = process[s].command
        /\ process'[s].handle_out = process[s].handle_out /\ process'[s].input = process[s].input
        /\ process'[s].output = process[s].output /\ process'[s].handle = process[s].handle
    BY <1>1, <2>2, SameProcess
  <2>4. descriptors' = descriptors /\ closed' = closed
    BY <1>4 DEF kernel
  <2>5. closed' = closed \/ \E calls : closed' = Closed(descriptors', calls)
    BY <2>4
  <2> QED BY <1>1, <1>2, <1>4, <2>1, <2>3, <2>4, <2>5, QuietKeeps
<1>5. ASSUME NEW e \in Elements,
             \/ e = Element("proc", Nothing) /\ p.source = "proc"
             \/ e = Element("file", file) /\ p.source = "file" /\ \A id \in Id : descriptors[id] # e,
             Free # {}, Open(e), GoTo(Main(s), "read"), process' = [process EXCEPT ![s].handle = Min(Free)]
      PROVE  Order'
  <2>1. PICK x \in Free : x = Min(Free) /\ \A y \in Free : x <= y
    BY <1>5, FreeFacts
  <2>2. descriptors' = [descriptors EXCEPT ![x] = e] /\ closed' = closed
    BY <1>5, <2>1 DEF Open
  <2>3. process' = [process EXCEPT ![s].handle = x]
    BY <1>5, <2>1
  <2> QED BY <1>1, <1>5, <2>1, <2>2, <2>3, OpenKeeps
<1>6. CASE p.source = "proc" /\ Free # {} /\ Open(Element("proc", Nothing)) /\ GoTo(Main(s), "read")
           /\ process' = [process EXCEPT ![s].handle = Min(Free)]
  <2>1. PICK e \in Elements : e = Element("proc", Nothing)
    BY ElementTypes
  <2> QED BY <1>5, <1>6, <2>1
<1>7. CASE p.source = "file" /\ Openable(file) /\ Free # {} /\ Open(Element("file", file)) /\ GoTo(Main(s), "read")
           /\ process' = [process EXCEPT ![s].handle = Min(Free)]
  <2>1. PICK e \in Elements : e = Element("file", file)
    BY <1>7, ElementTypes DEF Openable
  <2>2. \A id \in Id : descriptors[id] # e
    BY <1>7, <2>1 DEF Openable
  <2> QED BY <1>5, <1>7, <2>1, <2>2
<1> QED BY <1>3, <1>4, <1>6, <1>7 DEF Begin

(* A program closes its own file, or the input it was given.               *)
LEMMA CloseKeeps ==
  ASSUME TypeInv, AllSound, Order, NEW s \in Slots, Close(s)
  PROVE  Order'
<1>1. /\ at[Main(s)] = "close" /\ process[s] # NoProcess /\ Main(s) \in Thread /\ shell' = shell /\ typed' = typed
      /\ process' = process /\ call' = call /\ GoTo(Main(s), "write")
  BY Running DEF Close, OfShell
<1>2. PICK t \in {Main(s), Checker(s)} : t = Main(s) /\ t # Checker(s)
  BY ThreadFacts
<1>3. at'[Main(s)] = "write" /\ \A u \in Thread \ {t} : at'[u] = at[u]
  BY <1>1, <1>2, Goes
<1>4. /\ \A o \in Slots \ {s} : process'[o] = process[o]
      /\ process'[s] \in Process /\ process'[s].command = process[s].command
      /\ process'[s].handle_out = process[s].handle_out /\ process'[s].input = process[s].input
      /\ process'[s].output = process[s].output /\ process'[s].handle = process[s].handle
  BY <1>1, UnchangedProcess
<1>5. PICK m \in Live :
        /\ Stepping(m) /\ Slot(m) = s /\ Program(m) = process[s] /\ At(m) = at[Main(s)]
        /\ CommandOf(m) = process[s].command /\ Profile(m) = ProfileIn(s)
        /\ (Reads(m) <=> ProfileIn(s).source = "input")
        /\ (HasFile(m) <=> ProfileIn(s).source = "file" /\ at[Main(s)] \in {"read", "close"})
        /\ Program(m)' = process'[s] /\ At(m)' = at'[Main(s)]
        /\ call'[Main(Slot(m)')] = call'[Main(s)]
        /\ t # Main(s) => At(m)' = At(m) /\ call'[Main(s)] = call[Main(s)]
  BY <1>1, <1>2, <1>3, <1>4, ThreadStep
<1>6. /\ Size' = Size /\ Ends' = Ends /\ Paired' = Paired
      /\ \A l : Slot(l)' = Slot(l) /\ CommandOf(l)' = CommandOf(l) /\ Profile(l)' = Profile(l)
                /\ (Reads(l)' <=> Reads(l))
      /\ \A p : EndAt(p)' = EndAt(p)
  BY <1>1, ShellStays
<1> DEFINE x == process[s].handle
<1>7. x \in Id /\ descriptors' = [descriptors EXCEPT ![x] = None] /\ closed' = Closed(descriptors', call)
  BY <1>1, ProcessFields DEF Close, CloseHandle
<1>8. descriptors'[x] = None /\ None.kind = "none" /\ \A id \in Id \ {x} : descriptors'[id] = descriptors[id]
  BY <1>7, ElementParts DEF TypeInv, TypeOK
<1> HIDE DEF x
<1>9. /\ m \in Nat /\ m >= 1 /\ m \in 1 .. Size /\ Size \in Nat
      /\ m > 1 => 2 * m - 2 \in Kept /\ EndAt(2 * m - 2) \in Id
      /\ \A p, q \in Kept : EndAt(p) = EndAt(q) => p = q
      /\ \A l \in Live : l \in Nat /\ l >= 1 /\ l \in 1 .. Size /\ (l > 1 => 2 * l - 2 \in Kept)
      /\ shell.pc \notin {"files", "prompt"}
  <2>1. shell.pc \notin {"files", "prompt"}
    BY LiveFacts DEF LiveOK, Creating, Ending
  <2>2. Size \in Nat /\ \A l \in Live : l \in Nat /\ l >= 1 /\ l \in 1 .. Size /\ (l > 1 => 2 * l - 2 \in Kept)
    BY LiveFacts DEF LiveOK
  <2>3. \A p, q \in Kept : EndAt(p) \in Id /\ (EndAt(p) = EndAt(q) => p = q)
    BY <2>1, EndFacts DEF EndsOK, Order
  <2> QED BY <2>1, <2>2, <2>3
<1>10. /\ Profile(m).closes /\ Profile(m).source \in {"input", "file"}
       /\ Profile(m).source = "file" => HasFile(m) /\ descriptors[x] = Element("file", CommandOf(m).file)
  <2>1. ProfileIn(s).closes
    BY <1>1, ReadingFacts
  <2>2. ProfileIn(s).source \in {"input", "file"}
    BY <1>1, <2>1, ProcessFields, Profiles DEF ProfileIn
  <2>3. ProfileIn(s).source = "file" => descriptors[x] = Element("file", process[s].command.file)
    BY <1>1, ReadingFacts DEF x
  <2> QED BY <1>1, <1>5, <2>1, <2>2, <2>3
<1>11. InputOf(m) /\ ReadingOf(m)
  BY DEF Order, Given
<1>12. Reads(m) /\ m > 1 => /\ x = EndAt(2 * m - 2) /\ descriptors[x] = Program(m).input /\ descriptors[x].kind = "read"
                           /\ closed[descriptors[x].of]
  BY <1>1, <1>5, <1>11 DEF InputOf, PipedInput, ReadingOf, Past, x
<1>13. Reads(m) /\ ~(m > 1) => m = 1 /\ descriptors[x] = Element("file", CommandOf(1).input)
  <2>1. ASSUME Reads(m), ~(m > 1)
        PROVE  m = 1 /\ descriptors[x] = Element("file", CommandOf(1).input)
    <3>1. m = 1 /\ OwnInput(m) /\ At(m) = "close"
      BY <1>1, <1>5, <1>9, <1>11, <2>1 DEF InputOf
    <3>2. Program(m).handle # In
      BY <1>11, <2>1, <3>1 DEF ReadingOf
    <3> QED BY <1>5, <2>1, <3>1, <3>2 DEF OwnInput, Past, x
  <2> QED BY <2>1
<1>14. descriptors[x].kind \in {"read", "file"} /\ (descriptors[x].kind = "read" => Reads(m) /\ m > 1)
  BY <1>5, <1>10, <1>12, <1>13, ElementParts
<1>15. descriptors[x].kind = "file" => descriptors[x].of \in Files
  BY <1>7, ElementIs DEF TypeInv, TypeOK
<1>16. ASSUME NEW l \in 1 .. Size, l # m
       PROVE  /\ descriptors[x] # Element("file", CommandOf(l).input)
              /\ descriptors[x] # Element("file", CommandOf(l).output)
              /\ Reads(m) => descriptors[x] # Element("file", CommandOf(l).file)
  <2>1. AllSound /\ TypeInv /\ shell.pc # "prompt"
    BY <1>9
  <2>2. /\ CommandOf(l).input \in Files => CommandOf(l).input # CommandOf(m).input /\ CommandOf(l).input # CommandOf(m).file
        /\ CommandOf(l).output \in Files => CommandOf(l).output # CommandOf(m).input /\ CommandOf(l).output # CommandOf(m).file
        /\ CommandOf(m).input \in Files => CommandOf(m).input # CommandOf(l).file
    BY <1>9, <1>16, <2>1, FilesDiffer
  <2>3. CASE Reads(m) /\ m > 1
    BY <1>12, <2>3, ElementParts
  <2>4. CASE Reads(m) /\ ~(m > 1)
    BY <1>13, <1>15, <2>2, <2>4, ElementParts
  <2>5. CASE ~Reads(m)
    BY <1>5, <1>10, <1>15, <2>2, <2>5, ElementParts
  <2> QED BY <2>3, <2>4, <2>5
<1>17. Unique'
  <2>1. x \notin {In, Out}
    <3>1. \A y \in {In, Out} : descriptors[y].kind = "console"
      BY ElementParts, FreeFacts DEF Order, Unique
    <3> QED BY <1>14, <3>1
  <2>2. \A y : None # Console(y)
    BY ElementParts
  <2>3. \A id \in Id, y \in {In, Out} : descriptors'[id] = Console(y) <=> id = y
    BY <1>8, <2>1, <2>2 DEF Order, Unique
  <2>4. \A id, other \in Id :
          descriptors'[id].kind \in {"write", "read", "file"} /\ descriptors'[id] = descriptors'[other] => id = other
    BY <1>8 DEF Order, Unique
  <2> QED BY <2>3, <2>4 DEF Unique
<1>18. \A j \in Paired : EndAt(2 * j - 1) # x /\ EndAt(2 * j) # x
  <2> TAKE j \in Paired
  <2>1. PICK k \in Pipes : /\ descriptors[EndAt(2 * j - 1)] = Element("write", k)
                           /\ descriptors[EndAt(2 * j)] = Element("read", k) /\ ~closed[k]
    BY DEF Order, Pairs, Pair
  <2>2. EndAt(2 * j - 1) # x
    BY <1>14, <2>1, ElementParts
  <2>3. EndAt(2 * j) # x
    BY <1>12, <1>14, <2>1, ElementParts
  <2> QED BY <2>2, <2>3
<1>19. /\ \A k \in Pipes : closed[k] => closed'[k]
       /\ \A k \in Pipes : ~closed[k] /\ (\E id \in Id : descriptors'[id] = Element("write", k))
                                      /\ (\E id \in Id : descriptors'[id] = Element("read", k)) => ~closed'[k]
  BY <1>7, ClosedKept
<1>20. ASSUME NEW l \in Live \ {m}
       PROVE  /\ l > 1 /\ ~Past(l) => EndAt(2 * l - 2) # x
              /\ Reads(l) /\ ~(l > 1) /\ ~Past(l) /\ Program(l).input # Console(In) => Program(l).handle # x
              /\ HasFile(l) => Program(l).handle # x
  <2>1. InputOf(l) /\ ReadingOf(l) /\ l \in Nat /\ l >= 1 /\ l \in 1 .. Size /\ l # m
    BY <1>9, <1>20 DEF Order, Given
  <2>2. l > 1 /\ ~Past(l) => EndAt(2 * l - 2) # x
    <3>1. ASSUME l > 1, ~Past(l), EndAt(2 * l - 2) = x
          PROVE  FALSE
      <4>1. descriptors[x].kind = "read"
        BY <2>1, <3>1 DEF InputOf, PipedInput
      <4>2. m > 1 /\ EndAt(2 * m - 2) = EndAt(2 * l - 2)
        BY <1>12, <1>14, <3>1, <4>1
      <4>3. 2 * m - 2 = 2 * l - 2
        BY <1>9, <2>1, <3>1, <4>2
      <4> QED BY <1>9, <2>1, <4>3
    <3> QED BY <3>1
  <2>3. Reads(l) /\ ~(l > 1) /\ ~Past(l) /\ Program(l).input # Console(In) => Program(l).handle # x
    BY <1>16, <2>1 DEF InputOf, OwnInput
  <2>4. HasFile(l) => Program(l).handle # x
    <3>1. ASSUME HasFile(l), Program(l).handle = x
          PROVE  FALSE
      <4>1. descriptors[x] = Element("file", CommandOf(l).file)
        BY <2>1, <3>1 DEF ReadingOf
      <4>2. ~Reads(m)
        BY <1>16, <2>1, <4>1
      <4>3. HasFile(m) /\ Program(m).handle = x
        BY <1>5, <1>10, <4>2 DEF x
      <4> QED BY <1>20, <3>1, <4>3 DEF Order, Owned
    <3> QED BY <3>1
  <2> QED BY <2>2, <2>3, <2>4
<1>21. InputOf(m)'
  <2>1. Reads(m) => Past(m)'
    BY <1>3, <1>5, <1>6, <1>10 DEF Past
  <2>2. CASE m > 1
    <3>1. PipedInput(m)
      BY <1>11, <2>2 DEF InputOf
    <3>2. ~Reads(m) => descriptors'[EndAt(2 * m - 2)] = Program(m).input
      <4>1. ASSUME ~Reads(m) PROVE descriptors[EndAt(2 * m - 2)] = Program(m).input /\ EndAt(2 * m - 2) # x
        BY <1>14, <3>1, <4>1 DEF PipedInput, Past
      <4> QED BY <1>8, <1>9, <2>2, <4>1
    <3>3. PipedInput(m)'
      BY <1>4, <1>5, <1>6, <2>1, <3>1, <3>2 DEF PipedInput
    <3> QED BY <2>2, <3>3 DEF InputOf
  <2>3. CASE ~(m > 1)
    <3>1. OwnInput(m)
      BY <1>11, <2>3 DEF InputOf
    <3>2. OwnInput(m)'
      BY <1>4, <1>5, <1>6, <2>1, <3>1 DEF OwnInput
    <3> QED BY <2>3, <3>2 DEF InputOf
  <2> QED BY <2>2, <2>3
<1>22. ReadingOf(m)' /\ ~HasFile(m)'
  BY <1>3, <1>5, <1>6 DEF ReadingOf, HasFile
<1>23. shell.pc = "process" /\ shell.index = Size => shell.handle_out = Out \/ shell.handle_out # x
  <2>1. ASSUME shell.pc = "process", shell.index = Size, shell.handle_out # Out
        PROVE  shell.handle_out # x
    <3>1. descriptors[shell.handle_out] = Element("file", CommandOf(Size).output)
      BY <2>1 DEF Order, Handed
    <3>2. m # Size /\ Size \in 1 .. Size
      <4>1. m < shell.index
        BY <2>1, LiveFacts DEF LiveOK, Creating
      <4> QED BY <1>9, <2>1, <4>1
    <3> QED BY <1>16, <3>1, <3>2
  <2> QED BY <2>1
<1>24. NextEnd'
  <2>1. ASSUME shell.pc \in {"wait", "close_in"}, shell.index > 1
        PROVE  descriptors'[Ends[1]].kind \in {"read", "none"}
    <3>1. descriptors[Ends[1]].kind \in {"read", "none"}
      BY <2>1 DEF Order, NextEnd
    <3>2. Ends[1] \in Id
      <4>1. Len(Ends) = Made - Gone /\ \A p \in 1 .. Len(Ends) : Ends[p] \in Id
        BY <2>1, EndFacts DEF EndsOK
      <4>2. shell.index \in 1 .. Size
        BY <2>1, UsedFacts DEF Ending
      <4>3. Made = 2 * Size - 2 /\ Gone = 2 * shell.index - 3
        BY <2>1, <4>2 DEF Made, Gone, Ending
      <4>4. Made - Gone >= 1
        BY <1>9, <4>2, <4>3
      <4> QED BY <4>1, <4>3, <4>4, <4>2, <1>9
    <3> QED BY <1>8, <3>1, <3>2
  <2> QED BY <1>1, <1>6, <2>1 DEF NextEnd
<1>25. Hole'
  <2> SUFFICES ASSUME shell.pc \in {"wait", "close_in"}, shell.index = 2, Size = 3, At(3)' = "begin"
               PROVE  \/ \E y \in Free' : y < Ends[1]
                      \/ /\ descriptors'[Ends[1]].kind = "read"
                         /\ shell.pc = "wait" => ~(Reads(2) /\ Profile(2).closes)
    BY <1>1, <1>6 DEF Hole
  <2>1. m # 3
    BY <1>3, <1>5
  <2>2. m = 2 /\ shell.pc = "wait" /\ 3 \in Live
    BY <2>1, ThirdLives
  <2>3. At(3) = "begin"
    BY <1>5, <2>1, <2>2, Others DEF Order
  <2>4. Free \subseteq Free'
    BY <1>8 DEF Free
  <2>5. \/ \E y \in Free : y < Ends[1]
        \/ /\ descriptors[Ends[1]].kind = "read" /\ ~(Reads(2) /\ Profile(2).closes)
    BY <2>2, <2>3 DEF Order, Hole
  <2>6. CASE descriptors[Ends[1]].kind = "read" /\ ~(Reads(2) /\ Profile(2).closes)
    <3>1. ~Reads(m)
      BY <1>10, <2>2, <2>6
    <3>2. Ends[1] \in Id
      BY <2>2, WaitEnd
    <3>3. Ends[1] # x
      BY <1>14, <2>6, <3>1
    <3> QED BY <1>8, <2>6, <3>2, <3>3
  <2> QED BY <2>4, <2>5, <2>6
<1>26. HasFile(m) /\ Program(m).handle # x => HasFile(m)' /\ Program(m)'.handle = Program(m).handle
  BY <1>5 DEF x
<1> QED BY <1>5, <1>8, <1>17, <1>18, <1>19, <1>20, <1>21, <1>22, <1>23, <1>24, <1>25, <1>26, StepKeeps

-----------------------------------------------------------------------------
(* The steps of the shell keep the order.                                  *)

(* A pipe stays open between two programs when its ends are left alone.    *)
LEMMA PairKept ==
  ASSUME NEW j, Pair(j), NEW a, NEW b, a = EndAt(2 * j - 1), b = EndAt(2 * j), a \in Id, b \in Id,
         EndAt(2 * j - 1)' = a, EndAt(2 * j)' = b,
         descriptors'[a] = descriptors[a], descriptors'[b] = descriptors[b],
         \A k \in Pipes : ~closed[k] /\ (\E id \in Id : descriptors[id] = Element("write", k))
                                     /\ (\E id \in Id : descriptors'[id] = Element("write", k))
                                     /\ (\E id \in Id : descriptors'[id] = Element("read", k)) => ~closed'[k]
  PROVE  Pair(j)'
<1>1. PICK k \in Pipes : /\ descriptors[a] = Element("write", k) /\ descriptors[b] = Element("read", k)
                         /\ ~closed[k] /\ a < b
  BY DEF Pair
<1>2. descriptors'[a] = Element("write", k) /\ descriptors'[b] = Element("read", k) /\ ~closed'[k]
  BY <1>1
<1> QED BY <1>1, <1>2 DEF Pair

(* What is put into the table is there once. *)
LEMMA UniqueKept ==
  ASSUME TypeInv, Unique, NEW X, \A id \in Id \ X : descriptors'[id] = descriptors[id],
         In \notin X, Out \notin X, \A id \in Id : id \in X => descriptors'[id].kind # "console",
         \A id, other \in Id : id \in X /\ descriptors'[id].kind \in {"write", "read", "file"}
                                 /\ descriptors'[id] = descriptors'[other] => id = other
  PROVE  Unique'
<1>1. ASSUME NEW id \in Id, NEW y \in {In, Out}
      PROVE  descriptors'[id] = Console(y) <=> id = y
  BY ElementParts DEF Unique
<1>2. ASSUME NEW id \in Id, NEW other \in Id, descriptors'[id].kind \in {"write", "read", "file"},
             descriptors'[id] = descriptors'[other]
      PROVE  id = other
  <2>1. CASE id \in X
    BY <1>2, <2>1
  <2>2. CASE other \in X
    BY <1>2, <2>2
  <2>3. CASE id \notin X /\ other \notin X
    BY <1>2, <2>3 DEF Unique
  <2> QED BY <2>1, <2>2, <2>3
<1> QED BY <1>1, <1>2 DEF Unique

(* What holds of a program while the shell does something for others.      *)
LEMMA GivenKept ==
  ASSUME TypeInv, TypeInv', Order, call' = call, shell'.line = shell.line,
         NEW m \in Live, m \in Live', Slot(m)' = Slot(m),
         process'[Slot(m)] = process[Slot(m)], at'[Main(Slot(m))] = at[Main(Slot(m))],
         NEW X, \A id \in Id \ X : descriptors'[id] = descriptors[id],
         \A p \in Kept : p \in Kept' => EndAt(p)' = EndAt(p) /\ EndAt(p) \notin X,
         Reads(m) /\ ~(m > 1) /\ ~Past(m) /\ Program(m).input # Console(In) => Program(m).handle \notin X,
         HasFile(m) => Program(m).handle \notin X,
         \A k \in Pipes : closed[k] /\ (\E id \in Id : descriptors[id] = Element("read", k)) => closed'[k]
  PROVE  /\ OutputOf(m)' /\ InputOf(m)' /\ ReadingOf(m)' /\ (HasFile(m)' <=> HasFile(m))
         /\ Program(m)' = Program(m) /\ CommandOf(m)' = CommandOf(m)
<1>1. /\ Size' = Size /\ CommandOf(m)' = CommandOf(m) /\ Program(m)' = Program(m) /\ At(m)' = At(m)
      /\ call'[Main(Slot(m)')] = call[Main(Slot(m))]
  BY DEF Size, CommandOf, Program, At
<1>2. HasFile(m)' <=> HasFile(m)
  BY <1>1 DEF HasFile, Profile
<1>3. OutputOf(m) /\ InputOf(m) /\ ReadingOf(m) /\ Program(m) # NoProcess /\ Slot(m) \in Slots
  BY LiveFacts DEF Order, Given, Processes, LiveOK
<1>4. Program(m).handle \in Id /\ Program(m).input \in Elements
  BY <1>3, ProcessFields DEF Program
<1>5. /\ m < Size => 2 * m - 1 \in Kept /\ 2 * m - 1 \in Kept'
      /\ m > 1 => 2 * m - 2 \in Kept /\ 2 * m - 2 \in Kept'
  BY <1>1, LiveFacts, NextFacts DEF LiveOK
<1>6. \A p \in Kept : EndAt(p) \in Id
  BY LiveFacts, EndFacts DEF LiveOK, EndsOK, Creating, Ending
<1>7. m < Size => EndAt(2 * m - 1)' = EndAt(2 * m - 1) /\ descriptors'[EndAt(2 * m - 1)] = descriptors[EndAt(2 * m - 1)]
  BY <1>5, <1>6
<1>8. m > 1 => EndAt(2 * m - 2)' = EndAt(2 * m - 2) /\ descriptors'[EndAt(2 * m - 2)] = descriptors[EndAt(2 * m - 2)]
  BY <1>5, <1>6
<1>9. Reads(m) /\ ~(m > 1) /\ ~Past(m) /\ Program(m).input # Console(In) =>
        descriptors'[Program(m).handle] = descriptors[Program(m).handle]
  BY <1>4
<1>10. HasFile(m) => descriptors'[Program(m).handle] = descriptors[Program(m).handle]
  BY <1>4
<1>11. m > 1 /\ Reads(m) /\ At(m) = "close" /\ closed[Program(m).input.of] => closed'[Program(m).input.of]
  <2>1. ASSUME m > 1, At(m) = "close", closed[Program(m).input.of]
        PROVE  closed'[Program(m).input.of]
    <3>1. Program(m).input.kind = "read" /\ descriptors[EndAt(2 * m - 2)] = Program(m).input
      BY <1>3, <2>1 DEF InputOf, PipedInput, Past
    <3>2. Program(m).input = Element("read", Program(m).input.of) /\ Program(m).input.of \in Pipes
      BY <1>4, <3>1, ElementIs
    <3> QED BY <1>5, <1>6, <2>1, <3>1, <3>2
  <2> QED BY <2>1
<1>12. OutputOf(m)' /\ InputOf(m)' /\ ReadingOf(m)'
  BY <1>1, <1>3, <1>7, <1>8, <1>9, <1>10, <1>11, ClaimsKept
<1> QED BY <1>1, <1>2, <1>12

(* A step of the shell that leaves the programs alone.                     *)
LEMMA ShellKeeps ==
  ASSUME TypeInv, TypeInv', Order, call' = call, process' = process, at' = at,
         shell'.line = shell.line, shell'.handles = shell.handles, Live' = Live, shell'.pc # "files",
         shell.pc # "files",
         NEW X, \A id \in Id \ X : descriptors'[id] = descriptors[id],
         \A p \in Kept : p \in Kept' => EndAt(p)' = EndAt(p) /\ EndAt(p) \notin X,
         \A m \in Live :
           /\ Reads(m) /\ ~(m > 1) /\ ~Past(m) /\ Program(m).input # Console(In) => Program(m).handle \notin X
           /\ HasFile(m) => Program(m).handle \notin X,
         \A k \in Pipes : closed[k] /\ (\E id \in Id : descriptors[id] = Element("read", k)) => closed'[k],
         \A k \in Pipes : ~closed[k] /\ (\E id \in Id : descriptors[id] = Element("write", k))
                                     /\ (\E id \in Id : descriptors'[id] = Element("write", k))
                                     /\ (\E id \in Id : descriptors'[id] = Element("read", k)) => ~closed'[k],
         \A j \in Paired' : j \notin Paired => Pair(j)',
         Unique', Distinct', Handed', NextEnd', Hole', FilesNamed', Listed',
         \A id \in Id : id \notin X =>
           (id \in Numbers(Ends) \cup Numbers(shell.opened_files) =>
              id \in (Numbers(Ends) \cup Numbers(shell.opened_files))'),
         \A id \in Id : id \in X =>
           descriptors'[id] = None \/ id \in (Numbers(Ends) \cup Numbers(shell.opened_files))'
  PROVE  Order'
<1>1. /\ Size' = Size /\ \A m : Slot(m)' = Slot(m) /\ CommandOf(m)' = CommandOf(m)
      /\ \A m : Program(m)' = Program(m)
  BY DEF Size, CommandOf, Slot, Program
<1>2. Processes'
  BY <1>1 DEF Order, Processes
<1>3. ASSUME NEW m \in Live
      PROVE  OutputOf(m)' /\ InputOf(m)' /\ ReadingOf(m)' /\ (HasFile(m)' <=> HasFile(m))
  BY <1>1, <1>3, GivenKept
<1>4. Given'
  BY <1>3 DEF Given
<1>5. Owned'
  BY <1>1, <1>3 DEF Order, Owned
<1>6. Pairs'
  <2>1. ASSUME NEW j \in Paired', j \in Paired
        PROVE  Pair(j)'
    <3>1. 2 * j - 1 \in Kept /\ 2 * j \in Kept /\ 2 * j - 1 \in Kept' /\ 2 * j \in Kept'
      BY <2>1 DEF Paired
    <3>2. EndAt(2 * j - 1) \in Id /\ EndAt(2 * j) \in Id
      BY <3>1, EndFacts DEF EndsOK
    <3>3. /\ EndAt(2 * j - 1)' = EndAt(2 * j - 1) /\ EndAt(2 * j)' = EndAt(2 * j)
          /\ descriptors'[EndAt(2 * j - 1)] = descriptors[EndAt(2 * j - 1)]
          /\ descriptors'[EndAt(2 * j)] = descriptors[EndAt(2 * j)]
      BY <3>1, <3>2
    <3>4. Pair(j)
      BY <2>1 DEF Order, Pairs
    <3> QED BY <3>2, <3>3, <3>4, PairKept
  <2> QED BY <2>1 DEF Pairs
<1>7. Accounted'
  <2>1. ASSUME NEW id \in Id \ {In, Out}
        PROVE  \/ descriptors'[id].kind \in {"none", "proc"}
               \/ id \in (Numbers(Ends) \cup Numbers(shell.opened_files))'
               \/ \E m \in Live : HasFile(m)' /\ Program(m)'.handle = id
    <3>1. CASE id \in X
      BY <3>1, ElementParts
    <3>2. CASE id \notin X
      BY <1>1, <1>3, <3>2 DEF Order, Accounted
    <3> QED BY <3>1, <3>2
  <2> QED BY <2>1 DEF Accounted
<1> QED BY <1>2, <1>4, <1>5, <1>6, <1>7 DEF Order

(* With no programs and no pipes there is little to keep.                  *)
LEMMA EmptyKeeps ==
  ASSUME TypeInv, Order, TypeInv', process' = process, Live = {}, Live' = {}, Ends' = << >>, Kept' = {},
         Len(shell'.handles) = 0 \/ shell'.handles = shell.handles,
         shell'.pc \notin {"wait", "close_in", "output", "process"},
         Unique', Listed',
         shell'.pc = "input" => \A id \in Id : descriptors'[id].kind # "file",
         \A id \in Id \ {In, Out} :
           descriptors'[id].kind \in {"none", "proc"} \/ id \in Numbers(shell.opened_files)'
  PROVE  Order'
<1>1. \A s \in Slots : process'[s] = NoProcess
  BY DEF Order, Processes
<1>2. Processes'
  <2>1. \A m, l \in 1 .. Len(shell'.handles) : Slot(m)' = Slot(l)' => m = l
    BY DEF Order, Processes, Slot
  <2> QED BY <1>1, <2>1 DEF Processes
<1>3. Distinct' /\ Pairs' /\ Given' /\ Owned'
  <2>1. Paired' = {}
    BY DEF Paired
  <2>2. Distinct'
    BY DEF Distinct
  <2> QED BY <2>1, <2>2 DEF Pairs, Given, Owned
<1>4. Handed' /\ NextEnd' /\ Hole'
  BY DEF Handed, NextEnd, Hole
<1>5. FilesNamed'
  BY DEF FilesNamed, Creating
<1>6. Accounted'
  BY DEF Accounted
<1> QED BY <1>2, <1>3, <1>4, <1>5, <1>6 DEF Order

(* The numbers of a list are its head and those of its tail. *)
LEMMA NumbersOfTail ==
  ASSUME NEW list \in Seq(Id), list # << >>
  PROVE  /\ Head(list) \in Id /\ Len(list) \in Nat /\ Len(list) > 0 /\ Head(list) = list[1]
         /\ Len(Tail(list)) = Len(list) - 1 /\ \A p \in 1 .. Len(Tail(list)) : Tail(list)[p] = list[p + 1]
         /\ Numbers(list) = Numbers(Tail(list)) \cup {Head(list)}
<1>1. /\ Head(list) \in Id /\ Len(list) \in Nat /\ Len(list) > 0 /\ Head(list) = list[1]
      /\ Len(Tail(list)) = Len(list) - 1 /\ \A p \in 1 .. Len(Tail(list)) : Tail(list)[p] = list[p + 1]
  BY HeadTailProperties
<1>2. ASSUME NEW p \in 1 .. Len(list)
      PROVE  list[p] = Head(list) \/ list[p] \in Numbers(Tail(list))
  <2>1. CASE p = 1
    BY <1>1, <2>1
  <2>2. CASE p # 1
    <3>1. p - 1 \in 1 .. Len(Tail(list)) /\ (p - 1) + 1 = p
      BY <1>1, <2>2
    <3>2. Tail(list)[p - 1] = list[p]
      BY <1>1, <3>1
    <3> QED BY <3>1, <3>2 DEF Numbers
  <2> QED BY <2>1, <2>2
<1>3. ASSUME NEW p \in 1 .. Len(Tail(list))
      PROVE  Tail(list)[p] \in Numbers(list)
  <2>1. p + 1 \in 1 .. Len(list)
    BY <1>1
  <2> QED BY <1>1, <2>1 DEF Numbers
<1>4. 1 \in 1 .. Len(list)
  BY <1>1
<1> QED BY <1>1, <1>2, <1>3, <1>4 DEF Numbers

(* At the prompt, and while files are closed, there are no programs.       *)
LEMMA NobodyLives ==
  ASSUME TypeInv, Order, shell.pc \in {"prompt", "files"}
  PROVE  /\ Live = {} /\ Ends = << >> /\ Kept = {} /\ \A s \in Slots : process[s] = NoProcess
         /\ \A id \in Id \ {In, Out} :
              descriptors[id].kind \in {"none", "proc"} \/ id \in Numbers(shell.opened_files)
<1>1. Live = {}
  BY LiveFacts DEF LiveOK, Creating, Ending
<1>2. Ends = << >>
  <2>1. CASE shell.pc = "prompt"
    <3>1. shell = Idle
      BY <2>1 DEF TypeInv, Script
    <3> QED BY <3>1, IdleFacts DEF Ends
  <2>2. CASE shell.pc = "files"
    BY <2>2 DEF Order, Processes
  <2> QED BY <2>1, <2>2
<1>3. Kept = {}
  BY DEF Kept, Gone, Made, Creating, Ending
<1>4. \A s \in Slots : process[s] = NoProcess
  BY <1>1 DEF Order, Processes
<1>5. Numbers(Ends) = {}
  BY <1>2 DEF Numbers
<1> QED BY <1>1, <1>2, <1>3, <1>4, <1>5 DEF Order, Accounted

(* A line is typed. *)
LEMMA TypeKeeps ==
  ASSUME TypeInv, Order, NEW line \in Lines, Type(line)
  PROVE  Order'
<1>1. TypeInv'
  BY TypeTypes
<1>2. /\ shell.pc = "prompt" /\ shell = Idle /\ shell' = [Idle EXCEPT !.pc = "input", !.line = line]
      /\ process' = process /\ descriptors' = descriptors
  BY DEF Type, TypeInv, Script, kernel
<1>3. /\ shell'.pc = "input" /\ shell'.index = 1 /\ shell'.handles = << >> /\ shell'.used_pipes = << >>
      /\ shell'.pipe_queue = << >> /\ shell'.opened_files = << >>
  BY <1>2 DEF Idle
<1>4. Live' = {} /\ Ends' = << >> /\ Kept' = {} /\ Numbers(shell.opened_files)' = {}
  <2>1. Live' = {}
    BY <1>3 DEF Live, First, Creating
  <2>2. Made' = 0 /\ Gone' = 0
    BY <1>3 DEF Made, Gone, Creating, Ending
  <2> QED BY <1>3, <2>1, <2>2 DEF Ends, Kept, Numbers
<1>5. /\ Live = {} /\ \A id \in Id \ {In, Out} : descriptors[id].kind \in {"none", "proc"}
  <2>1. Numbers(shell.opened_files) = {}
    BY <1>2, IdleFacts DEF Numbers
  <2> QED BY <1>2, <2>1, NobodyLives
<1>6. \A id \in Id : descriptors'[id].kind # "file"
  BY <1>2, <1>5, ElementParts DEF Order, Unique
<1>7. Unique' /\ Listed'
  BY <1>2, <1>4 DEF Order, Unique, Listed
<1> QED BY <1>1, <1>2, <1>3, <1>4, <1>5, <1>6, <1>7, EmptyKeeps

(* A file that the shell has opened is closed. *)
LEMMA CloseFilesKeeps ==
  ASSUME TypeInv, Order, CloseFiles
  PROVE  Order'
<1>1. TypeInv'
  BY CloseFilesTypes
<1>2. shell.pc = "files" /\ process' = process
  BY DEF CloseFiles
<1>3. /\ Live = {} /\ Ends = << >>
      /\ \A id \in Id \ {In, Out} :
           descriptors[id].kind \in {"none", "proc"} \/ id \in Numbers(shell.opened_files)
  BY <1>2, NobodyLives
<1>4. CASE shell.opened_files = << >>
  <2>1. shell' = Idle /\ descriptors' = descriptors
    BY <1>4 DEF CloseFiles, kernel
  <2>2. shell'.pc = "prompt" /\ shell'.handles = << >> /\ shell'.opened_files = << >>
    BY <2>1, IdleFacts
  <2>3. Live' = {} /\ Ends' = << >> /\ Kept' = {} /\ Numbers(shell.opened_files)' = {} /\ Numbers(shell.opened_files) = {}
    <3>1. Live' = {}
      BY <2>2 DEF Live, First, Creating, Ending
    <3>2. Made' = 0 /\ Gone' = 0
      BY <2>2 DEF Made, Gone, Creating, Ending
    <3>3. Ends' = << >>
      BY <2>1, IdleFacts DEF Ends
    <3> QED BY <1>4, <2>2, <3>1, <3>2, <3>3 DEF Kept, Numbers
  <2>4. Unique' /\ Listed'
    BY <2>1, <2>3 DEF Order, Unique, Listed
  <2> QED BY <1>1, <1>2, <1>3, <2>1, <2>2, <2>3, <2>4, EmptyKeeps
<1>5. CASE shell.opened_files # << >>
  <2> DEFINE files == shell.opened_files
             x == Head(files)
  <2>1. CloseHandle(x) /\ shell' = [shell EXCEPT !.opened_files = Tail(files)]
    BY <1>5 DEF CloseFiles
  <2>2. files \in Seq(Id) /\ files # << >> /\ shell \in Shell
    BY <1>5, ShellSame, ShellFields
  <2>3. /\ shell'.pc = "files" /\ shell'.handles = shell.handles /\ shell'.used_pipes = shell.used_pipes
        /\ shell'.pipe_queue = shell.pipe_queue /\ shell'.opened_files = Tail(files)
    BY <1>2, <2>1, <2>2 DEF Shell
  <2>4. Live' = {} /\ Ends' = << >> /\ Kept' = {}
    <3>1. Live' = {}
      <4>1. Len(shell'.handles) \in Nat /\ First' = Len(shell'.handles) + 1
        BY <2>2, <2>3, ShellFields DEF First, Creating, Ending
      <4> QED BY <4>1 DEF Live
    <3>2. Made' = 0 /\ Gone' = 0
      BY <2>3 DEF Made, Gone, Creating, Ending
    <3> QED BY <1>3, <2>3, <3>1, <3>2 DEF Ends, Kept
  <2>6. x \in Id /\ Numbers(files) = Numbers(Tail(files)) \cup {x}
    BY <2>2, NumbersOfTail
  <2>7. descriptors'[x] = None /\ None.kind = "none" /\ \A id \in Id \ {x} : descriptors'[id] = descriptors[id]
    BY <2>1, <2>6, ElementParts DEF CloseHandle, TypeInv, TypeOK
  <2>8. x \notin {In, Out} /\ Listed'
    BY <2>3, <2>6 DEF Order, Listed
  <2>9. Unique'
    <3>1. Unique /\ In \notin {x} /\ Out \notin {x} /\ \A id \in {x} : descriptors'[id].kind = "none"
      BY <2>7, <2>8 DEF Order
    <3> HIDE DEF x
    <3> QED BY <2>7, <3>1, UniqueKept
  <2>10. \A id \in Id \ {In, Out} :
           descriptors'[id].kind \in {"none", "proc"} \/ id \in Numbers(shell.opened_files)'
    <3>1. Numbers(shell.opened_files)' = Numbers(Tail(files))
      BY <2>3 DEF Numbers
    <3> QED BY <1>3, <2>6, <2>7, <3>1
  <2> QED BY <1>1, <1>2, <1>3, <2>3, <2>4, <2>8, <2>9, <2>10, EmptyKeeps
<1> QED BY <1>4, <1>5

(* The shell closes the first of the ends that are left.                   *)
LEMMA CloseNextKeeps ==
  ASSUME TypeInv, TypeInv', Order, Ending, process' = process, at' = at, call' = call,
         shell.used_pipes # << >>, CloseHandle(Head(shell.used_pipes)),
         shell'.line = shell.line, shell'.handles = shell.handles, shell'.opened_files = shell.opened_files,
         shell'.used_pipes = Tail(shell.used_pipes), shell'.pc \in {"wait", "close_out"},
         Gone' = Gone + 1, Live' = Live, \A m \in Live : m > 1,
         descriptors[Ends[1]].kind \in {"read", "write", "none"}, NextEnd', Hole'
  PROVE  Order'
<1>1. Ending' /\ Size' = Size /\ Made' = Made /\ shell'.pc # "files" /\ shell.pc # "files"
  BY DEF Ending, Size, Made
<1>2. shell.pipe_queue = << >> /\ shell'.pipe_queue = << >> /\ shell.used_pipes \in Seq(Id)
  BY <1>1, UsedFacts DEF TypeInv, Script
<1>3. Ends = shell.used_pipes /\ Ends' = Tail(shell.used_pipes)
  BY <1>2 DEF Ends
<1> DEFINE x == Head(shell.used_pipes)
<1>4. /\ x \in Id /\ Len(Ends) \in Nat /\ Len(Ends) > 0 /\ x = Ends[1]
      /\ \A p \in 1 .. Len(Ends') : Ends'[p] = Ends[p + 1]
      /\ Numbers(Ends) = Numbers(Tail(shell.used_pipes)) \cup {x}
  BY <1>2, <1>3, NumbersOfTail
<1>5. /\ descriptors'[x] = None /\ None.kind = "none" /\ \A id \in Id \ {x} : descriptors'[id] = descriptors[id]
      /\ closed' = Closed(descriptors', call)
  BY <1>4, ElementParts DEF CloseHandle, TypeInv, TypeOK
<1> HIDE DEF x
<1>6. /\ Gone \in Nat /\ Made \in Nat /\ \A p \in Kept : p \in Nat /\ EndAt(p) = Ends[p - Gone]
      /\ \A p, q \in Kept : EndAt(p) = EndAt(q) => p = q
      /\ \A p \in Kept' : p - Gone' \in 1 .. Len(Ends')
      /\ 1 + Gone \in Kept /\ Ends[1] = EndAt(1 + Gone)
      /\ \A p, q \in 1 .. Len(Ends) : Ends[p] = Ends[q] => p = q
  BY <1>1, <1>4, EndFacts, NextFacts DEF EndsOK, Order, Distinct
<1>7. ASSUME NEW p \in Kept, p \in Kept'
      PROVE  EndAt(p)' = EndAt(p) /\ EndAt(p) \notin {x}
  <2>1. p > Gone + 1 /\ p \in Nat
    BY <1>1, <1>6, <1>7 DEF Kept
  <2>2. (p - Gone') + 1 = p - Gone /\ p # 1 + Gone
    BY <1>6, <2>1
  <2>3. EndAt(p)' = Ends'[p - Gone']
    BY DEF EndAt
  <2>4. EndAt(p)' = EndAt(p)
    BY <1>4, <1>6, <1>7, <2>2, <2>3
  <2> QED BY <1>4, <1>6, <2>2, <2>4
<1>8. Paired' \subseteq Paired
  BY <1>1, <1>6 DEF Paired, Kept
<1>9. x \notin {In, Out}
  BY <1>4, ElementParts, FreeFacts DEF Order, Unique
<1>10. Unique'
  <2>1. Unique /\ In \notin {x} /\ Out \notin {x} /\ \A id \in {x} : descriptors'[id].kind = "none"
    BY <1>5, <1>9 DEF Order
  <2> QED BY <1>5, <2>1, UniqueKept
<1>11. ASSUME NEW m \in Live
       PROVE  /\ m > 1
              /\ HasFile(m) => Program(m).handle \notin {x}
  <2>1. HasFile(m) => descriptors[Program(m).handle] = Element("file", CommandOf(m).file)
    BY DEF Order, Given, ReadingOf
  <2> QED BY <1>4, <2>1, ElementParts
<1>12. Distinct'
  <2>1. Len(Ends') = Len(Ends) - 1
    BY <1>2, <1>3, NumbersOfTail
  <2>2. ASSUME NEW p \in 1 .. Len(Ends'), NEW q \in 1 .. Len(Ends'), Ends'[p] = Ends'[q]
        PROVE  p = q
    <3>1. p + 1 \in 1 .. Len(Ends) /\ q + 1 \in 1 .. Len(Ends) /\ Ends[p + 1] = Ends[q + 1]
      BY <1>4, <2>1, <2>2
    <3>2. p + 1 = q + 1
      BY <1>6, <3>1
    <3> QED BY <3>2
  <2> QED BY <2>2 DEF Distinct
<1>13. Handed' /\ FilesNamed' /\ Listed'
  <2>1. shell'.pc \notin {"output", "process", "input"}
    OBVIOUS
  <2> QED BY <2>1 DEF Handed, FilesNamed, Listed, Order, Creating, Numbers
<1>14. /\ \A k \in Pipes : closed[k] => closed'[k]
       /\ \A k \in Pipes : ~closed[k] /\ (\E id \in Id : descriptors'[id] = Element("write", k))
                                      /\ (\E id \in Id : descriptors'[id] = Element("read", k)) => ~closed'[k]
  BY <1>5, ClosedKept
<1>15. /\ (Numbers(Ends) \cup Numbers(shell.opened_files))' = Numbers(Tail(shell.used_pipes)) \cup Numbers(shell.opened_files)
  BY <1>3 DEF Numbers
<1>16. \A id \in Id : id \notin {x} =>
         (id \in Numbers(Ends) \cup Numbers(shell.opened_files) =>
              id \in (Numbers(Ends) \cup Numbers(shell.opened_files))')
  BY <1>4, <1>15
<1> QED BY <1>1, <1>5, <1>7, <1>8, <1>10, <1>11, <1>12, <1>13, <1>14, <1>16, ShellKeeps

(* The shell closes the input of the program that has ended.               *)
LEMMA CloseInKeeps ==
  ASSUME TypeInv, Order, CloseIn
  PROVE  Order'
<1>1. TypeInv'
  BY CloseInTypes
<1>2. /\ shell.pc = "close_in" /\ Ending /\ process' = process /\ at' = at /\ call' = call
  BY DEF CloseIn, Ending, OfPrograms
<1>3. shell \in Shell /\ shell.index \in 1 .. Size /\ shell.index \in Nat /\ Size \in Nat
  BY <1>2, UsedFacts, ShellSame
<1>4. Gone = (IF shell.index = 1 THEN 0 ELSE 2 * shell.index - 3) /\ First = shell.index + 1
  BY <1>2 DEF Gone, First, Creating
<1>5. ASSUME shell'.pc = "close_out", shell'.index = shell.index, shell'.handles = shell.handles
      PROVE  Gone' = 2 * shell.index - 2 /\ Live' = Live
  BY <1>4, <1>5 DEF Gone, Live, First, Creating, Ending
<1>6. CASE shell.index > 1
  <2>1. /\ CloseHandle(Head(shell.used_pipes))
        /\ shell' = [[shell EXCEPT !.pc = "close_out"] EXCEPT !.used_pipes = Tail(@)]
    BY <1>6 DEF CloseIn, CloseFirstPipe
  <2>2. /\ shell'.pc = "close_out" /\ shell'.line = shell.line /\ shell'.index = shell.index
        /\ shell'.handles = shell.handles /\ shell'.opened_files = shell.opened_files
        /\ shell'.used_pipes = Tail(shell.used_pipes)
    BY <1>3, <2>1 DEF Shell
  <2>3. shell.used_pipes # << >>
    <3>1. Len(shell.used_pipes) = 2 * Size - 2 - Gone
      BY <1>2, UsedFacts
    <3>2. Len(shell.used_pipes) > 0
      BY <1>3, <1>4, <1>6, <3>1
    <3> QED BY <3>2
  <2>4. Gone' = Gone + 1 /\ Live' = Live
    BY <1>3, <1>4, <1>5, <1>6, <2>2
  <2>5. \A m \in Live : m > 1
    BY <1>3, <1>4, <1>6, LiveFacts DEF LiveOK
  <2>6. descriptors[Ends[1]].kind \in {"read", "write", "none"}
    BY <1>2, <1>6 DEF Order, NextEnd
  <2>7. NextEnd' /\ Hole'
    BY <2>2 DEF NextEnd, Hole
  <2> QED BY <1>1, <1>2, <2>1, <2>2, <2>3, <2>4, <2>5, <2>6, <2>7, CloseNextKeeps
<1>7. CASE ~(shell.index > 1)
  <2>1. shell' = [shell EXCEPT !.pc = "close_out"] /\ UNCHANGED kernel
    BY <1>7 DEF CloseIn
  <2>2. /\ shell'.pc = "close_out" /\ shell'.line = shell.line
        /\ shell'.index = shell.index /\ shell'.handles = shell.handles
        /\ shell'.used_pipes = shell.used_pipes /\ shell'.pipe_queue = shell.pipe_queue
        /\ shell'.opened_files = shell.opened_files
    BY <1>3, <2>1 DEF Shell
  <2>3. Gone' = Gone /\ Live' = Live
    <3>1. shell.index = 1
      BY <1>3, <1>7
    <3> QED BY <1>4, <1>5, <2>2, <3>1
  <2>4. Ends' = Ends /\ Made' = Made /\ Size' = Size /\ descriptors' = descriptors /\ closed' = closed
    <3>1. descriptors' = descriptors /\ closed' = closed
      BY <2>1 DEF kernel
    <3>2. Size' = Size /\ Ends' = Ends
      BY <2>2 DEF Size, Ends
    <3>3. Ending /\ Ending'
      BY <1>2, <2>2 DEF Ending
    <3>4. Made' = Made
      BY <3>2, <3>3 DEF Made
    <3> QED BY <3>1, <3>2, <3>4
  <2>5. Kept' = Kept /\ Paired' = Paired /\ (\A p : EndAt(p)' = EndAt(p))
        /\ Numbers(Ends)' = Numbers(Ends) /\ Numbers(shell.opened_files)' = Numbers(shell.opened_files)
    BY <2>2, <2>3, <2>4 DEF Kept, Paired, EndAt, Numbers
  <2>6. Unique' /\ Distinct' /\ Listed'
    BY <2>4, <2>5 DEF Order, Unique, Distinct, Listed
  <2>7. Handed' /\ NextEnd' /\ Hole' /\ FilesNamed'
    BY <2>2 DEF Handed, NextEnd, Hole, FilesNamed, Creating
  <2>8. PICK X : X = {}
    OBVIOUS
  <2>9. shell'.pc # "files" /\ shell.pc # "files"
    BY <1>2, <2>2
  <2> QED BY <1>1, <1>2, <2>2, <2>3, <2>4, <2>5, <2>6, <2>7, <2>8, <2>9, ShellKeeps
<1> QED BY <1>6, <1>7

(* The shell closes the output of the program that has ended.  Its number  *)
(* is lower than that of the other end: a program that has not begun yet   *)
(* finds a lower number than the one which is closed next.                 *)
LEMMA CloseOutKeeps ==
  ASSUME TypeInv, Order, CloseOut
  PROVE  Order'
<1>1. TypeInv'
  BY CloseOutTypes
<1>2. /\ shell.pc = "close_out" /\ Ending /\ process' = process /\ at' = at /\ call' = call
  BY DEF CloseOut, Ending, OfPrograms
<1>3. shell \in Shell /\ shell.index \in 1 .. Size /\ shell.index \in Nat /\ Size \in Nat /\ Len(shell.handles) = Size
      /\ shell.pipe_queue = << >>
  BY <1>2, UsedFacts, ShellSame
<1>4. Gone = 2 * shell.index - 2 /\ First = shell.index + 1
  BY <1>2 DEF Gone, First, Creating
<1>5. CASE IsLast
  <2>1. shell' = [shell EXCEPT !.pc = "files"] /\ UNCHANGED kernel /\ shell.index = Size
    BY <1>5 DEF CloseOut, IsLast, Size
  <2>2. /\ shell'.pc = "files" /\ shell'.handles = shell.handles
        /\ shell'.used_pipes = shell.used_pipes /\ shell'.pipe_queue = shell.pipe_queue
        /\ shell'.opened_files = shell.opened_files
    BY <1>3, <2>1 DEF Shell
  <2>3. Live = {}
    BY <1>3, <1>4, <2>1 DEF Live
  <2>4. Ends = << >>
    <3>1. Len(shell.used_pipes) = 0
      BY <1>2, <1>3, <1>4, <2>1, UsedFacts
    <3>2. shell.used_pipes = << >>
      BY <1>2, <3>1, UsedFacts
    <3> QED BY <1>3, <3>2 DEF Ends
  <2>5. Live' = {} /\ Ends' = << >> /\ Kept' = {}
    <3>1. First' = Len(shell'.handles) + 1
      BY <2>2 DEF First, Creating, Ending
    <3>2. Live' = {}
      BY <1>3, <2>2, <3>1 DEF Live
    <3>3. Made' = 0 /\ Gone' = 0
      BY <2>2 DEF Made, Gone, Creating, Ending
    <3> QED BY <2>2, <2>4, <3>2, <3>3 DEF Ends, Kept
  <2>6. Unique' /\ Listed' /\ Numbers(shell.opened_files)' = Numbers(shell.opened_files)
    <3>1. descriptors' = descriptors
      BY <2>1 DEF kernel
    <3>2. Numbers(shell.opened_files)' = Numbers(shell.opened_files)
      BY <2>2 DEF Numbers
    <3> QED BY <3>1, <3>2 DEF Order, Unique, Listed
  <2>7. \A id \in Id \ {In, Out} :
          descriptors'[id].kind \in {"none", "proc"} \/ id \in Numbers(shell.opened_files)'
    <3>1. Numbers(Ends) = {}
      BY <2>4 DEF Numbers
    <3> QED BY <2>1, <2>3, <2>6, <3>1 DEF Order, Accounted, kernel
  <2> QED BY <1>1, <1>2, <2>2, <2>3, <2>5, <2>6, <2>7, EmptyKeeps
<1>6. CASE ~IsLast
  <2>1. /\ CloseHandle(Head(shell.used_pipes))
        /\ shell' = [[shell EXCEPT !.pc = "wait", !.index = @ + 1] EXCEPT !.used_pipes = Tail(@)]
    BY <1>6 DEF CloseOut, CloseFirstPipe
  <2>2. shell.index < Size
    BY <1>3, <1>6 DEF IsLast, Size
  <2>3. /\ shell'.pc = "wait" /\ shell'.line = shell.line /\ shell'.index = shell.index + 1
        /\ shell'.handles = shell.handles /\ shell'.opened_files = shell.opened_files
        /\ shell'.used_pipes = Tail(shell.used_pipes) /\ shell'.pipe_queue = shell.pipe_queue
    BY <1>3, <2>1 DEF Shell
  <2>4. shell.used_pipes # << >>
    <3>1. Len(shell.used_pipes) = 2 * Size - 2 - Gone
      BY <1>2, UsedFacts
    <3>2. Len(shell.used_pipes) > 0
      BY <1>3, <1>4, <2>2, <3>1
    <3> QED BY <3>2
  <2>5. Gone' = Gone + 1
    <3>1. Gone' = 2 * (shell.index + 1) - 3
      BY <1>3, <2>3 DEF Gone, Ending
    <3> QED BY <1>3, <1>4, <3>1
  <2>6. Live' = Live
    BY <1>3, <1>4, <2>3 DEF Live, First, Creating
  <2>7. \A m \in Live : m > 1
    BY <1>3, <1>4, LiveFacts DEF LiveOK
  <2>8. Made = 2 * Size - 2 /\ Size' = Size
    BY <1>2, <2>3 DEF Made, Size
  <2>9. shell.index \in Paired /\ 2 * shell.index - 1 \in Kept /\ 2 * shell.index \in Kept
    <3>1. 2 * shell.index - 1 \in Kept /\ 2 * shell.index \in Kept
      BY <1>3, <1>4, <2>2, <2>8 DEF Kept
    <3> QED BY <1>3, <3>1 DEF Paired
  <2>10. PICK k \in Pipes : /\ descriptors[EndAt(2 * shell.index - 1)] = Element("write", k)
                            /\ descriptors[EndAt(2 * shell.index)] = Element("read", k)
                            /\ EndAt(2 * shell.index - 1) < EndAt(2 * shell.index)
    BY <2>9 DEF Order, Pairs, Pair
  <2>11. (2 * shell.index - 1) - Gone = 1 /\ (2 * shell.index) - Gone = 2
    BY <1>3, <1>4
  <2>12. Ends[1] = EndAt(2 * shell.index - 1) /\ Ends[2] = EndAt(2 * shell.index) /\ Ends[1] \in Id /\ Ends[2] \in Id
    BY <1>2, <2>9, <2>11, EndFacts DEF EndsOK, EndAt
  <2>13. Ends'[1] = Ends[2]
    <3>1. shell.used_pipes \in Seq(Id) /\ Ends = shell.used_pipes /\ Ends' = Tail(shell.used_pipes)
      BY <1>2, <1>3, <2>3, UsedFacts DEF Ends
    <3>2. Len(Tail(shell.used_pipes)) >= 1
      <4>1. Len(shell.used_pipes) = 2 * Size - 2 - Gone
        BY <1>2, UsedFacts
      <4>2. Len(Tail(shell.used_pipes)) = Len(shell.used_pipes) - 1
        BY <2>4, <3>1, NumbersOfTail
      <4>3. \A i, n \in Nat : i < n => (2 * n - 2 - (2 * i - 2)) - 1 >= 1
        OBVIOUS
      <4>4. Len(Tail(shell.used_pipes)) = (2 * Size - 2 - (2 * shell.index - 2)) - 1
        BY <1>4, <4>1, <4>2
      <4> QED BY <1>3, <2>2, <4>3, <4>4
    <3>3. Tail(shell.used_pipes)[1] = shell.used_pipes[1 + 1]
      <4>1. Len(Tail(shell.used_pipes)) \in Nat
        BY <2>4, <3>1, NumbersOfTail
      <4>2. 1 \in 1 .. Len(Tail(shell.used_pipes))
        BY <3>2, <4>1
      <4> QED BY <2>4, <3>1, <4>2, NumbersOfTail
    <3>4. 1 + 1 = 2
      OBVIOUS
    <3> QED BY <3>1, <3>3, <3>4
  <2>14. descriptors'[Ends[1]] = None /\ descriptors'[Ends[2]] = descriptors[Ends[2]]
    <3>1. Ends[1] = Head(shell.used_pipes)
      <4>1. shell.used_pipes \in Seq(Id) /\ Ends = shell.used_pipes
        BY <1>2, <1>3, UsedFacts DEF Ends
      <4> QED BY <2>4, <4>1, NumbersOfTail
    <3>2. Ends[1] # Ends[2]
      BY <2>10, <2>12, ElementParts
    <3> QED BY <2>1, <2>12, <3>1, <3>2 DEF CloseHandle, TypeInv, TypeOK
  <2>15. NextEnd'
    BY <2>10, <2>12, <2>13, <2>14, ElementParts DEF NextEnd
  <2>16. Hole'
    <3>1. Ends[1] \in Free' /\ Ends[1] < Ends'[1]
      BY <2>10, <2>12, <2>13, <2>14 DEF Free
    <3> QED BY <3>1 DEF Hole
  <2>17. descriptors[Ends[1]].kind \in {"read", "write", "none"}
    BY <2>10, <2>12, ElementParts
  <2> QED BY <1>1, <1>2, <2>1, <2>3, <2>4, <2>5, <2>6, <2>7, <2>15, <2>16, <2>17, CloseNextKeeps
<1> QED BY <1>5, <1>6

(* The shell takes the exit code of a program, which is no more. *)
LEMMA ReadExitCodeKeeps ==
  ASSUME TypeInv, Order, ReadExitCode
  PROVE  Order'
<1>1. TypeInv'
  BY ReadExitCodeTypes
<1> DEFINE s == Slot(shell.index)
<1>2. /\ shell.pc = "wait" /\ Ending /\ at[Main(s)] = "ended"
      /\ process' = [process EXCEPT ![s] = NoProcess]
      /\ at' = [at EXCEPT ![Main(s)] = "none", ![Checker(s)] = "none"]
      /\ shell' = [shell EXCEPT !.pc = "close_in"]
      /\ descriptors' = descriptors /\ closed' = closed /\ call' = call
  BY DEF ReadExitCode, Ending, OfPrograms, kernel, Slot
<1>3. shell \in Shell /\ shell.index \in 1 .. Size /\ shell.index \in Nat /\ Size \in Nat /\ Len(shell.handles) = Size
  BY <1>2, UsedFacts, ShellSame
<1>4. /\ shell'.pc = "close_in" /\ shell'.line = shell.line /\ shell'.index = shell.index
      /\ shell'.handles = shell.handles /\ shell'.opened_files = shell.opened_files
      /\ shell'.used_pipes = shell.used_pipes /\ shell'.pipe_queue = shell.pipe_queue
  BY <1>2, <1>3 DEF Shell
<1>5. /\ Ends' = Ends /\ Size' = Size /\ Made' = Made /\ Gone' = Gone
  <2>1. Size' = Size /\ Ends' = Ends
    BY <1>4 DEF Size, Ends
  <2>2. Ending /\ Ending'
    BY <1>2, <1>4 DEF Ending
  <2>3. Made' = Made
    BY <2>1, <2>2 DEF Made
  <2>4. Gone' = Gone
    BY <1>2, <1>4, <2>2 DEF Gone
  <2> QED BY <2>1, <2>3, <2>4
<1>6. /\ Kept' = Kept /\ Paired' = Paired /\ (\A p : EndAt(p)' = EndAt(p))
      /\ Numbers(Ends)' = Numbers(Ends) /\ Numbers(shell.opened_files)' = Numbers(shell.opened_files)
      /\ \A m : Slot(m)' = Slot(m) /\ CommandOf(m)' = CommandOf(m)
  BY <1>4, <1>5 DEF Kept, Paired, EndAt, Numbers, Slot, CommandOf
<1>7. First = shell.index /\ First' = shell.index + 1
  BY <1>2, <1>4 DEF First, Creating, Ending
<1>8. /\ Live' = Live \ {shell.index} /\ shell.index \in Live
      /\ \A m \in Live : Slot(m) \in Slots /\ m \in 1 .. Len(shell.handles)
  <2>1. \A m \in Live : m \in Nat /\ Slot(m) \in Slots /\ m \in 1 .. Len(shell.handles)
    BY LiveFacts DEF LiveOK
  <2> QED BY <1>3, <1>4, <1>7, <2>1 DEF Live
<1>9. s \in Slots
  BY <1>8
<1>10. \A m \in Live' : Slot(m) # s
  BY <1>8 DEF Order, Processes
<1> HIDE DEF s
<1>11. /\ process'[s] = NoProcess /\ \A o \in Slots \ {s} : process'[o] = process[o] /\ at'[Main(o)] = at[Main(o)]
  BY <1>2, <1>9, ThreadFacts DEF TypeInv, TypeOK
<1>12. ASSUME NEW m \in Live'
       PROVE  /\ OutputOf(m)' /\ InputOf(m)' /\ ReadingOf(m)' /\ (HasFile(m)' <=> HasFile(m))
              /\ Program(m)' = Program(m) /\ CommandOf(m)' = CommandOf(m) /\ m \in Live /\ At(m)' = At(m)
  <2>1. m \in Live /\ Slot(m) \in Slots \ {s}
    BY <1>8, <1>10
  <2>2. process'[Slot(m)] = process[Slot(m)] /\ at'[Main(Slot(m))] = at[Main(Slot(m))]
    BY <1>11, <2>1
  <2>3. PICK X : X = {}
    OBVIOUS
  <2>4. /\ \A id \in Id \ X : descriptors'[id] = descriptors[id]
        /\ \A p \in Kept : p \in Kept' => EndAt(p)' = EndAt(p) /\ EndAt(p) \notin X
        /\ Reads(m) /\ ~(m > 1) /\ ~Past(m) /\ Program(m).input # Console(In) => Program(m).handle \notin X
        /\ HasFile(m) => Program(m).handle \notin X
        /\ \A k \in Pipes : closed[k] /\ (\E id \in Id : descriptors[id] = Element("read", k)) => closed'[k]
    BY <1>2, <1>6, <2>3
  <2>5. At(m)' = At(m) /\ Slot(m)' = Slot(m)
    BY <1>6, <2>2 DEF At
  <2> QED BY <1>1, <1>2, <1>4, <2>1, <2>2, <2>4, <2>5, GivenKept
<1>13. Processes'
  <2>1. \A m, l \in 1 .. Len(shell.handles) : Slot(m) = Slot(l) => m = l
    BY DEF Order, Processes
  <2>2. ASSUME NEW o \in Slots, process'[o] # NoProcess
        PROVE  \E m \in Live' : Slot(m)' = o
    <3>1. o # s /\ process[o] # NoProcess
      BY <1>11, <2>2
    <3>2. PICK m \in Live : Slot(m) = o
      BY <3>1 DEF Order, Processes
    <3>3. m # shell.index
      BY <3>1, <3>2 DEF s
    <3> QED BY <1>6, <1>8, <3>2, <3>3
  <2>3. \A m \in Live' : Program(m)' # NoProcess /\ Program(m)'.command = CommandOf(m)'
    BY <1>12 DEF Order, Processes
  <2> QED BY <1>4, <1>6, <2>1, <2>2, <2>3 DEF Processes
<1>14. Given' /\ Owned'
  <2>1. Given'
    BY <1>12 DEF Given
  <2>2. Owned'
    BY <1>12 DEF Owned, Order
  <2> QED BY <2>1, <2>2
<1>15. Unique' /\ Distinct' /\ Listed' /\ Pairs'
  <2>1. Unique' /\ Distinct' /\ Listed'
    BY <1>2, <1>5, <1>6 DEF Order, Unique, Distinct, Listed
  <2>2. Pairs'
    BY <1>2, <1>6 DEF Order, Pairs, Pair
  <2> QED BY <2>1, <2>2
<1>16. Handed' /\ FilesNamed'
  BY <1>4 DEF Handed, FilesNamed, Creating
<1>17. NextEnd'
  BY <1>2, <1>4, <1>5 DEF NextEnd, Order
<1>18. Hole'
  <2> SUFFICES ASSUME shell.index = 2, Size = 3, At(3)' = "begin"
               PROVE  (\E y \in Free' : y < Ends[1]) \/ descriptors[Ends[1]].kind = "read"
    BY <1>2, <1>4, <1>5 DEF Hole
  <2>1. 3 \in Live
    BY <1>2, ThirdLives
  <2>2. 3 \in Live'
    BY <1>8, <2>1
  <2>3. At(3) = "begin"
    BY <1>12, <2>2
  <2>4. Free' = Free
    BY <1>2 DEF Free
  <2> QED BY <1>2, <2>3, <2>4 DEF Order, Hole
<1>19. Accounted'
  <2>1. ASSUME NEW id \in Id \ {In, Out}, NEW m \in Live, HasFile(m), Program(m).handle = id
        PROVE  \E l \in Live' : HasFile(l)' /\ Program(l)'.handle = id
    <3>1. m # shell.index
      BY <1>2, <2>1 DEF HasFile, At, s
    <3> QED BY <1>8, <1>12, <2>1, <3>1
  <2> QED BY <1>2, <1>6, <2>1 DEF Order, Accounted
<1> QED BY <1>13, <1>14, <1>15, <1>16, <1>17, <1>18, <1>19 DEF Order

(* While the shell creates programs, the ends of the pipes come in pairs.  *)
LEMMA KeptInPairs ==
  ASSUME TypeInv, Creating, NEW p \in Kept
  PROVE  \E j \in Paired : p = 2 * j - 1 \/ p = 2 * j
<1>1. shell.index \in 1 .. Size /\ Size \in Nat /\ shell.index \in Nat
  BY ShellSame, ShellFields DEF TypeInv, Script
<1>2. Gone = 0 /\ (Made = 2 * shell.index - 2 \/ Made = 2 * shell.index)
  BY DEF Gone, Made, Creating, Ending
<1>3. PICK n \in Nat : Made = 2 * n /\ n <= Size
  <2>1. CASE Made = 2 * shell.index
    BY <1>1, <2>1
  <2>2. CASE Made = 2 * shell.index - 2
    <3>1. shell.index - 1 \in Nat /\ 2 * (shell.index - 1) = 2 * shell.index - 2 /\ shell.index - 1 <= Size
      BY <1>1
    <3> QED BY <2>2, <3>1
  <2> QED BY <1>2, <2>1, <2>2
<1>4. p \in Nat /\ p >= 1 /\ p <= 2 * n
  BY <1>2, <1>3 DEF Kept
<1>5. PICK j \in Nat : p = 2 * j - 1 \/ p = 2 * j
  <2>1. (p + 1) \div 2 \in Nat /\ (p = 2 * ((p + 1) \div 2) - 1 \/ p = 2 * ((p + 1) \div 2))
    BY <1>4
  <2> QED BY <2>1
<1>6. j >= 1 /\ j <= n
  BY <1>4, <1>5
<1>7. 2 * j - 1 \in Kept /\ 2 * j \in Kept /\ j \in 1 .. Size
  BY <1>1, <1>2, <1>3, <1>5, <1>6 DEF Kept
<1> QED BY <1>5, <1>7 DEF Paired

(* The shell opens a file: nobody has the number, nobody has the file.     *)
LEMMA FileOpened ==
  ASSUME TypeInv, Order, Creating, NEW x \in Free, NEW file, Openable(file),
         descriptors' = [descriptors EXCEPT ![x] = Element("file", file)]
  PROVE  /\ x \in Id /\ x \notin {In, Out} /\ Unique' /\ descriptors'[x] = Element("file", file)
         /\ \A id \in Id \ {x} : descriptors'[id] = descriptors[id]
         /\ \A p \in Kept : EndAt(p) # x
<1>1. x \in Id /\ x \notin {In, Out}
  BY FreeNumber, FreeFacts
<1>2. descriptors'[x] = Element("file", file) /\ \A id \in Id \ {x} : descriptors'[id] = descriptors[id]
  BY <1>1 DEF TypeInv, TypeOK
<1>3. \A id \in Id : descriptors[id] # Element("file", file)
  BY DEF Openable
<1>4. Unique /\ In \notin {x} /\ Out \notin {x} /\ \A id \in {x} : descriptors'[id].kind # "console"
  BY <1>1, <1>2, ElementParts DEF Order
<1>5. \A id, other \in Id : id \in {x} /\ descriptors'[id].kind \in {"write", "read", "file"}
                               /\ descriptors'[id] = descriptors'[other] => id = other
  BY <1>2, <1>3
<1>6. Unique'
  BY <1>2, <1>4, <1>5, UniqueKept
<1>7. \A p \in Kept : EndAt(p) # x
  BY KeptInPairs, FreeNumber
<1> QED BY <1>1, <1>2, <1>6, <1>7

(* What the command at hand names is not open yet. *)
LEMMA NoRefusal ==
  ASSUME TypeInv, AllSound, Order, Creating, NEW file, file # NoFile,
         \/ shell.pc = "input" /\ file = CurrentCommand.input
         \/ shell.pc = "output" /\ file = CurrentCommand.output
  PROVE  Openable(file)
<1>1. shell.index \in 1 .. Size /\ Size \in Nat /\ shell.index \in Nat
  BY ShellSame, ShellFields DEF TypeInv, Script
<1>2. CurrentCommand = CommandOf(shell.index)
  BY DEF CurrentCommand, CommandOf
<1>3. shell.pc # "prompt"
  BY DEF Creating
<1>4. /\ Redirected(CommandOf(shell.index)) \subseteq Files
      /\ CommandOf(shell.index).input = CommandOf(shell.index).output => CommandOf(shell.index).input = NoFile
      /\ \A j \in 1 .. Size : shell.index # j => Redirected(CommandOf(shell.index)) \cap Named(CommandOf(j)) = {}
  BY <1>1, <1>3, SoundLine
<1>5. file \in Redirected(CommandOf(shell.index)) /\ file \in Files
  BY <1>2, <1>4 DEF Redirected
<1>6. ASSUME NEW id \in Id, descriptors[id] = Element("file", file)
      PROVE  FALSE
  <2>1. descriptors[id].kind = "file" /\ descriptors[id].of = file
    BY <1>6, ElementParts
  <2>2. \/ \E j \in 1 .. (shell.index - 1) : file \in Named(CommandOf(j))
        \/ shell.pc # "input" /\ file = CommandOf(shell.index).input
        \/ shell.pc = "process" /\ file = CommandOf(shell.index).output
    BY <2>1 DEF Order, FilesNamed
  <2>3. CASE \E j \in 1 .. (shell.index - 1) : file \in Named(CommandOf(j))
    <3>1. PICK j \in 1 .. (shell.index - 1) : file \in Named(CommandOf(j))
      BY <2>3
    <3>2. j \in 1 .. Size /\ shell.index # j
      BY <1>1
    <3> QED BY <1>4, <1>5, <3>1, <3>2
  <2>4. CASE shell.pc # "input" /\ file = CommandOf(shell.index).input
    BY <1>2, <1>4, <2>4
  <2> QED BY <2>2, <2>3, <2>4
<1> QED BY <1>5, <1>6 DEF Openable

(* What stays while the shell creates the programs of a line. *)
LEMMA CreatingStays ==
  ASSUME TypeInv, shell.pc \in {"input", "output"}, shell' \in Shell,
         shell'.pc \in {"output", "process"}, shell'.line = shell.line, shell'.index = shell.index,
         shell'.handles = shell.handles
  PROVE  /\ Creating /\ Creating' /\ shell.pc # "files" /\ shell'.pc # "files" /\ Gone = 0 /\ Gone' = 0
         /\ Size' = Size /\ Live' = Live /\ NextEnd' /\ Hole'
         /\ Made = 2 * shell.index - 2 /\ shell.index \in 1 .. Size /\ Size \in Nat /\ shell.index \in Nat
         /\ Made' = IF shell'.pc = "process" /\ shell.index < Size THEN 2 * shell.index ELSE Made
         /\ \A m : CommandOf(m)' = CommandOf(m)
<1>1. /\ Creating /\ Creating' /\ shell.pc # "files" /\ shell'.pc # "files" /\ Size' = Size /\ ~Ending /\ ~Ending'
      /\ \A m : CommandOf(m)' = CommandOf(m)
  BY DEF Creating, Ending, Size, CommandOf
<1>2. shell.index \in 1 .. Size /\ Size \in Nat /\ shell.index \in Nat
  BY <1>1, ShellSame, ShellFields DEF TypeInv, Script
<1>3. Gone = 0 /\ Gone' = 0 /\ Live' = Live
  BY <1>1 DEF Gone, Live, First
<1>4. Made = 2 * shell.index - 2
  BY <1>1 DEF Made
<1>5. Made' = IF shell'.pc = "process" /\ shell.index < Size THEN 2 * shell.index ELSE Made
  BY <1>1, <1>4 DEF Made
<1>6. NextEnd' /\ Hole'
  BY DEF NextEnd, Hole
<1> QED BY <1>1, <1>2, <1>3, <1>4, <1>5, <1>6

(* A number that is free is in no one's hands, nor is its file. *)
LEMMA OpenedKeeps ==
  ASSUME TypeInv, TypeInv', Order, shell.pc \in {"input", "output"}, shell'.pc \in {"output", "process"},
         process' = process, at' = at, call' = call, closed' = closed,
         NEW x \in Free, NEW file, Openable(file), descriptors' = [descriptors EXCEPT ![x] = Element("file", file)],
         shell'.line = shell.line, shell'.index = shell.index, shell'.handles = shell.handles,
         shell'.used_pipes = shell.used_pipes, shell'.pipe_queue = shell.pipe_queue,
         shell'.opened_files = Append(shell.opened_files, x),
         shell'.pc = "process" => shell.index = Size,
         Handed', FilesNamed'
  PROVE  Order'
<1>1. /\ Creating /\ shell.pc # "files" /\ shell'.pc # "files" /\ Gone = 0 /\ Gone' = 0
      /\ Size' = Size /\ Live' = Live /\ NextEnd' /\ Hole' /\ Made' = Made
  <2>1. shell' \in Shell
    BY DEF TypeInv, TypeOK
  <2> QED BY <2>1, CreatingStays
<1>2. /\ x \in Id /\ x \notin {In, Out} /\ Unique' /\ descriptors'[x] = Element("file", file)
      /\ \A id \in Id \ {x} : descriptors'[id] = descriptors[id]
      /\ \A p \in Kept : EndAt(p) # x
  BY <1>1, FileOpened
<1>3. Ends' = Ends
  BY DEF Ends
<1>4. Kept' = Kept /\ Paired' = Paired /\ (\A p : EndAt(p)' = EndAt(p)) /\ Numbers(Ends)' = Numbers(Ends)
  BY <1>1, <1>3 DEF Kept, Paired, EndAt, Numbers
<1>5. Numbers(shell.opened_files)' = Numbers(shell.opened_files) \cup {x}
  <2>1. shell.opened_files \in Seq(Id)
    BY ShellSame, ShellFields
  <2>2. \A list \in Seq(Id) : Numbers(Append(list, x)) = Numbers(list) \cup {x}
    <3> TAKE list \in Seq(Id)
    <3>1. /\ Len(list) \in Nat /\ Len(Append(list, x)) = Len(list) + 1 /\ Append(list, x)[Len(list) + 1] = x
          /\ \A p \in 1 .. Len(list) : Append(list, x)[p] = list[p]
      BY <1>2, AppendProperties
    <3>2. 1 .. (Len(list) + 1) = (1 .. Len(list)) \cup {Len(list) + 1}
      BY <3>1
    <3> QED BY <3>1, <3>2 DEF Numbers
  <2>3. Numbers(shell'.opened_files) = Numbers(shell.opened_files) \cup {x}
    BY <2>1, <2>2
  <2> QED BY <2>3 DEF Numbers
<1>6. Distinct' /\ Listed'
  BY <1>2, <1>3, <1>5 DEF Order, Distinct, Listed
<1>7. \A m \in Live :
        /\ Reads(m) /\ ~(m > 1) /\ ~Past(m) /\ Program(m).input # Console(In) => Program(m).handle \notin {x}
        /\ HasFile(m) => Program(m).handle \notin {x}
  BY FreeNumber
<1>8. \A p \in Kept : p \in Kept' => EndAt(p)' = EndAt(p) /\ EndAt(p) \notin {x}
  BY <1>2, <1>4
<1>9. \A j \in Paired' : j \notin Paired => Pair(j)'
  BY <1>4
<1>10. /\ \A id \in Id : id \notin {x} =>
           (id \in Numbers(Ends) \cup Numbers(shell.opened_files) =>
              id \in (Numbers(Ends) \cup Numbers(shell.opened_files))')
       /\ \A id \in Id : id \in {x} =>
           descriptors'[id] = None \/ id \in (Numbers(Ends) \cup Numbers(shell.opened_files))'
  BY <1>4, <1>5
<1> QED BY <1>1, <1>2, <1>6, <1>7, <1>8, <1>9, <1>10, ShellKeeps

(* The shell hands on what it has without opening anything. *)
LEMMA NothingOpened ==
  ASSUME TypeInv, TypeInv', Order, shell.pc \in {"input", "output"}, shell'.pc \in {"output", "process"},
         process' = process, at' = at, call' = call, UNCHANGED kernel,
         shell'.line = shell.line, shell'.index = shell.index, shell'.handles = shell.handles,
         shell'.used_pipes = shell.used_pipes, shell'.pipe_queue = shell.pipe_queue,
         shell'.opened_files = shell.opened_files,
         shell'.pc = "process" => shell.index = Size,
         Handed', FilesNamed'
  PROVE  Order'
<1>1. /\ Creating /\ shell.pc # "files" /\ shell'.pc # "files" /\ Gone = 0 /\ Gone' = 0
      /\ Size' = Size /\ Live' = Live /\ NextEnd' /\ Hole' /\ Made' = Made
  <2>1. shell' \in Shell
    BY DEF TypeInv, TypeOK
  <2> QED BY <2>1, CreatingStays
<1>2. Ends' = Ends /\ descriptors' = descriptors /\ closed' = closed
  BY DEF Ends, kernel
<1>3. Kept' = Kept /\ Paired' = Paired /\ (\A p : EndAt(p)' = EndAt(p)) /\ Numbers(Ends)' = Numbers(Ends)
      /\ Numbers(shell.opened_files)' = Numbers(shell.opened_files)
  BY <1>1, <1>2 DEF Kept, Paired, EndAt, Numbers
<1>4. Unique' /\ Distinct' /\ Listed'
  BY <1>2, <1>3 DEF Order, Unique, Distinct, Listed
<1>5. PICK X : X = {}
  OBVIOUS
<1> QED BY <1>1, <1>2, <1>3, <1>4, <1>5, ShellKeeps

(* The shell opens a command's input. *)
LEMMA OpenInputKeeps ==
  ASSUME TypeInv, AllSound, Order, OpenInput
  PROVE  Order'
<1> DEFINE file == CurrentCommand.input
<1>1. TypeInv'
  BY OpenInputTypes
<1>2. /\ shell.pc = "input" /\ Creating /\ process' = process /\ at' = at /\ call' = call /\ shell \in Shell
      /\ CurrentCommand = CommandOf(shell.index)
  BY ShellSame DEF OpenInput, Creating, OfPrograms, CurrentCommand, CommandOf
<1>3. shell.index \in 1 .. Size /\ Size \in Nat /\ shell.index \in Nat
  BY <1>2, ShellSame, ShellFields DEF TypeInv, Script
<1>4. ASSUME shell'.pc = "output", shell'.line = shell.line, shell'.index = shell.index,
             \A id \in Id : descriptors'[id].kind = "file" =>
               descriptors'[id] = descriptors[id] \/ descriptors'[id].of = file
      PROVE  FilesNamed'
  <2>1. ASSUME NEW id \in Id, descriptors'[id].kind = "file"
        PROVE  \/ \E j \in 1 .. (shell.index - 1) : descriptors'[id].of \in Named(CommandOf(j))
               \/ descriptors'[id].of = CommandOf(shell.index).input
    BY <1>2, <1>4, <2>1 DEF Order, FilesNamed
  <2>2. \A j : CommandOf(j)' = CommandOf(j) /\ Named(CommandOf(j))' = Named(CommandOf(j))
    BY <1>4 DEF CommandOf, Named, Redirected
  <2>3. shell'.pc = "output" /\ shell'.pc # "input" /\ CommandOf(shell.index)' = CommandOf(shell.index)
    BY <1>4, <2>2
  <2> QED BY <1>4, <2>1, <2>2, <2>3 DEF FilesNamed
<1>5. CASE /\ file = NoFile
           /\ shell' = [shell EXCEPT !.pc = "output", !.handle_in = In] /\ UNCHANGED kernel
  <2>1. /\ shell'.pc = "output" /\ shell'.line = shell.line /\ shell'.index = shell.index /\ shell'.handles = shell.handles
        /\ shell'.used_pipes = shell.used_pipes /\ shell'.pipe_queue = shell.pipe_queue
        /\ shell'.opened_files = shell.opened_files /\ shell'.handle_in = In
    BY <1>2, <1>5 DEF Shell
  <2>2. Handed'
    BY <2>1 DEF Handed
  <2>3. \A id \in Id : descriptors'[id] = descriptors[id]
    BY <1>5 DEF kernel
  <2>4. FilesNamed'
    BY <1>4, <2>1, <2>3
  <2>5. /\ shell.pc \in {"input", "output"} /\ shell'.pc \in {"output", "process"}
        /\ shell'.pc = "process" => shell.index = Size
    BY <1>2, <2>1
  <2> QED BY ONLY TypeInv, Order, <1>1, <1>2, <1>5, <2>1, <2>2, <2>4, <2>5, NothingOpened
<1>6. CASE /\ Openable(file) /\ Free # {} /\ Open(Element("file", file))
           /\ shell' = [shell EXCEPT !.pc = "output", !.handle_in = Min(Free),
                                     !.opened_files = Append(@, Min(Free))]
  <2>1. PICK x \in Free : x = Min(Free)
    BY <1>6, FreeFacts
  <2>2. /\ shell'.pc = "output" /\ shell'.line = shell.line /\ shell'.index = shell.index /\ shell'.handles = shell.handles
        /\ shell'.used_pipes = shell.used_pipes /\ shell'.pipe_queue = shell.pipe_queue
        /\ shell'.opened_files = Append(shell.opened_files, x) /\ shell'.handle_in = x
    BY <1>2, <1>6, <2>1 DEF Shell
  <2>3. descriptors' = [descriptors EXCEPT ![x] = Element("file", file)] /\ closed' = closed
    BY <1>6, <2>1 DEF Open
  <2>4. /\ descriptors'[x] = Element("file", file) /\ \A id \in Id \ {x} : descriptors'[id] = descriptors[id]
    <3>1. TypeInv /\ Order /\ Creating /\ Openable(file)
      BY <1>2, <1>6
    <3> HIDE DEF file
    <3> QED BY <2>1, <2>3, <3>1, FileOpened
  <2>5. Handed'
    <3>1. shell.index = 1 => descriptors'[x] = Element("file", CommandOf(1)'.input)
      BY <1>2, <2>2, <2>4 DEF CommandOf
    <3> QED BY <2>2, <3>1 DEF Handed
  <2>6. FilesNamed'
    <3>1. \A id \in Id : descriptors'[id] = descriptors[id] \/ descriptors'[id].of = file
      BY <2>4, ElementParts
    <3> QED BY <1>4, <2>2, <3>1
  <2>7. /\ shell.pc \in {"input", "output"} /\ shell'.pc \in {"output", "process"}
        /\ shell'.pc = "process" => shell.index = Size
    BY <1>2, <2>2
  <2>8. Openable(file)
    BY <1>6
  <2> HIDE DEF file
  <2> QED BY ONLY TypeInv, Order, x \in Free, <1>1, <1>2, <2>2, <2>3, <2>5, <2>6, <2>7, <2>8, OpenedKeeps
<1>7. CASE file # NoFile /\ ~Openable(file)
  BY <1>2, <1>7, NoRefusal
<1> QED BY <1>5, <1>6, <1>7 DEF OpenInput

(* The shell makes the pipe behind a command.                              *)
LEMMA PipeKeeps ==
  ASSUME TypeInv, TypeInv', Order, shell.pc = "output", shell'.pc = "process", shell.index < Size,
         process' = process, at' = at, call' = call,
         NEW a \in Free, NEW b \in Free, a < b, NEW k \in UnusedPipes,
         \A id \in Id \ {a, b} : descriptors'[id] = descriptors[id],
         descriptors'[a] = Element("write", k), descriptors'[b] = Element("read", k),
         closed' = [closed EXCEPT ![k] = FALSE],
         shell'.line = shell.line, shell'.index = shell.index, shell'.handles = shell.handles,
         shell'.used_pipes = shell.used_pipes, shell'.pipe_queue = shell.pipe_queue \o <<a, b>>,
         shell'.opened_files = shell.opened_files, shell'.handle_in = shell.handle_in
  PROVE  Order'
<1>1. /\ Creating /\ Creating' /\ shell.pc # "files" /\ shell'.pc # "files" /\ Gone = 0 /\ Gone' = 0
      /\ Size' = Size /\ Live' = Live /\ NextEnd' /\ Hole'
      /\ Made = 2 * shell.index - 2 /\ shell.index \in 1 .. Size /\ Size \in Nat /\ shell.index \in Nat
      /\ Made' = 2 * shell.index /\ \A m : CommandOf(m)' = CommandOf(m)
  <2>1. shell' \in Shell
    BY DEF TypeInv, TypeOK
  <2> QED BY <2>1, CreatingStays
<1>2. a \in Id /\ b \in Id /\ a \in Nat /\ b \in Nat /\ a # b /\ k \in Pipes
  BY FreeFacts DEF UnusedPipes
<1>3. {a, b} \cap {In, Out} = {} /\ \A p \in Kept : EndAt(p) \notin {a, b}
  BY <1>1, KeptInPairs, FreeNumber
<1>4. \A id \in Id : descriptors[id] # Element("write", k) /\ descriptors[id] # Element("read", k)
  BY DEF UnusedPipes, HasEnd
<1>5. Unique'
  <2>1. Unique /\ In \notin {a, b} /\ Out \notin {a, b} /\ \A id \in {a, b} : descriptors'[id].kind # "console"
    <3>1. \A id \in {a, b} : descriptors'[id].kind \in {"write", "read"}
      BY ElementParts
    <3> QED BY <1>3, <3>1 DEF Order
  <2>2. \A id, other \in Id : id \in {a, b} /\ descriptors'[id].kind \in {"write", "read", "file"}
                                 /\ descriptors'[id] = descriptors'[other] => id = other
    <3> TAKE id, other \in Id
    <3>1. Element("write", k) # Element("read", k)
      BY ElementParts
    <3> QED BY <1>4, <3>1
  <2> QED BY <2>1, <2>2, UniqueKept
<1>6. /\ Ends \in Seq(Id) /\ Len(Ends) = 2 * shell.index - 2 /\ Ends' = Ends \o <<a, b>>
      /\ Len(Ends) \in Nat
  <2>1. Ends \in Seq(Id) /\ Len(Ends) = Made - Gone /\ Len(Ends) \in Nat
    BY <1>1, EndFacts DEF EndsOK
  <2>2. Len(Ends) = 2 * shell.index - 2
    BY <1>1, <2>1
  <2>3. shell.used_pipes \in Seq(Id) /\ shell.pipe_queue \in Seq(Id) /\ <<a, b>> \in Seq(Id)
    BY <1>2, ShellSame, ShellFields
  <2>4. (shell.used_pipes \o shell.pipe_queue) \o <<a, b>> = shell.used_pipes \o (shell.pipe_queue \o <<a, b>>)
    <3>1. \A x, y, z \in Seq(Id) : (x \o y) \o z = x \o (y \o z)
      BY ONLY ConcatAssociative
    <3> QED BY ONLY <2>3, <3>1
  <2>5. Ends' = Ends \o <<a, b>>
    <3>1. Ends' = shell.used_pipes \o (shell.pipe_queue \o <<a, b>>)
      BY DEF Ends
    <3>2. Ends = shell.used_pipes \o shell.pipe_queue
      BY DEF Ends
    <3> QED BY <2>4, <3>1, <3>2
  <2> QED BY <2>1, <2>2, <2>5
<1>7. /\ \A p \in 1 .. Len(Ends) : Ends'[p] = Ends[p]
      /\ Ends'[Len(Ends) + 1] = a /\ Ends'[Len(Ends) + 2] = b /\ Len(Ends') = Len(Ends) + 2
  <2>1. PICK list : list = Ends
    OBVIOUS
  <2>2. list \in Seq(Id) /\ <<a, b>> \in Seq(Id) /\ Len(<<a, b>>) = 2 /\ <<a, b>>[1] = a /\ <<a, b>>[2] = b
    BY <1>2, <1>6, <2>1
  <2>3. /\ Len(list \o <<a, b>>) = Len(list) + 2 /\ Len(list) \in Nat
        /\ \A p \in 1 .. (Len(list) + 2) :
             (list \o <<a, b>>)[p] = IF p <= Len(list) THEN list[p] ELSE <<a, b>>[p - Len(list)]
    BY <2>2, ConcatProperties
  <2>4. /\ \A p \in 1 .. Len(list) : (list \o <<a, b>>)[p] = list[p]
        /\ (list \o <<a, b>>)[Len(list) + 1] = a /\ (list \o <<a, b>>)[Len(list) + 2] = b
    BY <2>2, <2>3
  <2> QED BY <1>6, <2>1, <2>3, <2>4
<1>8. /\ \A p \in Kept : EndAt(p)' = EndAt(p)
      /\ EndAt(2 * shell.index - 1)' = a /\ EndAt(2 * shell.index)' = b
  <2>1. ASSUME NEW p \in Kept
        PROVE  EndAt(p)' = EndAt(p)
    <3>1. p \in Nat /\ p - Gone = p /\ p - Gone' = p /\ p \in 1 .. Len(Ends)
      BY <1>1, <1>6 DEF Kept
    <3> QED BY <1>7, <3>1 DEF EndAt
  <2>2. (2 * shell.index - 1) - Gone' = Len(Ends) + 1 /\ 2 * shell.index - Gone' = Len(Ends) + 2
    BY <1>1, <1>6
  <2> QED BY <1>7, <2>1, <2>2 DEF EndAt
<1>9. ASSUME NEW j \in Paired', j \notin Paired
      PROVE  Pair(j)'
  <2>1. j \in 1 .. Size /\ 2 * j \in 1 .. (2 * shell.index) /\ 2 * j - 1 \in 1 .. (2 * shell.index)
    BY <1>1, <1>9 DEF Paired, Kept
  <2>2. ~(2 * j \in 1 .. (2 * shell.index - 2) /\ 2 * j - 1 \in 1 .. (2 * shell.index - 2))
    BY <1>1, <1>9, <2>1 DEF Paired, Kept
  <2>3. j = shell.index
    BY <1>1, <2>1, <2>2
  <2>4. ~closed'[k]
    BY <1>2 DEF TypeInv, TypeOK
  <2> QED BY <1>2, <1>8, <2>3, <2>4 DEF Pair
<1>10. Distinct'
  <2>1. ASSUME NEW p \in 1 .. Len(Ends)
        PROVE  Ends'[p] = Ends[p] /\ Ends[p] # a /\ Ends[p] # b
    <3>1. p + Gone \in Kept /\ Ends[p] = EndAt(p + Gone)
      BY <1>1, EndFacts DEF EndsOK
    <3> QED BY <1>3, <1>7, <3>1
  <2>2. \A p, q \in 1 .. Len(Ends) : Ends[p] = Ends[q] => p = q
    BY DEF Order, Distinct
  <2>3. ASSUME NEW p \in 1 .. (Len(Ends) + 2)
        PROVE  p \in 1 .. Len(Ends) \/ p = Len(Ends) + 1 \/ p = Len(Ends) + 2
    <3>1. Len(Ends) \in Nat
      BY <1>6
    <3> QED BY <3>1
  <2>4. ASSUME NEW p \in 1 .. (Len(Ends) + 2), NEW q \in 1 .. (Len(Ends) + 2), Ends'[p] = Ends'[q]
        PROVE  p = q
    <3>1. Ends'[Len(Ends) + 1] = a /\ Ends'[Len(Ends) + 2] = b /\ a # b
      BY <1>2, <1>7
    <3>2. CASE p \in 1 .. Len(Ends)
      BY <2>1, <2>2, <2>3, <2>4, <3>1, <3>2
    <3>3. CASE p \notin 1 .. Len(Ends)
      <4>1. Ends'[p] \in {a, b} /\ (p = Len(Ends) + 1 \/ p = Len(Ends) + 2)
        BY <2>3, <3>1, <3>3
      <4>2. q \notin 1 .. Len(Ends)
        BY <2>1, <2>4, <4>1
      <4>3. q = Len(Ends) + 1 \/ q = Len(Ends) + 2
        BY <2>3, <4>2
      <4> QED BY <2>4, <3>1, <4>1, <4>3
    <3> QED BY <3>2, <3>3
  <2> QED BY <1>7, <2>4 DEF Distinct
<1>11. Handed'
  <2>1. shell.index = 1 => shell.handle_in = In \/ descriptors[shell.handle_in] = Element("file", CommandOf(1).input)
    BY DEF Order, Handed
  <2>2. shell.handle_in \in Id /\ descriptors[a] = None /\ descriptors[b] = None
    BY ShellSame, ShellFields DEF Free
  <2>3. shell.index = 1 => shell.handle_in = In \/ descriptors'[shell.handle_in] = Element("file", CommandOf(1).input)
    BY <2>1, <2>2, ElementParts
  <2>4. shell'.index # Size'
    BY <1>1
  <2> QED BY <1>1, <2>3, <2>4 DEF Handed
<1>12. FilesNamed'
  <2>1. ASSUME NEW id \in Id, descriptors'[id].kind = "file"
        PROVE  \/ \E j \in 1 .. (shell.index - 1) : descriptors'[id].of \in Named(CommandOf(j))
               \/ descriptors'[id].of = CommandOf(shell.index).input
    <3>1. descriptors'[id] = descriptors[id]
      BY <2>1, ElementParts
    <3> QED BY <1>1, <2>1, <3>1 DEF Order, FilesNamed
  <2>2. \A j : Named(CommandOf(j))' = Named(CommandOf(j))
    BY <1>1 DEF Named, Redirected
  <2>3. shell'.pc # "input" /\ CommandOf(shell.index)' = CommandOf(shell.index)
    BY <1>1
  <2> QED BY <2>1, <2>2, <2>3 DEF FilesNamed
<1>13. Listed' /\ Numbers(shell.opened_files)' = Numbers(shell.opened_files)
  BY DEF Order, Listed, Numbers
<1>14. Numbers(Ends) \subseteq Numbers(Ends)' /\ a \in Numbers(Ends)' /\ b \in Numbers(Ends)'
  <2>1. Numbers(Ends)' = {Ends'[p] : p \in 1 .. Len(Ends')}
    BY DEF Numbers
  <2>2. Len(Ends) + 1 \in 1 .. Len(Ends') /\ Len(Ends) + 2 \in 1 .. Len(Ends')
        /\ \A p \in 1 .. Len(Ends) : p \in 1 .. Len(Ends')
    BY <1>6, <1>7
  <2>3. a \in Numbers(Ends)' /\ b \in Numbers(Ends)'
    BY <1>7, <2>1, <2>2
  <2>4. ASSUME NEW p \in 1 .. Len(Ends)
        PROVE  Ends[p] \in Numbers(Ends)'
    BY <1>7, <2>1, <2>2, <2>4
  <2>5. Numbers(Ends) = {Ends[p] : p \in 1 .. Len(Ends)}
    BY DEF Numbers
  <2> QED BY <2>3, <2>4, <2>5
<1>15. \A m \in Live :
         /\ Reads(m) /\ ~(m > 1) /\ ~Past(m) /\ Program(m).input # Console(In) => Program(m).handle \notin {a, b}
         /\ HasFile(m) => Program(m).handle \notin {a, b}
  BY FreeNumber
<1>16. \A p \in Kept : p \in Kept' => EndAt(p)' = EndAt(p) /\ EndAt(p) \notin {a, b}
  BY <1>3, <1>8
<1>17. /\ \A i \in Pipes : closed[i] /\ (\E id \in Id : descriptors[id] = Element("read", i)) => closed'[i]
       /\ \A i \in Pipes : ~closed[i] => ~closed'[i]
  <2>1. \A i \in Pipes : closed'[i] = IF i = k THEN FALSE ELSE closed[i]
    BY DEF TypeInv, TypeOK
  <2> QED BY <1>4, <2>1
<1>18. /\ \A id \in Id : id \notin {a, b} =>
            (id \in Numbers(Ends) \cup Numbers(shell.opened_files) =>
              id \in (Numbers(Ends) \cup Numbers(shell.opened_files))')
       /\ \A id \in Id : id \in {a, b} =>
            descriptors'[id] = None \/ id \in (Numbers(Ends) \cup Numbers(shell.opened_files))'
  BY <1>13, <1>14
<1> QED BY <1>1, <1>5, <1>9, <1>10, <1>11, <1>12, <1>13, <1>15, <1>16, <1>17, <1>18, ShellKeeps

(* The shell opens a command's output. *)
LEMMA OpenOutputKeeps ==
  ASSUME TypeInv, AllSound, Order, OpenOutput
  PROVE  Order'
<1> DEFINE file == CurrentCommand.output
<1>1. TypeInv'
  BY OpenOutputTypes
<1>2. /\ shell.pc = "output" /\ Creating /\ process' = process /\ at' = at /\ call' = call /\ shell \in Shell
      /\ CurrentCommand = CommandOf(shell.index)
  BY ShellSame DEF OpenOutput, Creating, OfPrograms, CurrentCommand, CommandOf
<1>3. shell.index \in 1 .. Size /\ Size \in Nat /\ shell.index \in Nat /\ (IsLast <=> shell.index = Size)
  BY <1>2, ShellSame, ShellFields DEF TypeInv, Script, IsLast, Size
<1>4. ASSUME shell'.pc = "process", shell'.line = shell.line, shell'.index = shell.index,
             \A id \in Id : descriptors'[id].kind = "file" =>
               descriptors'[id] = descriptors[id] \/ descriptors'[id].of = file
      PROVE  FilesNamed'
  <2>1. ASSUME NEW id \in Id, descriptors'[id].kind = "file"
        PROVE  \/ \E j \in 1 .. (shell.index - 1) : descriptors'[id].of \in Named(CommandOf(j))
               \/ descriptors'[id].of = CommandOf(shell.index).input
               \/ descriptors'[id].of = CommandOf(shell.index).output
    BY <1>2, <1>4, <2>1 DEF Order, FilesNamed
  <2>2. \A j : CommandOf(j)' = CommandOf(j) /\ Named(CommandOf(j))' = Named(CommandOf(j))
    BY <1>4 DEF CommandOf, Named, Redirected
  <2>3. shell'.pc = "process" /\ shell'.pc # "input" /\ CommandOf(shell.index)' = CommandOf(shell.index)
    BY <1>4, <2>2
  <2> QED BY <1>4, <2>1, <2>2, <2>3 DEF FilesNamed
<1>5. shell.index = 1 => shell.handle_in = In \/ descriptors[shell.handle_in] = Element("file", CommandOf(1).input)
  BY <1>2 DEF Order, Handed
<1>6. CASE /\ Openable(file) /\ Free # {} /\ Open(Element("file", file))
           /\ shell' = [shell EXCEPT !.pc = "process", !.handle_out = Min(Free),
                                     !.opened_files = Append(@, Min(Free))]
  <2>1. PICK x \in Free : x = Min(Free)
    BY <1>6, FreeFacts
  <2>2. /\ shell'.pc = "process" /\ shell'.line = shell.line /\ shell'.index = shell.index /\ shell'.handles = shell.handles
        /\ shell'.used_pipes = shell.used_pipes /\ shell'.pipe_queue = shell.pipe_queue
        /\ shell'.opened_files = Append(shell.opened_files, x) /\ shell'.handle_out = x
        /\ shell'.handle_in = shell.handle_in
    BY <1>2, <1>6, <2>1 DEF Shell
  <2>3. descriptors' = [descriptors EXCEPT ![x] = Element("file", file)] /\ closed' = closed
    BY <1>6, <2>1 DEF Open
  <2>4. /\ descriptors'[x] = Element("file", file) /\ \A id \in Id \ {x} : descriptors'[id] = descriptors[id]
    <3>1. TypeInv /\ Order /\ Creating /\ Openable(file)
      BY <1>2, <1>6
    <3> HIDE DEF file
    <3> QED BY <2>1, <2>3, <3>1, FileOpened
  <2>5. shell.index = Size
    <3>1. shell.line \in Lines
      BY <1>2, SoundLine
    <3>2. \A i \in 1 .. (Size - 1) : CommandOf(i).output = NoFile
      BY <3>1, LineFacts DEF CommandOf, Size
    <3>3. file # NoFile
      BY <1>6 DEF Openable
    <3>4. shell.index \notin 1 .. (Size - 1)
      BY <1>2, <3>2, <3>3
    <3> QED BY <1>3, <3>4
  <2>6. Handed'
    <3>1. CommandOf(1)' = CommandOf(1) /\ Size' = Size /\ CommandOf(Size)' = CommandOf(Size)
      BY <2>2 DEF CommandOf, Size
    <3>2. shell.handle_in \in Id /\ descriptors[x] = None
      BY <1>2, ShellFields DEF Free
    <3>3. shell.index = 1 => shell.handle_in = In \/ descriptors'[shell.handle_in] = Element("file", CommandOf(1).input)
      BY <1>5, <2>4, <3>2, ElementParts
    <3>4. descriptors'[x] = Element("file", CommandOf(Size).output)
      BY <1>2, <2>4, <2>5
    <3>6. shell'.handle_in = In \/ descriptors'[shell'.handle_in] = Element("file", CommandOf(1)'.input) \/ shell.index # 1
      BY <2>2, <3>1, <3>3
    <3>7. descriptors'[shell'.handle_out] = Element("file", CommandOf(Size)'.output)
      BY <2>2, <3>1, <3>4
    <3> QED BY <2>2, <3>6, <3>7 DEF Handed
  <2>7. FilesNamed'
    <3>1. \A id \in Id : descriptors'[id] = descriptors[id] \/ descriptors'[id].of = file
      BY <2>4, ElementParts
    <3> QED BY <1>4, <2>2, <3>1
  <2>8. /\ shell.pc \in {"input", "output"} /\ shell'.pc \in {"output", "process"}
        /\ shell'.pc = "process" => shell.index = Size
    BY <1>2, <2>2, <2>5
  <2>9. Openable(file)
    BY <1>6
  <2> HIDE DEF file
  <2> QED BY ONLY TypeInv, Order, x \in Free, <1>1, <1>2, <2>2, <2>3, <2>6, <2>7, <2>8, <2>9, OpenedKeeps
<1>7. CASE file # NoFile /\ ~Openable(file)
  BY <1>2, <1>7, NoRefusal
<1>8. CASE /\ file = NoFile /\ IsLast
           /\ shell' = [shell EXCEPT !.pc = "process", !.handle_out = Out] /\ UNCHANGED kernel
  <2>1. /\ shell'.pc = "process" /\ shell'.line = shell.line /\ shell'.index = shell.index /\ shell'.handles = shell.handles
        /\ shell'.used_pipes = shell.used_pipes /\ shell'.pipe_queue = shell.pipe_queue
        /\ shell'.opened_files = shell.opened_files /\ shell'.handle_in = shell.handle_in /\ shell'.handle_out = Out
    BY <1>2, <1>8 DEF Shell
  <2>2. descriptors' = descriptors
    BY <1>8 DEF kernel
  <2>3. Handed'
    <3>1. CommandOf(1)' = CommandOf(1)
      BY <2>1 DEF CommandOf
    <3> QED BY <1>5, <2>1, <2>2, <3>1 DEF Handed
  <2>4. FilesNamed'
    BY <1>4, <2>1, <2>2
  <2>5. /\ shell.pc \in {"input", "output"} /\ shell'.pc \in {"output", "process"}
        /\ shell'.pc = "process" => shell.index = Size
    BY <1>2, <1>3, <1>8, <2>1
  <2> QED BY ONLY TypeInv, Order, <1>1, <1>2, <1>8, <2>1, <2>3, <2>4, <2>5, NothingOpened
<1>9. CASE /\ file = NoFile /\ ~IsLast /\ Cardinality(Free) > 1 /\ UnusedPipes # {}
           /\ LET ids == {Min(Free), Min(Free \ {Min(Free)})} IN
              /\ CreatePipe(Min(UnusedPipes), ids)
              /\ shell' = [shell EXCEPT !.pc = "process",
                                        !.pipe_queue = @ \o WriteEndFirst(ids)]
  <2>1. PICK k \in UnusedPipes : k = Min(UnusedPipes)
    <3>1. UnusedPipes \subseteq Nat
      BY DEF UnusedPipes
    <3> QED BY <1>9, <3>1, MinIs
  <2>2. PICK a \in Free, b \in Free : /\ a < b /\ a = Min(Free) /\ b = Min(Free \ {Min(Free)})
                                      /\ WriteEndFirst({a, b}) = <<a, b>>
    BY <1>9, FreePair
  <2>3. /\ CreatePipe(k, {a, b})
        /\ shell' = [shell EXCEPT !.pc = "process", !.pipe_queue = @ \o <<a, b>>]
    BY <1>9, <2>1, <2>2
  <2>4. /\ shell'.pc = "process" /\ shell'.line = shell.line /\ shell'.index = shell.index /\ shell'.handles = shell.handles
        /\ shell'.used_pipes = shell.used_pipes /\ shell'.pipe_queue = shell.pipe_queue \o <<a, b>>
        /\ shell'.opened_files = shell.opened_files /\ shell'.handle_in = shell.handle_in
    BY <1>2, <2>3 DEF Shell
  <2>5. WriteEndFirst({a, b})[1] = a /\ WriteEndFirst({a, b})[2] = b
    BY <2>2
  <2>6. /\ descriptors' = [descriptors EXCEPT ![a] = Element("write", k), ![b] = Element("read", k)]
        /\ closed' = [closed EXCEPT ![k] = FALSE]
    BY <2>3, <2>5 DEF CreatePipe
  <2>7. a \in Id /\ b \in Id /\ a # b
    BY <2>2, FreeFacts
  <2>8. /\ descriptors'[a] = Element("write", k) /\ descriptors'[b] = Element("read", k)
        /\ \A id \in Id \ {a, b} : descriptors'[id] = descriptors[id]
    BY <2>6, <2>7 DEF TypeInv, TypeOK
  <2>9. shell.index < Size
    BY <1>3, <1>9
  <2> HIDE DEF file
  <2> QED BY <1>1, <1>2, <2>2, <2>4, <2>6, <2>8, <2>9, PipeKeeps
<1> QED BY <1>6, <1>7, <1>8, <1>9 DEF OpenOutput

(* The handles of a new program are the ends of the pipes at its place in  *)
(* the line, and the order of the ends stays.                              *)
LEMMA HandlesAt ==
  ASSUME TypeInv, shell.pc = "process"
  PROVE  /\ shell.index > 1 => HandleIn = EndAt(2 * shell.index - 2)
         /\ shell.index < Size => HandleOut = EndAt(2 * shell.index - 1)
         /\ (shell.used_pipes \o SubSeq(shell.pipe_queue, 1, PipesNeeded))
              \o SubSeq(shell.pipe_queue, PipesNeeded + 1, Len(shell.pipe_queue)) = Ends
<1>1. /\ shell.index \in 1 .. Size /\ Size \in Nat /\ shell.index \in Nat
      /\ Len(shell.used_pipes) = (IF shell.index = 1 THEN 0 ELSE 2 * shell.index - 3) /\ Gone = 0
      /\ (IsLast <=> shell.index = Size)
  <2>1. Creating /\ ~Ending
    BY DEF Creating, Ending
  <2> QED BY <2>1, ShellSame, ShellFields DEF TypeInv, Script, Gone, IsLast, Size
<1>2. PICK u, q : u = shell.used_pipes /\ q = shell.pipe_queue
  OBVIOUS
<1>3. /\ u \in Seq(Id) /\ q \in Seq(Id) /\ Len(u) \in Nat /\ Len(q) \in Nat
      /\ Len(q) = IF Size = 1 THEN 0 ELSE IF shell.index = Size THEN 1 ELSE IF shell.index = 1 THEN 2 ELSE 3
      /\ PipesNeeded \in Nat /\ PipesNeeded <= Len(q)
  BY <1>2, ShellSame, ShellFields, QueueTaken
<1>9. Len(u) = (IF shell.index = 1 THEN 0 ELSE 2 * shell.index - 3)
  BY <1>1, <1>2
<1>4. \A p \in 1 .. Len(q) : (u \o q)[Len(u) + p] = q[p]
  <2>1. /\ Len(u \o q) = Len(u) + Len(q)
        /\ \A p \in 1 .. (Len(u) + Len(q)) : (u \o q)[p] = IF p <= Len(u) THEN u[p] ELSE q[p - Len(u)]
    BY <1>3, ConcatProperties
  <2> TAKE p \in 1 .. Len(q)
  <2>2. Len(u) + p \in 1 .. (Len(u) + Len(q)) /\ ~(Len(u) + p <= Len(u)) /\ (Len(u) + p) - Len(u) = p
    BY <1>3
  <2> QED BY <2>1, <2>2
<1>5. Ends = u \o q
  BY <1>2 DEF Ends
<1>6. shell.index > 1 => HandleIn = EndAt(2 * shell.index - 2)
  <2>1. ASSUME shell.index > 1 PROVE HandleIn = EndAt(2 * shell.index - 2)
    <3>0. Len(q) >= 1
      <4>1. Size # 1
        BY ONLY <1>1, <2>1
      <4> QED BY ONLY <1>3, <4>1
    <3>1. Len(u) + 1 = (2 * shell.index - 2) - Gone
      <4>1. \A i \in Nat : i > 1 => (2 * i - 3) + 1 = (2 * i - 2) - 0
        OBVIOUS
      <4>2. Len(u) = 2 * shell.index - 3
        BY ONLY <1>9, <2>1, <1>1
      <4> QED BY ONLY <1>1, <2>1, <4>1, <4>2
    <3>2. 1 \in 1 .. Len(q) /\ q # << >>
      <4>1. 1 \in 1 .. Len(q)
        BY ONLY <1>3, <3>0
      <4>2. ASSUME q = << >> PROVE FALSE
        <5>1. Len(q) = Len(<< >>)
          BY <4>2
        <5>2. Len(<< >>) = 0
          BY EmptySeq
        <5> QED BY ONLY <3>0, <5>1, <5>2
      <4>3. q # << >>
        BY ONLY <4>2
      <4> QED BY ONLY <4>1, <4>3
    <3>3. Head(q) = q[1]
      BY <1>3, <3>2
    <3>4. Ends[Len(u) + 1] = q[1]
      BY <1>4, <1>5, <3>2
    <3>5. HandleIn = Head(q)
      BY <1>2, <2>1 DEF HandleIn
    <3> QED BY <3>1, <3>3, <3>4, <3>5 DEF EndAt
  <2> QED BY <2>1
<1>7. shell.index < Size => HandleOut = EndAt(2 * shell.index - 1)
  <2>1. ASSUME shell.index < Size PROVE HandleOut = EndAt(2 * shell.index - 1)
    <3>1. ~IsLast /\ Size # 1
      BY <1>1, <2>1
    <3>2. PipesNeeded = IF shell.index = 1 THEN 1 ELSE 2
      BY <3>1 DEF PipesNeeded, Size
    <3>3. Len(u) + PipesNeeded = (2 * shell.index - 1) - Gone
      <4>1. \A i \in Nat : i > 1 => (2 * i - 3) + 2 = (2 * i - 1) - 0
        OBVIOUS
      <4>2. CASE shell.index = 1
        BY ONLY <1>9, <1>1, <3>2, <4>2
      <4>3. CASE shell.index # 1
        <5>1. Len(u) = 2 * shell.index - 3 /\ PipesNeeded = 2 /\ shell.index > 1
          BY ONLY <1>9, <1>1, <3>2, <4>3
        <5> QED BY ONLY <1>1, <4>1, <5>1
      <4> QED BY ONLY <4>2, <4>3
    <3>4. PipesNeeded \in 1 .. Len(q)
      BY <1>3, <3>2
    <3>5. HandleOut = q[PipesNeeded]
      BY <1>2, <3>1 DEF HandleOut
    <3>6. Ends[Len(u) + PipesNeeded] = q[PipesNeeded]
      BY <1>4, <1>5, <3>4
    <3> QED BY <3>3, <3>5, <3>6 DEF EndAt
  <2> QED BY <2>1
<1>8. (u \o SubSeq(q, 1, PipesNeeded)) \o SubSeq(q, PipesNeeded + 1, Len(q)) = u \o q
  <2>1. PICK n : n = PipesNeeded
    OBVIOUS
  <2>2. n \in 0 .. Len(q) /\ n \in Int /\ Len(q) \in Int
    BY <1>3, <2>1
  <2>3. SubSeq(q, 1, n) \o SubSeq(q, n + 1, Len(q)) = SubSeq(q, 1, Len(q))
    <3>1. 1 \in 1 .. Len(q) + 1 /\ n \in 1 - 1 .. Len(q) /\ Len(q) \in n .. Len(q)
      BY <1>3, <2>2
    <3> QED BY ONLY <1>3, <3>1, ConcatAdjacentSubSeq
  <2>4. SubSeq(q, 1, Len(q)) = q
    BY <1>3, SubSeqFull
  <2>5. SubSeq(q, 1, n) \in Seq(Id) /\ SubSeq(q, n + 1, Len(q)) \in Seq(Id)
    <3>1. \A p \in 1 .. Len(q) : q[p] \in Id
      BY <1>3
    <3>2. \A p \in 1 .. n : q[p] \in Id
      BY <1>3, <2>2, <3>1
    <3>3. \A p \in (n + 1) .. Len(q) : q[p] \in Id
      BY <1>3, <2>2, <3>1
    <3>4. n + 1 \in Int /\ 1 \in Int
      BY <2>2
    <3>5. SubSeq(q, 1, n) \in Seq(Id)
      BY ONLY <2>2, <3>2, <3>4, SubSeqProperties
    <3>6. SubSeq(q, n + 1, Len(q)) \in Seq(Id)
      BY ONLY <2>2, <3>3, <3>4, SubSeqProperties
    <3> QED BY <3>5, <3>6
  <2>6. \A x, y, z \in Seq(Id) : (x \o y) \o z = x \o (y \o z)
    BY ONLY ConcatAssociative
  <2>7. (u \o SubSeq(q, 1, n)) \o SubSeq(q, n + 1, Len(q)) = u \o (SubSeq(q, 1, n) \o SubSeq(q, n + 1, Len(q)))
    BY ONLY <1>3, <2>5, <2>6
  <2> QED BY <2>1, <2>3, <2>4, <2>7
<1> QED BY <1>2, <1>5, <1>6, <1>7, <1>8

(* The process table has room for the line. *)
LEMMA RoomForProgram ==
  ASSUME TypeInv, AllSound, Order, shell.pc = "process"
  PROVE  {s \in Slots : process[s] = NoProcess} # {}
<1> SUFFICES ASSUME \A s \in Slots : process[s] # NoProcess PROVE FALSE
  OBVIOUS
<1>1. shell.index \in 1 .. Size /\ Len(shell.handles) = shell.index - 1 /\ Size \in Nat /\ shell.index \in Nat
      /\ \A p \in 1 .. Len(shell.handles) : shell.handles[p] \in Slots
  <2>1. Creating
    BY DEF Creating
  <2> QED BY <2>1, ShellSame, ShellFields DEF TypeInv, Script
<1>2. PICK n \in Nat : n = Len(shell.handles) /\ n < Size
  BY <1>1
<1>3. PICK f : f = [p \in 1 .. n |-> shell.handles[p]]
  OBVIOUS
<1>4. \A s \in Slots : \E m \in 1 .. n : f[m] = s
  <2> TAKE s \in Slots
  <2>1. PICK m \in Live : Slot(m) = s
    BY DEF Order, Processes
  <2>2. m \in 1 .. n
    BY <1>2, <2>1, LiveFacts DEF LiveOK
  <2> QED BY <1>3, <2>1, <2>2 DEF Slot
<1>5. f \in Surjection(1 .. n, Slots)
  <2>1. f \in [1 .. n -> Slots]
    BY <1>1, <1>2, <1>3
  <2> QED BY <1>4, <2>1 DEF Surjection
<1>6. IsFiniteSet(1 .. n) /\ Cardinality(1 .. n) = n
  BY FS_Interval
<1>7. Cardinality(Slots) <= n /\ Cardinality(Slots) \in Nat
  BY <1>5, <1>6, FS_Surjection, FS_CardinalityType
<1>8. Size <= Cardinality(Slots)
  BY SoundLine
<1> QED BY <1>1, <1>2, <1>7, <1>8

(* What the shell becomes when it has created the program at its place. *)
LEMMA ProgramCreated ==
  ASSUME TypeInv, AllSound, Order, CreateProcess
  PROVE  \E s \in Slots, new \in Process :
           /\ process[s] = NoProcess /\ new # NoProcess /\ process' = [process EXCEPT ![s] = new]
           /\ at' = [at EXCEPT ![Main(s)] = "begin"]
           /\ new.command = CurrentCommand /\ new.handle = HandleIn /\ new.handle_out = HandleOut
           /\ new.input = descriptors[HandleIn] /\ new.output = descriptors[HandleOut]
           /\ shell' \in Shell /\ shell'.line = shell.line /\ shell'.opened_files = shell.opened_files
           /\ shell'.handles = Append(shell.handles, s) /\ Ends' = Ends
           /\ shell'.pc = (IF IsLast THEN "wait" ELSE "input")
           /\ shell'.index = (IF IsLast THEN 1 ELSE shell.index + 1)
<1>1. shell.pc = "process" /\ shell \in Shell
  BY ShellSame DEF CreateProcess
<1>2. CurrentCommand.program \in Programs
  <2>1. shell.index \in 1 .. Size
    BY <1>1 DEF TypeInv, Script, Creating
  <2> QED BY <1>1, <2>1, SoundLine DEF CurrentCommand, CommandOf
<1> DEFINE slots == {s \in Slots : process[s] = NoProcess}
           queue == SubSeq(shell.pipe_queue, PipesNeeded + 1, Len(shell.pipe_queue))
           used == shell.used_pipes \o SubSeq(shell.pipe_queue, 1, PipesNeeded)
           new == [command |-> CurrentCommand, handle |-> HandleIn, handle_out |-> HandleOut,
                   texts |-> ProfileOf(CurrentCommand).texts, left |-> 1,
                   input |-> descriptors[HandleIn], output |-> descriptors[HandleOut]]
<1>3. slots # {}
  BY <1>1, RoomForProgram
<1>4. PICK s \in Slots : s = Min(slots) /\ process[s] = NoProcess
  <2> HIDE DEF slots
  <2>1. Min(slots) \in Slots /\ process[Min(slots)] = NoProcess
    BY <1>3, FreeSlot DEF slots
  <2> QED BY <2>1
<1>5. new \in Process /\ new # NoProcess
  BY <1>1, <1>2, NewProcess
<1>6. /\ new.command = CurrentCommand /\ new.handle = HandleIn /\ new.handle_out = HandleOut
      /\ new.input = descriptors[HandleIn] /\ new.output = descriptors[HandleOut]
  OBVIOUS
<1>7. /\ process' = [process EXCEPT ![s] = new] /\ GoTo(Main(s), "begin")
      /\ shell' = [[shell EXCEPT !.pipe_queue = queue, !.used_pipes = used]
                     EXCEPT !.handles = Append(@, s), !.pc = IF IsLast THEN "wait" ELSE "input",
                            !.index = IF IsLast THEN 1 ELSE @ + 1]
  BY <1>2, <1>3, <1>4 DEF CreateProcess
<1>8. shell' \in Shell
  BY CreateProcessTypes DEF TypeInv, TypeOK
<1> HIDE DEF queue, used, new, slots
<1>9. /\ shell'.line = shell.line /\ shell'.opened_files = shell.opened_files
      /\ shell'.handles = Append(shell.handles, s)
      /\ shell'.used_pipes = used /\ shell'.pipe_queue = queue
      /\ shell'.pc = (IF IsLast THEN "wait" ELSE "input")
      /\ shell'.index = (IF IsLast THEN 1 ELSE shell.index + 1)
  BY <1>1, <1>7 DEF Shell
<1>10. Ends' = Ends
  <2>1. used \o queue = Ends
    BY <1>1, HandlesAt DEF used, queue
  <2> QED BY <1>9, <2>1 DEF Ends
<1> QED BY <1>4, <1>5, <1>6, <1>7, <1>8, <1>9, <1>10 DEF GoTo

(* A new program has been given what its place in the line asks for. *)
LEMMA NewIsGiven ==
  ASSUME TypeInv, Order, shell.pc = "process", NEW m, m = shell.index,
         CommandOf(m)' = CommandOf(m), Size' = Size, At(m)' = "begin",
         Program(m)'.handle = HandleIn, Program(m)'.handle_out = HandleOut,
         Program(m)'.input = descriptors[HandleIn], Program(m)'.output = descriptors[HandleOut],
         descriptors' = descriptors, \A p : EndAt(p)' = EndAt(p)
  PROVE  OutputOf(m)' /\ InputOf(m)' /\ ReadingOf(m)'
<1>1. m \in 1 .. Size /\ m \in Nat /\ Size \in Nat /\ shell \in Shell
  BY ShellSame, ShellFields DEF TypeInv, Script, Creating
<1>2. OutputOf(m)'
  <2>1. m < Size => HandleOut = EndAt(2 * m - 1)
    BY HandlesAt
  <2>2. ASSUME m = Size PROVE descriptors[HandleOut].kind # "write"
    <3>1. HandleOut = shell.handle_out
      BY <2>2 DEF HandleOut, IsLast, Size
    <3>2. shell.handle_out = Out \/ descriptors[shell.handle_out] = Element("file", CommandOf(Size).output)
      BY <2>2 DEF Order, Handed
    <3>3. descriptors[Out] = Console(Out)
      BY FreeFacts DEF Order, Unique
    <3> QED BY <3>1, <3>2, <3>3, ElementParts
  <2> QED BY <2>1, <2>2 DEF OutputOf
<1>3. InputOf(m)'
  <2>1. ASSUME m > 1 PROVE PipedInput(m)'
    <3>1. HandleIn = EndAt(2 * m - 2)
      BY <2>1, HandlesAt
    <3>2. m - 1 \in Paired
      <4>1. Gone = 0 /\ (Made = 2 * m \/ Made = 2 * m - 2)
        BY DEF Gone, Made, Creating, Ending
      <4>2. \A i \in Nat, n \in Nat : i > 1 /\ (n = 2 * i \/ n = 2 * i - 2) =>
              2 * (i - 1) - 1 \in 0 + 1 .. n /\ 2 * (i - 1) \in 0 + 1 .. n
        OBVIOUS
      <4>3. m - 1 \in 1 .. Size /\ Made \in Nat
        BY <1>1, <2>1, EndFacts DEF EndsOK
      <4>4. 2 * (m - 1) - 1 \in Kept /\ 2 * (m - 1) \in Kept
        BY <1>1, <2>1, <4>1, <4>2, <4>3 DEF Kept
      <4> QED BY <4>3, <4>4 DEF Paired
    <3>3. PICK k \in Pipes : descriptors[EndAt(2 * (m - 1))] = Element("read", k)
      BY <3>2 DEF Order, Pairs, Pair
    <3>4. 2 * (m - 1) = 2 * m - 2
      BY <1>1
    <3>5. descriptors[HandleIn].kind = "read"
      BY <3>1, <3>3, <3>4, ElementParts
    <3> QED BY <3>1, <3>5 DEF PipedInput
  <2>2. ASSUME m = 1 PROVE OwnInput(m)'
    <3>1. HandleIn = shell.handle_in
      BY <2>2 DEF HandleIn
    <3>2. shell.handle_in = In \/ descriptors[shell.handle_in] = Element("file", CommandOf(1).input)
      BY <2>2 DEF Order, Handed
    <3>3. descriptors[In] = Console(In)
      BY FreeFacts DEF Order, Unique
    <3> QED BY <2>2, <3>1, <3>2, <3>3 DEF OwnInput
  <2> QED BY <1>1, <2>1, <2>2 DEF InputOf
<1>4. ReadingOf(m)'
  BY DEF ReadingOf, HasFile
<1> QED BY <1>2, <1>3, <1>4

(* The shell creates the program at its place in the line. *)
LEMMA CreateProcessKeeps ==
  ASSUME TypeInv, AllSound, Order, CreateProcess
  PROVE  Order'
<1>1. TypeInv'
  BY CreateProcessTypes
<1>2. shell.pc = "process" /\ Creating /\ ~Ending /\ descriptors' = descriptors /\ closed' = closed /\ call' = call
  BY DEF CreateProcess, Creating, Ending, kernel, OfPrograms
<1>3. PICK s \in Slots, new \in Process :
           /\ process[s] = NoProcess /\ new # NoProcess /\ process' = [process EXCEPT ![s] = new]
           /\ at' = [at EXCEPT ![Main(s)] = "begin"]
           /\ new.command = CurrentCommand /\ new.handle = HandleIn /\ new.handle_out = HandleOut
           /\ new.input = descriptors[HandleIn] /\ new.output = descriptors[HandleOut]
           /\ shell' \in Shell /\ shell'.line = shell.line /\ shell'.opened_files = shell.opened_files
           /\ shell'.handles = Append(shell.handles, s) /\ Ends' = Ends
           /\ shell'.pc = (IF IsLast THEN "wait" ELSE "input")
           /\ shell'.index = (IF IsLast THEN 1 ELSE shell.index + 1)
  BY ProgramCreated
<1>4. PICK i : i = shell.index
  OBVIOUS
<1>5. /\ i \in 1 .. Size /\ i \in Nat /\ Size \in Nat /\ shell.handles \in Seq(Slots)
      /\ Len(shell.handles) = i - 1 /\ Len(shell.handles) \in Nat /\ (IsLast <=> i = Size)
      /\ shell \in Shell
  BY <1>2, <1>4, ShellSame, ShellFields DEF TypeInv, Script, IsLast, Size
<1>6. Size' = Size /\ \A m : CommandOf(m)' = CommandOf(m)
  BY <1>3 DEF Size, CommandOf
<1>7. Gone = 0 /\ Gone' = 0 /\ Made' = Made
  <2>1. Made = IF i < Size THEN 2 * i ELSE 2 * i - 2
    BY <1>2, <1>4 DEF Made
  <2>2. Gone = 0
    BY <1>2 DEF Gone
  <2>3. ASSUME i = Size PROVE Gone' = 0 /\ Made' = Made
    <3>1. shell'.pc = "wait" /\ shell'.index = 1
      BY <1>3, <1>5, <2>3
    <3>2. Ending'
      BY <3>1 DEF Ending
    <3>3. Gone' = 0
      BY <3>1, <3>2 DEF Gone
    <3>4. Made' = 2 * Size - 2
      BY <1>6, <3>2 DEF Made
    <3>5. Made = 2 * Size - 2
      BY <1>5, <2>1, <2>3
    <3> QED BY <3>3, <3>4, <3>5
  <2>4. ASSUME i # Size PROVE Gone' = 0 /\ Made' = Made
    <3>1. shell'.pc = "input" /\ shell'.index = i + 1
      BY <1>3, <1>4, <1>5, <2>4
    <3>2. Creating' /\ ~Ending'
      BY <3>1 DEF Creating, Ending
    <3>3. Gone' = 0
      BY <3>2 DEF Gone
    <3>4. Made' = 2 * (i + 1) - 2
      BY <3>1, <3>2 DEF Made
    <3>5. Made = 2 * i
      BY <1>5, <2>1, <2>4
    <3>6. 2 * (i + 1) - 2 = 2 * i
      BY <1>5
    <3> QED BY <3>3, <3>4, <3>5, <3>6
  <2> QED BY <2>2, <2>3, <2>4
<1>8. /\ Kept' = Kept /\ Paired' = Paired /\ (\A p : EndAt(p)' = EndAt(p))
      /\ Numbers(Ends)' = Numbers(Ends) /\ Numbers(shell.opened_files)' = Numbers(shell.opened_files)
  BY <1>3, <1>6, <1>7 DEF Kept, Paired, EndAt, Numbers
<1>9. /\ Len(shell'.handles) = i /\ shell'.handles[i] = s
      /\ \A m \in 1 .. (i - 1) : shell'.handles[m] = shell.handles[m]
  <2>1. /\ Len(Append(shell.handles, s)) = Len(shell.handles) + 1
        /\ \A m \in 1 .. Len(shell.handles) : Append(shell.handles, s)[m] = shell.handles[m]
        /\ Append(shell.handles, s)[Len(shell.handles) + 1] = s
    BY <1>5, AppendProperties
  <2>2. Len(shell.handles) + 1 = i
    BY <1>5
  <2> QED BY <1>3, <1>5, <2>1, <2>2
<1>10. First = 1 /\ First' = 1
  <2>1. First = 1
    BY <1>2 DEF First
  <2>2. First' = 1
    BY <1>3 DEF First, Creating
  <2> QED BY <2>1, <2>2
<1>11. /\ Live = 1 .. (i - 1) /\ Live' = 1 .. i /\ i \in Live' /\ i \notin Live
       /\ \A m \in Live' : m # i => m \in Live
       /\ \A m \in Live : m \in Live' /\ Slot(m)' = Slot(m) /\ Slot(m) \in Slots
       /\ Slot(i)' = s
  <2>1. Live = 1 .. (i - 1) /\ Live' = 1 .. i
    BY <1>5, <1>9, <1>10 DEF Live
  <2>2. \A m \in Live : Slot(m)' = Slot(m)
    BY <1>9, <2>1 DEF Slot
  <2>3. \A m \in Live : Slot(m) \in Slots
    BY LiveFacts DEF LiveOK
  <2>4. Slot(i)' = s
    BY <1>9 DEF Slot
  <2> QED BY <1>5, <2>1, <2>2, <2>3, <2>4
<1>12. \A m \in Live : Slot(m) # s
  BY <1>3 DEF Order, Processes, Program
<1>13. /\ process'[s] = new /\ at'[Main(s)] = "begin"
       /\ \A o \in Slots \ {s} : process'[o] = process[o] /\ at'[Main(o)] = at[Main(o)]
  BY <1>3, ThreadFacts DEF TypeInv, TypeOK
<1>14. ASSUME NEW m \in Live
       PROVE  /\ OutputOf(m)' /\ InputOf(m)' /\ ReadingOf(m)' /\ (HasFile(m)' <=> HasFile(m))
              /\ Program(m)' = Program(m)
  <2>1. m \in Live' /\ Slot(m)' = Slot(m)
    BY <1>11
  <2>2. process'[Slot(m)] = process[Slot(m)] /\ at'[Main(Slot(m))] = at[Main(Slot(m))]
    BY <1>11, <1>12, <1>13
  <2>3. PICK X : X = {}
    OBVIOUS
  <2>4. /\ \A id \in Id \ X : descriptors'[id] = descriptors[id]
        /\ \A p \in Kept : p \in Kept' => EndAt(p)' = EndAt(p) /\ EndAt(p) \notin X
        /\ Reads(m) /\ ~(m > 1) /\ ~Past(m) /\ Program(m).input # Console(In) => Program(m).handle \notin X
        /\ HasFile(m) => Program(m).handle \notin X
        /\ \A k \in Pipes : closed[k] /\ (\E id \in Id : descriptors[id] = Element("read", k)) => closed'[k]
    BY <1>2, <1>8, <2>3
  <2> QED BY <1>1, <1>2, <1>3, <2>1, <2>2, <2>4, GivenKept
<1>15. /\ Program(i)' = new /\ At(i)' = "begin" /\ ~HasFile(i)'
  <2>1. Program(i)' = new /\ At(i)' = "begin"
    BY <1>11, <1>13 DEF Program, At
  <2> QED BY <2>1 DEF HasFile
<1>16. OutputOf(i)' /\ InputOf(i)' /\ ReadingOf(i)'
  BY <1>2, <1>3, <1>4, <1>6, <1>8, <1>15, NewIsGiven
<1>17. Processes'
  <2>1. ASSUME NEW m \in 1 .. i, NEW l \in 1 .. i, Slot(m)' = Slot(l)' PROVE m = l
    <3>1. \A x, y \in 1 .. (i - 1) : Slot(x) = Slot(y) => x = y
      BY <1>5 DEF Order, Processes
    <3>2. \A x \in 1 .. i : x = i \/ x \in Live
      BY <1>11
    <3> QED BY <1>11, <1>12, <2>1, <3>1, <3>2
  <2>2. ASSUME NEW o \in Slots, process'[o] # NoProcess
        PROVE  \E m \in Live' : Slot(m)' = o
    <3>1. CASE o = s
      BY <1>11, <3>1
    <3>2. CASE o # s
      <4>1. PICK m \in Live : Slot(m) = o
        BY <1>13, <2>2, <3>2 DEF Order, Processes
      <4> QED BY <1>11, <4>1
    <3> QED BY <3>1, <3>2
  <2>3. ASSUME NEW m \in Live' PROVE Program(m)' # NoProcess /\ Program(m)'.command = CommandOf(m)'
    <3>1. CASE m = i
      BY <1>3, <1>4, <1>6, <1>15, <3>1 DEF CurrentCommand, CommandOf
    <3>2. CASE m # i
      <4>1. m \in Live
        BY <1>11, <3>2
      <4>2. Program(m) # NoProcess /\ Program(m).command = CommandOf(m)
        BY <4>1 DEF Order, Processes
      <4> QED BY <1>6, <1>14, <4>1, <4>2
    <3> QED BY <3>1, <3>2
  <2>4. shell'.pc # "files"
    BY <1>3
  <2>5. \A m, l \in (1 .. Len(shell.handles))' : Slot(m)' = Slot(l)' => m = l
    BY <1>9, <2>1
  <2> QED BY <2>2, <2>3, <2>4, <2>5 DEF Processes
<1>18. Given' /\ Owned'
  <2>1. \A m \in Live' : m = i \/ m \in Live
    BY <1>11
  <2>2. Given'
    BY <1>14, <1>16, <2>1 DEF Given
  <2>3. ASSUME NEW m \in Live', NEW l \in Live', HasFile(m)', HasFile(l)', Program(m)'.handle = Program(l)'.handle
        PROVE  m = l
    <3>1. m \in Live /\ l \in Live
      BY <1>15, <2>1, <2>3
    <3>2. HasFile(m) /\ HasFile(l) /\ Program(m).handle = Program(l).handle
      BY <1>14, <2>3, <3>1
    <3> QED BY <3>1, <3>2 DEF Order, Owned
  <2>4. Owned'
    BY <2>3 DEF Owned
  <2> QED BY <2>2, <2>4
<1>19. Unique' /\ Distinct' /\ Listed' /\ Pairs'
  <2>1. Unique' /\ Distinct' /\ Listed'
    BY <1>2, <1>3, <1>8 DEF Order, Unique, Distinct, Listed
  <2>2. Pairs'
    BY <1>2, <1>8 DEF Order, Pairs, Pair
  <2> QED BY <2>1, <2>2
<1>20. Handed' /\ NextEnd' /\ Hole'
  <2>1. shell'.pc = "wait" => shell'.index = 1
    BY <1>3
  <2>2. shell'.pc \in {"wait", "input"}
    BY <1>3
  <2> QED BY <2>1, <2>2 DEF Handed, NextEnd, Hole
<1>21. FilesNamed'
  <2> SUFFICES ASSUME shell'.pc = "input", NEW id \in Id, descriptors[id].kind = "file"
               PROVE  \E j \in 1 .. (shell'.index - 1) : descriptors[id].of \in Named(CommandOf(j))
    BY <1>2, <1>3, <1>6 DEF FilesNamed, Creating
  <2>1. shell'.index = i + 1
    BY <1>3, <1>4
  <2>2. descriptors[id].of \in Files /\ descriptors[id].of # NoFile
    BY ElementIs, BoundAssumption DEF TypeInv, TypeOK
  <2>3. \/ \E j \in 1 .. (i - 1) : descriptors[id].of \in Named(CommandOf(j))
        \/ descriptors[id].of \in Named(CommandOf(i))
    BY <1>2, <1>4, <2>2 DEF Order, FilesNamed, Named, Redirected
  <2> QED BY <1>5, <2>1, <2>3
<1>22. Accounted'
  <2>1. ASSUME NEW id \in Id \ {In, Out}, NEW m \in Live, HasFile(m), Program(m).handle = id
        PROVE  \E l \in Live' : HasFile(l)' /\ Program(l)'.handle = id
    BY <1>11, <1>14, <2>1
  <2> QED BY <1>2, <1>8, <2>1 DEF Order, Accounted
<1> QED BY <1>17, <1>18, <1>19, <1>20, <1>21, <1>22 DEF Order

-----------------------------------------------------------------------------
(* The order holds, and what follows from it.                              *)

(* The order holds when the shell starts. *)
LEMMA InitOrder ==
  ASSUME Init
  PROVE  Order
<1>1. TypeInv
  BY InitTypes
<1>2. /\ shell.pc = "prompt" /\ shell.handles = << >> /\ shell.opened_files = << >>
      /\ shell.used_pipes = << >> /\ shell.pipe_queue = << >>
  BY IdleFacts DEF Init
<1>3. ~Creating /\ ~Ending
  BY <1>2 DEF Creating, Ending
<1>4. Gone = 0 /\ Made = 0 /\ Kept = {} /\ Paired = {}
  BY <1>3 DEF Gone, Made, Kept, Paired
<1>5. Len(shell.handles) = 0 /\ Len(Ends) = 0 /\ Len(shell.opened_files) = 0
  <2>1. Len(Ends) = Made - Gone
    BY <1>1, <1>2, EndFacts DEF EndsOK
  <2> QED BY <1>2, <1>4, <2>1, EmptySeq
<1>6. Live = {} /\ Numbers(shell.opened_files) = {}
  <2>1. First = 1
    BY <1>2, <1>3, <1>5 DEF First
  <2> QED BY <1>5, <2>1 DEF Live, Numbers
<1>7. \A s \in Slots : process[s] = NoProcess
  BY DEF Init
<1>8. \A id \in Id : descriptors[id] = IF id \in {In, Out} THEN Console(id) ELSE None
  BY DEF Init
<1>9. Processes
  <2>1. \A m, l \in 1 .. Len(shell.handles) : Slot(m) = Slot(l) => m = l
    BY <1>5
  <2>2. shell.pc # "files"
    BY <1>2
  <2> QED BY <1>6, <1>7, <2>1, <2>2 DEF Processes
<1>10. Unique
  <2>1. \A id \in Id, x \in {In, Out} : descriptors[id] = Console(x) <=> id = x
    <3>1. \A id : None # Console(id)
      BY DEF None, Console, Element
    <3>2. \A id, x : Console(id) = Console(x) => id = x
      BY DEF Console, Element
    <3> QED BY <1>8, <3>1, <3>2
  <2>2. \A id \in Id : descriptors[id].kind \notin {"write", "read", "file"}
    BY <1>8, ElementParts
  <2> QED BY <2>1, <2>2 DEF Unique
<1>11. Distinct /\ Pairs /\ Given /\ Owned /\ Listed
  <2>1. Distinct
    BY <1>5 DEF Distinct
  <2> QED BY <1>4, <1>6, <2>1 DEF Pairs, Given, Owned, Listed
<1>12. Handed /\ NextEnd /\ Hole /\ FilesNamed
  BY <1>2, <1>3 DEF Handed, NextEnd, Hole, FilesNamed
<1>13. Accounted
  BY <1>8, ElementParts DEF Accounted
<1> QED BY <1>9, <1>10, <1>11, <1>12, <1>13 DEF Order

(* Lines are only added to those that were typed. *)
LEMMA TypedGrows ==
  ASSUME TypeInv, [Next]_vars
  PROVE  \A i \in DOMAIN typed : i \in DOMAIN typed' /\ typed'[i] = typed[i]
<1>1. typed \in Seq(Lines)
  BY DEF TypeInv, TypeOK
<1>2. ASSUME NEW line \in Lines, typed' = Append(typed, line), NEW i \in DOMAIN typed
      PROVE  i \in DOMAIN typed' /\ typed'[i] = typed[i]
  <2>1. i \in 1 .. Len(typed) /\ Len(typed) \in Nat
    BY <1>1, <1>2
  <2> QED BY <1>1, <1>2, <2>1
<1>3. typed' = typed \/ \E line \in Lines : typed' = Append(typed, line)
  <2>1. CASE UNCHANGED vars
    BY <2>1 DEF vars
  <2>2. ASSUME NEW s \in Slots, ProgramStep(s) \/ CheckerStep(s) PROVE typed' = typed
    BY <2>2 DEF ProgramStep, CheckerStep, Begin, Read, ReadPipe, Close, Write, WritePipe, End, ClearFlag,
                CreateThread, Loop, Join, OfShell
  <2>3. CASE ShellStep
    BY <2>3 DEF ShellStep, ChangeDirectory, OpenInput, OpenOutput, CreateProcess, ReadExitCode, CloseIn,
                CloseOut, CloseFiles
  <2>4. CASE User
    BY <2>4 DEF User, Type, ReadConsole, OfShell
  <2> QED BY <2>1, <2>2, <2>3, <2>4 DEF Next
<1> QED BY <1>2, <1>3

(* "cd" is no program, so no sound line has it. *)
LEMMA NoChangeDirectory ==
  ASSUME TypeInv, AllSound, ChangeDirectory
  PROVE  FALSE
<1>1. shell.pc = "input" /\ CurrentCommand.program = "cd"
  BY DEF ChangeDirectory
<1>2. shell.index \in 1 .. Size
  BY <1>1 DEF TypeInv, Script, Creating
<1>3. "cd" \in Programs
  BY <1>1, <1>2, SoundLine DEF CurrentCommand, CommandOf
<1> QED BY <1>3 DEF Programs

(* A thread's step keeps the order, whichever call it makes. *)
LEMMA ThreadKeeps ==
  ASSUME TypeInv, AllSound, Order, NEW s \in Slots, ProgramStep(s) \/ CheckerStep(s)
  PROVE  Order'
<1>1. CASE Begin(s)
  BY <1>1, BeginKeeps
<1>2. ASSUME NEW t \in {Main(s), Checker(s)}, Read(t) PROVE Order'
  BY <1>2, ReadKeeps
<1>3. ASSUME NEW t \in {Main(s), Checker(s)}, ReadPipe(t) PROVE Order'
  BY <1>3, ReadPipeKeeps
<1>4. CASE Close(s)
  BY <1>4, CloseKeeps
<1>5. CASE Write(s)
  BY <1>5, WriteKeeps
<1>6. CASE WritePipe(s)
  BY <1>6, WritePipeKeeps
<1>7. CASE End(s) \/ ClearFlag(s) \/ CreateThread(s) \/ Loop(s) \/ Join(s)
  BY <1>7, LocalKeeps
<1> QED BY <1>1, <1>2, <1>3, <1>4, <1>5, <1>6, <1>7 DEF ProgramStep, CheckerStep

(* Nothing that the shell, its programs or the user do breaks the order    *)
(* while only sound lines have been typed.                                 *)
LEMMA OrderKept ==
  ASSUME TypeInv, AllSound, Order, [Next]_vars
  PROVE  Order'
<1>1. CASE UNCHANGED vars
  <2>1. /\ shell' = shell /\ typed' = typed /\ descriptors' = descriptors /\ closed' = closed
        /\ process' = process /\ at' = at /\ call' = call
    BY <1>1 DEF vars, kernel
  <2>2. /\ (Creating' <=> Creating) /\ Size' = Size /\ Ends' = Ends /\ Live' = Live /\ Paired' = Paired
        /\ \A m : Slot(m)' = Slot(m) /\ CommandOf(m)' = CommandOf(m) /\ Profile(m)' = Profile(m)
                  /\ (Reads(m)' <=> Reads(m))
        /\ \A p : EndAt(p)' = EndAt(p)
    BY <2>1, ShellStays
  <2>3. /\ Numbers(shell.opened_files)' = Numbers(shell.opened_files) /\ Numbers(Ends)' = Numbers(Ends)
        /\ Free' = Free
    BY <2>1, <2>2 DEF Numbers, Free
  <2>4. \A m : /\ Program(m)' = Program(m) /\ At(m)' = At(m)
              /\ call'[Main(Slot(m)')] = call[Main(Slot(m))]
    BY <2>1, <2>2 DEF Program, At
  <2>5. \A m : (HasFile(m)' <=> HasFile(m)) /\ (Past(m)' <=> Past(m))
    BY <2>2, <2>4 DEF HasFile, Past
  <2>6. \A m : (OutputOf(m)' <=> OutputOf(m)) /\ (ReadingOf(m)' <=> ReadingOf(m))
    BY <2>1, <2>2, <2>4, <2>5 DEF OutputOf, ReadingOf
  <2>7. \A m : InputOf(m)' <=> InputOf(m)
    BY <2>1, <2>2, <2>4, <2>5 DEF InputOf, PipedInput, OwnInput
  <2>8. Processes' /\ Given' /\ Owned'
    <3>1. Processes'
      BY <2>1, <2>2, <2>4 DEF Order, Processes
    <3>2. Given'
      BY <2>2, <2>6, <2>7 DEF Order, Given
    <3>3. Owned'
      BY <2>2, <2>4, <2>5 DEF Order, Owned
    <3> QED BY <3>1, <3>2, <3>3
  <2>9. Unique' /\ Distinct' /\ Pairs' /\ Listed'
    <3>1. Unique' /\ Distinct' /\ Listed'
      BY <2>1, <2>2, <2>3 DEF Order, Unique, Distinct, Listed
    <3>2. Pairs'
      BY <2>1, <2>2 DEF Order, Pairs, Pair
    <3> QED BY <3>1, <3>2
  <2>10. Handed' /\ NextEnd' /\ Hole'
    BY <2>1, <2>2, <2>3, <2>4 DEF Order, Handed, NextEnd, Hole
  <2>11. Accounted' /\ FilesNamed'
    BY <2>1, <2>2, <2>3, <2>4, <2>5 DEF Order, Accounted, FilesNamed
  <2> QED BY <2>8, <2>9, <2>10, <2>11 DEF Order
<1>2. ASSUME NEW s \in Slots, ProgramStep(s) \/ CheckerStep(s) PROVE Order'
  BY <1>2, ThreadKeeps
<1>3. CASE ShellStep
  BY <1>3, NoChangeDirectory, OpenInputKeeps, OpenOutputKeeps, CreateProcessKeeps, ReadExitCodeKeeps,
     CloseInKeeps, CloseOutKeeps, CloseFilesKeeps DEF ShellStep
<1>4. CASE User
  BY <1>4, TypeKeeps, ReadConsoleKeeps DEF User
<1> QED BY <1>1, <1>2, <1>3, <1>4 DEF Next

(* In every behaviour the types are right and, as long as only sound lines *)
(* have been typed, the order holds.                                       *)
OrderInv == TypeInv /\ (AllSound => Order)
(* It is inductive. *)
LEMMA OrderHolds == Spec => []OrderInv
<1>1. Init => OrderInv
  BY InitTypes, InitOrder DEF OrderInv
<1>2. OrderInv /\ [Next]_vars => OrderInv'
  <2> SUFFICES ASSUME OrderInv, [Next]_vars PROVE OrderInv'
    OBVIOUS
  <2>1. AllSound' => AllSound
    BY TypedGrows DEF OrderInv, AllSound
  <2> QED BY <2>1, TypesKept, OrderKept DEF OrderInv
<1> QED BY <1>1, <1>2, PTL DEF Spec

(* FilesStayOpen: while only lines that can be started in full, and in     *)
(* which only the first program opens a file or that are of at most three  *)
(* programs, have been typed, nobody closes the file that a running        *)
(* program has opened before the program does.                             *)
THEOREM FilesStay == Spec => []FilesStayOpen
<1>1. OrderInv => FilesStayOpen
  <2> SUFFICES ASSUME TypeInv, AllSound, Order, NEW s \in Slots,
                      at[Main(s)] \in {"read", "close"}, ProfileIn(s).source = "file"
               PROVE  descriptors[process[s].handle] = Element("file", process[s].command.file)
    BY DEF OrderInv, AllSound, Sound, FilesStayOpen
  <2>1. process[s] # NoProcess
    BY DEF TypeInv, TypeOK
  <2> QED BY <2>1, ReadingFacts
<1> QED BY <1>1, OrderHolds, PTL

(* OutputArrives: the pipe into which a program of an orderly line writes  *)
(* is open, and the program's descriptor is its end, until the program has *)
(* written everything.                                                     *)
THEOREM OutputReachesPipe == Spec => []OutputArrives
<1>1. OrderInv => OutputArrives
  <2> SUFFICES ASSUME TypeInv, AllSound, Order, NEW s \in Slots, process[s] # NoProcess,
                      process[s].output.kind = "write"
               PROVE  /\ ~closed[process[s].output.of]
                      /\ descriptors[process[s].handle_out] = process[s].output
    BY DEF OrderInv, AllSound, Sound, Orderly, AllOrderly, OutputArrives
  <2>1. PICK m \in Live : Slot(m) = s /\ Program(m) = process[s]
    BY SlotOfLine
  <2>2. OutputOf(m)
    BY DEF Order, Given
  <2>3. m < Size
    <3>1. m \in Nat /\ m <= Size /\ Size \in Nat
      BY LiveFacts DEF LiveOK
    <3>2. m # Size
      BY <2>1, <2>2 DEF OutputOf
    <3> QED BY <3>1, <3>2
  <2>4. process[s].handle_out = EndAt(2 * m - 1) /\ process[s].output = descriptors[EndAt(2 * m - 1)]
    BY <2>1, <2>2, <2>3 DEF OutputOf
  <2>5. m \in Paired
    BY <2>3, LiveFacts DEF LiveOK
  <2>6. PICK k \in Pipes : descriptors[EndAt(2 * m - 1)] = Element("write", k) /\ ~closed[k]
    BY <2>5 DEF Order, Pairs, Pair
  <2>7. process[s].output.of = k
    BY <2>4, <2>6, ElementParts
  <2> QED BY <2>4, <2>6, <2>7
<1> QED BY <1>1, OrderHolds, PTL

(* Only tasklist opens the process list, so under orderly lines nobody has *)
(* it open.                                                                *)
NoProc == \A id \in Id : descriptors[id].kind # "proc"

(* The elements of the descriptors after a step are those of before it, or *)
(* were opened in it.                                                      *)
LEMMA ElementsAfter ==
  ASSUME TypeInv, NEW id \in Id
  PROVE  /\ \A e : Open(e) => descriptors'[id] \in {descriptors[id], e}
         /\ \A x : CloseHandle(x) => descriptors'[id] \in {descriptors[id], None}
         /\ \A k, ids : CreatePipe(k, ids) =>
              descriptors'[id] \in {descriptors[id], Element("write", k), Element("read", k)}
<1>1. \A e : Open(e) => descriptors'[id] \in {descriptors[id], e}
  BY DEF Open, TypeInv, TypeOK
<1>2. \A x : CloseHandle(x) => descriptors'[id] \in {descriptors[id], None}
  BY DEF CloseHandle, TypeInv, TypeOK
<1>3. \A k, ids : CreatePipe(k, ids) =>
        descriptors'[id] \in {descriptors[id], Element("write", k), Element("read", k)}
  BY DEF CreatePipe, TypeInv, TypeOK
<1> QED BY <1>1, <1>2, <1>3

(* A program of an orderly line does not open the process list. *)
LEMMA NoTaskList ==
  ASSUME TypeInv, Order, AllOrderly, NEW s \in Slots, process[s] # NoProcess
  PROVE  ProfileIn(s).source # "proc"
<1>1. PICK m \in Live : CommandOf(m) = process[s].command /\ Profile(m) = ProfileIn(s)
  BY SlotOfLine
<1>2. /\ shell.pc # "prompt" /\ m \in Nat /\ m >= 1 /\ m <= Size /\ Size \in Nat /\ CommandOf(m) \in Command
      /\ DOMAIN shell.line = 1 .. Size
  BY LiveFacts, ShellSame, ShellFields DEF LiveOK, Creating, Ending
<1>3. Len(typed) \in DOMAIN typed /\ shell.line = typed[Len(typed)]
  BY <1>2 DEF TypeInv, Script, TypeOK
<1>4. CommandOf(m).program # "tasklist" /\ CommandOf(m).program \in Programs
  BY <1>2, <1>3 DEF AllOrderly, Orderly, Startable, CommandOf
<1> QED BY <1>1, <1>2, <1>4, Profiles DEF Profile

(* No step opens the process list under orderly lines. *)
LEMMA NoProcKept ==
  ASSUME TypeInv, Order, AllOrderly, NoProc, [Next]_vars
  PROVE  NoProc'
<1> SUFFICES ASSUME NEW id \in Id PROVE descriptors'[id].kind # "proc"
  BY DEF NoProc
<1>1. descriptors[id].kind # "proc" /\ None.kind # "proc"
      /\ \A k : Element("write", k).kind # "proc" /\ Element("read", k).kind # "proc" /\ Element("file", k).kind # "proc"
  BY ElementParts DEF NoProc
<1>2. CASE descriptors' = descriptors
  BY <1>1, <1>2
<1>3. ASSUME NEW e, e \in {Element("file", f) : f \in Files}, Open(e) PROVE descriptors'[id].kind # "proc"
  BY <1>1, <1>3, ElementsAfter
<1>4. ASSUME NEW x, CloseHandle(x) PROVE descriptors'[id].kind # "proc"
  BY <1>1, <1>4, ElementsAfter
<1>5. ASSUME NEW k, NEW ids, CreatePipe(k, ids) PROVE descriptors'[id].kind # "proc"
  BY <1>1, <1>5, ElementsAfter
<1>6. \A file : Openable(file) => Element("file", file) \in {Element("file", f) : f \in Files}
  BY DEF Openable
<1>7. CASE UNCHANGED vars
  BY <1>2, <1>7 DEF vars, kernel
<1>8. ASSUME NEW s \in Slots, ProgramStep(s) \/ CheckerStep(s) PROVE descriptors'[id].kind # "proc"
  <2>1. CASE Begin(s)
    <3>1. process[s] # NoProcess
      BY <2>1 DEF Begin, TypeInv, TypeOK
    <3>2. ProfileIn(s).source # "proc"
      BY <3>1, NoTaskList
    <3>3. descriptors' = descriptors \/ \E e \in {Element("file", f) : f \in Files} : Open(e)
      BY <1>6, <2>1, <3>2 DEF Begin, kernel
    <3> QED BY <1>2, <1>3, <3>3
  <2>2. CASE Close(s)
    BY <1>4, <2>2 DEF Close
  <2>3. CASE ~Begin(s) /\ ~Close(s)
    BY <1>2, <1>8, <2>3 DEF ProgramStep, CheckerStep, Read, ReadPipe, Write, WritePipe, End, ClearFlag,
                CreateThread, Loop, Join, kernel
  <2> QED BY <2>1, <2>2, <2>3
<1>9. CASE ShellStep
  <2>1. CASE OpenInput
    BY <1>2, <1>3, <1>6, <2>1 DEF OpenInput, kernel
  <2>2. CASE OpenOutput
    BY <1>2, <1>3, <1>5, <1>6, <2>2 DEF OpenOutput, kernel
  <2>3. CASE CloseIn \/ CloseOut \/ CloseFiles
    BY <1>2, <1>4, <2>3 DEF CloseIn, CloseOut, CloseFiles, CloseFirstPipe, kernel
  <2>4. CASE ChangeDirectory \/ CreateProcess \/ ReadExitCode
    BY <1>2, <2>4 DEF ChangeDirectory, CreateProcess, ReadExitCode, kernel
  <2> QED BY <1>9, <2>1, <2>2, <2>3, <2>4 DEF ShellStep
<1>10. CASE User
  BY <1>2, <1>10 DEF User, Type, ReadConsole, kernel
<1> QED BY <1>7, <1>8, <1>9, <1>10 DEF Next

(* NothingIsLeft: after orderly lines the prompt finds no process and no   *)
(* descriptor but the shell's own two, whoever has closed the others.      *)
THEOREM NothingStays == Spec => []NothingIsLeft
<1> DEFINE ProcInv == AllOrderly => NoProc
<1>1. Init => ProcInv
  BY ElementParts DEF Init, NoProc
<1>2. AllOrderly => AllSound
  BY DEF AllOrderly, Orderly, AllSound, Sound
<1>3. OrderInv /\ ProcInv /\ [Next]_vars => ProcInv'
  <2> SUFFICES ASSUME OrderInv, ProcInv, [Next]_vars, AllOrderly' PROVE NoProc'
    OBVIOUS
  <2>1. AllOrderly
    BY TypedGrows DEF OrderInv, AllOrderly
  <2> QED BY <1>2, <2>1, NoProcKept DEF OrderInv
<1>4. OrderInv /\ ProcInv => NothingIsLeft
  <2> SUFFICES ASSUME TypeInv, Order, NoProc, shell.pc = "prompt"
               PROVE  (\A s \in Slots : process[s] = NoProcess) /\ Free = Id \ {In, Out}
    BY <1>2 DEF OrderInv, NothingIsLeft
  <2>1. /\ \A s \in Slots : process[s] = NoProcess
        /\ \A id \in Id \ {In, Out} :
             descriptors[id].kind \in {"none", "proc"} \/ id \in Numbers(shell.opened_files)
    BY NobodyLives
  <2>2. Numbers(shell.opened_files) = {}
    <3>1. shell.opened_files = << >>
      BY IdleFacts DEF TypeInv, Script
    <3>2. Len(shell.opened_files) = 0
      BY <3>1, EmptySeq
    <3> QED BY <3>2 DEF Numbers
  <2>3. \A id \in Id \ {In, Out} : descriptors[id] = None
    BY <2>1, <2>2, ElementIs DEF NoProc, TypeInv, TypeOK
  <2>4. descriptors[In] # None /\ descriptors[Out] # None
    <3>1. descriptors[In] = Console(In) /\ descriptors[Out] = Console(Out)
      BY FreeFacts DEF Order, Unique
    <3> QED BY <3>1, ElementParts
  <2> QED BY <2>1, <2>3, <2>4 DEF Free
<1> QED BY <1>1, <1>3, <1>4, OrderHolds, PTL DEF Spec
=============================================================================
