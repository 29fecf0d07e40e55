----------------------------- MODULE Pipelines -----------------------------
(***************************************************************************)
(* The shell runs lines of programs joined by pipes (command_executor.cpp) *)
(* while the programs of a line read, write and end.  Pipes have the       *)
(* blocking behaviour of module Pipe with the number of their bytes in     *)
(* place of the bytes; descriptors are handed out as in Handles, the       *)
(* lowest first, and are numbers that anybody can use and close.           *)
(***************************************************************************)
EXTENDS Naturals, Sequences, FiniteSets, FiniteSetsExt

CONSTANTS
  Lines,      \* the lines that may be typed: sequences of commands
  MaxLines,   \* bound: how many are typed
  Files,      \* files that exist
  NoFile,     \* no file is named
  Slots,      \* the free slots of the process table
  MaxId,      \* bound: the highest descriptor
  Pipes,      \* bound: pipes there may be at once
  BufferSize, \* bytes that fit into a pipe
  ReadLimit,  \* bytes that a program reads at once
  Long,       \* the bytes of a file that type shows
  NoProcess, Nothing

Id == 0 .. MaxId
In == 0    \* the shell's own standard input and output
Out == 1

(* What a program does: where it reads, to the end, whether it closes that *)
(* handle afterwards, and the bytes of each Write_File it calls then.      *)
Failed == [source |-> "none", closes |-> FALSE, texts |-> <<1>>]
echo(command) == [source |-> "none", closes |-> FALSE, texts |-> <<1, 1>>]
freq(command) == [source |-> "input", closes |-> FALSE, texts |-> <<1, 1>>]
tasklist(command) == [source |-> "proc", closes |-> FALSE, texts |-> <<1>>]
dir(command) == [source |-> "file", closes |-> TRUE, texts |-> <<1>>]
type(command) ==
  IF command.file = NoFile THEN Failed
  ELSE [source |-> "file", closes |-> TRUE, texts |-> <<Long>>]
sort(command) ==
  [source |-> IF command.file = NoFile THEN "input" ELSE "file",
   closes |-> TRUE, texts |-> <<1, 1>>]
find(command) ==
  [source |-> IF command.file = NoFile THEN "input" ELSE "file",
   closes |-> command.file # NoFile, texts |-> <<1>>]

(* rgen reads in a thread of its own (see Loop).                           *)
rgen(command) == [source |-> "input", closes |-> FALSE, texts |-> << >>]

Programs == {"echo", "freq", "tasklist", "dir", "type", "sort", "find", "rgen"}
ProfileOf(command) ==
  CASE command.program = "echo" -> echo(command)
    [] command.program = "freq" -> freq(command)
    [] command.program = "tasklist" -> tasklist(command)
    [] command.program = "dir" -> dir(command)
    [] command.program = "type" -> type(command)
    [] command.program = "sort" -> sort(command)
    [] command.program = "find" -> find(command)
    [] command.program = "rgen" -> rgen(command)

Command == [program : Programs \cup {"cd", "nosuch"}, file : Files \cup {NoFile, "missing"},
            input : Files \cup {NoFile, "missing"}, output : Files \cup {NoFile}]

(* A command with an output file is the last of its line: otherwise the    *)
(* shell takes the front of an empty queue of pipes.                       *)
ASSUME LinesAssumption ==
  \A line \in Lines : /\ line \in Seq(Command) /\ line # << >>
                      /\ \A i \in 1 .. (Len(line) - 1) : line[i].output = NoFile
ASSUME BoundAssumption ==
  /\ MaxLines \in Nat /\ MaxId \in Nat \ {0} /\ BufferSize \in Nat \ {0} /\ ReadLimit \in Nat \ {0}
  /\ Long \in Nat \ {0} /\ Slots \subseteq Nat /\ IsFiniteSet(Slots) /\ Pipes \subseteq Nat
  /\ NoFile \notin Files

VARIABLES
  descriptors,  \* Handler_Table: the element of each descriptor
  filled,       \* the bytes in each pipe
  closed,       \* Pipe::Base::partially_closed
  process,      \* what runs in each slot
  at, call,     \* of each thread: its next step, the pipe end it is using
  is_eof,       \* the global variable of rgen, one for all of them
  shell,        \* the shell
  typed         \* the lines typed so far

kernel == <<descriptors, filled, closed>>
vars == <<kernel, process, at, call, is_eof, shell, typed>>

Thread == Slots \X {"main", "checker"}
Main(s) == <<s, "main">>
Checker(s) == <<s, "checker">>

Element(kind, of) == [kind |-> kind, of |-> of]
None == Element("none", Nothing)
Console(id) == Element("console", id)
Free == {id \in Id : descriptors[id] = None}

Idle == [pc |-> "prompt", line |-> << >>, index |-> 1, handle_in |-> In, handle_out |-> Out,
         pipe_queue |-> << >>, used_pipes |-> << >>, opened_files |-> << >>, handles |-> << >>]

Init ==
  /\ descriptors = [id \in Id |-> IF id \in {In, Out} THEN Console(id) ELSE None]
  /\ filled = [k \in Pipes |-> 0] /\ closed = [k \in Pipes |-> FALSE]
  /\ process = [s \in Slots |-> NoProcess]
  /\ at = [t \in Thread |-> "none"] /\ call = [t \in Thread |-> None]
  /\ is_eof = FALSE /\ shell = Idle /\ typed = << >>

-----------------------------------------------------------------------------
(* The kernel's side.                                                      *)

(* An end of a pipe lives as long as the table or a call holds it.         *)
HasEnd(kind, k, table, calls) ==
  \/ \E id \in Id : table[id] = Element(kind, k)
  \/ \E t \in Thread : calls[t] = Element(kind, k)

(* Mutant: a pipe is closed when both ends have died.                      *)
BothClosed(table, calls) ==
  [k \in Pipes |-> \/ closed[k]
                   \/ ~HasEnd("write", k, table, calls) /\ ~HasEnd("read", k, table, calls)]

(* The first end that dies closes the pipe.                                *)
Closed(table, calls) ==
  [k \in Pipes |-> \/ closed[k]
                   \/ ~HasEnd("write", k, table, calls) \/ ~HasEnd("read", k, table, calls)]

UnusedPipes ==
  {k \in Pipes : ~HasEnd("write", k, descriptors, call) /\ ~HasEnd("read", k, descriptors, call)}

(* Mutant: the read end is created first.                                  *)
ReadEndFirst(ids) == <<Max(ids), Min(ids)>>

(* The numbers of a new pipe's ends: the write end is created first.       *)
WriteEndFirst(ids) == <<Min(ids), Max(ids)>>

CreatePipe(k, ids) ==
  /\ descriptors' = [descriptors EXCEPT ![WriteEndFirst(ids)[1]] = Element("write", k),
                                        ![WriteEndFirst(ids)[2]] = Element("read", k)]
  /\ filled' = [filled EXCEPT ![k] = 0]
  /\ closed' = [closed EXCEPT ![k] = FALSE]

Openable(file) ==
  file \in Files /\ \A id \in Id : descriptors[id] # Element("file", file)

Open(element) ==
  /\ descriptors' = [descriptors EXCEPT ![Min(Free)] = element]
  /\ UNCHANGED <<filled, closed>>

CloseHandle(id) ==
  LET table == [descriptors EXCEPT ![id] = None] IN
  /\ descriptors' = table
  /\ closed' = Closed(table, call)
  /\ UNCHANGED filled

-----------------------------------------------------------------------------
(* The programs.  A thread's step is one system call, or the part of one   *)
(* that is done when a pipe lets it.                                       *)
GoTo(t, step) == at' = [at EXCEPT ![t] = step]
Return(t) == call' = [call EXCEPT ![t] = None] /\ closed' = Closed(descriptors, call')
ProfileIn(s) == ProfileOf(process[s].command)
IsRgen(s) == process[s].command.program = "rgen"
OfShell == <<shell, typed>>

Begin(s) ==
  /\ at[Main(s)] = "begin" /\ ~IsRgen(s)
  /\ LET p == ProfileIn(s)
         file == process[s].command.file
         opened(element) ==
           /\ Free # {} /\ Open(element) /\ GoTo(Main(s), "read")
           /\ process' = [process EXCEPT ![s].handle = Min(Free)]
     IN \/ p.source = "none" /\ GoTo(Main(s), "write") /\ UNCHANGED <<kernel, process>>
        \/ p.source = "input" /\ GoTo(Main(s), "read") /\ UNCHANGED <<kernel, process>>
        \/ p.source = "proc" /\ opened(Element("proc", Nothing))
        \/ p.source = "file" /\ Openable(file) /\ opened(Element("file", file))
        \/ /\ p.source = "file" /\ ~Openable(file) /\ GoTo(Main(s), "write")
           /\ process' = [process EXCEPT ![s].texts = Failed.texts] /\ UNCHANGED kernel
  /\ UNCHANGED <<call, is_eof, OfShell>>

(* What the main thread, or rgen's second one, does at the end of input.   *)
AtEof(t) ==
  LET s == t[1] IN
  /\ IF t = Checker(s)
     THEN GoTo(t, "ended") /\ is_eof' = TRUE
     ELSE /\ UNCHANGED is_eof
          /\ IF ProfileIn(s).closes /\ process[s].handle # In
             THEN GoTo(t, "close") ELSE GoTo(t, "write")

(* Read_File of anything but a pipe.  With a handle that is not valid the  *)
(* count is an error code, which freq notices and the others take for      *)
(* input: they go on reading.                                              *)
Read(t) ==
  /\ at[t] = "read"
  /\ LET s == t[1]
         kind == descriptors[process[s].handle].kind
     IN \/ /\ kind = "read"
           /\ call' = [call EXCEPT ![t] = descriptors[process[s].handle]]
           /\ GoTo(t, "reading") /\ UNCHANGED <<process, is_eof>>
        \/ /\ kind \in {"file", "proc"} /\ process[s].left > 0
           /\ process' = [process EXCEPT ![s].left = @ - 1] /\ UNCHANGED <<at, call, is_eof>>
        \/ /\ \/ kind \in {"file", "proc"} /\ process[s].left = 0
              \/ kind = "write" \/ descriptors[process[s].handle] = Console(Out)
           /\ AtEof(t) /\ UNCHANGED <<process, call>>
        \/ /\ kind = "none" /\ process[s].command.program = "freq"
           /\ process' = [process EXCEPT ![s].texts = Failed.texts]
           /\ GoTo(t, "write") /\ UNCHANGED <<call, is_eof>>
  /\ UNCHANGED <<kernel, OfShell>>

(* The user has typed something, and it may be the end.                    *)
ReadConsole(t) ==
  /\ at[t] = "read" /\ descriptors[process[t[1]].handle] = Console(In)
  /\ \/ AtEof(t)
     \/ UNCHANGED <<at, is_eof>>
  /\ UNCHANGED <<kernel, process, call, OfShell>>

(* Pipe::Base::Read.                                                       *)
ReadPipe(t) ==
  /\ at[t] = "reading"
  /\ LET k == call[t].of
         bytes == Min({filled[k], ReadLimit})
     IN /\ filled[k] > 0 \/ closed[k]
        /\ filled' = [filled EXCEPT ![k] = @ - bytes]
        /\ IF closed[k] /\ bytes = filled[k] /\ bytes < ReadLimit
           THEN AtEof(t)
           ELSE GoTo(t, "read") /\ UNCHANGED is_eof
  /\ Return(t)
  /\ UNCHANGED <<descriptors, process, OfShell>>

Close(s) ==
  /\ at[Main(s)] = "close"
  /\ CloseHandle(process[s].handle)
  /\ GoTo(Main(s), "write")
  /\ UNCHANGED <<process, call, is_eof, OfShell>>

(* Write_File, up to Pipe::Base::Write's look at partially_closed.         *)
Write(s) ==
  /\ at[Main(s)] = "write" /\ process[s].texts # << >>
  /\ LET element == descriptors[process[s].handle_out] IN
     IF element.kind = "write" /\ ~closed[element.of]
     THEN /\ call' = [call EXCEPT ![Main(s)] = element]
          /\ GoTo(Main(s), "writing") /\ UNCHANGED process
     ELSE /\ process' = [process EXCEPT ![s].texts = Tail(@)] /\ UNCHANGED <<at, call>>
  /\ UNCHANGED <<kernel, is_eof, OfShell>>

(* Mutant: all bytes are copied whatever the room.                         *)
AllOf(count, k) == count

(* How many of "count" bytes fit.                                          *)
Fitting(count, k) == Min({count, BufferSize - filled[k]})

(* One turn of Pipe::Base::Write's loop.                                   *)
WritePipe(s) ==
  /\ at[Main(s)] = "writing"
  /\ LET k == call[Main(s)].of
         bytes == Fitting(Head(process[s].texts), k)
         rest == Head(process[s].texts) - bytes
     IN /\ filled[k] < BufferSize
        /\ filled' = [filled EXCEPT ![k] = @ + bytes]
        /\ IF rest = 0
           THEN /\ process' = [process EXCEPT ![s].texts = Tail(@)]
                /\ GoTo(Main(s), "write") /\ Return(Main(s))
           ELSE /\ process' = [process EXCEPT ![s].texts = <<rest>> \o Tail(@)]
                /\ UNCHANGED <<at, call, closed>>
  /\ UNCHANGED <<descriptors, is_eof, OfShell>>

End(s) ==
  /\ at[Main(s)] = "write" /\ process[s].texts = << >> /\ ~IsRgen(s)
  /\ GoTo(Main(s), "ended")
  /\ UNCHANGED <<kernel, process, call, is_eof, OfShell>>

(* rgen: the flag is cleared, the second thread is started, numbers are    *)
(* written one by one until the flag is set, and the thread is waited for. *)
ClearFlag(s) ==
  /\ at[Main(s)] = "begin" /\ IsRgen(s)
  /\ is_eof' = FALSE
  /\ GoTo(Main(s), "create_thread")
  /\ UNCHANGED <<kernel, process, call, OfShell>>

CreateThread(s) ==
  /\ at[Main(s)] = "create_thread"
  /\ at' = [at EXCEPT ![Main(s)] = "write", ![Checker(s)] = "read"]
  /\ UNCHANGED <<kernel, process, call, is_eof, OfShell>>

Loop(s) ==
  /\ at[Main(s)] = "write" /\ process[s].texts = << >> /\ IsRgen(s)
  /\ IF is_eof
     THEN GoTo(Main(s), "join") /\ UNCHANGED process
     ELSE process' = [process EXCEPT ![s].texts = <<1>>] /\ UNCHANGED at
  /\ UNCHANGED <<kernel, call, is_eof, OfShell>>

Join(s) ==
  /\ at[Main(s)] = "join" /\ at[Checker(s)] = "ended"
  /\ GoTo(Main(s), "ended")
  /\ UNCHANGED <<kernel, process, call, is_eof, OfShell>>

-----------------------------------------------------------------------------
(* The shell: Execute_Command for each line.                               *)
OfPrograms == <<call, is_eof>>
CurrentCommand == shell.line[shell.index]
IsLast == shell.index = Len(shell.line)

Type(line) ==
  /\ shell.pc = "prompt" /\ Len(typed) < MaxLines
  /\ typed' = Append(typed, line)
  /\ shell' = [Idle EXCEPT !.pc = "input", !.line = line]
  /\ UNCHANGED <<kernel, process, at, OfPrograms>>

(* "cd" goes back to the prompt from wherever it stands in the line.       *)
ChangeDirectory ==
  /\ shell.pc = "input" /\ CurrentCommand.program = "cd"
  /\ shell' = Idle
  /\ UNCHANGED <<kernel, process, at, OfPrograms, typed>>

OpenInput ==
  /\ shell.pc = "input" /\ CurrentCommand.program # "cd"
  /\ LET file == CurrentCommand.input IN
     \/ /\ file = NoFile
        /\ shell' = [shell EXCEPT !.pc = "output", !.handle_in = In] /\ UNCHANGED kernel
     \/ /\ Openable(file) /\ Free # {} /\ Open(Element("file", file))
        /\ shell' = [shell EXCEPT !.pc = "output", !.handle_in = Min(Free),
                                  !.opened_files = Append(@, Min(Free))]
     \/ /\ file # NoFile /\ ~Openable(file)
        /\ shell' = [shell EXCEPT !.pc = "files"] /\ UNCHANGED kernel
  /\ UNCHANGED <<process, at, OfPrograms, typed>>

OpenOutput ==
  /\ shell.pc = "output"
  /\ LET file == CurrentCommand.output IN
     \/ /\ Openable(file) /\ Free # {} /\ Open(Element("file", file))
        /\ shell' = [shell EXCEPT !.pc = "process", !.handle_out = Min(Free),
                                  !.opened_files = Append(@, Min(Free))]
     \/ /\ file # NoFile /\ ~Openable(file)
        /\ shell' = [shell EXCEPT !.pc = "files"] /\ UNCHANGED kernel
     \/ /\ file = NoFile /\ IsLast
        /\ shell' = [shell EXCEPT !.pc = "process", !.handle_out = Out] /\ UNCHANGED kernel
     \/ /\ file = NoFile /\ ~IsLast /\ Cardinality(Free) > 1 /\ UnusedPipes # {}
        /\ LET ids == {Min(Free), Min(Free \ {Min(Free)})} IN
           /\ CreatePipe(Min(UnusedPipes), ids)
           /\ shell' = [shell EXCEPT !.pc = "process",
                                     !.pipe_queue = @ \o WriteEndFirst(ids)]
  /\ UNCHANGED <<process, at, OfPrograms, typed>>

(* The pipes' ends in the order of their use.                              *)
PipesNeeded == IF shell.index = 1 \/ IsLast THEN (IF Len(shell.line) = 1 THEN 0 ELSE 1) ELSE 2
HandleIn == IF shell.index > 1 THEN Head(shell.pipe_queue) ELSE shell.handle_in
HandleOut == IF IsLast THEN shell.handle_out ELSE shell.pipe_queue[PipesNeeded]

CreateProcess ==
  /\ shell.pc = "process"
  /\ LET consumed == [shell EXCEPT
           !.pipe_queue = SubSeq(@, PipesNeeded + 1, Len(@)),
           !.used_pipes = @ \o SubSeq(shell.pipe_queue, 1, PipesNeeded)]
         slots == {s \in Slots : process[s] = NoProcess}
     IN IF CurrentCommand.program \in Programs /\ slots # {}
        THEN LET s == Min(slots) IN
             /\ process' = [process EXCEPT ![s] =
                  [command |-> CurrentCommand, handle |-> HandleIn, handle_out |-> HandleOut,
                   texts |-> ProfileOf(CurrentCommand).texts, left |-> 1,
                   input |-> descriptors[HandleIn], output |-> descriptors[HandleOut]]]
             /\ GoTo(Main(s), "begin")
             /\ shell' = [consumed EXCEPT !.handles = Append(@, s),
                            !.pc = IF IsLast THEN "wait" ELSE "input",
                            !.index = IF IsLast THEN 1 ELSE @ + 1]
        ELSE shell' = [consumed EXCEPT !.pc = "files"] /\ UNCHANGED <<process, at>>
  /\ UNCHANGED <<kernel, OfPrograms, typed>>

(* Read_Exit_Code gives the slot back.                                     *)
ReadExitCode ==
  /\ shell.pc = "wait"
  /\ LET s == shell.handles[shell.index] IN
     /\ at[Main(s)] = "ended"
     /\ process' = [process EXCEPT ![s] = NoProcess]
     /\ at' = [at EXCEPT ![Main(s)] = "none", ![Checker(s)] = "none"]
  /\ shell' = [shell EXCEPT !.pc = "close_in"]
  /\ UNCHANGED <<kernel, OfPrograms, typed>>

(* Mutant: the queue is emptied from its other side.                       *)
CloseLastPipe(next) ==
  /\ CloseHandle(shell.used_pipes[Len(shell.used_pipes)])
  /\ shell' = [next EXCEPT !.used_pipes = SubSeq(@, 1, Len(@) - 1)]

CloseFirstPipe(next) ==
  /\ CloseHandle(Head(shell.used_pipes))
  /\ shell' = [next EXCEPT !.used_pipes = Tail(@)]

(* Mutant: the second program's input is never closed.                     *)
CloseInOfOthers ==
  /\ shell.pc = "close_in"
  /\ LET next == [shell EXCEPT !.pc = "close_out"] IN
     IF shell.index > 2 THEN CloseFirstPipe(next)
     ELSE UNCHANGED kernel /\ shell' = IF shell.index = 1 THEN next
                                       ELSE [next EXCEPT !.used_pipes = Tail(@)]
  /\ UNCHANGED <<process, at, OfPrograms, typed>>

CloseIn ==
  /\ shell.pc = "close_in"
  /\ LET next == [shell EXCEPT !.pc = "close_out"] IN
     IF shell.index > 1 THEN CloseFirstPipe(next) ELSE shell' = next /\ UNCHANGED kernel
  /\ UNCHANGED <<process, at, OfPrograms, typed>>

CloseOut ==
  /\ shell.pc = "close_out"
  /\ IF IsLast
     THEN shell' = [shell EXCEPT !.pc = "files"] /\ UNCHANGED kernel
     ELSE CloseFirstPipe([shell EXCEPT !.pc = "wait", !.index = @ + 1])
  /\ UNCHANGED <<process, at, OfPrograms, typed>>

(* close_handles(opened_files), and back to the prompt.                    *)
CloseFiles ==
  /\ shell.pc = "files"
  /\ IF shell.opened_files = << >>
     THEN shell' = Idle /\ UNCHANGED kernel
     ELSE /\ CloseHandle(Head(shell.opened_files))
          /\ shell' = [shell EXCEPT !.opened_files = Tail(@)]
  /\ UNCHANGED <<process, at, OfPrograms, typed>>
-----------------------------------------------------------------------------
ProgramStep(s) ==
  \/ Begin(s) \/ Read(Main(s)) \/ ReadPipe(Main(s)) \/ Close(s) \/ Write(s) \/ WritePipe(s)
  \/ End(s) \/ ClearFlag(s) \/ CreateThread(s) \/ Loop(s) \/ Join(s)

CheckerStep(s) == Read(Checker(s)) \/ ReadPipe(Checker(s))

ShellStep ==
  \/ ChangeDirectory \/ OpenInput \/ OpenOutput \/ CreateProcess
  \/ ReadExitCode \/ CloseIn \/ CloseOut \/ CloseFiles

User ==
  \/ \E line \in Lines : Type(line)
  \/ \E t \in Thread : ReadConsole(t)

Next ==
  \/ \E s \in Slots : ProgramStep(s) \/ CheckerStep(s)
  \/ ShellStep
  \/ User

Spec == Init /\ [][Next]_vars

(* The host runs every thread that can run.  The user need not type.       *)
Fairness ==
  /\ \A s \in Slots : WF_vars(ProgramStep(s)) /\ WF_vars(CheckerStep(s))
  /\ WF_vars(ShellStep)

FairSpec == Spec /\ Fairness

-----------------------------------------------------------------------------
Steps == {"none", "begin", "read", "reading", "close", "write", "writing",
          "create_thread", "join", "ended"}
Elements ==
  {None, Element("proc", Nothing)} \cup {Console(id) : id \in {In, Out}}
    \cup {Element(kind, k) : kind \in {"write", "read"}, k \in Pipes}
    \cup {Element("file", file) : file \in Files}
Process ==
  [command : Command, handle : Id, handle_out : Id, texts : Seq(Nat), left : Nat,
   input : Elements, output : Elements]
ASSUME MarkAssumption == NoProcess \notin Process
Shell ==
  [pc : {"prompt", "input", "output", "process", "wait", "close_in", "close_out", "files"},
   line : Lines \cup {<< >>}, index : Nat, handle_in : Id, handle_out : Id,
   pipe_queue : Seq(Id), used_pipes : Seq(Id), opened_files : Seq(Id), handles : Seq(Slots)]

(* Each component has its type; a pipe holds no more than it can, and the  *)
(* shell never looks past the end of its line or of its list of processes. *)
TypeOK ==
  /\ descriptors \in [Id -> Elements]
  /\ filled \in [Pipes -> 0 .. BufferSize] /\ closed \in [Pipes -> BOOLEAN]
  /\ process \in [Slots -> Process \cup {NoProcess}]
  /\ \A s \in Slots : process[s] = NoProcess <=> at[Main(s)] = "none"
  /\ at \in [Thread -> Steps] /\ call \in [Thread -> Elements]
  /\ is_eof \in BOOLEAN
  /\ shell \in Shell /\ typed \in Seq(Lines)
  /\ shell.pc \notin {"prompt", "files"} => shell.index \in DOMAIN shell.line
  /\ shell.pc \in {"wait", "close_in", "close_out"} => Len(shell.handles) = Len(shell.line)

(* A line that the shell can start in full: every program exists, and what *)
(* the shell opens for it exists and is named once in the line.            *)
Redirected(command) == {command.input, command.output} \ {NoFile}
Named(command) == Redirected(command) \cup {command.file}
Startable(line) ==
  /\ Len(line) <= Cardinality(Slots)
  /\ \A i \in DOMAIN line :
       /\ line[i].program \in Programs
       /\ Redirected(line[i]) \subseteq Files
       /\ line[i].input = line[i].output => line[i].input = NoFile
       /\ \A j \in DOMAIN line : i # j => Redirected(line[i]) \cap Named(line[j]) = {}

(* Every program but the first reads its standard input.                   *)
ReadsInput(command) == ProfileOf(command).source = "input"
Chained(line) == \A i \in DOMAIN line : i > 1 => ReadsInput(line[i])

(* The lines about which the shell keeps its word: it can start them, each *)
(* program reads what the one before it writes, at most one is rgen, and   *)
(* none is tasklist, which does not close what it opens.                   *)
Orderly(line) ==
  /\ Startable(line) /\ Chained(line)
  /\ \A i, j \in DOMAIN line :
       /\ line[i].program # "tasklist"
       /\ i # j /\ line[i].program = "rgen" => line[j].program # "rgen"
AllOrderly == \A i \in DOMAIN typed : Orderly(typed[i])

(* After orderly lines nothing is left of them when the prompt comes back: *)
(* no process, no descriptor, whoever closed it, shell or program.         *)
NothingIsLeft ==
  shell.pc = "prompt" /\ AllOrderly =>
    /\ \A s \in Slots : process[s] = NoProcess
    /\ Free = Id \ {In, Out}

(* The pipe into which a program of an orderly line writes is not closed   *)
(* before the program has written everything: what follows it in the line  *)
(* sees the end of its input only then.                                    *)
OutputArrives ==
  AllOrderly =>
    \A s \in Slots :
      /\ process[s] # NoProcess /\ process[s].output.kind = "write"
      /\ process[s].texts # << >>
      => /\ ~closed[process[s].output.of]
         /\ descriptors[process[s].handle_out] = process[s].output

(* sort closes its standard input although it did not open it, and the     *)
(* shell closes the same number once more, when it may belong to a file of *)
(* another program.  In a line in which only the first program opens one   *)
(* it does not, nor in lines of up to three programs: the number of the    *)
(* write end is lower and free by then, and a file takes it.  So a file    *)
(* that a running program has opened stays open until it closes it itself. *)
FilesStayOpen ==
  (\A i \in DOMAIN typed :
     Startable(typed[i]) /\ (Chained(typed[i]) \/ Len(typed[i]) <= 3)) =>
    \A s \in Slots :
      at[Main(s)] \in {"read", "close"} /\ ProfileIn(s).source = "file" =>
        descriptors[process[s].handle] = Element("file", process[s].command.file)

WaitsForUser ==
  \E t \in Thread : at[t] = "read" /\ descriptors[process[t[1]].handle] = Console(In)

(* An orderly line ends and the prompt comes back, unless a program waits  *)
(* for the user: nobody waits for a process that waits for bytes, for room *)
(* or for an end that only somebody waiting could bring.                   *)
LineEnds == (shell.pc # "prompt" /\ AllOrderly) ~> (shell.pc = "prompt" \/ WaitsForUser)
=============================================================================
