---------------------------- MODULE Task_Manager ----------------------------
(***************************************************************************)
(* Processes and threads of the kernel: Task_Manager.cpp with the process  *)
(* and thread control blocks it is made of, and the keys of the table of   *)
(* working directories it fills for a new process.                         *)
(*                                                                         *)
(* The kernel takes no lock here.  A system call is modelled step by step, *)
(* one access to the shared tables after the other, and the threads of all *)
(* processes interleave between the steps.  One access to a container is   *)
(* atomic; what two simultaneous writes do to an unordered_map is left     *)
(* out.  Thread identifiers are those of the host: one is never given out  *)
(* twice, because the kernel never closes the handle of a thread.          *)
(***************************************************************************)
EXTENDS Naturals, FiniteSets

CONSTANTS
  PidLimit,     \* constants::process_limit, 16 in the code
  Tid,          \* thread identifiers of the host (bound: how many threads start)
  Boot,         \* the thread that runs Bootstrap_Loader
  NoTid,        \* the identifier 0, which is no thread's
  SingleShell   \* TRUE: only the bootstrap thread and the first process (the
                \* shell) create processes; FALSE: every program may

ASSUME PidLimitAssumption == PidLimit \in Nat /\ PidLimit > 1
ASSUME TidAssumption == Boot \in Tid /\ NoTid \notin Tid
ASSUME SingleShellAssumption == SingleShell \in BOOLEAN

Pid == 0 .. (PidLimit - 1)
NoPid == PidLimit         \* a thread without an entry in thread_table
Kernel == 0
Shell == 1

VARIABLES
  state,           \* Process_Control_Block::state of each slot
  main_tid,        \* Process_Control_Block::tid
  thread_list,     \* the keys of Process_Control_Block::thread_list
  ppid,            \* Thread_Control_Block::ppid
  thread_table,    \* Task_Manager::thread_table
  cwd_mapping,     \* the keys of Dummy_CWD_Holder::cwd_mapping
  shutdown_event,  \* Task_Manager::shutdown_event is set
  at,              \* what each thread of the host is doing
  program,         \* the threads that run a program, not a thread procedure
  slot,            \* the process slot a thread's system call works on
  born,            \* the thread its Clone has started
  exec,            \* whether its Clone creates a process
  awaited,         \* the threads it waits for
  children,        \* the process handles it got from Clone and still holds
  siblings,        \* the thread handles it got from Clone and still holds
  crashed          \* a null pointer was used, or an exception left the kernel

vars == <<state, main_tid, thread_list, ppid, thread_table, cwd_mapping,
          shutdown_event, at, program, slot, born, exec, awaited, children, siblings,
          crashed>>

(* "user": a thread runs its program.  The others are the steps of Clone,  *)
(* of the waiting calls and of Shutdown, named by what is done next.       *)
Step == {"unborn", "user", "ended", "allocate", "start", "insert", "publish",
         "inherit", "wait_for", "read_exit", "unpublish", "remove", "free", "clear",
         "sweep"}

(* The steps of a call that has found its slot.                            *)
OnSlot == {"allocate", "start", "insert", "publish", "inherit", "remove", "free",
           "clear", "sweep"}

Alive(t) == at[t] \notin {"unborn", "ended"}
Goto(t, step) == at' = [at EXCEPT ![t] = step]

(* get_thread finds the control block of a thread through both tables.     *)
Registered(t) ==
  /\ thread_table[t] # NoPid
  /\ t \in thread_list[thread_table[t]]

Init ==
  /\ state = [p \in Pid |-> IF p = Kernel THEN "RUNNING" ELSE "FREE"]
  /\ main_tid = [p \in Pid |-> IF p = Kernel THEN Boot ELSE NoTid]
  /\ thread_list = [p \in Pid |-> IF p = Kernel THEN {Boot} ELSE {}]
  /\ ppid = [t \in Tid |-> IF t = Boot THEN Kernel ELSE NoPid]
  /\ thread_table = [t \in Tid |-> IF t = Boot THEN Kernel ELSE NoPid]
  /\ cwd_mapping = {Kernel}
  /\ shutdown_event = FALSE
  /\ at = [t \in Tid |-> IF t = Boot THEN "user" ELSE "unborn"]
  /\ program = {Boot}
  /\ slot = [t \in Tid |-> NoPid]
  /\ born = [t \in Tid |-> NoTid]
  /\ exec = [t \in Tid |-> FALSE]
  /\ awaited = [t \in Tid |-> {}]
  /\ children = [t \in Tid |-> {}]
  /\ siblings = [t \in Tid |-> {}]
  /\ crashed = FALSE

-----------------------------------------------------------------------------
(* Clone.                                                                  *)

FreeSlots == {p \in Pid : state[p] = "FREE"}

(* What programs do: the bootstrap thread clones the shell, once.          *)
MayCreateProcess(t) ==
  /\ t \in program
  /\ IF t = Boot THEN born[t] = NoTid ELSE SingleShell => ppid[t] = Shell

(* create_process: alloc_first_free looks for the first free slot.  With   *)
(* none left the call fails and nothing changes.                           *)
CreateProcess(t) ==
  /\ at[t] = "user"
  /\ MayCreateProcess(t)
  /\ \E p \in FreeSlots :
       /\ \A q \in FreeSlots : p <= q
       /\ slot' = [slot EXCEPT ![t] = p]
  /\ exec' = [exec EXCEPT ![t] = TRUE]
  /\ Goto(t, "allocate")
  /\ UNCHANGED <<state, main_tid, thread_list, ppid, thread_table, cwd_mapping,
                 shutdown_event, program, born, awaited, children, siblings, crashed>>

(* The slot that was found is marked, whatever happened to it since.       *)
Allocate(t) ==
  /\ at[t] = "allocate"
  /\ state' = [state EXCEPT ![slot[t]] = "READY"]
  /\ Goto(t, "start")
  /\ UNCHANGED <<main_tid, thread_list, ppid, thread_table, cwd_mapping,
                 shutdown_event, program, slot, born, exec, awaited, children,
                 siblings, crashed>>

(* Create_Thread: a thread of the calling process, which get_current_-     *)
(* process finds.  The programs call it from their main thread.            *)
CreateThread(t) ==
  /\ at[t] = "user"
  /\ t \in program \ {Boot}
  /\ Registered(t)
  /\ slot' = [slot EXCEPT ![t] = ppid[t]]
  /\ exec' = [exec EXCEPT ![t] = FALSE]
  /\ Goto(t, "start")
  /\ UNCHANGED <<state, main_tid, thread_list, ppid, thread_table, cwd_mapping,
                 shutdown_event, program, born, awaited, children, siblings, crashed>>

(* The constructor of the control block calls CreateThread of the host:    *)
(* the new thread runs from here on, before any table knows it.            *)
StartThread(t) ==
  /\ at[t] = "start"
  /\ \E c \in Tid :
       /\ at[c] = "unborn"
       /\ born' = [born EXCEPT ![t] = c]
       /\ ppid' = [ppid EXCEPT ![c] = slot[t]]
       /\ at' = [at EXCEPT ![t] = "insert", ![c] = "user"]
       /\ program' = IF exec[t] THEN program \cup {c} ELSE program
  /\ UNCHANGED <<state, main_tid, thread_list, thread_table, cwd_mapping,
                 shutdown_event, slot, exec, awaited, children, siblings, crashed>>

(* GetProcAddress does not know the program: the slot is freed again and   *)
(* the call fails.  The shell is known.                                    *)
ProgramNotFound(t) ==
  /\ at[t] = "start"
  /\ exec[t]
  /\ t # Boot
  /\ Goto(t, "free")
  /\ UNCHANGED <<state, main_tid, thread_list, ppid, thread_table, cwd_mapping,
                 shutdown_event, program, slot, born, exec, awaited, children,
                 siblings, crashed>>

(* thread_insert, once the identifier is known: the control block gets its *)
(* key, and the first thread of a process makes it RUNNING.                *)
InsertThread(t) ==
  /\ at[t] = "insert"
  /\ LET p == slot[t]
     IN /\ thread_list' = [thread_list EXCEPT ![p] = @ \cup {born[t]}]
        /\ IF thread_list[p] = {}
           THEN /\ state' = [state EXCEPT ![p] = "RUNNING"]
                /\ main_tid' = [main_tid EXCEPT ![p] = born[t]]
           ELSE UNCHANGED <<state, main_tid>>
  /\ Goto(t, "publish")
  /\ UNCHANGED <<ppid, thread_table, cwd_mapping, shutdown_event, program, slot, born,
                 exec, awaited, children, siblings, crashed>>

(* thread_table.emplace; Create_Thread then returns the new identifier.    *)
PublishThread(t) ==
  /\ at[t] = "publish"
  /\ thread_table' = [thread_table EXCEPT
                        ![born[t]] = IF @ = NoPid THEN slot[t] ELSE @]
  /\ IF exec[t]
     THEN Goto(t, "inherit") /\ UNCHANGED siblings
     ELSE /\ Goto(t, "user")
          /\ siblings' = [siblings EXCEPT ![t] = @ \cup {born[t]}]
  /\ UNCHANGED <<state, main_tid, thread_list, ppid, cwd_mapping, shutdown_event,
                 program, slot, born, exec, awaited, children, crashed>>

(* The caller's working directory is found.                                *)
HasDirectory(t) == Registered(t) /\ ppid[t] \in cwd_mapping

(* Inherit, the last step of create_process: the child, which already      *)
(* runs, gets the directory of the caller; the call returns the slot.      *)
InheritDirectory(t) ==
  /\ at[t] = "inherit"
  /\ HasDirectory(t)
  /\ cwd_mapping' = cwd_mapping \cup {slot[t]}
  /\ children' = [children EXCEPT ![t] = @ \cup {slot[t]}]
  /\ Goto(t, "user")
  /\ UNCHANGED <<state, main_tid, thread_list, ppid, thread_table, shutdown_event,
                 program, slot, born, exec, awaited, siblings, crashed>>

-----------------------------------------------------------------------------
(* Wait_For and Read_Exit_Code.                                            *)

Handles(t) == (children[t] \X {"process"}) \cup (siblings[t] \X {"thread"})

(* get_thread of a handle: of a process, the thread its block names.       *)
Target(h) == IF h[2] = "process" THEN main_tid[h[1]] ELSE h[1]

IsValidHandle(h) ==
  IF h[2] = "process" THEN state[h[1]] # "FREE" ELSE thread_table[h[1]] # NoPid

Resolves(h) == IsValidHandle(h) /\ Target(h) \in Tid /\ Registered(Target(h))

(* All handles are resolved before the call blocks; the thread behind one  *)
(* that is not valid is a null pointer.                                    *)
WaitFor(t) ==
  /\ at[t] = "user"
  /\ t # Boot
  /\ \E H \in SUBSET Handles(t) :
       /\ H # {}
       /\ \A h \in H : Resolves(h)
       /\ awaited' = [awaited EXCEPT ![t] = {Target(h) : h \in H}]
  /\ Goto(t, "wait_for")
  /\ UNCHANGED <<state, main_tid, thread_list, ppid, thread_table, cwd_mapping,
                 shutdown_event, program, slot, born, exec, children, siblings,
                 crashed>>

(* An invalid handle is refused; a program uses its handle for one call.   *)
ReadExitCode(t) ==
  /\ at[t] = "user"
  /\ \E h \in Handles(t) :
       /\ IF h[2] = "process"
          THEN children' = [children EXCEPT ![t] = @ \ {h[1]}] /\ UNCHANGED siblings
          ELSE siblings' = [siblings EXCEPT ![t] = @ \ {h[1]}] /\ UNCHANGED children
       /\ IF IsValidHandle(h)
          THEN /\ Resolves(h)
               /\ awaited' = [awaited EXCEPT ![t] = {Target(h)}]
               /\ Goto(t, "read_exit")
          ELSE UNCHANGED <<awaited, at>>
  /\ UNCHANGED <<state, main_tid, thread_list, ppid, thread_table, cwd_mapping,
                 shutdown_event, program, slot, born, exec, crashed>>

(* Mutant: the event counts as the end of a thread.                        *)
SignalledByEvent(t) == {h \in awaited[t] : at[h] = "ended" \/ shutdown_event}

(* The threads a blocked call waits for that have ended.                   *)
Signalled(t) == {h \in awaited[t] : at[h] = "ended"}

(* Mutant: the event is not among the objects.                             *)
UnblockedByThread(t) == Signalled(t) # {}

(* A thread has ended, or the shutdown event is set.                       *)
Unblocked(t) == Signalled(t) # {} \/ shutdown_event

(* Mutant: the call that line 242 has in a comment is made.                *)
WaitForCleansUp(t) ==
  /\ at[t] = "wait_for"
  /\ Unblocked(t)
  /\ Goto(t, IF Signalled(t) = {} THEN "user" ELSE "unpublish")
  /\ awaited' = [awaited EXCEPT ![t] = Signalled(t)]
  /\ UNCHANGED <<state, main_tid, thread_list, ppid, thread_table, cwd_mapping,
                 shutdown_event, program, slot, born, exec, children, siblings,
                 crashed>>

WaitForReturns(t) ==
  /\ at[t] = "wait_for"
  /\ Unblocked(t)
  /\ awaited' = [awaited EXCEPT ![t] = {}]
  /\ Goto(t, "user")
  /\ UNCHANGED <<state, main_tid, thread_list, ppid, thread_table, cwd_mapping,
                 shutdown_event, program, slot, born, exec, children, siblings,
                 crashed>>

(* The thread comes first among the objects, the event second; only a      *)
(* thread that has ended is cleaned up.                                    *)
ReadExitReturns(t) ==
  /\ at[t] = "read_exit"
  /\ Unblocked(t)
  /\ Goto(t, IF Signalled(t) = {} THEN "user" ELSE "unpublish")
  /\ awaited' = [awaited EXCEPT ![t] = Signalled(t)]
  /\ UNCHANGED <<state, main_tid, thread_list, ppid, thread_table, cwd_mapping,
                 shutdown_event, program, slot, born, exec, children, siblings,
                 crashed>>

(* Mutant: a process loses the entry of its main thread only.              *)
OwnEntry(h) == {h}

(* clean_up_thread_handle: with its main thread a process loses all its    *)
(* entries in thread_table, otherwise the thread loses its own.            *)
CleanedUp(h) ==
  IF main_tid[thread_table[h]] = h
  THEN {u \in Tid : thread_table[u] = thread_table[h]}
  ELSE {h}

Unpublish(t) ==
  /\ at[t] = "unpublish"
  /\ \E h \in awaited[t] :
       LET p == thread_table[h] IN
       IF p = NoPid
       THEN /\ Goto(t, "user")
            /\ awaited' = [awaited EXCEPT ![t] = {}]
            /\ UNCHANGED <<thread_table, slot>>
       ELSE /\ Goto(t, IF main_tid[p] = h THEN "free" ELSE "remove")
            /\ slot' = [slot EXCEPT ![t] = p]
            /\ thread_table' =
                 [u \in Tid |-> IF u \in CleanedUp(h) THEN NoPid ELSE thread_table[u]]
            /\ UNCHANGED awaited
  /\ UNCHANGED <<state, main_tid, thread_list, ppid, cwd_mapping, shutdown_event,
                 program, born, exec, children, siblings, crashed>>

(* thread_remove of a thread that is not the main one.                     *)
RemoveThread(t) ==
  /\ at[t] = "remove"
  /\ thread_list' = [thread_list EXCEPT ![slot[t]] = @ \ awaited[t]]
  /\ awaited' = [awaited EXCEPT ![t] = {}]
  /\ Goto(t, "user")
  /\ UNCHANGED <<state, main_tid, ppid, thread_table, cwd_mapping, shutdown_event,
                 program, slot, born, exec, children, siblings, crashed>>

(* Process_Control_Block::free: the slot is free before its threads go.    *)
FreeSlot(t) ==
  /\ at[t] = "free"
  /\ state' = [state EXCEPT ![slot[t]] = "FREE"]
  /\ awaited' = [awaited EXCEPT ![t] = {}]
  /\ Goto(t, "clear")
  /\ UNCHANGED <<main_tid, thread_list, ppid, thread_table, cwd_mapping,
                 shutdown_event, program, slot, born, exec, children, siblings, crashed>>

ClearThreads(t) ==
  /\ at[t] = "clear"
  /\ thread_list' = [thread_list EXCEPT ![slot[t]] = {}]
  /\ Goto(t, "user")
  /\ UNCHANGED <<state, main_tid, ppid, thread_table, cwd_mapping, shutdown_event,
                 program, slot, born, exec, awaited, children, siblings, crashed>>

-----------------------------------------------------------------------------
(* The ends of threads, Exit and Shutdown.                                 *)

(* A program returns to procedure_wrapper; the bootstrap thread does after *)
(* its Clone and its Read_Exit_Code.  No table learns of it.               *)
Return(t) ==
  /\ at[t] = "user"
  /\ t = Boot => born[t] # NoTid /\ children[t] = {}
  /\ Goto(t, "ended")
  /\ UNCHANGED <<state, main_tid, thread_list, ppid, thread_table, cwd_mapping,
                 shutdown_event, program, slot, born, exec, awaited, children, siblings,
                 crashed>>

(* Exit ends the calling thread, whose control block it looks up first.    *)
Exit(t) ==
  /\ at[t] = "user"
  /\ t # Boot
  /\ IF Registered(t) THEN Goto(t, "ended") /\ UNCHANGED crashed
     ELSE crashed' = TRUE /\ UNCHANGED at
  /\ UNCHANGED <<state, main_tid, thread_list, ppid, thread_table, cwd_mapping,
                 shutdown_event, program, slot, born, exec, awaited, children,
                 siblings>>

(* The calls, besides Exit, that find no control block or directory of the *)
(* caller, or no thread of a handle: a null pointer, or at() throws.       *)
Crash(t) ==
  /\ \/ at[t] = "user" /\ t # Boot /\ ~HasDirectory(t)
     \/ at[t] = "user" /\ \E h \in Handles(t) : ~Resolves(h)
     \/ at[t] = "inherit" /\ ~HasDirectory(t)
  /\ crashed' = TRUE
  /\ UNCHANGED <<state, main_tid, thread_list, ppid, thread_table, cwd_mapping,
                 shutdown_event, at, program, slot, born, exec, awaited, children,
                 siblings>>

(* Set_Value of the caller's process.                                      *)
SetDirectory(t) ==
  /\ at[t] = "user"
  /\ t # Boot
  /\ Registered(t)
  /\ cwd_mapping' = cwd_mapping \cup {ppid[t]}
  /\ UNCHANGED <<state, main_tid, thread_list, ppid, thread_table, shutdown_event, at,
                 program, slot, born, exec, awaited, children, siblings, crashed>>

Shutdown(t) ==
  /\ at[t] = "user"
  /\ t # Boot
  /\ shutdown_event' = TRUE
  /\ slot' = [slot EXCEPT ![t] = Shell]
  /\ Goto(t, "sweep")
  /\ UNCHANGED <<state, main_tid, thread_list, ppid, thread_table, cwd_mapping, program,
                 born, exec, awaited, children, siblings, crashed>>

(* Mutant: the sweep goes one slot too far.                                *)
PastLastSlot == PidLimit

LastSlot == PidLimit - 1

(* terminate of the next slot: every thread of its list is terminated,     *)
(* where it stands, the caller too: then the threads before it in the list *)
(* have ended, and nothing more happens.                                   *)
Sweep(t) ==
  /\ at[t] = "sweep"
  /\ LET p == slot[t]
         Terminated(T) == [u \in Tid |-> IF u \in T /\ Alive(u) THEN "ended" ELSE at[u]]
     IN \/ /\ t \in thread_list[p]
           /\ \E T \in SUBSET thread_list[p] : t \in T /\ at' = Terminated(T)
           /\ UNCHANGED <<state, slot>>
        \/ /\ t \notin thread_list[p]
           /\ state' = [state EXCEPT ![p] = "FINISHED"]
           /\ at' = [Terminated(thread_list[p]) EXCEPT
                       ![t] = IF p < LastSlot THEN "sweep" ELSE "user"]
           /\ slot' = [slot EXCEPT ![t] = IF p < LastSlot THEN p + 1 ELSE p]
  /\ UNCHANGED <<main_tid, thread_list, ppid, thread_table, cwd_mapping, shutdown_event,
                 program, born, exec, awaited, children, siblings, crashed>>

-----------------------------------------------------------------------------
Request(t) ==
  \/ CreateProcess(t) \/ CreateThread(t) \/ WaitFor(t) \/ ReadExitCode(t)
  \/ Return(t) \/ Exit(t) \/ Crash(t) \/ SetDirectory(t) \/ Shutdown(t)

Continue(t) ==
  \/ Allocate(t) \/ StartThread(t) \/ ProgramNotFound(t) \/ InsertThread(t)
  \/ PublishThread(t) \/ InheritDirectory(t)
  \/ WaitForReturns(t) \/ ReadExitReturns(t) \/ Unpublish(t) \/ RemoveThread(t)
  \/ FreeSlot(t) \/ ClearThreads(t) \/ Sweep(t)

Next == ~crashed /\ \E t \in Tid : Request(t) \/ Continue(t)

Spec == Init /\ [][Next]_vars

(* The host runs every thread.  A thread inside the kernel goes on, and    *)
(* the bootstrap thread follows its script; a program need not ask for     *)
(* anything, nor end.                                                      *)
FairSpec ==
  /\ Spec
  /\ \A t \in Tid : WF_vars(~crashed /\ Continue(t))
  /\ WF_vars(~crashed /\ Request(Boot))

-----------------------------------------------------------------------------
(* Each component has its type, and a call that works on a slot has one.   *)
TypeOK ==
  /\ state \in [Pid -> {"FREE", "READY", "RUNNING", "FINISHED"}]
  /\ main_tid \in [Pid -> Tid \cup {NoTid}]
  /\ thread_list \in [Pid -> SUBSET Tid]
  /\ ppid \in [Tid -> Pid \cup {NoPid}]
  /\ thread_table \in [Tid -> Pid \cup {NoPid}]
  /\ cwd_mapping \in SUBSET Pid
  /\ shutdown_event \in BOOLEAN
  /\ at \in [Tid -> Step]
  /\ program \in SUBSET Tid
  /\ slot \in [Tid -> Pid \cup {NoPid}]
  /\ born \in [Tid -> Tid \cup {NoTid}]
  /\ exec \in [Tid -> BOOLEAN]
  /\ awaited \in [Tid -> SUBSET Tid]
  /\ children \in [Tid -> SUBSET Pid]
  /\ siblings \in [Tid -> SUBSET Tid]
  /\ crashed \in BOOLEAN
  /\ \A t \in Tid : at[t] \in OnSlot => slot[t] \in Pid

(* The two tables tell the same story about a thread: an entry of          *)
(* thread_table leads to the process that started the thread, whose slot   *)
(* is in use and whose list has the control block (get_thread relies on    *)
(* it), and a list holds threads of its own process only.                  *)
TablesAgree ==
  /\ \A t \in Tid : thread_table[t] # NoPid =>
       /\ thread_table[t] = ppid[t]
       /\ t \in thread_list[ppid[t]]
       /\ state[ppid[t]] # "FREE"
  /\ \A p \in Pid : \A t \in thread_list[p] : ppid[t] = p

(* A handle stays good until its holder reads the exit code: a process     *)
(* handle names a slot in use, with a registered main thread of its own    *)
(* and a working directory, a thread handle a registered thread; and       *)
(* nobody else holds it.                                                   *)
HandlesResolve ==
  \A t \in Tid : Alive(t) =>
    /\ \A p \in children[t] :
         /\ state[p] \in {"RUNNING", "FINISHED"}
         /\ p \in cwd_mapping
         /\ main_tid[p] \in Tid
         /\ Registered(main_tid[p])
         /\ ppid[main_tid[p]] = p
         /\ \A u \in Tid \ {t} : Alive(u) => p \notin children[u]
    /\ \A s \in siblings[t] : Registered(s) /\ ppid[s] = ppid[t]

(* A slot whose process has threads is freed by Read_Exit_Code of its main *)
(* thread and after that thread has ended (257).  Other threads of the     *)
(* process may still run then, which 88-97 do not ask about.               *)
SlotsAreFreedLate ==
  [][\A p \in Pid :
       state[p] # "FREE" /\ state'[p] = "FREE" /\ thread_list[p] # {}
         => at[main_tid[p]] = "ended"]_vars

(* However the threads stand when Shutdown signals its event, and although *)
(* the caller may terminate itself on the way, the bootstrap thread gets   *)
(* out of its Read_Exit_Code and ends.                                     *)
BootstrapEnds == shutdown_event ~> at[Boot] = "ended" \/ crashed

(* api.h:95: Clone returns the handle of the new process, so no two calls  *)
(* return the same one while it is held.                                   *)
HandlesAreDistinct ==
  \A t, u \in Tid : t # u /\ Alive(t) /\ Alive(u) => children[t] \cap children[u] = {}
=============================================================================
