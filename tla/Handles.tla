------------------------------ MODULE Handles ------------------------------
(***************************************************************************)
(* Open handles and working directories: Handler_Table, Path_Handlers and  *)
(* the system calls that work through them (close_handle, open_file,       *)
(* create_pipe, delete_file, set_cwd), with the directory tree reduced to  *)
(* which paths have an entry.                                              *)
(*                                                                         *)
(* No lock protects a call: another process may run between the look at a  *)
(* map, the entry of a path or the table of descriptors and each change of *)
(* one.  A look-up with the reading of what it finds is one step, and so   *)
(* is each change; what simultaneous writes do inside a std::map or a      *)
(* std::vector is left out.  An entry that was erased and made again       *)
(* between two steps of a call is taken for the one the call has found.    *)
(***************************************************************************)
EXTENDS Integers, FiniteSets

CONSTANTS
  Process,      \* processes (bound: each is started once)
  FirstShell,   \* the process that is there first
  Shells,       \* the processes that run the shell: they cd and start others
  Path,         \* normalised paths
  Root,         \* "\"
  Dirs,         \* the paths that, when they exist, are directories
  Parent,       \* the directory above each path
  MaxId,        \* the highest descriptor (bound)
  MaxCount,     \* the highest cwd_count (bound)
  Unnamed,      \* an element without a path: console, pipe end, \proc
  NoElement,    \* nullptr in the descriptor table
  Beyond,       \* what is past the end of the descriptor table
  NoPath,       \* no entry in map_id_path
  NoInfo,       \* no entry in map_path_handle
  Serial        \* what waits for its like, as for a lock: calls about one
                \* path ("path"), searches for a descriptor ("search"); in the
                \* code nothing does

ASSUME ProcessAssumption == FirstShell \in Shells /\ Shells \subseteq Process
ASSUME PathAssumption ==
  Root \in Dirs /\ Dirs \subseteq Path /\ Parent \in [Path -> Dirs]
ASSUME BoundAssumption == MaxId \in Nat /\ MaxId > 1 /\ MaxCount \in Nat
ASSUME NothingAssumption ==
  /\ {Unnamed, NoElement, Beyond, NoPath} \cap Path = {}
  /\ Unnamed # NoElement /\ Unnamed # Beyond /\ NoElement # Beyond
  /\ NoInfo \notin [cwd_count : Int, is_open : BOOLEAN, id : 0 .. MaxId]
ASSUME SerialAssumption == Serial \subseteq {"path", "search"}

Id == 0 .. MaxId
Info == [cwd_count : Int, is_open : BOOLEAN, id : Id]

VARIABLES
  descriptors,      \* Handler_Table::descriptors
  map_id_path,      \* Path_Handlers::map_id_path
  map_path_handle,  \* Path_Handlers::map_path_handle
  entries,          \* the paths below the root that have a directory entry
  cwd,              \* the working directory of each process
  pc,               \* where each process is in its system call
  step,             \* where it is in a call of Path_Handlers or Handler_Table
  target,           \* the path of its call, the root between calls
  number,           \* the descriptor its call has found
  held              \* the descriptors it got and has not closed

tables == <<descriptors, map_id_path, map_path_handle>>
local == <<pc, step, target, number>>
vars == <<tables, entries, cwd, local, held>>

(* Calls about an element without a path, and those that add a path.       *)
Unnamed_Calls == {"pipe_write", "pipe_read", "proc", "close_element"}
Adds == {"open_add", "open_cwd_add", "create_add", "cwd_add"}
PC == {"unborn", "idle", "ended", "open", "open_lookup", "close", "delete_remove",
       "create_remove", "create_entry", "cwd_try", "cwd_open", "cwd_set", "cwd_unset"}
      \cup Unnamed_Calls \cup Adds

(* "out": in no call of the two classes.                                   *)
Step == {"out", "search", "assign", "append", "insert_path", "insert_id", "change",
         "get_element", "test", "erase_path", "erase_id", "erase_element"}

Exists(x) == x = Root \/ x \in entries

Init ==
  /\ descriptors = [i \in Id |-> IF i < 2 THEN Unnamed ELSE Beyond]
  /\ map_id_path = [i \in Id |-> NoPath]
  /\ map_path_handle = [x \in Path |-> NoInfo]
  /\ entries = {}
  /\ cwd = [p \in Process |-> Root]
  /\ pc = [p \in Process |-> IF p = FirstShell THEN "idle" ELSE "unborn"]
  /\ step = [p \in Process |-> "out"]
  /\ target = [p \in Process |-> Root]
  /\ number = [p \in Process |-> 0]
  /\ held = [p \in Process |-> {}]

(* A process that is not inside a call begins one.                         *)
MayStart(p) == pc[p] = "idle"

Goto(p, call, s, x, i) ==
  /\ pc' = [pc EXCEPT ![p] = call]
  /\ step' = [step EXCEPT ![p] = s]
  /\ target' = [target EXCEPT ![p] = x]
  /\ number' = [number EXCEPT ![p] = i]
Continue(p, call) == Goto(p, call, "out", target[p], 0)
Inside(p, s) == Goto(p, pc[p], s, target[p], number[p])
Finish(p) == Goto(p, "idle", "out", Root, 0)
Hold(p, i) == held' = [held EXCEPT ![p] = @ \cup {i}]

(* Whether p is inside a call of Path_Handlers about x.                    *)
Busy(p, x) == step[p] # "out" /\ pc[p] \notin Unnamed_Calls /\ target[p] = x
MayEnter(p, x) == "path" \in Serial => \A q \in Process \ {p} : ~Busy(q, x)
MaySearch == "search" \in Serial => \A q \in Process : step[q] \notin {"assign", "append"}

-----------------------------------------------------------------------------
(* Create_Descriptor: the lowest slot without an element is looked for,    *)
(* and then the element is put there, or at the end of the table, where    *)
(* its number is what the size was before.                                 *)
IsFree(i) == descriptors[i] \in {NoElement, Beyond}

Search(p) ==
  /\ step[p] = "search"
  /\ MaySearch
  /\ \E i \in Id :
       /\ IsFree(i) /\ \A j \in 0 .. (i - 1) : ~IsFree(j)
       /\ Goto(p, pc[p], IF descriptors[i] = NoElement THEN "assign" ELSE "append", target[p], i)
  /\ UNCHANGED <<tables, entries, cwd, held>>

IsEnd(i) == descriptors[i] = Beyond /\ \A j \in 0 .. (i - 1) : descriptors[j] # Beyond

(* The descriptor of a pipe's end or of \proc is what the caller gets.     *)
Assign(p) ==
  /\ step[p] \in {"assign", "append"}
  /\ \E i \in Id :
       /\ IF step[p] = "assign" THEN i = number[p] ELSE IsEnd(i)
       /\ descriptors' =
            [descriptors EXCEPT ![i] = IF pc[p] \in Unnamed_Calls THEN Unnamed ELSE target[p]]
  /\ IF pc[p] \notin Unnamed_Calls THEN Inside(p, "insert_path") /\ UNCHANGED held
     ELSE /\ Hold(p, number[p])
          /\ IF pc[p] = "pipe_write" THEN Goto(p, "pipe_read", "search", Root, 0) ELSE Finish(p)
  /\ UNCHANGED <<map_id_path, map_path_handle, entries, cwd>>

-----------------------------------------------------------------------------
(* Path_Handlers.                                                          *)

(* Check_If_Exists.                                                        *)
Registered(x) == map_path_handle[x] # NoInfo

(* Add_Path_Element, which fails if the path has an entry by now: an open  *)
(* or a creation then fails, set_cwd does not look.                        *)
Add(p) ==
  /\ step[p] = "out" /\ pc[p] \in Adds
  /\ MayEnter(p, target[p])
  /\ IF ~Registered(target[p]) THEN Inside(p, "search")
     ELSE IF pc[p] = "cwd_add" THEN Continue(p, "cwd_set") ELSE Finish(p)
  /\ UNCHANGED <<tables, entries, cwd, held>>

(* Add_Handle: the element has its descriptor and gets an entry in each    *)
(* map, where insert keeps what is there.  The working directory opened by *)
(* "." is counted besides.                                                 *)
Added(p) == [cwd_count |-> IF pc[p] \in {"open_cwd_add", "cwd_add"} THEN 1 ELSE 0,
             is_open |-> pc[p] # "cwd_add", id |-> number[p]]

InsertPath(p) ==
  /\ step[p] = "insert_path"
  /\ map_path_handle' =
       [map_path_handle EXCEPT ![target[p]] = IF @ = NoInfo THEN Added(p) ELSE @]
  /\ Inside(p, "insert_id")
  /\ UNCHANGED <<descriptors, map_id_path, entries, cwd, held>>

InsertId(p) ==
  /\ step[p] = "insert_id"
  /\ map_id_path' = [map_id_path EXCEPT ![number[p]] = IF @ = NoPath THEN target[p] ELSE @]
  /\ IF pc[p] = "cwd_add" THEN Continue(p, "cwd_set") /\ UNCHANGED held
     ELSE Finish(p) /\ Hold(p, number[p])
  /\ UNCHANGED <<descriptors, map_path_handle, entries, cwd>>

(* The entry that was found is changed: opened, closed, counted once more  *)
(* or once less.  Changes of one that was erased meanwhile show nowhere.   *)
Changed(p, info) ==
  CASE pc[p] = "open" -> [info EXCEPT !.is_open = TRUE]
    [] pc[p] = "close" -> [info EXCEPT !.is_open = FALSE]
    [] pc[p] = "cwd_try" -> [info EXCEPT !.cwd_count = @ + 1]
    [] pc[p] = "cwd_unset" -> [info EXCEPT !.cwd_count = @ - 1]

Change(p) ==
  /\ step[p] = "change"
  /\ map_path_handle' =
       [map_path_handle EXCEPT ![target[p]] = IF @ = NoInfo THEN @ ELSE Changed(p, @)]
  /\ IF pc[p] = "open" THEN Finish(p) /\ Hold(p, number[p])
     ELSE Inside(p, IF pc[p] = "cwd_try" THEN "get_element" ELSE "test") /\ UNCHANGED held
  /\ UNCHANGED <<descriptors, map_id_path, entries, cwd>>

(* Mutant: an entry stays for ever.                                        *)
NeverIdle(x) == FALSE

(* Only an idle entry is erased: by this call, or by another meanwhile.    *)
Idle(x) ==
  Registered(x) => map_path_handle[x].cwd_count <= 0 /\ ~map_path_handle[x].is_open

(* Try_Remove: the test, and the entry leaves both maps and the table.     *)
Test(p) ==
  /\ step[p] = "test"
  /\ IF Idle(target[p]) THEN Inside(p, "erase_path") ELSE Finish(p)
  /\ UNCHANGED <<tables, entries, cwd, held>>

ErasePath(p) ==
  /\ step[p] = "erase_path"
  /\ map_path_handle' = [map_path_handle EXCEPT ![target[p]] = NoInfo]
  /\ Inside(p, "erase_id")
  /\ UNCHANGED <<descriptors, map_id_path, entries, cwd, held>>

(* Mutant: the identifier keeps its path.                                  *)
PathsOfKept(i) == map_id_path

PathsWithout(i) == [map_id_path EXCEPT ![i] = NoPath]

EraseId(p) ==
  /\ step[p] = "erase_id"
  /\ map_id_path' = PathsWithout(number[p])
  /\ Inside(p, "erase_element")
  /\ UNCHANGED <<descriptors, map_path_handle, entries, cwd, held>>

(* Remove_Element.                                                         *)
Removed(i) == [descriptors EXCEPT ![i] = IF @ = Beyond THEN @ ELSE NoElement]

EraseElement(p) ==
  /\ step[p] = "erase_element"
  /\ descriptors' = Removed(number[p])
  /\ Finish(p)
  /\ UNCHANGED <<map_id_path, map_path_handle, entries, cwd, held>>

-----------------------------------------------------------------------------
(* close_handle of a descriptor the process got: an element without a path *)
(* is to leave the table, the entry of a path to be closed.                *)
Close(p) ==
  /\ MayStart(p)
  /\ \E i \in held[p] :
       /\ held' = [held EXCEPT ![p] = @ \ {i}]
       /\ IF map_id_path[i] = NoPath THEN Goto(p, "close_element", "erase_element", Root, i)
          ELSE MayEnter(p, map_id_path[i]) /\ Goto(p, "close", "change", map_id_path[i], i)
  /\ UNCHANGED <<tables, entries, cwd>>

(* create_pipe, the writing end first, and the opening of \proc.           *)
CreateDescriptors(p) ==
  /\ MayStart(p)
  /\ \E call \in {"pipe_write", "proc"} : Goto(p, call, "search", Root, 0)
  /\ UNCHANGED <<tables, entries, cwd, held>>

(* Mutant: an open path is handed out again.                               *)
AnyEntry(x) == Registered(x)

(* An entry that is there for a working directory only may be opened.      *)
Openable(x) == Registered(x) /\ ~map_path_handle[x].is_open

(* Try_Open_Element, the first step of open_file: an entry of the path is  *)
(* found, and may be marked, or the call goes on if there is none.  A path *)
(* of which the directory above does not exist is refused before           *)
(* (open_current and open_root go on without looking at the tree).         *)
Open(p) ==
  /\ MayStart(p)
  /\ \E x \in Path :
       /\ MayEnter(p, x)
       /\ \/ Openable(x) /\ Goto(p, "open", "change", x, map_path_handle[x].id)
          \/ ~Registered(x) /\ x = cwd[p] /\ Goto(p, "open_cwd_add", "out", x, 0)
          \/ ~Registered(x) /\ x = Root /\ Goto(p, "open_add", "out", x, 0)
          \/ ~Registered(x) /\ x # Root /\ Exists(Parent[x]) /\ Goto(p, "open_lookup", "out", x, 0)
  /\ UNCHANGED <<tables, entries, cwd, held>>

OpenLookup(p) ==
  /\ pc[p] = "open_lookup"
  /\ IF target[p] \in entries THEN Continue(p, "open_add") ELSE Finish(p)
  /\ UNCHANGED <<tables, entries, cwd, held>>

(* The first check of delete_file: the root stays, and so does a path that *)
(* is open or somebody's working directory.  create_file begins with the   *)
(* deletion of what has the name.                                          *)
Delete(p) ==
  /\ MayStart(p)
  /\ \E x \in Path \ {Root}, call \in {"delete_remove", "create_remove"} :
       ~Registered(x) /\ Goto(p, call, "out", x, 0)
  /\ UNCHANGED <<tables, entries, cwd, held>>

(* The file is removed with its entry, unless it is a directory with       *)
(* entries; a creation goes on with the name free.                         *)
Remove(p) ==
  /\ pc[p] \in {"delete_remove", "create_remove"}
  /\ LET x == target[p]
         empty == \A y \in entries : Parent[y] # x
     IN /\ entries' = IF empty THEN entries \ {x} ELSE entries
        /\ IF pc[p] = "create_remove" /\ (x \in entries => empty)
           THEN Continue(p, "create_entry") ELSE Finish(p)
  /\ UNCHANGED <<tables, cwd, held>>

(* Create_New_Entry: it may find the name taken, or no room.               *)
CreateEntry(p) ==
  /\ pc[p] = "create_entry"
  /\ \/ /\ target[p] \notin entries
        /\ Exists(Parent[target[p]])
        /\ entries' = entries \cup {target[p]}
        /\ Continue(p, "create_add")
     \/ UNCHANGED entries /\ Finish(p)
  /\ UNCHANGED <<tables, cwd, held>>

-----------------------------------------------------------------------------
(* set_cwd.                                                                *)

(* Mutant: files may be working directories.                               *)
AnyPath == Path

Directories == Dirs

(* Try_Set_CWD looks for an entry.                                         *)
SetCwd(p) ==
  /\ MayStart(p)
  /\ p \in Shells
  /\ \E x \in Path :
       /\ MayEnter(p, x)
       /\ IF Registered(x)
          THEN /\ map_path_handle[x].cwd_count < MaxCount
               /\ Goto(p, "cwd_try", "change", x, map_path_handle[x].id)
          ELSE Goto(p, "cwd_open", "out", x, 0)
  /\ UNCHANGED <<tables, entries, cwd, held>>

(* The entry is counted, and only then the element is looked at: nothing   *)
(* ("INCONSISTENT STATE"), a directory, or something else.                 *)
CwdElement(p) ==
  /\ step[p] = "get_element"
  /\ IF IsFree(number[p]) THEN Continue(p, "cwd_open")
     ELSE IF descriptors[number[p]] \in Directories THEN Continue(p, "cwd_set")
     ELSE Finish(p)
  /\ UNCHANGED <<tables, entries, cwd, held>>

(* Open_Directory looks the path up from the root.                         *)
CwdOpen(p) ==
  /\ pc[p] = "cwd_open"
  /\ IF Exists(target[p]) /\ target[p] \in Directories
     THEN Continue(p, "cwd_add") ELSE Finish(p)
  /\ UNCHANGED <<tables, entries, cwd, held>>

(* Set_CWD; the call goes on with the directory the process leaves.        *)
CwdSet(p) ==
  /\ pc[p] = "cwd_set"
  /\ cwd' = [cwd EXCEPT ![p] = target[p]]
  /\ Goto(p, "cwd_unset", "out", cwd[p], 0)
  /\ UNCHANGED <<tables, entries, held>>

(* Unset_CWD of that directory.                                            *)
CwdUnset(p) ==
  /\ pc[p] = "cwd_unset" /\ step[p] = "out"
  /\ MayEnter(p, target[p])
  /\ IF Registered(target[p])
     THEN Goto(p, "cwd_unset", "change", target[p], map_path_handle[target[p]].id)
     ELSE Finish(p)
  /\ UNCHANGED <<tables, entries, cwd, held>>

-----------------------------------------------------------------------------
(* A new process has the directory of the one that starts it; nothing is   *)
(* counted.  One that ends leaves its directory counted and its handles    *)
(* open.                                                                   *)
Spawn(p) ==
  /\ MayStart(p)
  /\ p \in Shells
  /\ \E c \in Process :
       /\ pc[c] = "unborn"
       /\ Finish(c)
       /\ cwd' = [cwd EXCEPT ![c] = cwd[p]]
  /\ UNCHANGED <<tables, entries, held>>

Exit(p) ==
  /\ MayStart(p)
  /\ Continue(p, "ended")
  /\ UNCHANGED <<tables, entries, cwd, held>>

(* The steps of the two classes.                                           *)
Registry(p) ==
  \/ Search(p) \/ Assign(p) \/ Add(p) \/ InsertPath(p) \/ InsertId(p)
  \/ Change(p) \/ Test(p) \/ ErasePath(p) \/ EraseId(p) \/ EraseElement(p)

Next ==
  \E p \in Process :
    \/ Registry(p)
    \/ Close(p) \/ CreateDescriptors(p) \/ Open(p) \/ OpenLookup(p)
    \/ Delete(p) \/ Remove(p) \/ CreateEntry(p)
    \/ SetCwd(p) \/ CwdElement(p) \/ CwdOpen(p) \/ CwdSet(p) \/ CwdUnset(p)
    \/ Spawn(p) \/ Exit(p)

Spec == Init /\ [][Next]_vars

-----------------------------------------------------------------------------
(* Each component has its type; a working directory is a directory.        *)
TypeOK ==
  /\ descriptors \in [Id -> Path \cup {Unnamed, NoElement, Beyond}]
  /\ map_id_path \in [Id -> Path \cup {NoPath}]
  /\ map_path_handle \in [Path -> Info \cup {NoInfo}]
  /\ entries \in SUBSET Path
  /\ cwd \in [Process -> Dirs]
  /\ pc \in [Process -> PC] /\ step \in [Process -> Step]
  /\ target \in [Process -> Path] /\ number \in [Process -> Id]
  /\ held \in [Process -> SUBSET Id]

Settled(x) == \A p \in Process : ~Busy(p, x)

(* The two maps are inverse to each other and the descriptor of a path has *)
(* its element, at every path that no call is at work on: what             *)
(* Close_Handle relies on without a look ("if not program is in            *)
(* inconsistent state, it's better to crash", path_handlers.cpp:34),       *)
(* whatever the order of opens, closes and changes of directory.           *)
MapsAgree ==
  \A x \in Path : Settled(x) =>
    /\ Registered(x) => /\ map_id_path[map_path_handle[x].id] = x
                        /\ descriptors[map_path_handle[x].id] = x
    /\ \A i \in Id : map_id_path[i] = x => Registered(x) /\ map_path_handle[x].id = i

(* A descriptor works from the call that returned it until its holder      *)
(* closes it, and nobody else gets it: a change of directory by another    *)
(* process does not take it away, and a path that is open is not handed    *)
(* out a second time (api.h:43 and 61).                                    *)
HandlesAreExclusive ==
  \A p \in Process : \A i \in held[p] :
    /\ ~IsFree(i)
    /\ map_id_path[i] # NoPath => LET info == map_path_handle[map_id_path[i]]
                                  IN info # NoInfo /\ info.is_open /\ info.id = i
    /\ \A q \in Process \ {p} : i \notin held[q]

(* An entry of a path is there for a reason, as soon as the call that took *)
(* the last one away is over: it is open or counted.                       *)
NoIdleEntries ==
  \A x \in Path : Settled(x) =>
    map_path_handle[x] = NoInfo \/ map_path_handle[x].is_open \/ map_path_handle[x].cwd_count > 0
=============================================================================
