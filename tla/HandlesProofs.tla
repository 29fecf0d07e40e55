--------------------------- MODULE HandlesProofs ---------------------------
(***************************************************************************)
(* For any processes, paths and bounds, when calls about one path, and     *)
(* searches for a descriptor, wait for each other: the tables of open      *)
(* handles agree, a handle works until its holder closes it, and no entry  *)
(* outlives its use, although calls about different paths may come between *)
(* any two accesses to the tables.                                         *)
(*                                                                         *)
(* In every state an element of the table leads to its path, and what is   *)
(* known of a path is where the call is that works on it (Place); a path   *)
(* that no call works on has all of its entries or none (Linked).  That a  *)
(* step of one call leaves what another relies on alone follows from the   *)
(* two paths, and with them the two descriptors, being different.          *)
(***************************************************************************)
EXTENDS Handles, TLAPS

(* Which steps belong to which calls; a change of directory past its first *)
(* checks is one to a directory.                                           *)
Fits(p) ==
  /\ step[p] \in {"search", "assign", "append"} => pc[p] \in Unnamed_Calls \cup Adds
  /\ step[p] \in {"insert_path", "insert_id"} => pc[p] \in Adds
  /\ step[p] = "change" => pc[p] \in {"open", "close", "cwd_try", "cwd_unset"}
  /\ step[p] = "get_element" => pc[p] = "cwd_try"
  /\ step[p] \in {"test", "erase_path", "erase_id"} => pc[p] \in {"close", "cwd_unset"}
  /\ step[p] = "erase_element" => pc[p] \in {"close", "cwd_unset", "close_element"}
  /\ pc[p] \in {"cwd_add", "cwd_set"} => target[p] \in Dirs

InUse(x) == map_path_handle[x].is_open \/ map_path_handle[x].cwd_count > 0

(* What the tables hold for the call of p: before its element is there,    *)
Before(p) ==
  /\ step[p] \in {"search", "assign", "append"} /\ pc[p] \in Adds
       => \A i \in Id : descriptors[i] # target[p]
  /\ step[p] = "assign" => descriptors[number[p]] = NoElement
  /\ step[p] = "append" => IsEnd(number[p])

(* and from then on; of an element without a path nobody has the number.   *)
Since(p) ==
  /\ step[p] \notin {"out", "search", "assign", "append"} /\ pc[p] # "close_element"
       => descriptors[number[p]] = target[p]
  /\ step[p] \in {"insert_path", "insert_id", "erase_element"} => map_id_path[number[p]] = NoPath
  /\ step[p] \in {"change", "get_element", "test", "erase_path", "erase_id"}
       => map_id_path[number[p]] = target[p]
  /\ step[p] \in {"insert_path", "erase_id"} => ~Registered(target[p])
  /\ step[p] = "erase_element" /\ pc[p] # "close_element" => ~Registered(target[p])
  /\ step[p] \in {"insert_id", "change", "get_element", "test", "erase_path"}
       => Registered(target[p])
  /\ pc[p] = "close_element" => /\ step[p] = "erase_element"
                                /\ descriptors[number[p]] = Unnamed
                                /\ \A q \in Process : number[p] \notin held[q]

(* What it relies on in the entry of its path.                             *)
Entry(p) ==
  /\ step[p] = "insert_id" => /\ pc[p] # "cwd_add" => map_path_handle[target[p]].is_open
                              /\ InUse(target[p])
  /\ step[p] = "change" /\ pc[p] = "open" => ~map_path_handle[target[p]].is_open
  /\ step[p] = "change" /\ pc[p] = "close" => \A q \in Process : number[p] \notin held[q]
  /\ pc[p] = "cwd_try" /\ step[p] \in {"change", "get_element"} => InUse(target[p])
  /\ step[p] = "erase_path" => Idle(target[p])

Place(p) == Fits(p) /\ Before(p) /\ Since(p) /\ Entry(p)

(* The calls keep out of each other's way.                                 *)
Apart ==
  \A p \in Process, q \in Process :
    p # q => /\ \A x \in Path : ~(Busy(p, x) /\ Busy(q, x))
             /\ step[p] \in {"assign", "append"} => step[q] \notin {"assign", "append"}
             /\ pc[p] = "close_element" /\ pc[q] = "close_element" => number[p] # number[q]

(* Whatever the maps know has its element, and a path has one at most.     *)
Elements ==
  /\ \A i \in Id : map_id_path[i] # NoPath => descriptors[i] = map_id_path[i]
  /\ \A x \in Path : Registered(x) => descriptors[map_path_handle[x].id] = x
  /\ \A i \in Id, j \in Id : descriptors[i] \in Path /\ descriptors[i] = descriptors[j] => i = j

(* A path no call works on that has an element has all of its entries.     *)
Linked ==
  \A x \in Path, i \in Id :
    Settled(x) /\ descriptors[i] = x => map_id_path[i] = x /\ Registered(x)

(* What is held is an element, of a pipe's end or \proc, or of an open     *)
(* path, and has one holder.                                               *)
Works(i) ==
  /\ ~IsFree(i)
  /\ descriptors[i] # Unnamed => /\ map_id_path[i] = descriptors[i]
                                 /\ Registered(descriptors[i])
                                 /\ map_path_handle[descriptors[i]].is_open

HeldWork ==
  \A p \in Process : \A i \in held[p] : Works(i) /\ \A q \in Process \ {p} : i \notin held[q]

Tables == Elements /\ Linked /\ NoIdleEntries /\ HeldWork
IInv == TypeOK /\ Tables /\ Apart /\ \A p \in Process : Place(p)

LocalTypes ==
  /\ pc \in [Process -> PC] /\ step \in [Process -> Step]
  /\ target \in [Process -> Path] /\ number \in [Process -> Id]

(* Only p goes on in its call.                                             *)
OthersSame(p) ==
  \A q \in Process \ {p} : /\ pc'[q] = pc[q] /\ step'[q] = step[q]
                           /\ target'[q] = target[q] /\ number'[q] = number[q]

(* Calls that have their element, or look for its place.                   *)
Assigning == {"assign", "append"}
About(q) == step[q] # "out" /\ pc[q] \notin Unnamed_Calls

-----------------------------------------------------------------------------
(* The start: the console's descriptors, and no paths.                     *)
LEMMA InitIInv == Init => IInv
PROOF
<1> SUFFICES ASSUME Init PROVE IInv
  OBVIOUS
<1> USE ProcessAssumption, PathAssumption, BoundAssumption, NothingAssumption
<1>1. TypeOK
  BY DEF Init, TypeOK, Id, PC, Step
<1>2. \A i \in Id : /\ descriptors[i] \notin Path /\ map_id_path[i] = NoPath
  BY DEF Init, Id
<1>3. \A x \in Path : ~Registered(x)
  BY DEF Init, Registered
<1>4. Elements /\ Linked
  BY <1>2, <1>3 DEF Elements, Linked
<1>5. NoIdleEntries /\ HeldWork
  BY DEF Init, NoIdleEntries, HeldWork
<1>6. Apart
  BY DEF Init, Apart, Busy
<1>7. \A p \in Process : Place(p)
  BY DEF Init, Place, Fits, Before, Since, Entry
<1> QED BY <1>1, <1>4, <1>5, <1>6, <1>7 DEF IInv, Tables

(* What a move of p's call leaves: the types, and the calls of others.     *)
LEMMA Going ==
  ASSUME LocalTypes, NEW p \in Process, NEW call \in PC, NEW s \in Step, NEW x \in Path,
         NEW i \in Id, Goto(p, call, s, x, i)
  PROVE  /\ LocalTypes' /\ OthersSame(p)
         /\ pc'[p] = call /\ step'[p] = s /\ target'[p] = x /\ number'[p] = i
  BY DEF Goto, LocalTypes, OthersSame

(* A call that enters no path of another's, and begins no assignment       *)
(* besides another's, keeps calls apart.                                   *)
LEMMA ApartStays ==
  ASSUME Apart, NEW p \in Process, OthersSame(p),
         \A x \in Path : Busy(p, x)' => Busy(p, x) \/ \A q \in Process \ {p} : ~Busy(q, x),
         step'[p] \in Assigning
           => step[p] \in Assigning \/ \A q \in Process \ {p} : step[q] \notin Assigning,
         pc'[p] = "close_element"
           => \A q \in Process \ {p} : pc[q] = "close_element" => number'[p] # number[q]
  PROVE  Apart'
PROOF
<1> SUFFICES ASSUME NEW q \in Process, NEW r \in Process, q # r
             PROVE  /\ \A x \in Path : ~(Busy(q, x)' /\ Busy(r, x)')
                    /\ step'[q] \in Assigning => step'[r] \notin Assigning
                    /\ pc'[q] = "close_element" /\ pc'[r] = "close_element" => number'[q] # number'[r]
  BY DEF Apart, Assigning
<1>1. \A s \in Process \ {p} : /\ step'[s] = step[s] /\ pc'[s] = pc[s] /\ number'[s] = number[s]
                               /\ \A x \in Path : Busy(s, x)' <=> Busy(s, x)
  BY DEF OthersSame, Busy
<1>2. CASE q = p
  BY <1>1, <1>2 DEF Apart, Assigning
<1>3. CASE r = p
  BY <1>1, <1>3 DEF Apart, Assigning
<1>4. CASE q # p /\ r # p
  BY <1>1, <1>4 DEF Apart, Assigning
<1> QED BY <1>2, <1>3, <1>4

(* A path that nobody works on after a step of p: nobody did before, or p  *)
(* has left it.                                                            *)
LEMMA SettledBefore ==
  ASSUME NEW p \in Process, OthersSame(p), NEW x \in Path, Settled(x)'
  PROVE  Settled(x) \/ (Busy(p, x) /\ ~Busy(p, x)')
  BY DEF OthersSame, Settled, Busy

(* A step that changes one descriptor, which is not of the path another    *)
(* call is about, and no entry of that path, leaves that call its place.   *)
LEMMA OthersStay ==
  ASSUME NEW p \in Process, NEW q \in Process \ {p}, Place(q), LocalTypes, OthersSame(p),
         NEW i \in Id,
         \A j \in Id \ {i} : descriptors'[j] = descriptors[j] /\ map_id_path'[j] = map_id_path[j],
         \A r \in Process, j \in Id : j \in held'[r] => j \in held[r] \/ j = i,
         descriptors'[i] = Beyond => descriptors[i] = Beyond,
         About(q) => /\ map_path_handle'[target[q]] = map_path_handle[target[q]]
                     /\ descriptors[i] # target[q] /\ descriptors'[i] # target[q],
         step[q] \in Assigning => ~IsFree(i) \/ descriptors' = descriptors,
         pc[q] = "close_element" => number[q] # i
  PROVE  Place(q)'
PROOF
<1>1. /\ pc'[q] = pc[q] /\ step'[q] = step[q]
      /\ target'[q] = target[q] /\ number'[q] = number[q]
      /\ number[q] \in Id /\ target[q] \in Path
  BY DEF OthersSame, LocalTypes
<1>2. Fits(q)'
  BY <1>1 DEF Place, Fits
<1>3. Before(q)'
  <2>1. ASSUME step[q] \in {"search", "assign", "append"}, pc[q] \in Adds, NEW j \in Id
        PROVE  descriptors'[j] # target[q]
    <3>1. About(q)
      BY <2>1 DEF About, Adds, Unnamed_Calls
    <3> QED BY <2>1, <3>1 DEF Place, Before
  <2>2. ASSUME step[q] = "assign" PROVE descriptors'[number[q]] = NoElement
    BY <1>1, <2>2 DEF Place, Before, Assigning, IsFree
  <2>3. ASSUME step[q] = "append" PROVE IsEnd(number[q])'
    <3>1. number[q] \in Id /\ \A j \in 0 .. (number[q] - 1) : j \in Id
      BY <1>1, BoundAssumption DEF Id
    <3>2. descriptors' = descriptors \/ number[q] # i
      BY <2>3 DEF Place, Before, Assigning, IsFree, IsEnd
    <3>3. \A j \in Id : descriptors'[j] = Beyond => descriptors[j] = Beyond
      OBVIOUS
    <3> QED BY <1>1, <2>3, <3>1, <3>2, <3>3 DEF Place, Before, IsEnd
  <2> QED BY <1>1, <2>1, <2>2, <2>3 DEF Before
<1>4. Since(q)' /\ Entry(q)'
  <2>1. CASE step[q] \in {"out", "search", "assign", "append"}
    BY <1>1, <2>1 DEF Since, Entry, Place, Fits, Unnamed_Calls, Adds
  <2>3. CASE pc[q] = "close_element"
    <3>1. step[q] = "erase_element"
      BY <2>3 DEF Place, Since
    <3>2. /\ descriptors'[number[q]] = descriptors[number[q]]
          /\ map_id_path'[number[q]] = map_id_path[number[q]]
          /\ \A r \in Process : number[q] \in held'[r] => number[q] \in held[r]
      BY <1>1, <2>3
    <3> QED BY <1>1, <2>3, <3>1, <3>2 DEF Place, Since, Entry
  <2>2. CASE step[q] \notin {"out", "search", "assign", "append"} /\ pc[q] # "close_element"
    <3>1. About(q)
      BY <2>2, <1>1 DEF About, Place, Fits, LocalTypes, Step, Adds, Unnamed_Calls
    <3>2. number[q] # i
      BY <2>2, <3>1 DEF Place, Since
    <3>3. /\ descriptors'[number[q]] = descriptors[number[q]]
          /\ map_id_path'[number[q]] = map_id_path[number[q]]
          /\ map_path_handle'[target[q]] = map_path_handle[target[q]]
          /\ \A r \in Process : number[q] \in held'[r] => number[q] \in held[r]
      BY <1>1, <3>1, <3>2
    <3>4. Since(q)'
      BY <1>1, <3>3 DEF Place, Since, Registered
    <3>5. Entry(q)'
      BY <1>1, <3>3 DEF Place, Entry, InUse, Idle, Registered
    <3> QED BY <3>4, <3>5
  <2> QED BY <2>1, <2>2, <2>3
<1> QED BY <1>2, <1>3, <1>4 DEF Place

(* Two calls about paths are about two paths, and the descriptor of the    *)
(* one is not of the other.                                                *)
LEMMA OtherPath ==
  ASSUME LocalTypes, Apart, NEW p \in Process, NEW q \in Process \ {p}, About(p), About(q)
  PROVE  target[p] \in Path /\ target[q] \in Path /\ target[p] # target[q]
  BY DEF Apart, About, Busy, LocalTypes

-----------------------------------------------------------------------------
(* A step of p that leaves the tables as they are, and any path it leaves  *)
(* with all of its entries or none, and in use if it has them.             *)
LEMMA QuietKeeps ==
  ASSUME IInv, NEW p \in Process, UNCHANGED <<tables, held>>, OthersSame(p), TypeOK', Place(p)',
         \A x \in Path : Busy(p, x)' => Busy(p, x) \/ \A q \in Process \ {p} : ~Busy(q, x),
         step'[p] \in Assigning
           => step[p] \in Assigning \/ \A q \in Process \ {p} : step[q] \notin Assigning,
         pc'[p] # "close_element",
         \A x \in Path : Busy(p, x) /\ ~Busy(p, x)' =>
           /\ map_path_handle[x] = NoInfo \/ InUse(x)
           /\ \A i \in Id : descriptors[i] = x => map_id_path[i] = x /\ Registered(x)
  PROVE  IInv'
PROOF
<1>1. /\ descriptors' = descriptors /\ map_id_path' = map_id_path
      /\ map_path_handle' = map_path_handle /\ held' = held
  BY DEF tables
<1>2. Apart'
  BY ApartStays DEF IInv
<1>3. \A q \in Process : Place(q)'
  <2> SUFFICES ASSUME NEW q \in Process, q # p PROVE Place(q)'
    OBVIOUS
  <2>1. /\ pc'[q] = pc[q] /\ step'[q] = step[q]
        /\ target'[q] = target[q] /\ number'[q] = number[q]
    BY DEF OthersSame
  <2>2. Place(q)
    BY DEF IInv
  <2>3. Fits(q)' /\ Before(q)' /\ Since(q)'
    BY <1>1, <2>1, <2>2 DEF Place, Fits, Before, Since, IsEnd, Registered
  <2>4. Entry(q)'
    BY <1>1, <2>1, <2>2 DEF Place, Entry, InUse, Idle, Registered
  <2> QED BY <2>3, <2>4 DEF Place
<1>4. Elements' /\ HeldWork'
  BY <1>1 DEF IInv, Tables, Elements, HeldWork, Works, IsFree, Registered
<1>5. Linked' /\ NoIdleEntries'
  BY <1>1, SettledBefore DEF IInv, Tables, Linked, NoIdleEntries, Registered, InUse
<1> QED BY <1>2, <1>3, <1>4, <1>5 DEF IInv, Tables

(* A step of p that works on its descriptor and its path.                  *)
LEMMA WorkKeeps ==
  ASSUME IInv, NEW p \in Process, About(p), step[p] \notin {"search", "assign", "append"},
         OthersSame(p), TypeOK', Tables', Place(p)',
         \A x \in Path : Busy(p, x)' => Busy(p, x), step'[p] \notin Assigning, pc'[p] # "close_element",
         \A j \in Id \ {number[p]} :
           descriptors'[j] = descriptors[j] /\ map_id_path'[j] = map_id_path[j],
         descriptors'[number[p]] \in {target[p], NoElement},
         \A y \in Path \ {target[p]} : map_path_handle'[y] = map_path_handle[y],
         \A r \in Process, j \in Id : j \in held'[r] => j \in held[r] \/ j = number[p]
  PROVE  IInv'
PROOF
<1>1. LocalTypes /\ number[p] \in Id /\ target[p] \in Path
  BY DEF IInv, TypeOK, LocalTypes
<1>2. Apart'
  BY ApartStays DEF IInv
<1>3. descriptors[number[p]] = target[p] /\ ~IsFree(number[p])
  BY <1>1, NothingAssumption DEF IInv, Place, Since, About, IsFree, Unnamed_Calls
<1>4. ASSUME NEW q \in Process \ {p} PROVE Place(q)'
  <2>1. About(q) => target[q] \in Path /\ target[q] # target[p]
    BY <1>1, OtherPath DEF IInv
  <2>2. About(q) => /\ map_path_handle'[target[q]] = map_path_handle[target[q]]
                    /\ descriptors[number[p]] # target[q] /\ descriptors'[number[p]] # target[q]
    BY <1>3, <2>1, NothingAssumption
  <2>3. descriptors'[number[p]] # Beyond
    BY <1>1, NothingAssumption
  <2>4. Place(q) /\ (pc[q] = "close_element" => number[q] # number[p])
    BY <1>1, <1>3, NothingAssumption DEF IInv, Place, Since
  <2> QED BY <1>1, <1>3, <2>2, <2>3, <2>4, OthersStay
<1> QED BY <1>2, <1>4 DEF IInv

(* What is held besides keeps working.                                     *)
LEMMA OthersWork ==
  ASSUME IInv, NEW p \in Process, descriptors[number[p]] = target[p],
         NEW j \in Id, j # number[p], Works(j),
         descriptors'[j] = descriptors[j] /\ map_id_path'[j] = map_id_path[j],
         \A y \in Path \ {target[p]} : map_path_handle'[y] = map_path_handle[y]
  PROVE  Works(j)'
PROOF
<1>1. number[p] \in Id /\ target[p] \in Path /\ descriptors[j] # Beyond
      /\ descriptors[j] \in Path \cup {Unnamed, NoElement, Beyond}
  BY DEF IInv, TypeOK, Works, IsFree
<1>2. descriptors[j] # target[p]
  BY <1>1 DEF IInv, Tables, Elements
<1> QED BY <1>1, <1>2 DEF Works, IsFree, Registered

(* A step on an element that nobody holds.                                 *)
LEMMA HeldStay ==
  ASSUME IInv, NEW p \in Process, descriptors[number[p]] = target[p], held' = held,
         \A q \in Process : number[p] \notin held[q],
         \A j \in Id \ {number[p]} :
           descriptors'[j] = descriptors[j] /\ map_id_path'[j] = map_id_path[j],
         \A y \in Path \ {target[p]} : map_path_handle'[y] = map_path_handle[y]
  PROVE  HeldWork'
PROOF
<1> SUFFICES ASSUME NEW q \in Process, NEW j \in held[q]
             PROVE  Works(j)' /\ \A r \in Process \ {q} : j \notin held[r]
  BY DEF HeldWork
<1>1. j \in Id /\ j # number[p] /\ Works(j) /\ \A r \in Process \ {q} : j \notin held[r]
  BY DEF IInv, TypeOK, Tables, HeldWork
<1> QED BY <1>1, OthersWork

(* A step that gives p its element to hold, which nobody holds.            *)
LEMMA HeldGrow ==
  ASSUME IInv, NEW p \in Process, NEW i \in Id, i = number[p], descriptors[i] = target[p],
         Hold(p, i),
         \A q \in Process : i \notin held[q], Works(i)',
         \A j \in Id \ {i} :
           descriptors'[j] = descriptors[j] /\ map_id_path'[j] = map_id_path[j],
         \A y \in Path \ {target[p]} : map_path_handle'[y] = map_path_handle[y]
  PROVE  HeldWork'
PROOF
<1>1. held \in [Process -> SUBSET Id]
  BY DEF IInv, TypeOK
<1> SUFFICES ASSUME NEW q \in Process, NEW j \in held'[q]
             PROVE  Works(j)' /\ \A r \in Process \ {q} : j \notin held'[r]
  BY DEF HeldWork
<1>2. CASE j = i
  BY <1>1, <1>2 DEF Hold
<1>3. CASE j # i
  <2>1. j \in held[q] /\ \A r \in Process : j \in held'[r] => j \in held[r]
    BY <1>1, <1>3 DEF Hold
  <2>2. j \in Id /\ Works(j) /\ \A r \in Process \ {q} : j \notin held[r]
    BY <1>1, <2>1 DEF IInv, Tables, HeldWork
  <2> QED BY <1>3, <2>1, <2>2, OthersWork
<1> QED BY <1>2, <1>3

(* Only the element of an open path with its entries is held.              *)
LEMMA HeldIsOpen ==
  ASSUME IInv, NEW p \in Process, descriptors[number[p]] = target[p],
         NEW q \in Process, number[p] \in held[q]
  PROVE  /\ map_id_path[number[p]] = target[p] /\ Registered(target[p])
         /\ map_path_handle[target[p]].is_open
  BY NothingAssumption DEF IInv, TypeOK, Tables, HeldWork, Works

-----------------------------------------------------------------------------
(* Create_Descriptor finds a free number: the first in the table, or its   *)
(* end.                                                                    *)
LEMMA SearchKeeps ==
  ASSUME IInv, Serial = {"path", "search"}, NEW p \in Process, Search(p)
  PROVE  IInv'
PROOF
<1> USE DEF IInv
<1>1. PICK i \in Id :
        /\ IsFree(i) /\ \A j \in 0 .. (i - 1) : ~IsFree(j)
        /\ Goto(p, pc[p], IF descriptors[i] = NoElement THEN "assign" ELSE "append", target[p], i)
  BY DEF Search
<1> DEFINE s == IF descriptors[i] = NoElement THEN "assign" ELSE "append"
<1>2. /\ LocalTypes /\ pc[p] \in PC /\ s \in Step /\ target[p] \in Path
  BY DEF TypeOK, LocalTypes, Step
<1>3. /\ LocalTypes' /\ OthersSame(p)
      /\ pc'[p] = pc[p] /\ step'[p] = s /\ target'[p] = target[p] /\ number'[p] = i
  <2>1. Goto(p, pc[p], s, target[p], i)
    BY <1>1
  <2> HIDE DEF s
  <2> QED BY <1>2, <2>1, Going
<1>4. UNCHANGED <<tables, held>> /\ TypeOK'
  BY <1>3 DEF Search, TypeOK, LocalTypes, tables
<1>5. step[p] = "search" /\ pc[p] \in Unnamed_Calls \cup Adds /\ pc[p] # "close_element"
  BY DEF Search, Place, Fits, Since
<1>6. Place(p)'
  <2>1. s = "append" => IsEnd(i)
    BY <1>1 DEF IsFree, IsEnd
  <2>2. Fits(p)'
    BY <1>3, <1>5 DEF Place, Fits, Unnamed_Calls, Adds
  <2>3. Before(p)'
    BY <1>3, <1>4, <1>5, <2>1 DEF Before, Place, IsEnd, tables
  <2>4. Since(p)' /\ Entry(p)'
    BY <1>3, <1>5 DEF Since, Entry, Unnamed_Calls, Adds
  <2> QED BY <2>2, <2>3, <2>4 DEF Place
<1>7. /\ pc'[p] # "close_element"
      /\ \A x \in Path : Busy(p, x)' <=> Busy(p, x)
      /\ \A q \in Process \ {p} : step[q] \notin Assigning
  BY <1>3, <1>5 DEF Busy, Search, MaySearch, Assigning, Place, Since
<1> QED BY <1>3, <1>4, <1>6, <1>7, QuietKeeps

(* The element is put there: nobody else is about to put one anywhere.     *)
LEMMA AssignKeeps ==
  ASSUME IInv, Serial = {"path", "search"}, NEW p \in Process, Assign(p)
  PROVE  IInv'
PROOF
<1> USE DEF IInv
<1> DEFINE i == number[p]
           v == IF pc[p] \in Unnamed_Calls THEN Unnamed ELSE target[p]
<1>1. /\ LocalTypes /\ i \in Id /\ target[p] \in Path /\ Root \in Path /\ pc[p] \in PC
      /\ 0 \in Id
  BY PathAssumption, BoundAssumption DEF TypeOK, LocalTypes, Id
<1>2. /\ step[p] \in Assigning /\ IsFree(i) /\ pc[p] \in Unnamed_Calls \cup Adds
      /\ step[p] = "append" => IsEnd(i)
  BY DEF Assign, Place, Fits, Before, Assigning, IsFree, IsEnd
<1>3. descriptors' = [descriptors EXCEPT ![i] = v]
      /\ UNCHANGED <<map_id_path, map_path_handle, entries, cwd>>
  <2>1. PICK j \in Id :
          /\ IF step[p] = "assign" THEN j = number[p] ELSE IsEnd(j)
          /\ descriptors' = [descriptors EXCEPT ![j] = v]
    BY DEF Assign
  <2>2. j = i
    <3>1. ASSUME step[p] = "append" PROVE j = i
      <4>1. IsEnd(i) /\ IsEnd(j)
        BY <1>2, <2>1, <3>1
      <4>2. ~(i < j) /\ ~(j < i)
        BY <1>1, <4>1, BoundAssumption DEF IsEnd, Id
      <4> QED BY <1>1, <4>2, BoundAssumption DEF Id
    <3> QED BY <1>2, <2>1, <3>1 DEF Assigning
  <2> QED BY <2>1, <2>2 DEF Assign
<1>4. PICK call \in PC, s \in {"insert_path", "search", "out"}, x \in Path, k \in Id :
        /\ Goto(p, call, s, x, k)
        /\ IF pc[p] \in Unnamed_Calls THEN s # "insert_path" /\ (s = "search" => call \in Unnamed_Calls)
                                           /\ call \in {"pipe_read", "idle"} /\ Hold(p, i)
           ELSE call = pc[p] /\ s = "insert_path" /\ x = target[p] /\ k = i /\ held' = held
  <2>1. CASE pc[p] \notin Unnamed_Calls
    BY <1>1, <2>1 DEF Assign, Inside
  <2>2. CASE pc[p] = "pipe_write"
    BY <1>1, <2>2 DEF Assign, PC, Unnamed_Calls
  <2>3. CASE pc[p] \in Unnamed_Calls /\ pc[p] # "pipe_write"
    BY <1>1, <2>3 DEF Assign, Finish, PC, Unnamed_Calls
  <2> QED BY <2>1, <2>2, <2>3
<1>5. /\ LocalTypes' /\ OthersSame(p)
      /\ pc'[p] = call /\ step'[p] = s /\ target'[p] = x /\ number'[p] = k
  BY <1>1, <1>4, Going DEF Step
<1>6. held' \in [Process -> SUBSET Id]
      /\ \A r \in Process, j \in Id : j \in held'[r] => j \in held[r] \/ (j = i /\ r = p)
  BY <1>1, <1>4 DEF Hold, TypeOK
<1>7. TypeOK'
  BY <1>1, <1>3, <1>5, <1>6 DEF TypeOK, LocalTypes
<1>8. /\ map_id_path[i] = NoPath /\ descriptors[i] \notin Path /\ v # NoElement /\ v # Beyond
      /\ \A q \in Process : i \notin held[q]
  BY <1>1, <1>2, NothingAssumption DEF TypeOK, Tables, Elements, HeldWork, Works, IsFree
<1>9. v \in Path => \A j \in Id : descriptors[j] # v
  BY <1>2, NothingAssumption DEF Place, Before, Assigning
<1>10. /\ \A j \in Id \ {i} : descriptors'[j] = descriptors[j] /\ map_id_path'[j] = map_id_path[j]
       /\ descriptors'[i] = v /\ map_id_path' = map_id_path /\ map_path_handle' = map_path_handle
  BY <1>1, <1>3 DEF TypeOK
<1>11. \A y \in Path : Busy(p, y)' <=> Busy(p, y)
  BY <1>2, <1>4, <1>5 DEF Busy, Assigning, Unnamed_Calls
<1> HIDE DEF v, i
<1>12. Elements'
  <2>1. \A j \in Id : map_id_path[j] # NoPath => j # i
    BY <1>8
  <2>2. \A y \in Path : Registered(y) => map_path_handle[y].id # i
                                         /\ map_path_handle[y].id \in Id
    BY <1>8 DEF TypeOK, Tables, Elements, Registered, Info
  <2> QED BY <1>8, <1>9, <1>10, <2>1, <2>2 DEF Tables, Elements, Registered
<1>13. Linked' /\ NoIdleEntries'
  <2>1. \A y \in Path : Settled(y)' => Settled(y)
    BY <1>5, <1>11, SettledBefore
  <2>2. \A y \in Path : Settled(y)' => y # v
    <3>1. v \in Path => Busy(p, v)
      BY <1>2, NothingAssumption DEF v, Busy, Assigning
    <3> QED BY <1>11, <3>1 DEF Settled
  <2> QED BY <1>10, <2>1, <2>2 DEF Tables, Linked, NoIdleEntries, Registered
<1>14. HeldWork'
  <2> SUFFICES ASSUME NEW q \in Process, NEW j \in held'[q]
               PROVE  Works(j)' /\ \A r \in Process \ {q} : j \notin held'[r]
    BY DEF HeldWork
  <2>1. j \in Id
    BY <1>6
  <2>2. CASE j = i
    <3>1. pc[p] \in Unnamed_Calls
      BY <1>4, <1>8, <2>2
    <3> QED BY <1>6, <1>8, <1>10, <2>1, <2>2, <3>1 DEF Works, IsFree, v
  <2>3. CASE j # i
    <3>1. /\ j \in held[q] /\ \A r \in Process : j \in held'[r] => j \in held[r]
      BY <1>6, <2>1, <2>3
    <3> QED BY <1>10, <2>1, <2>3, <3>1 DEF Tables, HeldWork, Works, IsFree, Registered
  <2> QED BY <2>2, <2>3
<1>15. Place(p)'
  <2>1. CASE pc[p] \in Unnamed_Calls
    BY <1>4, <1>5, <2>1 DEF Place, Fits, Before, Since, Entry, Unnamed_Calls, Adds
  <2>2. CASE pc[p] \notin Unnamed_Calls
    <3>1. /\ pc'[p] = pc[p] /\ step'[p] = "insert_path" /\ target'[p] = target[p] /\ number'[p] = i
          /\ pc[p] \in Adds
      BY <1>2, <1>4, <1>5, <2>2
    <3>2. ~Registered(target[p])
      BY <1>1, <1>2, <2>2 DEF Place, Before, Assigning, Tables, Elements, TypeOK, Registered, Info
    <3>3. Fits(p)' /\ Before(p)' /\ Entry(p)'
      BY <3>1 DEF Place, Fits, Before, Entry, Adds
    <3>4. Since(p)'
      BY <1>8, <1>10, <2>2, <3>1, <3>2 DEF Since, Registered, Adds, v
    <3> QED BY <3>3, <3>4 DEF Place
  <2> QED BY <2>1, <2>2
<1>16. Apart'
  <2>1. pc'[p] # "close_element"
    BY <1>2, <1>4, <1>5 DEF Place, Since, Assigning
  <2> QED BY <1>2, <1>5, <1>11, <2>1, ApartStays
<1>17. ASSUME NEW q \in Process \ {p} PROVE Place(q)'
  <2>1. step[q] \notin Assigning
    BY <1>2 DEF Apart, Assigning
  <2>2. About(q) => descriptors[i] # target[q] /\ descriptors'[i] # target[q]
    <3>1. ASSUME About(q) PROVE target[q] \in Path /\ (v \in Path => target[q] # v)
      <4>1. v \in Path => About(p) /\ v = target[p]
        BY <1>2, NothingAssumption DEF v, About, Assigning
      <4> QED BY <1>1, <3>1, <4>1, OtherPath DEF LocalTypes
    <3> QED BY <1>8, <1>10, <3>1
  <2>3. descriptors'[i] # Beyond /\ i \in Id /\ Place(q)
    BY <1>1, <1>8, <1>10 DEF i
  <2>4. pc[q] = "close_element" => number[q] # i
    BY <1>2, <2>3, NothingAssumption DEF Place, Since, IsFree
  <2> QED BY <1>1, <1>5, <1>6, <1>10, <2>1, <2>2, <2>3, <2>4, OthersStay
<1> QED BY <1>7, <1>12, <1>13, <1>14, <1>15, <1>16, <1>17 DEF Tables

-----------------------------------------------------------------------------
(* What every step on an element has before it.                            *)
LEMMA Working ==
  ASSUME IInv, NEW p \in Process, step[p] \notin {"out", "search", "assign", "append"},
         step[p] = "erase_element" => pc[p] # "close_element"
  PROVE  /\ LocalTypes /\ number[p] \in Id /\ target[p] \in Path /\ pc[p] \in PC
         /\ Root \in Path /\ 0 \in Id
         /\ About(p) /\ Busy(p, target[p]) /\ pc[p] \notin Unnamed_Calls /\ pc[p] # "close_element"
         /\ descriptors[number[p]] = target[p]
         /\ \A i \in Id : descriptors[i] = target[p] => i = number[p]
PROOF
<1>1. /\ LocalTypes /\ number[p] \in Id /\ target[p] \in Path /\ pc[p] \in PC
      /\ Root \in Path /\ 0 \in Id /\ step[p] \in Step
  BY PathAssumption, BoundAssumption DEF IInv, TypeOK, LocalTypes, Id
<1>2. pc[p] \notin Unnamed_Calls /\ pc[p] # "close_element"
  <2>1. pc[p] # "close_element"
    BY DEF IInv, Place, Since
  <2> QED BY <1>1, <2>1 DEF IInv, Place, Fits, Step, Unnamed_Calls, Adds
<1>3. descriptors[number[p]] = target[p]
  BY <1>2 DEF IInv, Place, Since
<1>4. \A i \in Id : descriptors[i] = target[p] => i = number[p]
  BY <1>1, <1>3 DEF IInv, Tables, Elements
<1> QED BY <1>1, <1>2, <1>3, <1>4 DEF About, Busy

(* The entry of the path is made.                                          *)
LEMMA InsertPathKeeps ==
  ASSUME IInv, NEW p \in Process, InsertPath(p)
  PROVE  IInv'
PROOF
<1>0. PICK x \in Path, i \in Id : x = target[p] /\ i = number[p]
  BY DEF IInv, TypeOK
<1>1. /\ x = target[p] /\ i = number[p] /\ LocalTypes /\ pc[p] \in PC \ {"close_element"} /\ About(p) /\ Busy(p, x)
      /\ descriptors[i] = x /\ \A j \in Id : descriptors[j] = x => j = i
  BY <1>0, Working DEF InsertPath
<1>2. /\ step[p] = "insert_path" /\ pc[p] \in Adds /\ map_id_path[i] = NoPath /\ ~Registered(x)
  BY <1>1 DEF InsertPath, IInv, Place, Fits, Since
<1>3. Added(p) \in Info /\ Added(p).id = i /\ (Added(p).is_open \/ Added(p).cwd_count > 0)
      /\ (pc[p] # "cwd_add" => Added(p).is_open) /\ Added(p) # NoInfo
  <2>1. Added(p) \in Info /\ Added(p).id = i /\ (Added(p).is_open \/ Added(p).cwd_count > 0)
        /\ (pc[p] # "cwd_add" => Added(p).is_open)
    <3>1. CASE pc[p] = "cwd_add"
      BY <1>1, <3>1 DEF Added, Info
    <3>2. CASE pc[p] # "cwd_add"
      <4>1. (pc[p] # "cwd_add") = TRUE
        BY <3>2
      <4>2. Added(p) = [cwd_count |-> IF pc[p] = "open_cwd_add" THEN 1 ELSE 0,
                        is_open |-> TRUE, id |-> i]
        BY <1>1, <3>2, <4>1 DEF Added
      <4> QED BY <4>2 DEF Info
    <3> QED BY <3>1, <3>2
  <2> QED BY <2>1, NothingAssumption DEF Info, Id
<1>4. /\ map_path_handle' = [map_path_handle EXCEPT ![x] = Added(p)]
      /\ UNCHANGED <<descriptors, map_id_path, entries, cwd, held>>
  BY <1>1, <1>2 DEF InsertPath, Registered, IInv, TypeOK
<1>5. /\ LocalTypes' /\ OthersSame(p)
      /\ pc'[p] = pc[p] /\ step'[p] = "insert_id" /\ target'[p] = x /\ number'[p] = i
  BY <1>1, Going DEF InsertPath, Inside, Step
<1>6. TypeOK'
  BY <1>1, <1>3, <1>4, <1>5 DEF IInv, TypeOK, LocalTypes
<1>7. /\ map_path_handle'[x] = Added(p)
      /\ \A y \in Path \ {x} : map_path_handle'[y] = map_path_handle[y]
  BY <1>1, <1>4 DEF IInv, TypeOK
<1>8. \A y \in Path : Busy(p, y)' <=> Busy(p, y)
  BY <1>1, <1>2, <1>5 DEF Busy
<1>9. Elements'
  BY <1>1, <1>3, <1>4, <1>7 DEF IInv, Tables, Elements, Registered
<1>10. \A y \in Path : Settled(y)' => Settled(y) /\ y # x
  BY <1>1, <1>5, <1>8, SettledBefore DEF Settled
<1>11. Linked' /\ NoIdleEntries'
  BY <1>4, <1>7, <1>10 DEF IInv, Tables, Linked, NoIdleEntries, Registered
<1>12. HeldWork'
  <2>1. \A q \in Process : i \notin held[q]
    BY <1>1, <1>2, HeldIsOpen
  <2> QED BY <1>1, <1>4, <1>7, <2>1, HeldStay
<1>13. Place(p)'
  <2>1. Fits(p)' /\ Before(p)'
    BY <1>1, <1>2, <1>5 DEF IInv, Place, Fits, Before, Adds
  <2>2. Since(p)' /\ Entry(p)'
    BY <1>1, <1>2, <1>3, <1>4, <1>5, <1>7 DEF Since, Entry, Registered, InUse, Adds
  <2> QED BY <2>1, <2>2 DEF Place
<1> QED BY <1>1, <1>2, <1>4, <1>5, <1>6, <1>7, <1>8, <1>9, <1>11, <1>12, <1>13, WorkKeeps
        DEF Tables, Assigning

(* The number gets its path, and an open or a creation its handle.         *)
LEMMA InsertIdKeeps ==
  ASSUME IInv, NEW p \in Process, InsertId(p)
  PROVE  IInv'
PROOF
<1>0. PICK x \in Path, i \in Id : x = target[p] /\ i = number[p]
  BY DEF IInv, TypeOK
<1>1. /\ x = target[p] /\ i = number[p] /\ LocalTypes /\ pc[p] \in PC \ {"close_element"} /\ About(p) /\ Busy(p, x)
      /\ descriptors[i] = x /\ (\A j \in Id : descriptors[j] = x => j = i)
      /\ Root \in Path /\ 0 \in Id
  BY <1>0, Working DEF InsertId
<1>2. /\ step[p] = "insert_id" /\ pc[p] \in Adds /\ map_id_path[i] = NoPath /\ Registered(x)
      /\ InUse(x) /\ (pc[p] # "cwd_add" => map_path_handle[x].is_open)
  BY <1>1 DEF InsertId, IInv, Place, Fits, Since, Entry
<1>3. /\ map_id_path' = [map_id_path EXCEPT ![i] = x]
      /\ UNCHANGED <<descriptors, map_path_handle, entries, cwd>>
  BY <1>1, <1>2 DEF InsertId, IInv, TypeOK
<1>4. /\ pc[p] = "cwd_add" => Goto(p, "cwd_set", "out", x, 0) /\ held' = held
      /\ pc[p] # "cwd_add" => Goto(p, "idle", "out", Root, 0) /\ Hold(p, i)
  BY <1>1 DEF InsertId, Continue, Finish
<1>5. PICK call \in {"cwd_set", "idle"}, y \in Path :
        /\ LocalTypes' /\ OthersSame(p)
        /\ pc'[p] = call /\ step'[p] = "out" /\ target'[p] = y /\ number'[p] = 0
        /\ call = "cwd_set" => y = x /\ pc[p] = "cwd_add"
  <2>1. CASE pc[p] = "cwd_add"
    BY <1>1, <1>4, <2>1, Going DEF Step, PC
  <2>2. CASE pc[p] # "cwd_add"
    BY <1>1, <1>4, <2>2, Going DEF Step, PC
  <2> QED BY <2>1, <2>2
<1>6. /\ held' \in [Process -> SUBSET Id]
      /\ \A r \in Process, j \in Id : j \in held'[r] => j \in held[r] \/ j = i
  BY <1>1, <1>4 DEF Hold, IInv, TypeOK
<1>7. TypeOK'
  BY <1>1, <1>3, <1>5, <1>6 DEF IInv, TypeOK, LocalTypes
<1>8. map_id_path'[i] = x /\ \A j \in Id \ {i} : map_id_path'[j] = map_id_path[j]
  BY <1>1, <1>3 DEF IInv, TypeOK
<1>9. \A z \in Path : ~Busy(p, z)'
  BY <1>1, <1>5 DEF Busy
<1>10. Elements'
  BY <1>1, <1>3, <1>8 DEF IInv, Tables, Elements, Registered
<1>11. \A z \in Path : Settled(z)' => Settled(z) \/ z = x
  BY <1>1, <1>5, SettledBefore DEF Busy
<1>12. Linked' /\ NoIdleEntries'
  BY <1>1, <1>2, <1>3, <1>8, <1>11 DEF IInv, Tables, Linked, NoIdleEntries, Registered, InUse
<1>13. HeldWork'
  <2>1. \A q \in Process : i \notin held[q]
    BY <1>1, <1>2, NothingAssumption, HeldIsOpen
  <2>2. CASE pc[p] = "cwd_add"
    BY <1>1, <1>3, <1>4, <1>8, <2>1, <2>2, HeldStay
  <2>3. CASE pc[p] # "cwd_add"
    <3>1. Works(i)'
      BY <1>1, <1>2, <1>3, <1>8, <2>3, NothingAssumption DEF Works, IsFree, Registered
    <3> QED BY <1>1, <1>3, <1>4, <1>8, <2>1, <2>3, <3>1, HeldGrow
  <2> QED BY <2>2, <2>3
<1>14. Place(p)'
  <2>1. Fits(p)'
    BY <1>1, <1>5 DEF IInv, Place, Fits
  <2> QED BY <1>5, <2>1 DEF Place, Before, Since, Entry
<1> QED BY <1>1, <1>2, <1>3, <1>5, <1>6, <1>7, <1>8, <1>9, <1>10, <1>12, <1>13, <1>14, WorkKeeps
        DEF Tables, Assigning

(* The entry of the path is changed.                                       *)
LEMMA ChangeKeeps ==
  ASSUME IInv, NEW p \in Process, Change(p)
  PROVE  IInv'
PROOF
<1>0. PICK x \in Path, i \in Id : x = target[p] /\ i = number[p]
  BY DEF IInv, TypeOK
<1> DEFINE old == map_path_handle[x]
<1>1. /\ x = target[p] /\ i = number[p] /\ LocalTypes /\ pc[p] \in PC \ {"close_element"} /\ About(p) /\ Busy(p, x)
      /\ descriptors[i] = x /\ (\A j \in Id : descriptors[j] = x => j = i)
      /\ Root \in Path /\ 0 \in Id
  BY <1>0, Working DEF Change
<1>2. /\ step[p] = "change" /\ pc[p] \in {"open", "close", "cwd_try", "cwd_unset"}
      /\ map_id_path[i] = x /\ Registered(x)
      /\ pc[p] = "open" => ~old.is_open
      /\ pc[p] = "close" => \A q \in Process : i \notin held[q]
      /\ pc[p] = "cwd_try" => InUse(x)
  BY <1>1 DEF Change, IInv, Place, Fits, Since, Entry
<1>3. PICK new \in Info :
        /\ map_path_handle' = [map_path_handle EXCEPT ![x] = new] /\ new.id = old.id
        /\ pc[p] = "open" => new.is_open
        /\ pc[p] \notin {"open", "close"} => new.is_open = old.is_open
        /\ pc[p] = "cwd_try" => new.is_open \/ new.cwd_count > 0
  <2>1. old \in Info
    BY <1>1, <1>2 DEF Registered, IInv, TypeOK
  <2>2. old.cwd_count \in Int /\ old.is_open \in BOOLEAN /\ old.id \in Id
    BY <2>1 DEF Info
  <2>3. /\ Changed(p, old) \in Info /\ Changed(p, old).id = old.id
        /\ pc[p] = "open" => Changed(p, old).is_open
        /\ pc[p] \notin {"open", "close"} => Changed(p, old).is_open = old.is_open
        /\ pc[p] = "cwd_try" => Changed(p, old).cwd_count = old.cwd_count + 1
    <3>1. CASE pc[p] = "open"
      BY <2>1, <3>1 DEF Changed, Info
    <3>2. CASE pc[p] = "close"
      BY <2>1, <3>2 DEF Changed, Info
    <3>3. CASE pc[p] = "cwd_try"
      BY <2>1, <3>3 DEF Changed, Info
    <3>4. CASE pc[p] = "cwd_unset"
      BY <2>1, <3>4 DEF Changed, Info
    <3> QED BY <1>2, <3>1, <3>2, <3>3, <3>4
  <2>4. map_path_handle' = [map_path_handle EXCEPT ![x] = Changed(p, old)]
    BY <1>1, <1>2 DEF Change, Registered
  <2>5. pc[p] = "cwd_try" => Changed(p, old).is_open \/ Changed(p, old).cwd_count > 0
    BY <1>2, <2>2, <2>3 DEF InUse
  <2> QED BY <2>3, <2>4, <2>5
<1>4. /\ UNCHANGED <<descriptors, map_id_path, entries, cwd>>
      /\ pc[p] = "open" => Goto(p, "idle", "out", Root, 0) /\ Hold(p, i)
      /\ pc[p] = "cwd_try" => Goto(p, pc[p], "get_element", x, i) /\ held' = held
      /\ pc[p] \notin {"open", "cwd_try"} => Goto(p, pc[p], "test", x, i) /\ held' = held
  BY <1>1 DEF Change, Inside, Finish
<1>5. PICK call \in PC, s \in {"out", "get_element", "test"}, y \in Path, k \in Id :
        /\ LocalTypes' /\ OthersSame(p)
        /\ pc'[p] = call /\ step'[p] = s /\ target'[p] = y /\ number'[p] = k
        /\ s = "out" <=> pc[p] = "open"
        /\ s = "get_element" <=> pc[p] = "cwd_try"
        /\ s = "out" => call = "idle"
        /\ s # "out" => call = pc[p] /\ y = x /\ k = i
  <2>1. CASE pc[p] = "open"
    BY <1>1, <1>4, <2>1, Going DEF Step, PC
  <2>2. CASE pc[p] = "cwd_try"
    BY <1>1, <1>4, <2>2, Going DEF Step, PC
  <2>3. CASE pc[p] \notin {"open", "cwd_try"}
    <3>1. Goto(p, pc[p], "test", x, i) /\ "test" \in Step
      BY <1>4, <2>3 DEF Step
    <3> QED BY <1>1, <2>3, <3>1, Going
  <2> QED BY <2>1, <2>2, <2>3
<1>6. /\ held' \in [Process -> SUBSET Id]
      /\ \A r \in Process, j \in Id : j \in held'[r] => j \in held[r] \/ j = i
  BY <1>1, <1>4 DEF Hold, IInv, TypeOK
<1>7. new # NoInfo
  BY NothingAssumption DEF Info, Id
<1>8. TypeOK'
  BY <1>1, <1>3, <1>4, <1>5, <1>6 DEF IInv, TypeOK, LocalTypes
<1>9. /\ map_path_handle'[x] = new
      /\ \A y1 \in Path \ {x} : map_path_handle'[y1] = map_path_handle[y1]
  BY <1>1, <1>3 DEF IInv, TypeOK
<1>10. \A z \in Path : Busy(p, z)' => Busy(p, z)
  BY <1>1, <1>2, <1>5 DEF Busy
<1>11. Elements'
  BY <1>1, <1>2, <1>3, <1>4, <1>7, <1>9 DEF IInv, Tables, Elements, Registered
<1>12. \A z \in Path : Settled(z)' => (Settled(z) /\ z # x) \/ (z = x /\ new.is_open)
  <2>1. ASSUME pc[p] # "open" PROVE Busy(p, x)'
    BY <1>2, <1>5, <2>1 DEF Busy, Unnamed_Calls
  <2>2. \A z \in Path : z # x => ~Busy(p, z)
    BY <1>1 DEF Busy
  <2>3. ASSUME NEW z \in Path, Settled(z)'
        PROVE  (Settled(z) /\ z # x) \/ (z = x /\ new.is_open)
    <3>1. ~Busy(p, z)' /\ (Settled(z) \/ Busy(p, z))
      BY <1>5, <2>3, SettledBefore DEF Settled
    <3>2. CASE z = x
      BY <1>3, <2>1, <3>1, <3>2
    <3>3. CASE z # x
      BY <2>2, <3>1, <3>3
    <3> QED BY <3>2, <3>3
  <2> QED BY <2>3
<1>13. Linked' /\ NoIdleEntries'
  BY <1>1, <1>2, <1>4, <1>7, <1>9, <1>12 DEF IInv, Tables, Linked, NoIdleEntries, Registered
<1>14. HeldWork'
  <2>1. CASE pc[p] = "open"
    <3>1. \A q \in Process : i \notin held[q]
      BY <1>1, <1>2, <2>1, HeldIsOpen
    <3>2. Works(i)'
      BY <1>1, <1>2, <1>3, <1>4, <1>7, <1>9, <2>1, NothingAssumption DEF Works, IsFree, Registered
    <3> QED BY <1>1, <1>4, <1>9, <2>1, <3>1, <3>2, HeldGrow
  <2>2. CASE pc[p] = "close"
    BY <1>1, <1>2, <1>4, <1>9, <2>2, HeldStay
  <2>3. CASE pc[p] \notin {"open", "close"}
    <3>1. held' = held
      BY <1>4, <2>3
    <3> SUFFICES ASSUME NEW q \in Process, NEW j \in held[q]
                 PROVE  Works(j)' /\ \A r \in Process \ {q} : j \notin held[r]
      BY <3>1 DEF HeldWork
    <3>2. j \in Id /\ Works(j) /\ \A r \in Process \ {q} : j \notin held[r]
      BY DEF IInv, TypeOK, Tables, HeldWork
    <3>3. CASE j = i
      BY <1>1, <1>2, <1>3, <1>4, <1>7, <1>9, <2>3, <3>2, <3>3, NothingAssumption
         DEF Works, IsFree, Registered
    <3>4. CASE j # i
      BY <1>1, <1>4, <1>9, <3>2, <3>4, OthersWork
    <3> QED BY <3>2, <3>3, <3>4
  <2> QED BY <2>1, <2>2, <2>3
<1>15. Place(p)'
  <2>1. Fits(p)' /\ Before(p)'
    BY <1>2, <1>5 DEF Fits, Before
  <2>2. Since(p)'
    BY <1>1, <1>2, <1>4, <1>5, <1>7, <1>9 DEF Since, Registered
  <2>3. Entry(p)'
    BY <1>3, <1>5, <1>9 DEF Entry, InUse
  <2> QED BY <2>1, <2>2, <2>3 DEF Place
<1> QED BY <1>1, <1>2, <1>4, <1>5, <1>6, <1>8, <1>9, <1>10, <1>11, <1>13, <1>14, <1>15, WorkKeeps
        DEF Tables, Assigning

(* The path of an idle entry leaves the map, *)
LEMMA ErasePathKeeps ==
  ASSUME IInv, NEW p \in Process, ErasePath(p)
  PROVE  IInv'
PROOF
<1>0. PICK x \in Path, i \in Id : x = target[p] /\ i = number[p]
  BY DEF IInv, TypeOK
<1>1. /\ x = target[p] /\ i = number[p] /\ LocalTypes /\ pc[p] \in PC \ {"close_element"} /\ About(p) /\ Busy(p, x)
      /\ descriptors[i] = x /\ \A j \in Id : descriptors[j] = x => j = i
  BY <1>0, Working DEF ErasePath
<1>2. /\ step[p] = "erase_path" /\ pc[p] \in {"close", "cwd_unset"} /\ map_id_path[i] = x
      /\ Registered(x) /\ Idle(x)
  BY <1>1 DEF ErasePath, IInv, Place, Fits, Since, Entry
<1>3. /\ map_path_handle' = [map_path_handle EXCEPT ![x] = NoInfo]
      /\ UNCHANGED <<descriptors, map_id_path, entries, cwd, held>>
  BY <1>1 DEF ErasePath
<1>4. /\ LocalTypes' /\ OthersSame(p)
      /\ pc'[p] = pc[p] /\ step'[p] = "erase_id" /\ target'[p] = x /\ number'[p] = i
  BY <1>1, Going DEF ErasePath, Inside, Step
<1>5. TypeOK'
  BY <1>3, <1>4 DEF IInv, TypeOK, LocalTypes
<1>6. map_path_handle'[x] = NoInfo /\ \A y \in Path \ {x} : map_path_handle'[y] = map_path_handle[y]
  BY <1>3 DEF IInv, TypeOK
<1>7. \A y \in Path : Busy(p, y)' <=> Busy(p, y)
  BY <1>1, <1>2, <1>4 DEF Busy
<1>8. Elements'
  BY <1>3, <1>6 DEF IInv, Tables, Elements, Registered
<1>9. \A y \in Path : Settled(y)' => Settled(y) /\ y # x
  BY <1>1, <1>4, <1>7, SettledBefore DEF Settled
<1>10. Linked' /\ NoIdleEntries'
  BY <1>3, <1>6, <1>9 DEF IInv, Tables, Linked, NoIdleEntries, Registered
<1>11. HeldWork'
  <2>1. \A q \in Process : i \notin held[q]
    BY <1>1, <1>2, HeldIsOpen DEF Idle
  <2> QED BY <1>1, <1>3, <1>6, <2>1, HeldStay
<1>12. Place(p)'
  BY <1>1, <1>2, <1>3, <1>4, <1>6 DEF Place, Fits, Before, Since, Entry, Registered
<1> QED BY <1>1, <1>2, <1>3, <1>4, <1>5, <1>6, <1>7, <1>8, <1>10, <1>11, <1>12, WorkKeeps
        DEF Tables, Assigning

(* its number leaves the other, *)
LEMMA EraseIdKeeps ==
  ASSUME IInv, NEW p \in Process, EraseId(p)
  PROVE  IInv'
PROOF
<1>0. PICK x \in Path, i \in Id : x = target[p] /\ i = number[p]
  BY DEF IInv, TypeOK
<1>1. /\ x = target[p] /\ i = number[p] /\ LocalTypes /\ pc[p] \in PC \ {"close_element"} /\ About(p) /\ Busy(p, x)
      /\ descriptors[i] = x /\ \A j \in Id : descriptors[j] = x => j = i
  BY <1>0, Working DEF EraseId
<1>2. /\ step[p] = "erase_id" /\ pc[p] \in {"close", "cwd_unset"} /\ map_id_path[i] = x
      /\ ~Registered(x)
  BY <1>1 DEF EraseId, IInv, Place, Fits, Since
<1>3. /\ map_id_path' = [map_id_path EXCEPT ![i] = NoPath]
      /\ UNCHANGED <<descriptors, map_path_handle, entries, cwd, held>>
  BY <1>1 DEF EraseId, PathsWithout
<1>4. /\ LocalTypes' /\ OthersSame(p)
      /\ pc'[p] = pc[p] /\ step'[p] = "erase_element" /\ target'[p] = x /\ number'[p] = i
  BY <1>1, Going DEF EraseId, Inside, Step
<1>5. TypeOK'
  BY <1>3, <1>4 DEF IInv, TypeOK, LocalTypes
<1>6. map_id_path'[i] = NoPath /\ \A j \in Id \ {i} : map_id_path'[j] = map_id_path[j]
  BY <1>3 DEF IInv, TypeOK
<1>7. \A y \in Path : Busy(p, y)' <=> Busy(p, y)
  BY <1>1, <1>2, <1>4 DEF Busy
<1>8. Elements'
  BY <1>3, <1>6 DEF IInv, Tables, Elements, Registered
<1>9. \A y \in Path : Settled(y)' => Settled(y) /\ y # x
  BY <1>1, <1>4, <1>7, SettledBefore DEF Settled
<1>10. Linked' /\ NoIdleEntries'
  BY <1>1, <1>3, <1>6, <1>9 DEF IInv, Tables, Linked, NoIdleEntries, Registered
<1>11. HeldWork'
  <2>1. \A q \in Process : i \notin held[q]
    BY <1>1, <1>2, HeldIsOpen
  <2> QED BY <1>1, <1>3, <1>6, <2>1, HeldStay
<1>12. Place(p)'
  BY <1>1, <1>2, <1>3, <1>4, <1>6 DEF Place, Fits, Before, Since, Entry, Registered
<1> QED BY <1>1, <1>2, <1>3, <1>4, <1>5, <1>6, <1>7, <1>8, <1>10, <1>11, <1>12, WorkKeeps
        DEF Tables, Assigning

(* and its element the table.                                              *)
LEMMA ErasePathElementKeeps ==
  ASSUME IInv, NEW p \in Process, EraseElement(p), pc[p] # "close_element"
  PROVE  IInv'
PROOF
<1>0. PICK x \in Path, i \in Id : x = target[p] /\ i = number[p]
  BY DEF IInv, TypeOK
<1>1. /\ x = target[p] /\ i = number[p] /\ LocalTypes /\ pc[p] \in PC \ {"close_element"} /\ About(p) /\ Busy(p, x)
      /\ descriptors[i] = x /\ (\A j \in Id : descriptors[j] = x => j = i)
      /\ Root \in Path /\ 0 \in Id
  BY <1>0, Working DEF EraseElement
<1>2. /\ step[p] = "erase_element" /\ map_id_path[i] = NoPath /\ ~Registered(x)
  BY <1>1 DEF EraseElement, IInv, Place, Since
<1>3. /\ descriptors' = [descriptors EXCEPT ![i] = NoElement]
      /\ UNCHANGED <<map_id_path, map_path_handle, entries, cwd, held>>
  BY <1>1, NothingAssumption DEF EraseElement, Removed
<1>4. /\ LocalTypes' /\ OthersSame(p)
      /\ pc'[p] = "idle" /\ step'[p] = "out" /\ target'[p] = Root /\ number'[p] = 0
  BY <1>1, Going DEF EraseElement, Finish, Step, PC
<1>5. TypeOK'
  BY <1>3, <1>4 DEF IInv, TypeOK, LocalTypes
<1>6. descriptors'[i] = NoElement /\ \A j \in Id \ {i} : descriptors'[j] = descriptors[j]
  BY <1>3 DEF IInv, TypeOK
<1>7. \A y \in Path : ~Busy(p, y)'
  BY <1>4 DEF Busy
<1>8. Elements'
  <2>1. \A y \in Path : Registered(y) => map_path_handle[y].id \in Id
    BY DEF IInv, TypeOK, Registered, Info
  <2> QED BY <1>1, <1>2, <1>3, <1>6, <2>1, NothingAssumption DEF IInv, Tables, Elements, Registered
<1>9. \A y \in Path : Settled(y)' => Settled(y) \/ y = x
  BY <1>1, <1>4, SettledBefore DEF Busy
<1>10. Linked' /\ NoIdleEntries'
  BY <1>1, <1>2, <1>3, <1>6, <1>9, NothingAssumption
     DEF IInv, Tables, Linked, NoIdleEntries, Registered
<1>11. HeldWork'
  <2>1. \A q \in Process : i \notin held[q]
    BY <1>1, <1>2, HeldIsOpen
  <2> QED BY <1>1, <1>3, <1>6, <2>1, HeldStay
<1>12. Place(p)'
  BY <1>4 DEF Place, Fits, Before, Since, Entry
<1> QED BY <1>1, <1>2, <1>3, <1>4, <1>5, <1>6, <1>7, <1>8, <1>10, <1>11, <1>12, WorkKeeps
        DEF Tables, Assigning

(* An element without a path leaves the table.                             *)
LEMMA EraseElementKeeps ==
  ASSUME IInv, NEW p \in Process, EraseElement(p)
  PROVE  IInv'
PROOF
<1> SUFFICES ASSUME pc[p] = "close_element"
             PROVE  IInv'
  BY ErasePathElementKeeps
<1>1. PICK i \in Id : i = number[p]
  BY DEF IInv, TypeOK
<1>2. /\ LocalTypes /\ Root \in Path /\ 0 \in Id /\ descriptors[i] = Unnamed
      /\ step[p] = "erase_element" /\ map_id_path[i] = NoPath
      /\ \A q \in Process : i \notin held[q]
  BY <1>1, PathAssumption, BoundAssumption DEF IInv, TypeOK, LocalTypes, Id, Place, Since
<1>3. /\ descriptors' = [descriptors EXCEPT ![i] = NoElement]
      /\ UNCHANGED <<map_id_path, map_path_handle, entries, cwd, held>>
  BY <1>1, <1>2, NothingAssumption DEF EraseElement, Removed
<1>4. /\ LocalTypes' /\ OthersSame(p)
      /\ pc'[p] = "idle" /\ step'[p] = "out" /\ target'[p] = Root /\ number'[p] = 0
  BY <1>2, Going DEF EraseElement, Finish, Step, PC
<1>5. TypeOK'
  BY <1>3, <1>4 DEF IInv, TypeOK, LocalTypes
<1>6. descriptors'[i] = NoElement /\ \A j \in Id \ {i} : descriptors'[j] = descriptors[j]
  BY <1>3 DEF IInv, TypeOK
<1>7. \A y \in Path : ~Busy(p, y) /\ ~Busy(p, y)'
  BY <1>4 DEF Busy, Unnamed_Calls
<1>8. \A y \in Path : Settled(y)' => Settled(y)
  BY <1>4, <1>7, SettledBefore
<1>9. Elements' /\ Linked' /\ NoIdleEntries'
  <2>1. \A y \in Path : Registered(y) => map_path_handle[y].id \in Id
    BY DEF IInv, TypeOK, Registered, Info
  <2> QED BY <1>2, <1>3, <1>6, <1>8, <2>1, NothingAssumption
          DEF IInv, Tables, Elements, Linked, NoIdleEntries, Registered
<1>10. HeldWork'
  <2> SUFFICES ASSUME NEW q \in Process, NEW j \in held[q]
               PROVE  Works(j)' /\ \A r \in Process \ {q} : j \notin held[r]
    BY <1>3 DEF HeldWork
  <2>1. j \in Id /\ j # i
    BY <1>2 DEF IInv, TypeOK
  <2> QED BY <1>3, <1>6, <2>1 DEF IInv, Tables, HeldWork, Works, IsFree, Registered
<1>11. Apart'
  BY <1>4, <1>7, ApartStays DEF IInv, Assigning
<1>12. ASSUME NEW q \in Process \ {p} PROVE Place(q)'
  <2>1. About(q) => target[q] \in Path
    BY DEF IInv, TypeOK
  <2>2. /\ ~IsFree(i) /\ descriptors'[i] # Beyond /\ Place(q)
        /\ About(q) => descriptors[i] # target[q] /\ descriptors'[i] # target[q]
        /\ pc[q] = "close_element" => number[q] # i
    BY <1>1, <1>2, <1>6, <2>1, NothingAssumption DEF IsFree, IInv, Apart
  <2> QED BY <1>2, <1>3, <1>4, <1>6, <2>2, OthersStay
<1>13. Place(p)'
  BY <1>4 DEF Place, Fits, Before, Since, Entry
<1> QED BY <1>5, <1>9, <1>10, <1>11, <1>12, <1>13 DEF IInv, Tables

-----------------------------------------------------------------------------
(* A call that is in none of the two classes is at no step of theirs.      *)
LEMMA OutBetween ==
  ASSUME IInv, NEW p \in Process,
         pc[p] \notin Unnamed_Calls \cup Adds \cup {"open", "close", "cwd_try", "cwd_unset"}
  PROVE  step[p] = "out"
  BY DEF IInv, TypeOK, Step, Place, Fits, Unnamed_Calls

(* A step outside of them; past the first checks of set_cwd there are      *)
(* directories only.                                                       *)
LEMMA OutKeeps ==
  ASSUME IInv, NEW p \in Process, step[p] = "out", UNCHANGED <<tables, held>>,
         NEW call \in PC, NEW s \in {"out", "search"}, NEW x \in Path, NEW k \in Id,
         Goto(p, call, s, x, k),
         s = "search" => call \in Unnamed_Calls, call # "close_element",
         call \in {"cwd_add", "cwd_set"} => x \in Dirs,
         entries' \in SUBSET Path, cwd' \in [Process -> Dirs]
  PROVE  IInv'
PROOF
<1>1. LocalTypes
  BY DEF IInv, TypeOK, LocalTypes
<1>2. /\ LocalTypes' /\ OthersSame(p)
      /\ pc'[p] = call /\ step'[p] = s /\ target'[p] = x /\ number'[p] = k
  BY <1>1, Going DEF Step
<1>3. TypeOK'
  BY <1>2 DEF IInv, TypeOK, LocalTypes, tables
<1>4. Place(p)'
  BY <1>2 DEF Place, Fits, Before, Since, Entry, Unnamed_Calls, Adds
<1>5. \A y \in Path : ~Busy(p, y) /\ ~Busy(p, y)'
  BY <1>2 DEF Busy
<1> QED BY <1>2, <1>3, <1>4, <1>5, QuietKeeps DEF Assigning

(* A call goes on with the entry it has found: nobody works on the path.   *)
LEMMA EnterKeeps ==
  ASSUME IInv, NEW p \in Process, step[p] = "out", UNCHANGED <<tables, entries, cwd, held>>,
         NEW x \in Path, Registered(x), \A q \in Process \ {p} : ~Busy(q, x),
         NEW call \in {"open", "cwd_try", "cwd_unset"},
         Goto(p, call, "change", x, map_path_handle[x].id),
         call = "open" => ~map_path_handle[x].is_open
  PROVE  IInv'
PROOF
<1>1. LocalTypes /\ map_path_handle[x] \in Info
  BY DEF IInv, TypeOK, LocalTypes, Registered
<1>2. PICK i \in Id : i = map_path_handle[x].id
  BY <1>1 DEF Info
<1>3. /\ LocalTypes' /\ OthersSame(p)
      /\ pc'[p] = call /\ step'[p] = "change" /\ target'[p] = x /\ number'[p] = i
  BY <1>1, <1>2, Going DEF Step, PC
<1>4. TypeOK'
  BY <1>3 DEF IInv, TypeOK, LocalTypes, tables
<1>5. Settled(x)
  BY DEF Settled, Busy
<1>6. descriptors[i] = x /\ map_id_path[i] = x /\ InUse(x)
  <2>1. descriptors[i] = x
    BY <1>2 DEF IInv, Tables, Elements
  <2>2. map_id_path[i] = x
    BY <1>5, <2>1 DEF IInv, Tables, Linked
  <2> QED BY <1>5, <2>1, <2>2 DEF IInv, Tables, NoIdleEntries, Registered, InUse
<1>7. Place(p)'
  BY <1>3, <1>6 DEF Place, Fits, Before, Since, Entry, Registered, InUse, tables
<1>8. \A y \in Path : ~Busy(p, y) /\ (Busy(p, y)' => y = x)
  BY <1>3 DEF Busy
<1> QED BY <1>3, <1>4, <1>7, <1>8, QuietKeeps DEF Assigning

-----------------------------------------------------------------------------
(* Check_If_Exists of Add_Path_Element: a path without an entry has no     *)
(* element either, when nobody works on it.                                *)
LEMMA AddKeeps ==
  ASSUME IInv, Serial = {"path", "search"}, NEW p \in Process, Add(p)
  PROVE  IInv'
PROOF
<1>1. /\ LocalTypes /\ target[p] \in Path /\ number[p] \in Id /\ pc[p] \in Adds /\ pc[p] \in PC
      /\ step[p] = "out" /\ UNCHANGED <<tables, entries, cwd, held>> /\ Root \in Path /\ 0 \in Id
      /\ \A q \in Process \ {p} : ~Busy(q, target[p])
      /\ pc[p] = "cwd_add" => target[p] \in Dirs
  BY PathAssumption, BoundAssumption
     DEF Add, IInv, TypeOK, LocalTypes, MayEnter, Id, Place, Fits
<1>2. CASE Registered(target[p])
  <2>1. PICK call \in {"cwd_set", "idle"}, x \in Path :
          Goto(p, call, "out", x, 0) /\ (call = "cwd_set" => x \in Dirs)
    BY <1>1, <1>2 DEF Add, Continue, Finish
  <2> QED BY <1>1, <2>1, OutKeeps DEF PC, IInv, TypeOK
<1>3. CASE ~Registered(target[p])
  <2>1. Goto(p, pc[p], "search", target[p], number[p])
    BY <1>3 DEF Add, Inside
  <2>2. /\ LocalTypes' /\ OthersSame(p) /\ pc'[p] = pc[p] /\ step'[p] = "search"
        /\ target'[p] = target[p] /\ number'[p] = number[p]
    BY <1>1, <2>1, Going DEF Step
  <2>3. TypeOK'
    BY <1>1, <2>2 DEF IInv, TypeOK, LocalTypes, tables
  <2>4. \A i \in Id : descriptors[i] # target[p]
    <3>1. Settled(target[p])
      BY <1>1 DEF Settled, Busy
    <3> QED BY <1>1, <1>3, <3>1 DEF IInv, Tables, Linked
  <2>5. Place(p)'
    BY <1>1, <2>2, <2>4 DEF Place, Fits, Before, Since, Entry, Adds, tables
  <2>6. /\ pc'[p] # "close_element"
        /\ \A y \in Path : ~Busy(p, y) /\ (Busy(p, y)' => y = target[p])
    BY <1>1, <2>2 DEF Busy, Adds
  <2> QED BY <1>1, <2>2, <2>3, <2>5, <2>6, QuietKeeps DEF Assigning
<1> QED BY <1>2, <1>3

(* A call that leaves its path, with all of its entries.                   *)
LEMMA LeaveKeeps ==
  ASSUME IInv, NEW p \in Process, step[p] \in {"test", "get_element"}, InUse(target[p]),
         UNCHANGED <<tables, entries, cwd, held>>,
         NEW call \in {"idle", "cwd_open", "cwd_set"}, NEW x \in Path,
         Goto(p, call, "out", x, 0), call = "cwd_set" => x \in Dirs
  PROVE  IInv'
PROOF
<1>1. /\ LocalTypes /\ 0 \in Id /\ target[p] \in Path /\ number[p] \in Id
      /\ \A i \in Id : descriptors[i] = target[p] => i = number[p]
  BY Working
<1>2. /\ LocalTypes' /\ OthersSame(p)
      /\ pc'[p] = call /\ step'[p] = "out" /\ target'[p] = x /\ number'[p] = 0
  BY <1>1, Going DEF Step, PC
<1>3. TypeOK'
  BY <1>2 DEF IInv, TypeOK, LocalTypes, tables
<1>4. Place(p)'
  BY <1>2 DEF Place, Fits, Before, Since, Entry
<1>5. /\ map_id_path[number[p]] = target[p] /\ Registered(target[p])
  BY DEF IInv, Place, Since
<1>6. \A y \in Path : ~Busy(p, y)' /\ (Busy(p, y) => y = target[p])
  BY <1>2 DEF Busy
<1> QED BY <1>1, <1>2, <1>3, <1>4, <1>5, <1>6, QuietKeeps DEF Assigning

(* Try_Remove's test.                                                      *)
LEMMA TestKeeps ==
  ASSUME IInv, NEW p \in Process, Test(p)
  PROVE  IInv'
PROOF
<1>0. PICK x \in Path, i \in Id : x = target[p] /\ i = number[p]
  BY DEF IInv, TypeOK
<1>1. /\ x = target[p] /\ i = number[p] /\ LocalTypes /\ pc[p] \in PC \ {"close_element"} /\ About(p)
      /\ Root \in Path /\ Registered(x) /\ map_path_handle[x] \in Info
      /\ UNCHANGED <<tables, entries, cwd, held>>
  BY <1>0, Working DEF Test, IInv, Place, Since, TypeOK, Registered
<1>2. CASE ~Idle(x)
  <2>1. InUse(x)
    BY <1>1, <1>2 DEF Idle, InUse, Info
  <2> QED BY <1>1, <1>2, <2>1, LeaveKeeps DEF Test, Finish
<1>3. CASE Idle(x)
  <2>1. /\ LocalTypes' /\ OthersSame(p)
        /\ pc'[p] = pc[p] /\ step'[p] = "erase_path" /\ target'[p] = x /\ number'[p] = i
    BY <1>1, <1>3, Going DEF Test, Inside, Step
  <2>2. TypeOK'
    BY <1>1, <2>1 DEF IInv, TypeOK, LocalTypes, tables
  <2>3. Idle(x)'
    BY <1>1, <1>3 DEF Idle, Registered, tables
  <2>4. Since(p)' /\ Entry(p)'
    BY <1>1, <1>3, <2>1 DEF Test, IInv, Place, Fits, Since, Entry, Registered, Idle, tables
  <2>5. Fits(p)' /\ Before(p)'
    BY <1>1, <2>1 DEF Test, IInv, Place, Fits, Before
  <2>6. \A y \in Path : Busy(p, y)' <=> Busy(p, y)
    BY <1>1, <2>1 DEF Busy, Test
  <2> QED BY <1>1, <2>1, <2>2, <2>4, <2>5, <2>6, QuietKeeps DEF Assigning, Place
<1> QED BY <1>2, <1>3

(* Get_Element of Try_Set_CWD: the element is that of the path.            *)
LEMMA CwdElementKeeps ==
  ASSUME IInv, NEW p \in Process, CwdElement(p)
  PROVE  IInv'
PROOF
<1>1. /\ descriptors[number[p]] = target[p] /\ target[p] \in Path /\ Root \in Path
      /\ InUse(target[p]) /\ UNCHANGED <<tables, entries, cwd, held>>
  BY Working DEF CwdElement, IInv, Place, Fits, Entry
<1>2. PICK call \in {"idle", "cwd_open", "cwd_set"}, x \in Path :
        Goto(p, call, "out", x, 0) /\ (call = "cwd_set" => x \in Dirs)
  BY <1>1 DEF CwdElement, Continue, Finish, Directories
<1> QED BY <1>1, <1>2, LeaveKeeps DEF CwdElement

(* Close_Handle: of an element without a path, or of the path's entry, the *)
(* number is nobody's from now on.                                         *)
LEMMA CloseKeeps ==
  ASSUME IInv, Serial = {"path", "search"}, NEW p \in Process, Close(p)
  PROVE  IInv'
PROOF
<1>1. LocalTypes /\ held \in [Process -> SUBSET Id] /\ Root \in Path
  BY PathAssumption DEF IInv, TypeOK, LocalTypes
<1>2. PICK i \in held[p] :
       /\ held' = [held EXCEPT ![p] = @ \ {i}]
       /\ IF map_id_path[i] = NoPath THEN Goto(p, "close_element", "erase_element", Root, i)
          ELSE MayEnter(p, map_id_path[i]) /\ Goto(p, "close", "change", map_id_path[i], i)
  BY DEF Close
<1>3. /\ i \in Id /\ Works(i) /\ (\A q \in Process \ {p} : i \notin held[q])
      /\ step[p] = "out"
      /\ UNCHANGED <<descriptors, map_id_path, map_path_handle, entries, cwd>>
  BY <1>1, <1>2, OutBetween DEF Close, MayStart, IInv, Tables, HeldWork, Unnamed_Calls, Adds, tables
<1>4. /\ held' \in [Process -> SUBSET Id] /\ (\A q \in Process : i \notin held'[q])
      /\ \A q \in Process : held'[q] \subseteq held[q]
  BY <1>1, <1>2, <1>3
<1>5. \A q \in Process \ {p} : pc[q] = "close_element" => number[q] # i
  BY <1>2 DEF IInv, Place, Since
<1>6. PICK call \in {"close_element", "close"}, s \in {"erase_element", "change"}, x \in Path :
        /\ Goto(p, call, s, x, i)
        /\ call = "close_element" => /\ s = "erase_element" /\ descriptors[i] = Unnamed
                                     /\ map_id_path[i] = NoPath
        /\ call = "close" => /\ s = "change" /\ descriptors[i] = x /\ map_id_path[i] = x
                             /\ Registered(x) /\ \A q \in Process \ {p} : ~Busy(q, x)
  <2>1. CASE map_id_path[i] = NoPath
    <3>1. descriptors[i] = Unnamed
      BY <1>3, <2>1, NothingAssumption DEF Works, IInv, TypeOK, IsFree
    <3> QED BY <1>1, <1>2, <2>1, <3>1
  <2>2. CASE map_id_path[i] # NoPath
    <3>1. PICK x \in Path : x = map_id_path[i]
      BY <1>3, <2>2 DEF IInv, TypeOK
    <3>2. /\ descriptors[i] = x /\ Goto(p, "close", "change", x, i)
          /\ \A q \in Process \ {p} : ~Busy(q, x)
      BY <1>2, <1>3, <2>2, <3>1 DEF IInv, Tables, Elements, MayEnter
    <3>3. Registered(x)
      BY <1>3, <3>2, NothingAssumption DEF Settled, Busy, IInv, Tables, Linked
    <3> QED BY <3>1, <3>2, <3>3
  <2> QED BY <2>1, <2>2
<1>7. /\ LocalTypes' /\ OthersSame(p)
      /\ pc'[p] = call /\ step'[p] = s /\ target'[p] = x /\ number'[p] = i
  <2>1. call \in PC /\ s \in Step
    BY DEF PC, Step, Unnamed_Calls
  <2> QED BY <1>1, <1>3, <1>6, <2>1, Going
<1>8. TypeOK'
  BY <1>3, <1>4, <1>7 DEF IInv, TypeOK, LocalTypes
<1>9. Elements' /\ Linked' /\ NoIdleEntries'
  <2>1. \A y \in Path : Settled(y)' => Settled(y)
    BY <1>3, <1>7, SettledBefore DEF Busy
  <2> QED BY <1>3, <2>1 DEF IInv, Tables, Elements, Linked, NoIdleEntries, Registered
<1>10. HeldWork'
  BY <1>3, <1>4 DEF IInv, Tables, HeldWork, Works, IsFree, Registered
<1>11. Apart'
  <2>1. \A y \in Path : Busy(p, y)' => call = "close" /\ y = x
    BY <1>6, <1>7 DEF Busy, Unnamed_Calls
  <2> QED BY <1>5, <1>6, <1>7, <2>1, ApartStays DEF IInv, Assigning
<1>12. ASSUME NEW q \in Process \ {p} PROVE Place(q)'
  <2>1. About(q) => descriptors[i] # target[q] /\ descriptors'[i] # target[q]
    <3>1. About(q) => target[q] \in Path
      BY DEF IInv, TypeOK
    <3> QED BY <1>3, <1>6, <3>1, NothingAssumption DEF About, Busy
  <2>2. Place(q) /\ (pc[q] = "close_element" => number[q] # i)
    BY <1>5 DEF IInv
  <2> QED BY <1>1, <1>3, <1>4, <1>7, <2>1, <2>2, OthersStay
<1>13. Place(p)'
  BY <1>3, <1>4, <1>6, <1>7 DEF Place, Fits, Before, Since, Entry, Registered
<1> QED BY <1>8, <1>9, <1>10, <1>11, <1>12, <1>13 DEF IInv, Tables

-----------------------------------------------------------------------------
(* The steps that begin a call, or belong to no call of the two classes.   *)
LEMMA OtherStepsKeep ==
  ASSUME IInv, Serial = {"path", "search"}, NEW p \in Process,
         \/ CreateDescriptors(p) \/ Open(p) \/ OpenLookup(p)
         \/ Delete(p) \/ Remove(p) \/ CreateEntry(p)
         \/ SetCwd(p) \/ CwdOpen(p) \/ CwdSet(p) \/ CwdUnset(p)
         \/ Spawn(p) \/ Exit(p)
  PROVE  IInv'
PROOF
<1>1. /\ Root \in Path /\ 0 \in Id /\ Dirs \subseteq Path /\ LocalTypes
      /\ \A q \in Process : /\ target[q] \in Path /\ cwd[q] \in Dirs /\ pc[q] \in PC
      /\ entries \in SUBSET Path /\ cwd \in [Process -> Dirs]
  BY PathAssumption, BoundAssumption DEF IInv, TypeOK, LocalTypes, Id
<1>2. \A q \in Process :
        pc[q] \in {"unborn", "idle", "open_lookup", "delete_remove", "create_remove",
                   "create_entry", "cwd_open", "cwd_set"} => step[q] = "out"
  <2> SUFFICES ASSUME NEW q \in Process,
                      pc[q] \in {"unborn", "idle", "open_lookup", "delete_remove",
                                 "create_remove", "create_entry", "cwd_open", "cwd_set"}
               PROVE  step[q] = "out"
    OBVIOUS
  <2>1. pc[q] \notin Unnamed_Calls \cup Adds \cup {"open", "close", "cwd_try", "cwd_unset"}
    BY DEF Unnamed_Calls, Adds
  <2> QED BY <2>1, OutBetween
<1>3. CASE CreateDescriptors(p)
  <2>1. PICK call \in {"pipe_write", "proc"} : Goto(p, call, "search", Root, 0)
    BY <1>3 DEF CreateDescriptors
  <2>2. call \in PC /\ call \in Unnamed_Calls /\ step[p] = "out" /\ UNCHANGED <<tables, held>>
        /\ entries' \in SUBSET Path /\ cwd' \in [Process -> Dirs]
        /\ call \notin {"cwd_add", "cwd_set"}
    BY <1>1, <1>2, <1>3 DEF CreateDescriptors, MayStart, PC, Unnamed_Calls
  <2> QED BY <1>1, <2>1, <2>2, OutKeeps
<1>4. CASE Open(p)
  <2>1. PICK x \in Path :
          /\ MayEnter(p, x)
          /\ \/ Openable(x) /\ Goto(p, "open", "change", x, map_path_handle[x].id)
             \/ \E call \in {"open_cwd_add", "open_add", "open_lookup"} : Goto(p, call, "out", x, 0)
    BY <1>4 DEF Open
  <2>2. step[p] = "out" /\ UNCHANGED <<tables, entries, cwd, held>>
    BY <1>2, <1>4 DEF Open, MayStart
  <2>3. CASE Openable(x) /\ Goto(p, "open", "change", x, map_path_handle[x].id)
    BY <2>1, <2>2, <2>3, EnterKeeps DEF MayEnter, Openable
  <2>4. CASE \E call \in {"open_cwd_add", "open_add", "open_lookup"} : Goto(p, call, "out", x, 0)
    <3>1. PICK call \in {"open_cwd_add", "open_add", "open_lookup"} : Goto(p, call, "out", x, 0)
      BY <2>4
    <3>2. call \in PC /\ call \notin {"cwd_add", "cwd_set"}
      BY DEF PC, Adds
    <3>3. entries' \in SUBSET Path /\ cwd' \in [Process -> Dirs] /\ UNCHANGED <<tables, held>>
      BY <1>1, <2>2
    <3> QED BY <1>1, <2>2, <3>1, <3>2, <3>3, OutKeeps
  <2> QED BY <2>1, <2>3, <2>4
<1>5. CASE OpenLookup(p) \/ Delete(p) \/ Remove(p) \/ CreateEntry(p) \/ CwdOpen(p)
  <2>1. step[p] = "out" /\ UNCHANGED <<tables, cwd, held>> /\ entries' \in SUBSET Path
    BY <1>1, <1>2, <1>5
       DEF OpenLookup, Delete, Remove, CreateEntry, CwdOpen, MayStart
  <2>2. PICK call \in {"open_add", "idle", "delete_remove", "create_remove", "create_entry",
                       "create_add", "cwd_add"}, x \in Path :
          Goto(p, call, "out", x, 0) /\ (call = "cwd_add" => x \in Dirs)
    <3>1. CASE OpenLookup(p)
      BY <1>1, <3>1 DEF OpenLookup, Continue, Finish
    <3>2. CASE Delete(p)
      BY <1>1, <3>2 DEF Delete
    <3>3. CASE Remove(p)
      BY <1>1, <3>3 DEF Remove, Continue, Finish
    <3>4. CASE CreateEntry(p)
      BY <1>1, <3>4 DEF CreateEntry, Continue, Finish
    <3>5. CASE CwdOpen(p)
      BY <1>1, <3>5 DEF CwdOpen, Continue, Finish, Directories
    <3> QED BY <1>5, <3>1, <3>2, <3>3, <3>4, <3>5
  <2>3. call \in PC /\ call # "cwd_set" /\ cwd' \in [Process -> Dirs]
    BY <1>1, <2>1 DEF PC, Adds
  <2> QED BY <1>1, <2>1, <2>2, <2>3, OutKeeps
<1>6. CASE SetCwd(p)
  <2>1. PICK x \in Path :
          /\ MayEnter(p, x)
          /\ IF Registered(x) THEN Goto(p, "cwd_try", "change", x, map_path_handle[x].id)
             ELSE Goto(p, "cwd_open", "out", x, 0)
    BY <1>6 DEF SetCwd
  <2>2. step[p] = "out" /\ UNCHANGED <<tables, entries, cwd, held>>
    BY <1>2, <1>6 DEF SetCwd, MayStart
  <2>3. CASE Registered(x)
    BY <2>1, <2>2, <2>3, EnterKeeps DEF MayEnter
  <2>4. CASE ~Registered(x)
    BY <1>1, <2>1, <2>2, <2>4, OutKeeps DEF PC
  <2> QED BY <2>3, <2>4
<1>7. CASE CwdSet(p)
  <2>1. /\ step[p] = "out" /\ UNCHANGED <<tables, held>> /\ entries' \in SUBSET Path
        /\ Goto(p, "cwd_unset", "out", cwd[p], 0) /\ cwd[p] \in Path
    BY <1>1, <1>2, <1>7 DEF CwdSet
  <2>2. cwd' \in [Process -> Dirs]
    BY <1>1, <1>7 DEF CwdSet, IInv, Place, Fits
  <2> QED BY <1>1, <2>1, <2>2, OutKeeps DEF PC
<1>8. CASE CwdUnset(p)
  <2>1. step[p] = "out" /\ UNCHANGED <<tables, entries, cwd, held>> /\ MayEnter(p, target[p])
    BY <1>8 DEF CwdUnset
  <2>2. CASE Registered(target[p])
    BY <1>1, <1>8, <2>1, <2>2, EnterKeeps DEF CwdUnset, MayEnter
  <2>3. CASE ~Registered(target[p])
    BY <1>1, <1>8, <2>1, <2>3, OutKeeps DEF CwdUnset, Finish, PC
  <2> QED BY <2>2, <2>3
<1>9. CASE Spawn(p)
  <2>1. PICK c \in Process : /\ pc[c] = "unborn" /\ Goto(c, "idle", "out", Root, 0)
                             /\ cwd' = [cwd EXCEPT ![c] = cwd[p]]
    BY <1>9 DEF Spawn, Finish
  <2>2. /\ step[c] = "out" /\ UNCHANGED <<tables, held>> /\ entries' \in SUBSET Path
        /\ cwd' \in [Process -> Dirs]
    BY <1>1, <1>2, <1>9, <2>1 DEF Spawn
  <2> QED BY <1>1, <2>1, <2>2, OutKeeps DEF PC
<1>10. CASE Exit(p)
  <2>1. /\ step[p] = "out" /\ UNCHANGED <<tables, entries, cwd, held>>
        /\ Goto(p, "ended", "out", target[p], 0)
    BY <1>2, <1>10 DEF Exit, MayStart, Continue
  <2> QED BY <1>1, <2>1, OutKeeps DEF PC
<1> QED BY <1>3, <1>4, <1>5, <1>6, <1>7, <1>8, <1>9, <1>10

(* The conjunction is an inductive invariant.                              *)
LEMMA Inductive == ASSUME Serial = {"path", "search"} PROVE Spec => []IInv
PROOF
<1>1. Init => IInv
  BY InitIInv
<1>2. IInv /\ [Next]_vars => IInv'
  <2> SUFFICES ASSUME IInv, [Next]_vars PROVE IInv'
    OBVIOUS
  <2>1. CASE Next
    <3>1. PICK p \in Process :
            \/ Registry(p) \/ Close(p) \/ CwdElement(p)
            \/ CreateDescriptors(p) \/ Open(p) \/ OpenLookup(p)
            \/ Delete(p) \/ Remove(p) \/ CreateEntry(p)
            \/ SetCwd(p) \/ CwdOpen(p) \/ CwdSet(p) \/ CwdUnset(p)
            \/ Spawn(p) \/ Exit(p)
      BY <2>1 DEF Next
    <3>2. CASE Registry(p)
      BY <3>2, SearchKeeps, AssignKeeps, AddKeeps, InsertPathKeeps, InsertIdKeeps, ChangeKeeps,
         TestKeeps, ErasePathKeeps, EraseIdKeeps, EraseElementKeeps DEF Registry
    <3>3. CASE Close(p) \/ CwdElement(p)
      BY <3>3, CloseKeeps, CwdElementKeeps
    <3> QED BY <3>1, <3>2, <3>3, OtherStepsKeep
  <2>2. CASE UNCHANGED vars
    <3>1. UNCHANGED <<descriptors, map_id_path, map_path_handle, entries, cwd, pc, step, target,
                      number, held>>
      BY <2>2 DEF vars, tables, local
    <3>2. TypeOK' /\ Tables'
      BY <3>1 DEF IInv, TypeOK, Tables, Elements, Linked, NoIdleEntries, HeldWork, Works, IsFree,
                  Registered, Settled, Busy
    <3>3. Apart' /\ \A p \in Process : Place(p)'
      BY <3>1 DEF IInv, Apart, Busy, Place, Fits, Before, Since, Entry, IsEnd, Registered, InUse,
                  Idle
    <3> QED BY <3>2, <3>3 DEF IInv
  <2> QED BY <2>1, <2>2
<1> QED BY <1>1, <1>2, PTL DEF Spec

(* Every component has its type in every reachable state; in particular    *)
(* only a directory is ever somebody's working directory, although         *)
(* Try_Set_CWD counts a path before it looks what it is.                   *)
THEOREM TypeCorrect == ASSUME Serial = {"path", "search"} PROVE Spec => []TypeOK
PROOF
<1>1. IInv => TypeOK
  BY DEF IInv
<1> QED BY <1>1, Inductive, PTL

(* When calls about one path wait for each other, and searches for a       *)
(* descriptor do, the maps from numbers to paths and back agree, which     *)
(* Close_Handle relies on, wherever the calls about other paths come       *)
(* between (path_handlers.cpp:7-119).  The code does not make them wait.   *)
THEOREM MapsStayInverse == ASSUME Serial = {"path", "search"} PROVE Spec => []MapsAgree
PROOF
<1>1. IInv => MapsAgree
  <2> SUFFICES ASSUME IInv, NEW x \in Path, Settled(x)
               PROVE  /\ Registered(x) => /\ map_id_path[map_path_handle[x].id] = x
                                          /\ descriptors[map_path_handle[x].id] = x
                      /\ \A i \in Id : map_id_path[i] = x
                           => Registered(x) /\ map_path_handle[x].id = i
    BY DEF MapsAgree
  <2>1. Registered(x) => map_path_handle[x].id \in Id
    BY DEF IInv, TypeOK, Registered, Info
  <2> QED BY <2>1, NothingAssumption DEF IInv, Tables, Elements, Linked
<1> QED BY <1>1, Inductive, PTL

(* On the same condition: a handle that open_file or create_pipe returned  *)
(* leads to its element until its process closes it, and no other process  *)
(* has it (handler_table.cpp:3-15).                                        *)
THEOREM HandlesStayExclusive == ASSUME Serial = {"path", "search"} PROVE Spec => []HandlesAreExclusive
PROOF
<1>1. IInv => HandlesAreExclusive
  <2> SUFFICES ASSUME IInv, NEW p \in Process, NEW i \in held[p]
               PROVE  /\ ~IsFree(i)
                      /\ map_id_path[i] # NoPath
                           => LET info == map_path_handle[map_id_path[i]]
                              IN info # NoInfo /\ info.is_open /\ info.id = i
                      /\ \A q \in Process \ {p} : i \notin held[q]
    BY DEF HandlesAreExclusive
  <2>1. i \in Id /\ Works(i) /\ \A q \in Process \ {p} : i \notin held[q]
    BY DEF IInv, TypeOK, Tables, HeldWork
  <2>2. ASSUME map_id_path[i] # NoPath
        PROVE  LET info == map_path_handle[map_id_path[i]]
               IN info # NoInfo /\ info.is_open /\ info.id = i
    <3>1. descriptors[i] = map_id_path[i] /\ descriptors[i] \in Path
      BY <2>1, <2>2 DEF IInv, TypeOK, Tables, Elements
    <3>2. Registered(descriptors[i]) /\ map_path_handle[descriptors[i]].is_open
      BY <2>1, <3>1, NothingAssumption DEF Works
    <3>3. map_path_handle[descriptors[i]].id \in Id
      BY <3>1, <3>2 DEF IInv, TypeOK, Registered, Info
    <3> QED BY <2>1, <3>1, <3>2, <3>3 DEF IInv, Tables, Elements, Registered
  <2> QED BY <2>1, <2>2 DEF Works
<1> QED BY <1>1, Inductive, PTL

(* No entry of a path outlives its last use, but for the steps that take   *)
(* it away.                                                                *)
THEOREM NoEntryLeaks == ASSUME Serial = {"path", "search"} PROVE Spec => []NoIdleEntries
PROOF
<1>1. IInv => NoIdleEntries
  BY DEF IInv, Tables
<1> QED BY <1>1, Inductive, PTL
=============================================================================
