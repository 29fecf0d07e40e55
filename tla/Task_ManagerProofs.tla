------------------------- MODULE Task_ManagerProofs -------------------------
(***************************************************************************)
(* Proofs about Task_Manager, for any number of slots and threads, where   *)
(* only the bootstrap thread and the shell create processes (SingleShell), *)
(* as in this system; with more creators HandlesAreDistinct fails.  The    *)
(* kernel takes no lock, so the argument is about who may be where: every  *)
(* slot has one owner, an owner makes one call at a time, and a slot is    *)
(* emptied only after its program has ended.  The invariant says this of   *)
(* each step of Clone, Read_Exit_Code and Shutdown.                        *)
(***************************************************************************)
EXTENDS Task_Manager, TLAPS

(* A call that makes a process, one that makes a thread, the two steps     *)
(* that free a slot, and a Read_Exit_Code between its lookup and the slot. *)
Cloning(t) == exec[t] /\ at[t] \in {"allocate", "start", "insert", "publish", "inherit"}
Threading(t) == ~exec[t] /\ at[t] \in {"start", "insert", "publish"}
Freeing(t) == at[t] \in {"free", "clear"}
Reading(t) == at[t] \in {"read_exit", "unpublish"}

(* With a single shell it is settled whose business a slot is: the         *)
(* bootstrap thread makes the shell, a program of the shell all others.    *)
Owns(t, p) ==
  \/ t = Boot /\ p = Shell
  \/ t \in program \ {Boot} /\ ppid[t] = Shell /\ p \notin {Kernel, Shell}

(* A thread has a process from its first step on, a program belongs to it  *)
(* as its main thread, and only the bootstrap thread belongs to the kernel.*)
Lineage ==
  /\ \A c \in Tid : at[c] = "unborn" <=> ppid[c] = NoPid
  /\ \A c \in program : ppid[c] # NoPid
  /\ Boot \in program /\ \A c \in Tid : ppid[c] = Kernel <=> c = Boot
  /\ \A p \in Pid : main_tid[p] # NoTid => ppid[main_tid[p]] = p
  /\ \A p \in Pid : \A c \in thread_list[p] : c \in program <=> main_tid[p] = c

(* What Clone has started is a thread of its slot; until it is published   *)
(* no table leads to it, no other Clone works on it, nobody waits for it.  *)
Newcomers ==
  /\ \A t \in Tid : at[t] \in {"allocate", "inherit"} => exec[t]
  /\ \A t \in Tid : at[t] \in {"insert", "publish", "inherit"} =>
       /\ born[t] # NoTid /\ ppid[born[t]] = slot[t]
       /\ exec[t] <=> born[t] \in program
  /\ \A t \in Tid : at[t] \in {"insert", "publish"} =>
       /\ thread_table[born[t]] = NoPid
       /\ \A u \in Tid : at[u] \in {"insert", "publish"} /\ born[u] = born[t] => u = t
       /\ \A u \in Tid : Reading(u) \/ at[u] = "remove" => born[t] \notin awaited[u]

(* Calls work on slots of their owner, or on the caller's own process, and *)
(* programs hold and wait for what they have made.                         *)
Ownership ==
  /\ \A t \in Tid : Cloning(t) \/ Freeing(t) => Owns(t, slot[t])
  /\ \A t \in Tid : Threading(t) =>
       t \in program \ {Boot} /\ slot[t] = ppid[t] /\ t \in thread_list[ppid[t]]
  /\ \A t \in Tid : \A p \in children[t] : Owns(t, p)
  /\ \A t \in Tid : \A s \in siblings[t] :
       t \in program \ {Boot} /\ s \notin program /\ ppid[s] = ppid[t]
  /\ \A t \in Tid : Reading(t) => \A h \in awaited[t] :
       /\ ppid[h] # NoPid
       /\ h \in program => Owns(t, ppid[h])
       /\ h \notin program => t \in program \ {Boot} /\ ppid[h] = ppid[t]
  /\ \A t \in Tid : Reading(t) \/ at[t] = "remove" =>
       \A g, h \in awaited[t] : g = h
  /\ \A t \in Tid : at[t] = "unpublish" => \A h \in awaited[t] : at[h] = "ended"
  /\ \A t \in Tid : at[t] = "sweep" => slot[t] # Kernel

(* A running program has its slot to itself: no second one runs in it, and *)
(* no step that empties or fills the slot is taken next to it.             *)
Tenancy ==
  /\ state[Kernel] # "FREE"
  /\ \A t \in program : Alive(t) => state[ppid[t]] # "FREE"
  /\ \A t, u \in program : Alive(t) /\ Alive(u) /\ ppid[t] = ppid[u] => t = u
  /\ \A t \in program : Alive(t) => \A h \in thread_list[ppid[t]] : h \in program => h = t
  /\ \A t \in Tid : Freeing(t) \/ (exec[t] /\ at[t] \in {"allocate", "start"}) =>
       \A u \in program : ppid[u] = slot[t] => ~Alive(u)
  /\ \A t \in Tid : exec[t] /\ at[t] = "insert" =>
       \A u \in program : ppid[u] = slot[t] /\ Alive(u) => u = born[t]

(* The slot of a Clone is in use and empty until its thread is inserted;   *)
(* every other free slot is empty while a program of the shell runs, and   *)
(* before the shell is made nothing else has happened.                     *)
Vacancy ==
  /\ \A t \in Tid : exec[t] /\ at[t] \in {"start", "insert", "publish", "inherit"} =>
       state[slot[t]] # "FREE"
  /\ \A t \in Tid : exec[t] /\ at[t] \in {"allocate", "start", "insert"} =>
       thread_list[slot[t]] = {}
  /\ \A t \in program : Alive(t) /\ ppid[t] = Shell =>
       \A p \in Pid \ {Kernel, Shell} :
         state[p] = "FREE" /\ ~(at[t] = "clear" /\ slot[t] = p) => thread_list[p] = {}
  /\ at[Boot] \in {"allocate", "start"} => born[Boot] = NoTid
  /\ born[Boot] = NoTid =>
       /\ at[Boot] \in {"user", "allocate", "start"} /\ children[Boot] = {}
       /\ \A c \in Tid \ {Boot} : at[c] = "unborn"
       /\ \A p \in Pid \ {Kernel} :
            thread_list[p] = {} /\ (at[Boot] = "user" => state[p] = "FREE")

(* The order of the table accesses: a thread is listed before it is        *)
(* published, and no longer published when it is removed or its slot freed.*)
Listing ==
  /\ \A t \in Tid : at[t] = "publish" => born[t] \in thread_list[slot[t]]
  /\ \A t \in Tid : at[t] = "remove" =>
       \A h \in awaited[t] :
         thread_table[h] = NoPid /\ ppid[h] # NoPid /\ h \notin program
  /\ \A t \in Tid : Freeing(t) => \A u \in Tid : thread_table[u] # slot[t]
  /\ \A t \in Tid : at[t] = "free" /\ thread_list[slot[t]] # {} =>
       main_tid[slot[t]] \in Tid /\ at[main_tid[slot[t]]] = "ended"

(* What a call is about to hand out or to take away its caller does not    *)
(* hold; and what it is about to hand out is complete.                     *)
Holding ==
  /\ \A t \in Tid : exec[t] /\ at[t] \in {"publish", "inherit"} =>
       main_tid[slot[t]] = born[t] /\ state[slot[t]] \in {"RUNNING", "FINISHED"}
  /\ \A t \in Tid : at[t] = "inherit" => thread_table[born[t]] = slot[t]
  /\ \A t \in Tid : Cloning(t) \/ Freeing(t) => slot[t] \notin children[t]
  /\ \A t \in Tid : Reading(t) => \A h \in awaited[t] :
       /\ h \in program => ppid[h] \notin children[t]
       /\ h \notin siblings[t]

IInv ==
  /\ TypeOK /\ TablesAgree /\ HandlesResolve /\ Lineage /\ Newcomers /\ Ownership
  /\ Tenancy /\ Vacancy /\ Listing /\ Holding

(* Two running threads do not own the same slot: there is one bootstrap    *)
(* thread, and one program of the shell at a time.                         *)
LEMMA SoleOwner ==
  ASSUME NEW t \in Tid, NEW u \in Tid, NEW p \in Pid, Tenancy,
         Owns(t, p), Owns(u, p), Alive(t), Alive(u)
  PROVE  t = u
BY DEF Owns, Tenancy

(* The slot found is free, so nobody holds it and no thread runs in it.    *)
LEMMA CreateProcessKeeps ==
  ASSUME SingleShell, NEW t \in Tid, IInv, CreateProcess(t)
  PROVE  IInv'
<1> USE DEF IInv
<1>1. PICK p \in Pid :
        /\ state[p] = "FREE" /\ \A q \in Pid : state[q] = "FREE" => p <= q
        /\ slot' = [slot EXCEPT ![t] = p]
  BY DEF CreateProcess, FreeSlots
<1>2. /\ at[t] = "user" /\ at' = [at EXCEPT ![t] = "allocate"]
      /\ exec' = [exec EXCEPT ![t] = TRUE]
      /\ t \in program /\ IF t = Boot THEN born[t] = NoTid ELSE ppid[t] = Shell
      /\ UNCHANGED <<state, main_tid, thread_list, ppid, thread_table, cwd_mapping,
                     shutdown_event, program, born, awaited, children, siblings, crashed>>
  BY DEF CreateProcess, MayCreateProcess, Goto
<1>3. p # Kernel /\ Owns(t, p)
  <2>1. CASE t = Boot
    <3>1. Shell \in Pid \ {Kernel} /\ state[Shell] = "FREE"
      BY <1>2, <2>1, PidLimitAssumption DEF Pid, Kernel, Shell, Vacancy
    <3>2. p <= Shell /\ p # Kernel
      BY <1>1, <3>1 DEF Tenancy
    <3> QED
      BY <2>1, <3>2 DEF Owns, Pid, Kernel, Shell
  <2>2. CASE t # Boot
    BY <1>1, <1>2, <2>2 DEF Owns, Alive, Tenancy
  <2> QED BY <2>1, <2>2
<1>4. thread_list[p] = {}
  BY <1>1, <1>2, <1>3 DEF Alive, Owns, Vacancy
<1>5. p \notin children[t]
  BY <1>1, <1>2 DEF Alive, HandlesResolve
<1>6. TypeOK' /\ TablesAgree' /\ HandlesResolve' /\ Lineage' /\ Newcomers' /\ Listing'
  BY DEF CreateProcess, Step, Alive, Goto, Registered, Freeing, Reading, FreeSlots,
     TypeOK, TablesAgree, HandlesResolve, Lineage, Newcomers, Listing
<1>7. Ownership'
  BY <1>1, <1>2, <1>3 DEF Owns, Cloning, Threading, Freeing, Reading, TypeOK, Ownership
<1>8. Tenancy'
  BY DEF CreateProcess, Alive, Goto, Freeing, FreeSlots, TypeOK, Tenancy, Vacancy
<1>9. Vacancy'
  BY <1>1, <1>2, <1>4, TidAssumption DEF Alive, TypeOK, Vacancy
<1>10. Holding'
  BY <1>1, <1>2, <1>5 DEF Cloning, Freeing, Reading, TypeOK, Holding
<1> QED BY <1>6, <1>7, <1>8, <1>9, <1>10

(* The slot is marked while it is still the caller's to give.              *)
LEMMA AllocateKeeps ==
  ASSUME SingleShell, NEW t \in Tid, IInv, Allocate(t)
  PROVE  IInv'
<1> USE DEF IInv
<1>1. TypeOK' /\ TablesAgree' /\ Lineage' /\ Newcomers' /\ Tenancy' /\ Vacancy' /\
      Listing'
  BY DEF Allocate, Step, OnSlot, Alive, Goto, Freeing, Reading, TypeOK, TablesAgree,
     Lineage, Newcomers, Tenancy, Vacancy, Listing
<1>2. HandlesResolve'
  BY DEF Allocate, Alive, Goto, Registered, Owns, Cloning, HandlesResolve, Newcomers,
     Ownership, Tenancy, Holding
<1>3. Ownership'
  BY DEF Allocate, Goto, Owns, Cloning, Threading, Freeing, Reading, Newcomers,
     Ownership
<1>4. Holding'
  BY DEF Allocate, Alive, Goto, Owns, Cloning, Freeing, Reading, Newcomers, Ownership,
     Tenancy, Holding
<1> QED BY <1>1, <1>2, <1>3, <1>4

(* The caller is registered, so its slot is its own process.               *)
LEMMA CreateThreadKeeps ==
  ASSUME SingleShell, NEW t \in Tid, IInv, CreateThread(t)
  PROVE  IInv'
<1> USE DEF IInv
<1>1. TablesAgree' /\ HandlesResolve' /\ Lineage' /\ Newcomers' /\ Tenancy' /\ Listing'
      /\ Holding'
  BY DEF CreateThread, Alive, Goto, Registered, Cloning, Freeing, Reading, TypeOK,
     TablesAgree, HandlesResolve, Lineage, Newcomers, Tenancy, Listing, Holding
<1>2. Vacancy'
  BY DEF CreateThread, Alive, Goto, TypeOK, Vacancy
<1>3. TypeOK'
  BY DEF CreateThread, Step, Goto, Registered, TypeOK, TablesAgree
<1>4. Ownership'
  BY TidAssumption DEF CreateThread, NoPid, Kernel, Goto, Registered, Owns, Cloning,
     Threading, Freeing, Reading, TypeOK, HandlesResolve, Lineage, Ownership, Vacancy,
     Listing, Holding
<1> QED BY <1>1, <1>2, <1>3, <1>4

(* The new thread has been in no table, list or handle; if it is a         *)
(* program, it is the only one that runs in its slot, which is empty.      *)
LEMMA StartThreadKeeps ==
  ASSUME SingleShell, NEW t \in Tid, IInv, StartThread(t)
  PROVE  IInv'
<1> USE DEF IInv
<1>1. PICK c \in Tid :
        /\ at[c] = "unborn"
        /\ born' = [born EXCEPT ![t] = c]
        /\ ppid' = [ppid EXCEPT ![c] = slot[t]]
        /\ at' = [at EXCEPT ![t] = "insert", ![c] = "user"]
        /\ program' = IF exec[t] THEN program \cup {c} ELSE program
  BY DEF StartThread
<1>2. /\ c # t /\ ppid[c] = NoPid /\ c \notin program /\ thread_table[c] = NoPid
      /\ \A p \in Pid : c \notin thread_list[p] /\ main_tid[p] # c
      /\ slot[t] \in Pid /\ slot[t] # NoPid /\ slot[t] # Kernel
  BY <1>1, PidLimitAssumption, TidAssumption DEF StartThread, Pid, NoPid, Kernel,
     Shell, OnSlot, Owns, Cloning, Threading, TypeOK, TablesAgree, Lineage, Ownership
<1>3. /\ \A u \in Tid : at[u] \in {"insert", "publish", "inherit"} => born[u] # c
      /\ \A u \in Tid : Reading(u) \/ at[u] = "remove" => c \notin awaited[u]
      /\ \A u \in Tid : c \notin siblings[u]
      /\ c # Boot /\ children[c] = {} /\ siblings[c] = {}
  BY <1>2, PidLimitAssumption DEF Pid, NoPid, Kernel, OnSlot, Owns, TypeOK, Lineage,
     Newcomers, Ownership, Listing
<1>4. UNCHANGED <<state, main_tid, thread_list, thread_table, cwd_mapping, slot, exec,
                  awaited, children, siblings, crashed, shutdown_event>>
  BY DEF StartThread
<1>5. at[t] = "start"
  BY DEF StartThread
<1>6. TypeOK' /\ TablesAgree'
  BY <1>1, <1>2, <1>4 DEF OnSlot, Step, Pid, TypeOK, TablesAgree
<1>7. HandlesResolve'
  BY <1>1, <1>2, <1>4 DEF StartThread, Pid, NoPid, Alive, Registered, Owns, Cloning,
     TypeOK, HandlesResolve, Lineage, Ownership, Holding
<1>8. Lineage'
  BY <1>1, <1>2, <1>4, <1>5 DEF NoPid, Kernel, TypeOK, Lineage
<1>9. Newcomers'
  BY <1>1, <1>2, <1>3, <1>4, <1>5, TidAssumption DEF Reading, TypeOK, Newcomers
<1>10. Ownership'
  <2>1. \A u \in Tid : Cloning(u)' \/ Freeing(u)' =>
          (Cloning(u) \/ Freeing(u)) /\ slot[u]' = slot[u]
    BY <1>1, <1>2, <1>4, <1>5 DEF Cloning, Freeing, TypeOK
  <2>2. \A u \in Tid, p \in Pid : Owns(u, p) /\ u # c => Owns(u, p)'
    BY <1>1, <1>2, <1>3 DEF Owns, TypeOK
  <2>3. \A u \in Tid : Threading(u)' => Threading(u) /\ u # c
    BY <1>1, <1>2, <1>4, <1>5 DEF Threading, TypeOK
  <2>4. \A u \in Tid : Reading(u)' => Reading(u) /\ u # c /\ \A h \in awaited[u] : h # c
    BY <1>1, <1>2, <1>3, <1>4, <1>5 DEF Reading, TypeOK
  <2>5. \A u \in Tid : at[u]' = "remove" => at[u] = "remove"
    BY <1>1, <1>2, <1>4, <1>5 DEF TypeOK
  <2>6. \A u \in Tid : Cloning(u)' \/ Freeing(u)' => Owns(u, slot[u])'
    BY <1>1, <1>2, <1>4, <2>1, <2>2 DEF Ownership, OnSlot, Cloning, Freeing, TypeOK
  <2>7. \A h \in Tid : h # c => ppid[h]' = ppid[h] /\ (h \in program' <=> h \in program)
    BY <1>1, <1>2 DEF TypeOK
  <2>8. \A u \in Tid : Threading(u)' =>
           u \in program' \ {Boot} /\ slot[u]' = ppid[u]' /\ u \in thread_list[ppid[u]]'
    BY <1>4, <2>3, <2>7 DEF Ownership
  <2>9. \A u \in Tid : \A p \in children[u]' : Owns(u, p)'
    BY <1>3, <1>4, <2>2 DEF Ownership, TypeOK
  <2>10. \A u \in Tid : \A s \in siblings[u]' :
           u \in program' \ {Boot} /\ s \notin program' /\ ppid[s]' = ppid[u]'
    BY <1>3, <1>4, <2>7 DEF Ownership, TypeOK
  <2>11. \A u \in Tid : Reading(u)' => \A h \in awaited[u]' :
           /\ ppid[h]' # NoPid
           /\ h \in program' => Owns(u, ppid[h])'
           /\ h \notin program' => u \in program' \ {Boot} /\ ppid[h]' = ppid[u]'
    BY <1>4, <2>2, <2>4, <2>7 DEF Ownership, NoPid, TypeOK
  <2>12. \A u \in Tid : Reading(u)' \/ at[u]' = "remove" =>
           \A g, h \in awaited[u]' : g = h
    BY <1>4, <2>4, <2>5 DEF Ownership
  <2>13. \A u \in Tid : at[u]' = "unpublish" => \A h \in awaited[u]' : at[h]' = "ended"
    BY <1>1, <1>2, <1>4, <1>5 DEF Ownership, TypeOK
  <2>14. \A u \in Tid : at[u]' = "sweep" => slot[u]' # Kernel
    BY <1>1, <1>2, <1>4, <1>5 DEF Ownership, TypeOK
  <2> QED
    BY <2>6, <2>8, <2>9, <2>10, <2>11, <2>12, <2>13, <2>14 DEF Ownership
<1>11. exec[t] => /\ thread_list[slot[t]] = {} /\ state[slot[t]] # "FREE"
                  /\ \A u \in program : ppid[u] = slot[t] => ~Alive(u)
                  /\ \A u \in Tid \ {t} : Cloning(u) \/ Freeing(u) => slot[u] # slot[t]
  <2>1. ASSUME NEW u \in Tid \ {t}, exec[t], Cloning(u) \/ Freeing(u)
        PROVE slot[u] # slot[t]
    BY <1>2, <1>5, <2>1, SoleOwner DEF Alive, Cloning, Freeing, Ownership
  <2> QED
    BY <1>5, <2>1 DEF Tenancy, Vacancy
<1>12. Tenancy'
  <2>1. \A h \in Tid : h # c =>
          /\ ppid[h]' = ppid[h] /\ (h \in program' <=> h \in program)
          /\ Alive(h)' <=> Alive(h)
    BY <1>1, <1>2, <1>5 DEF Alive, TypeOK
  <2>2. \A h \in program' : Alive(h)' => h = c \/ (h \in program /\ Alive(h))
    BY <1>1, <2>1 DEF TypeOK
  <2>3. c \in program' => exec[t] /\ ppid[c]' = slot[t]
    BY <1>1, <1>2 DEF TypeOK
  <2>4. state[Kernel]' # "FREE" /\ \A u \in program' : Alive(u)' => state[ppid[u]]' # "FREE"
    BY <1>4, <1>11, <2>1, <2>2, <2>3 DEF Tenancy, TypeOK
  <2>5. \A u, v \in program' : Alive(u)' /\ Alive(v)' /\ ppid[u]' = ppid[v]' => u = v
    BY <1>11, <2>1, <2>2, <2>3 DEF Tenancy, TypeOK
  <2>6. \A u \in program' : Alive(u)' =>
          \A h \in thread_list[ppid[u]]' : h \in program' => h = u
    <3>1. ASSUME NEW u \in program', Alive(u)',
                 NEW h \in thread_list[ppid[u]]', h \in program'
          PROVE  h = u
      <4>1. CASE u = c
        BY <1>4, <1>11, <2>3, <3>1, <4>1
      <4>2. CASE u # c
        <5>1. u \in program /\ Alive(u) /\ ppid[u] \in Pid /\ h \in thread_list[ppid[u]]
          BY <1>4, <2>1, <2>2, <3>1, <4>2, PidLimitAssumption DEF Lineage,
             TypeOK, Pid, NoPid
        <5> QED
          BY <1>2, <2>1, <3>1, <5>1 DEF Tenancy, TypeOK
      <4> QED BY <4>1, <4>2
    <3> QED BY <3>1
  <2>7. \A u \in Tid : (Freeing(u) \/ (exec[u] /\ at[u] \in {"allocate", "start"}))' =>
          \A v \in program' : ppid[v]' = slot[u]' => ~Alive(v)'
    <3>1. ASSUME NEW u \in Tid,
                 (Freeing(u) \/ (exec[u] /\ at[u] \in {"allocate", "start"}))'
          PROVE  /\ u # t /\ slot[u]' = slot[u]
                 /\ Freeing(u) \/ (exec[u] /\ at[u] \in {"allocate", "start"})
      BY <1>1, <1>2, <1>4, <3>1 DEF Freeing, TypeOK
    <3>2. ASSUME NEW u \in Tid,
                 (Freeing(u) \/ (exec[u] /\ at[u] \in {"allocate", "start"}))',
                 NEW v \in program', ppid[v]' = slot[u]', Alive(v)'
          PROVE  FALSE
      <4>1. CASE v = c
        BY <1>11, <2>3, <3>1, <3>2, <4>1 DEF Cloning
      <4>2. CASE v # c
        BY <2>1, <2>2, <3>1, <3>2, <4>2 DEF Tenancy, TypeOK
      <4> QED BY <4>1, <4>2
    <3> QED
      BY <3>2
  <2>8. \A u \in Tid : (exec[u] /\ at[u] = "insert")' =>
          \A v \in program' : ppid[v]' = slot[u]' /\ Alive(v)' => v = born[u]'
    <3>1. ASSUME NEW u \in Tid \ {t}, (exec[u] /\ at[u] = "insert")'
          PROVE  exec[u] /\ at[u] = "insert" /\ slot[u]' = slot[u] /\ born[u]' = born[u]
      BY <1>1, <1>2, <1>4, <3>1 DEF TypeOK
    <3>2. born[t]' = c /\ slot[t]' = slot[t] /\ exec[t]' = exec[t]
      BY <1>1, <1>4 DEF TypeOK
    <3>3. ASSUME NEW u \in Tid \ {t}, (exec[u] /\ at[u] = "insert")',
                 NEW v \in program', ppid[v]' = slot[u]', Alive(v)'
          PROVE  v = born[u]'
      <4>1. CASE v = c
        BY <1>11, <2>3, <3>1, <3>3, <4>1 DEF Cloning
      <4>2. CASE v # c
        BY <2>1, <2>2, <3>1, <3>3, <4>2 DEF Tenancy, TypeOK
      <4> QED BY <4>1, <4>2
    <3>4. ASSUME exec[t], NEW v \in program', ppid[v]' = slot[t], Alive(v)'
          PROVE  v = c
      BY <1>11, <2>1, <2>2, <2>3, <3>4 DEF TypeOK
    <3> QED
      BY <3>2, <3>3, <3>4
  <2> QED
    BY <2>4, <2>5, <2>6, <2>7, <2>8 DEF Tenancy
<1>13. exec[t] /\ slot[t] = Shell => t = Boot
  BY <1>5 DEF Owns, Cloning, Ownership
<1>14. Vacancy'
  <2>1. \A u \in Tid :
          /\ at[u]' \in {"allocate", "start", "insert", "publish", "inherit"}
          /\ at[u]' # "insert" \/ u # t
          => at[u] = at[u]'
    BY <1>1, <1>2, <1>4 DEF TypeOK
  <2>2. \A u \in Tid : exec[u]' /\ at[u]' \in {"start", "insert", "publish", "inherit"} =>
          state[slot[u]]' # "FREE"
    BY <1>4, <1>11, <2>1 DEF Vacancy
  <2>3. \A u \in Tid : exec[u]' /\ at[u]' \in {"allocate", "start", "insert"} =>
       thread_list[slot[u]]' = {}
    BY <1>4, <1>11, <2>1 DEF Vacancy
  <2>4. ASSUME NEW u \in program', Alive(u)', ppid[u]' = Shell,
               NEW p \in Pid \ {Kernel, Shell},
               state[p]' = "FREE" /\ ~(at[u] = "clear" /\ slot[u] = p)'
        PROVE  thread_list[p]' = {}
    <3>1. CASE u = c
      BY <1>1, <1>2, <1>4, <1>5, <1>13, <2>4, <3>1 DEF Vacancy, Kernel, TypeOK
    <3>2. CASE u # c
      BY <1>1, <1>2, <1>4, <1>5, <2>4, <3>2 DEF Alive, Vacancy, TypeOK
    <3> QED BY <3>1, <3>2
  <2>5. /\ (at[Boot] \in {"allocate", "start"} => born[Boot] = NoTid)'
        /\ born[Boot]' = NoTid =>
             /\ at[Boot]' \in {"user", "allocate", "start"} /\ children[Boot]' = {}
             /\ \A h \in Tid \ {Boot} : at[h]' = "unborn"
             /\ \A p \in Pid \ {Kernel} :
                  thread_list[p]' = {} /\ (at[Boot]' = "user" => state[p]' = "FREE")
    BY <1>1, <1>2, <1>3, <1>4, <1>5, TidAssumption DEF Vacancy, TypeOK
  <2> QED BY <2>2, <2>3, <2>4, <2>5 DEF Vacancy
<1>15. Listing'
  BY <1>1, <1>2, <1>3, <1>4, <1>5 DEF Freeing, TypeOK, Listing
<1>16. Holding'
  BY <1>1, <1>2, <1>3, <1>4, <1>5 DEF Cloning, Freeing, Reading, TypeOK, Holding,
     Ownership
<1> QED BY <1>6, <1>7, <1>8, <1>9, <1>10, <1>12, <1>15, <1>16, <1>14

(* The slot given back has no threads and no entry leads to it.            *)
LEMMA ProgramNotFoundKeeps ==
  ASSUME SingleShell, NEW t \in Tid, IInv, ProgramNotFound(t)
  PROVE  IInv'
<1> USE DEF IInv
<1>1. TypeOK' /\ TablesAgree' /\ HandlesResolve' /\ Lineage' /\ Newcomers' /\
      Ownership' /\ Tenancy' /\ Vacancy' /\ Holding'
  BY DEF ProgramNotFound, Step, OnSlot, Alive, Goto, Registered, Owns, Cloning,
     Threading, Freeing, Reading, TypeOK, TablesAgree, HandlesResolve, Lineage,
     Newcomers, Ownership, Tenancy, Vacancy, Holding
<1>2. thread_list[slot[t]] = {} /\ \A u \in Tid : thread_table[u] # slot[t]
  BY DEF ProgramNotFound, OnSlot, Pid, NoPid, TypeOK, TablesAgree, Vacancy
<1>3. Listing'
  BY <1>2 DEF ProgramNotFound, Goto, Freeing, TypeOK, Listing
<1> QED BY <1>1, <1>2, <1>3

(* A process gets its main thread, nobody holds it yet; or a process that  *)
(* has a main thread gets one more.                                        *)
LEMMA InsertThreadKeeps ==
  ASSUME SingleShell, NEW t \in Tid, IInv, InsertThread(t)
  PROVE  IInv'
<1> USE DEF IInv
<1> DEFINE c == born[t]
           p == slot[t]
<1>1. /\ c \in Tid /\ p \in Pid /\ ppid[c] = p /\ thread_table[c] = NoPid
      /\ exec[t] <=> c \in program
      /\ exec[t] <=> thread_list[p] = {}
  BY DEF InsertThread, OnSlot, Threading, TypeOK, Newcomers, Ownership, Vacancy
<1>2. /\ thread_list' = [thread_list EXCEPT ![p] = @ \cup {c}]
      /\ state' = IF exec[t] THEN [state EXCEPT ![p] = "RUNNING"] ELSE state
      /\ main_tid' = IF exec[t] THEN [main_tid EXCEPT ![p] = c] ELSE main_tid
  BY <1>1 DEF InsertThread
<1>3. Newcomers' /\ Ownership'
  BY DEF InsertThread, Goto, Owns, Cloning, Threading, Freeing, Reading, Newcomers,
     Ownership
<1>4. TypeOK'
  <2>1. /\ state' \in [Pid -> {"FREE", "READY", "RUNNING", "FINISHED"}]
        /\ main_tid' \in [Pid -> Tid \cup {NoTid}]
        /\ thread_list' \in [Pid -> SUBSET Tid]
    BY <1>1, <1>2 DEF TypeOK
  <2> QED
    BY <2>1 DEF InsertThread, Step, OnSlot, Goto, TypeOK
<1>5. TablesAgree'
  BY DEF InsertThread, TypeOK, TablesAgree, Newcomers
<1>6. HandlesResolve'
  <2>1. UNCHANGED <<thread_table, cwd_mapping, ppid, children, siblings>>
    BY DEF InsertThread
  <2>2. \A u \in Tid : Alive(u)' <=> Alive(u)
    BY DEF InsertThread, Alive, Goto, TypeOK
  <2>3. \A u \in Tid : Registered(u) =>
          thread_table'[u] # NoPid /\ u \in thread_list'[thread_table'[u]]
    BY <1>1, <1>2, <2>1 DEF Registered, TypeOK
  <2>4. exec[t] => \A u \in Tid : Alive(u) => p \notin children[u]
    <3>1. ASSUME exec[t], NEW u \in Tid, Alive(u), p \in children[u]
          PROVE  FALSE
      BY <1>1, <3>1, SoleOwner DEF InsertThread, Alive, Cloning, Ownership, Holding
    <3> QED BY <3>1
  <2>5. \A u \in Tid : Alive(u) => \A q \in children[u] :
           state[q]' = state[q] /\ main_tid[q]' = main_tid[q]
    BY <1>1, <1>2, <2>4 DEF TypeOK
  <2>6. ASSUME NEW u \in Tid, Alive(u), NEW q \in children[u]
        PROVE  /\ state'[q] \in {"RUNNING", "FINISHED"} /\ q \in cwd_mapping'
               /\ main_tid'[q] \in Tid /\ ppid'[main_tid'[q]] = q
               /\ thread_table'[main_tid'[q]] # NoPid
               /\ main_tid'[q] \in thread_list'[thread_table'[main_tid'[q]]]
               /\ \A v \in Tid \ {u} : Alive(v) => q \notin children[v]
    <3>1. /\ state[q] \in {"RUNNING", "FINISHED"} /\ q \in cwd_mapping
          /\ main_tid[q] \in Tid /\ ppid[main_tid[q]] = q
          /\ Registered(main_tid[q])
          /\ \A v \in Tid \ {u} : Alive(v) => q \notin children[v]
      BY <2>6 DEF HandlesResolve
    <3> QED
      BY <2>1, <2>3, <2>5, <2>6, <3>1
  <2>7. ASSUME NEW u \in Tid, Alive(u), NEW s \in siblings[u]
        PROVE  /\ thread_table'[s] # NoPid /\ s \in thread_list'[thread_table'[s]]
               /\ ppid'[s] = ppid'[u]
    BY <2>1, <2>3, <2>7 DEF HandlesResolve, TypeOK
  <2> QED
    BY <2>1, <2>2, <2>6, <2>7 DEF HandlesResolve, Registered
<1>7. Lineage'
  <2>1. \A q \in Pid : main_tid[q]' # NoTid => ppid[main_tid[q]]' = q
    BY <1>1, <1>2 DEF InsertThread, TypeOK, Lineage
  <2>2. \A q \in Pid : \A h \in thread_list[q]' : h \in program' <=> main_tid[q]' = h
    <3>1. CASE exec[t]
      BY <1>1, <1>2, <3>1 DEF InsertThread, TypeOK, Lineage
    <3>2. CASE ~exec[t]
      <4>1. main_tid[p] \in program
        BY <3>2 DEF InsertThread, Threading, Lineage, Ownership, TypeOK
      <4> QED
        BY <1>1, <1>2, <3>2, <4>1 DEF InsertThread, TypeOK, Lineage
    <3> QED BY <3>1, <3>2
  <2> QED
    BY <2>1, <2>2 DEF InsertThread, Goto, TypeOK, Lineage
<1>8. Tenancy'
  BY DEF InsertThread, Alive, Goto, Freeing, TypeOK, Lineage, Newcomers, Ownership,
     Tenancy
<1>9. Vacancy'
  BY DEF InsertThread, Kernel, OnSlot, Alive, Goto, Owns, Cloning, Threading, TypeOK,
     HandlesResolve, Lineage, Ownership, Tenancy, Vacancy, Listing, Holding
<1>10. Listing'
  BY DEF InsertThread, OnSlot, Alive, Goto, Owns, Cloning, Threading, Freeing,
     Reading, TypeOK, Lineage, Ownership, Tenancy, Vacancy, Listing, Holding
<1>11. Holding'
  BY DEF InsertThread, Kernel, Alive, Goto, Owns, Cloning, Threading, Freeing,
     Reading, TypeOK, Lineage, Newcomers, Ownership, Tenancy, Vacancy, Holding
<1> QED BY <1>3, <1>4, <1>5, <1>6, <1>7, <1>8, <1>9, <1>10, <1>11

(* The entry leads to a list that has the control block, and to a slot     *)
(* that nobody is about to free.                                           *)
LEMMA PublishThreadKeeps ==
  ASSUME SingleShell, NEW t \in Tid, IInv, PublishThread(t)
  PROVE  IInv'
<1> USE DEF IInv
<1> DEFINE c == born[t]
           p == slot[t]
<1>1. /\ c \in Tid /\ p \in Pid /\ ppid[c] = p /\ thread_table[c] = NoPid
      /\ c \in thread_list[p]
      /\ exec[t] <=> c \in program
  BY DEF PublishThread, OnSlot, TypeOK, Newcomers, Listing
<1>2. /\ at[t] = "publish" /\ thread_table' = [thread_table EXCEPT ![c] = p]
      /\ UNCHANGED <<state, main_tid, thread_list, ppid, cwd_mapping, program, slot, born,
                     exec, awaited, children>>
  BY <1>1 DEF PublishThread
<1>3. /\ exec[t] => at' = [at EXCEPT ![t] = "inherit"] /\ siblings' = siblings
      /\ ~exec[t] => /\ at' = [at EXCEPT ![t] = "user"]
                     /\ siblings' = [siblings EXCEPT ![t] = @ \cup {c}]
  BY DEF PublishThread, Goto
<1>4. \A u \in Tid : u # t => at[u]' = at[u] /\ siblings[u]' = siblings[u]
  BY <1>3 DEF TypeOK
<1>5. /\ at[t]' = IF exec[t] THEN "inherit" ELSE "user"
      /\ siblings[t]' = IF exec[t] THEN siblings[t] ELSE siblings[t] \cup {c}
  BY <1>3 DEF TypeOK
<1>6. Lineage' /\ Newcomers'
  BY DEF PublishThread, Goto, Reading, TypeOK, Lineage, Newcomers
<1>7. TypeOK'
  <2>1. at' \in [Tid -> Step] /\ siblings' \in [Tid -> SUBSET Tid]
    BY <1>1, <1>3 DEF Step, TypeOK
  <2>2. thread_table' \in [Tid -> Pid \cup {NoPid}]
    BY <1>1, <1>2 DEF TypeOK
  <2>3. \A u \in Tid : at[u]' \in OnSlot => slot[u]' \in Pid
    BY <1>1, <1>2, <1>4 DEF TypeOK
  <2> QED
    BY <2>1, <2>2, <2>3 DEF PublishThread, TypeOK
<1>8. TablesAgree'
  BY DEF PublishThread, Alive, Threading, TablesAgree, Newcomers, Ownership, Tenancy,
     Listing, Holding
<1>9. HandlesResolve'
  <2>1. \A u \in Tid : Alive(u)' <=> Alive(u)
    BY <1>2, <1>4, <1>5 DEF Alive
  <2>2. \A u \in Tid : Registered(u) =>
          thread_table'[u] # NoPid /\ u \in thread_list'[thread_table'[u]]
    BY <1>1, <1>2 DEF Registered, TypeOK, NoPid, Pid
  <2>3. ~exec[t] => /\ thread_table'[c] # NoPid /\ c \in thread_list'[thread_table'[c]]
                    /\ ppid[c]' = ppid[t]'
    BY <1>1, <1>2 DEF Registered, TypeOK, NoPid, Pid, Threading, Ownership
  <2>4. ASSUME NEW u \in Tid, Alive(u), NEW q \in children[u]
        PROVE  /\ state'[q] \in {"RUNNING", "FINISHED"} /\ q \in cwd_mapping'
               /\ main_tid'[q] \in Tid /\ ppid'[main_tid'[q]] = q
               /\ thread_table'[main_tid'[q]] # NoPid
               /\ main_tid'[q] \in thread_list'[thread_table'[main_tid'[q]]]
               /\ \A v \in Tid \ {u} : Alive(v) => q \notin children[v]
    <3>1. /\ state[q] \in {"RUNNING", "FINISHED"} /\ q \in cwd_mapping
          /\ main_tid[q] \in Tid /\ ppid[main_tid[q]] = q
          /\ Registered(main_tid[q])
          /\ \A v \in Tid \ {u} : Alive(v) => q \notin children[v]
      BY <2>4 DEF HandlesResolve
    <3> QED
      BY <1>2, <2>2, <2>4, <3>1
  <2>5. ASSUME NEW u \in Tid, Alive(u), NEW s \in siblings'[u]
        PROVE  /\ thread_table'[s] # NoPid /\ s \in thread_list'[thread_table'[s]]
               /\ ppid'[s] = ppid'[u]
    BY <1>2, <1>4, <1>5, <2>2, <2>3, <2>5 DEF HandlesResolve, TypeOK
  <2> QED
    BY <1>2, <2>1, <2>4, <2>5 DEF HandlesResolve, Registered
<1>10. Ownership'
  <2>1. ~exec[t] => t \in program \ {Boot} /\ c \notin program /\ ppid[c] = ppid[t]
    BY <1>1, <1>2 DEF Threading, Ownership
  <2>2. \A u \in Tid : Cloning(u)' \/ Freeing(u)' => Cloning(u) \/ Freeing(u)
    BY <1>2, <1>4, <1>5 DEF Cloning, Freeing
  <2>3. \A u \in Tid : (Threading(u)' => Threading(u)) /\ (Reading(u)' => Reading(u))
    BY <1>2, <1>4, <1>5 DEF Threading, Reading
  <2>4. \A u \in Tid, q \in Pid : Owns(u, q)' <=> Owns(u, q)
    BY <1>2 DEF Owns
  <2>5. \A u \in Tid : \A s \in siblings[u]' :
           u \in program' \ {Boot} /\ s \notin program' /\ ppid[s]' = ppid[u]'
    BY <1>2, <1>4, <1>5, <2>1 DEF Ownership
  <2>6. \A u \in Tid : /\ at[u]' = "remove" => at[u] = "remove"
                       /\ at[u]' = "unpublish" => at[u] = "unpublish"
                       /\ at[u]' = "sweep" => at[u] = "sweep"
                       /\ at[u] = "ended" => at[u]' = "ended"
    BY <1>2, <1>4, <1>5
  <2> QED
    BY <1>2, <2>2, <2>3, <2>4, <2>5, <2>6 DEF Ownership, Owns, TypeOK
<1>11. Tenancy'
  <2>1. \A u \in Tid : Alive(u)' <=> Alive(u)
    BY <1>2, <1>4, <1>5 DEF Alive
  <2>2. \A u \in Tid : /\ Freeing(u)' => Freeing(u)
                       /\ at[u]' \in {"allocate", "start", "insert"} => at[u] = at[u]'
    BY <1>2, <1>4, <1>5 DEF Freeing
  <2> QED
    BY <1>2, <2>1, <2>2 DEF Tenancy, TypeOK
<1>12. Vacancy'
  <2>1. \A u \in Tid : /\ Alive(u)' <=> Alive(u)
                       /\ at[u]' \in {"allocate", "start", "insert", "publish", "clear"} =>
                            at[u] = at[u]'
                       /\ exec[u]' /\ at[u]' = "inherit" => at[u] \in {"publish", "inherit"}
                       /\ at[u] \in {"allocate", "start", "unborn", "clear"} => at[u]' = at[u]
    BY <1>2, <1>4, <1>5 DEF Alive
  <2>2. c # NoTid /\ (t = Boot => born[Boot] # NoTid)
    BY <1>1, TidAssumption
  <2>3. at[Boot]' = "user" => at[Boot] = "user" \/ born[Boot] # NoTid
    BY <1>4, <2>2, TidAssumption
  <2>4. \A u \in program' : Alive(u)' /\ ppid[u]' = Shell =>
          \A q \in Pid \ {Kernel, Shell} :
            state[q]' = "FREE" /\ ~(at[u] = "clear" /\ slot[u] = q)' => thread_list[q]' = {}
    BY <1>2, <2>1 DEF Vacancy, TypeOK
  <2>5. \A u \in Tid : exec[u]' /\ at[u]' \in {"start", "insert", "publish", "inherit"} =>
          state[slot[u]]' # "FREE"
    BY <1>2, <2>1 DEF Vacancy
  <2> QED
    BY <1>2, <2>1, <2>3, <2>4, <2>5, TidAssumption DEF Vacancy
<1>13. Listing'
  <2>1. \A u \in Tid : /\ Freeing(u)' => Freeing(u) /\ slot[u] # p
                       /\ at[u]' \in {"publish", "remove", "free"} => at[u] = at[u]'
                       /\ at[u] = "ended" => at[u]' = "ended"
    <3>1. ASSUME NEW u \in Tid, Freeing(u), slot[u] = p PROVE FALSE
      BY <1>1, <1>2, <3>1, SoleOwner DEF Alive, Cloning, Freeing, Threading, Owns,
         Ownership, Tenancy
    <3> QED
      BY <1>2, <1>4, <1>5, <3>1 DEF Freeing
  <2> QED
    BY <1>1, <1>2, <2>1 DEF Listing, Newcomers, TypeOK
<1>14. Holding'
  BY <1>1, <1>2, <1>4, <1>5 DEF Cloning, Freeing, Reading, Newcomers, Holding, TypeOK
<1> QED BY <1>6, <1>7, <1>8, <1>9, <1>10, <1>11, <1>12, <1>13, <1>14

(* The handle is given out when block, main thread, entry and directory    *)
(* are there, and nobody else holds it.                                    *)
LEMMA InheritDirectoryKeeps ==
  ASSUME SingleShell, NEW t \in Tid, IInv, InheritDirectory(t)
  PROVE  IInv'
<1> USE DEF IInv
<1>1. TablesAgree' /\ Lineage' /\ Newcomers' /\ Tenancy' /\ Vacancy' /\ Holding'
  BY DEF InheritDirectory, Alive, Goto, Cloning, Freeing, Reading, TypeOK,
     TablesAgree, Lineage, Newcomers, Tenancy, Vacancy, Holding
<1>2. Listing'
  BY DEF InheritDirectory, Goto, Freeing, Listing
<1>3. TypeOK'
  <2>1. cwd_mapping' \subseteq Pid
    BY DEF InheritDirectory, OnSlot, TypeOK
  <2> QED
    BY <2>1 DEF InheritDirectory, Step, OnSlot, Goto, TypeOK
<1>4. HandlesResolve'
  BY DEF InheritDirectory, Pid, NoPid, OnSlot, Alive, Goto, Registered, Owns, Cloning,
     TypeOK, TablesAgree, HandlesResolve, Newcomers, Ownership, Tenancy, Holding
<1>5. Ownership'
  BY DEF InheritDirectory, Goto, Owns, Cloning, Threading, Freeing, Reading,
     Newcomers, Ownership
<1> QED BY <1>1, <1>2, <1>3, <1>4, <1>5

(* Resolving handles and blocking changes no table.                        *)
LEMMA WaitForKeeps ==
  ASSUME SingleShell, NEW t \in Tid, IInv, WaitFor(t)
  PROVE  IInv'
BY DEF IInv, WaitFor, Step, OnSlot, Alive, Goto, Registered, Owns, Cloning, Threading,
   Freeing, Reading, Resolves, TypeOK, TablesAgree, HandlesResolve, Lineage, Newcomers,
   Ownership, Tenancy, Vacancy, Listing, Holding

(* The caller gives up the handle it reads; the thread behind it is a main *)
(* thread of a slot the caller owns, or a thread of its process.           *)
LEMMA ReadExitCodeKeeps ==
  ASSUME SingleShell, NEW t \in Tid, IInv, ReadExitCode(t)
  PROVE  IInv'
<1> USE DEF IInv
<1>1. PICK h \in Handles(t) :
        /\ IF h[2] = "process"
           THEN children' = [children EXCEPT ![t] = @ \ {h[1]}] /\ UNCHANGED siblings
           ELSE siblings' = [siblings EXCEPT ![t] = @ \ {h[1]}] /\ UNCHANGED children
        /\ IF IsValidHandle(h)
           THEN /\ Resolves(h)
                /\ awaited' = [awaited EXCEPT ![t] = {Target(h)}]
                /\ Goto(t, "read_exit")
           ELSE UNCHANGED <<awaited, at>>
  BY DEF ReadExitCode
<1>2. /\ UNCHANGED <<state, main_tid, thread_list, ppid, thread_table, cwd_mapping,
                     shutdown_event, program, slot, born, exec, crashed>>
      /\ at[t] = "user"
  BY DEF ReadExitCode
<1>3. \/ h[1] \in children[t] /\ h[2] = "process"
      \/ h[1] \in siblings[t] /\ h[2] = "thread"
  BY DEF Handles
<1>4. /\ children' \in [Tid -> SUBSET Pid] /\ siblings' \in [Tid -> SUBSET Tid]
      /\ \A u \in Tid : children'[u] \subseteq children[u]
      /\ \A u \in Tid : siblings'[u] \subseteq siblings[u]
  BY <1>1, <1>3 DEF TypeOK
<1>5. CASE ~IsValidHandle(h)
  <2>1. UNCHANGED <<awaited, at>>
    BY <1>1, <1>5
  <2>2. TypeOK' /\ TablesAgree' /\ Lineage' /\ Newcomers' /\ Tenancy' /\ Listing'
    BY <1>2, <1>4, <2>1 DEF Alive, Reading, Freeing, TypeOK, TablesAgree, Lineage,
       Newcomers, Tenancy, Listing
  <2>3. HandlesResolve' /\ Ownership'
    BY <1>2, <1>4, <2>1 DEF Registered, Alive, Owns, Cloning, Threading, Reading,
       Freeing, HandlesResolve, Ownership
  <2>4. Vacancy' /\ Holding'
    BY <1>2, <1>4, <2>1, TidAssumption DEF Alive, Cloning, Reading, Freeing,
       Vacancy, Holding
  <2> QED BY <2>2, <2>3, <2>4
<1>6. CASE IsValidHandle(h)
  <2>1. PICK g \in Tid :
          /\ awaited' = [awaited EXCEPT ![t] = {g}]
          /\ at' = [at EXCEPT ![t] = "read_exit"]
          /\ thread_table[g] # NoPid /\ ppid[g] # NoPid
          /\ g \in program => Owns(t, ppid[g]) /\ ppid[g] \notin children'[t]
          /\ g \notin program => t \in program \ {Boot} /\ ppid[g] = ppid[t]
          /\ g \notin siblings'[t]
    <3>1. /\ Target(h) \in Tid /\ Registered(Target(h))
          /\ awaited' = [awaited EXCEPT ![t] = {Target(h)}]
          /\ at' = [at EXCEPT ![t] = "read_exit"]
      BY <1>1, <1>6 DEF Resolves, Goto
    <3>2. thread_table[Target(h)] # NoPid /\ ppid[Target(h)] # NoPid
      BY <3>1 DEF Registered, TablesAgree
    <3>3. CASE h[2] = "process"
      <4>1. /\ h[1] \in children[t] /\ Target(h) = main_tid[h[1]]
            /\ children'[t] = children[t] \ {h[1]}
        BY <1>1, <1>3, <3>3 DEF Target, TypeOK
      <4>2. ppid[Target(h)] = h[1] /\ Target(h) \in program /\ Owns(t, h[1])
        BY <1>2, <3>1, <4>1 DEF Registered, Alive, TypeOK, TablesAgree,
           HandlesResolve, Lineage, Ownership
      <4>3. \A s \in siblings'[t] : s \notin program
        BY <1>4 DEF Ownership
      <4> QED BY <3>1, <3>2, <4>1, <4>2, <4>3
    <3>4. CASE h[2] = "thread"
      <4>1. /\ h[1] \in siblings[t] /\ Target(h) = h[1]
            /\ siblings'[t] = siblings[t] \ {h[1]}
        BY <1>1, <1>3, <3>4 DEF Target, TypeOK
      <4>2. t \in program \ {Boot} /\ Target(h) \notin program /\ ppid[Target(h)] = ppid[t]
        BY <4>1 DEF Ownership
      <4> QED BY <3>1, <3>2, <4>1, <4>2
    <3> QED BY <1>3, <3>3, <3>4
  <2>2. TypeOK' /\ TablesAgree' /\ Lineage'
    BY <1>2, <1>4, <2>1 DEF Step, OnSlot, TypeOK, TablesAgree, Lineage
  <2>3. HandlesResolve' /\ Tenancy'
    BY <1>2, <1>4, <2>1 DEF Registered, Alive, Freeing, TypeOK, HandlesResolve, Tenancy
  <2>4. Newcomers' /\ Listing'
    BY <1>2, <2>1 DEF Reading, Freeing, TypeOK, Newcomers, Listing
  <2>5. Ownership'
    BY <1>2, <1>4, <2>1 DEF Owns, Cloning, Threading, Reading, Freeing, TypeOK,
       Ownership
  <2>6. Vacancy'
    <3>1. born[Boot] = NoTid => t # Boot
      BY <1>3 DEF Ownership, Vacancy
    <3>2. born[Boot] = NoTid => at[t] = "unborn"
      BY <3>1 DEF Vacancy
    <3> QED
      BY <1>2, <1>4, <2>1, <3>2, TidAssumption DEF Alive, TypeOK, Vacancy
  <2>7. Holding'
    BY <1>2, <1>4, <2>1 DEF Cloning, Reading, Freeing, TypeOK, Holding
  <2> QED BY <2>2, <2>3, <2>4, <2>5, <2>6, <2>7
<1> QED BY <1>5, <1>6

(* A Wait_For that returns cleans nothing up.                              *)
LEMMA WaitForReturnsKeeps ==
  ASSUME SingleShell, NEW t \in Tid, IInv, WaitForReturns(t)
  PROVE  IInv'
BY DEF IInv, WaitForReturns, Step, OnSlot, Alive, Goto, Registered, Owns, Cloning,
   Threading, Freeing, Reading, TypeOK, TablesAgree, HandlesResolve, Lineage, Newcomers,
   Ownership, Tenancy, Vacancy, Listing, Holding

(* Only a thread that has ended is left to be cleaned up.                  *)
LEMMA ReadExitReturnsKeeps ==
  ASSUME SingleShell, NEW t \in Tid, IInv, ReadExitReturns(t)
  PROVE  IInv'
BY DEF IInv, ReadExitReturns, Step, OnSlot, Alive, Goto, Registered, Owns, Cloning,
   Threading, Freeing, Reading, Signalled, TypeOK, TablesAgree, HandlesResolve, Lineage,
   Newcomers, Ownership, Tenancy, Vacancy, Listing, Holding

(* What loses its entry has ended, or belongs to a process whose main      *)
(* thread has; its handle was given up.                                    *)
LEMMA UnpublishKeeps ==
  ASSUME SingleShell, NEW t \in Tid, IInv, Unpublish(t)
  PROVE  IInv'
<1> USE DEF IInv
<1>1. PICK h \in awaited[t] :
        LET p == thread_table[h] IN
        IF p = NoPid
        THEN /\ Goto(t, "user")
             /\ awaited' = [awaited EXCEPT ![t] = {}]
             /\ UNCHANGED <<thread_table, slot>>
        ELSE /\ Goto(t, IF main_tid[p] = h THEN "free" ELSE "remove")
             /\ slot' = [slot EXCEPT ![t] = p]
             /\ thread_table' =
                  [u \in Tid |-> IF u \in CleanedUp(h) THEN NoPid ELSE thread_table[u]]
             /\ UNCHANGED awaited
  BY DEF Unpublish
<1> DEFINE p == thread_table[h]
<1>2. /\ at[t] = "unpublish"
      /\ UNCHANGED <<state, main_tid, thread_list, ppid, cwd_mapping, shutdown_event,
                     program, born, exec, children, siblings, crashed>>
  BY DEF Unpublish
<1>3. /\ h \in Tid /\ awaited[t] = {h} /\ at[h] = "ended" /\ ppid[h] # NoPid
      /\ h \in program => Owns(t, ppid[h]) /\ ppid[h] \notin children[t]
  BY <1>1, <1>2 DEF Reading, TypeOK, Ownership, Holding
<1>4. CASE p = NoPid
  <2>1. /\ at' = [at EXCEPT ![t] = "user"] /\ awaited' = [awaited EXCEPT ![t] = {}]
        /\ UNCHANGED <<thread_table, slot>>
    BY <1>1, <1>4 DEF Goto
  <2>2. TypeOK' /\ TablesAgree' /\ HandlesResolve' /\ Lineage' /\ Newcomers' /\ Listing'
    BY <1>2, <2>1 DEF Step, OnSlot, Alive, Registered, Reading, Freeing, TypeOK,
       TablesAgree, HandlesResolve, Lineage, Newcomers, Listing
  <2>3. Ownership' /\ Tenancy' /\ Vacancy' /\ Holding'
    BY <1>2, <2>1 DEF Alive, Owns, Cloning, Threading, Reading, Freeing, TypeOK,
       Ownership, Tenancy, Vacancy, Holding
  <2> QED BY <2>2, <2>3
<1>5. CASE p # NoPid
  <2>1. /\ p \in Pid /\ p = ppid[h] /\ h \in thread_list[p]
        /\ h \in program <=> main_tid[p] = h
    BY <1>3, <1>5 DEF TypeOK, TablesAgree, Lineage
  <2>2. /\ at' = [at EXCEPT ![t] = IF h \in program THEN "free" ELSE "remove"]
        /\ slot' = [slot EXCEPT ![t] = p]
        /\ thread_table' =
             [u \in Tid |-> IF u \in CleanedUp(h) THEN NoPid ELSE thread_table[u]]
        /\ UNCHANGED awaited
    BY <1>1, <1>5, <2>1 DEF Goto
  <2>3. CleanedUp(h) = IF h \in program THEN {u \in Tid : thread_table[u] = p} ELSE {h}
    BY <2>1 DEF CleanedUp
  <2>4. /\ \A u \in Tid : thread_table'[u] = thread_table[u] \/ thread_table'[u] = NoPid
        /\ \A u \in Tid : h \in program => thread_table'[u] # p
        /\ thread_table'[h] = NoPid
        /\ \A u \in Tid : thread_table[u] # p => thread_table'[u] = thread_table[u]
        /\ \A u \in Tid : u # h /\ h \notin program => thread_table'[u] = thread_table[u]
    BY <1>3, <2>1, <2>2, <2>3, PidLimitAssumption DEF Pid, NoPid
  <2>5. /\ \A u \in Tid : u # t => at'[u] = at[u] /\ slot'[u] = slot[u]
        /\ at'[t] = IF h \in program THEN "free" ELSE "remove"
        /\ slot'[t] = p
    BY <2>2 DEF TypeOK
  <2>6. \A u \in Tid : Alive(u)' <=> Alive(u)
    BY <1>2, <2>5 DEF Alive
  <2>7. TypeOK'
    <3>1. /\ thread_table' \in [Tid -> Pid \cup {NoPid}]
          /\ at' \in [Tid -> Step] /\ slot' \in [Tid -> Pid \cup {NoPid}]
      BY <2>1, <2>2 DEF Step, TypeOK
    <3>2. \A u \in Tid : at'[u] \in OnSlot => slot'[u] \in Pid
      BY <2>1, <2>5 DEF TypeOK
    <3> QED BY <1>2, <2>2, <3>1, <3>2 DEF TypeOK
  <2>8. TablesAgree' /\ Lineage'
    BY <1>2, <2>4, <2>5 DEF TypeOK, TablesAgree, Lineage
  <2>9. HandlesResolve'
    <3>1. ASSUME NEW u \in Tid, Alive(u), NEW q \in children[u]
          PROVE  thread_table'[main_tid[q]] = thread_table[main_tid[q]]
      <4>1. /\ q \in Pid /\ main_tid[q] \in Tid /\ ppid[main_tid[q]] = q /\ Owns(u, q)
            /\ Registered(main_tid[q])
        BY <3>1 DEF HandlesResolve, Ownership, TypeOK
      <4>2. thread_table[main_tid[q]] = q /\ main_tid[q] \in program
        BY <4>1 DEF Registered, TablesAgree, Lineage
      <4>3. CASE h \in program
        <5>1. q # p
          BY <1>2, <1>3, <2>1, <3>1, <4>1, <4>3, SoleOwner DEF Alive
        <5> QED BY <2>4, <4>1, <4>2, <5>1
      <4>4. CASE h \notin program
        BY <2>4, <4>1, <4>2, <4>4
      <4> QED BY <4>3, <4>4
    <3>2. ASSUME NEW u \in Tid, Alive(u), NEW s \in siblings[u]
          PROVE  thread_table'[s] = thread_table[s]
      <4>1. /\ s \in Tid /\ u \in program /\ s \notin program /\ ppid[s] = ppid[u]
            /\ thread_table[s] = ppid[u]
        BY <3>2 DEF Registered, TypeOK, TablesAgree, HandlesResolve, Ownership
      <4>2. CASE h \in program
        <5>1. ppid[u] # p
          BY <1>3, <2>1, <3>2, <4>1, <4>2 DEF Alive, Tenancy
        <5> QED BY <2>4, <4>1, <5>1
      <4>3. CASE h \notin program
        <5>1. s # h
          BY <1>1, <1>2, <1>3, <3>2, <4>1, <4>3 DEF Alive, Reading, Ownership,
             Tenancy, Holding
        <5> QED BY <2>4, <4>1, <4>3, <5>1
      <4> QED BY <4>2, <4>3
    <3>3. ASSUME NEW u \in Tid, Alive(u)', NEW q \in children[u]
          PROVE  /\ state[q] \in {"RUNNING", "FINISHED"} /\ q \in cwd_mapping
                 /\ main_tid[q] \in Tid /\ Registered(main_tid[q])'
                 /\ ppid[main_tid[q]] = q
                 /\ \A v \in Tid \ {u} : Alive(v)' => q \notin children[v]
      BY <1>2, <2>6, <3>1, <3>3 DEF HandlesResolve, Registered
    <3>4. ASSUME NEW u \in Tid, Alive(u)', NEW s \in siblings[u]
          PROVE  Registered(s)' /\ ppid[s] = ppid[u]
      BY <1>2, <2>6, <3>2, <3>4 DEF HandlesResolve, Registered
    <3> QED
      BY <1>2, <3>3, <3>4 DEF HandlesResolve, Registered
  <2>10. Newcomers'
    BY <1>2, <2>2, <2>4, <2>5 DEF Reading, TypeOK, Newcomers
  <2>11. Ownership'
    BY <1>2, <1>3, <2>1, <2>2, <2>5 DEF Owns, Cloning, Threading, Reading, Freeing,
       TypeOK, Ownership
  <2>12. Tenancy'
    BY <1>2, <1>3, <2>1, <2>5, <2>6 DEF Alive, Freeing, TypeOK, Tenancy
  <2>13. Vacancy'
    BY <1>2, <2>5, <2>6, TidAssumption DEF Vacancy, TypeOK
  <2>14. Listing'
    <3>1. \A u \in Tid : at'[u] = "publish" => born'[u] \in thread_list'[slot'[u]]
      BY <1>2, <2>5 DEF Listing
    <3>2. \A u \in Tid : at'[u] = "remove" =>
            \A g \in awaited'[u] :
              thread_table'[g] = NoPid /\ ppid'[g] # NoPid /\ g \notin program'
      BY <1>2, <1>3, <2>2, <2>4, <2>5 DEF Listing, TypeOK
    <3>3. \A u \in Tid : Freeing(u)' => \A v \in Tid : thread_table'[v] # slot'[u]
      <4>1. ASSUME NEW u \in Tid, Freeing(u)', NEW v \in Tid
            PROVE  thread_table'[v] # slot'[u]
        <5>1. CASE u = t
          BY <2>4, <2>5, <4>1, <5>1 DEF Freeing
        <5>2. CASE u # t
          <6>1. Freeing(u) /\ slot'[u] = slot[u] /\ slot[u] # NoPid
            BY <2>5, <4>1, <5>2, PidLimitAssumption DEF Freeing, OnSlot,
               TypeOK, Pid, NoPid
          <6> QED
            BY <2>4, <6>1 DEF Listing
        <5> QED BY <5>1, <5>2
      <4> QED BY <4>1
    <3>4. \A u \in Tid : at'[u] = "free" /\ thread_list'[slot'[u]] # {} =>
            main_tid'[slot'[u]] \in Tid /\ at'[main_tid'[slot'[u]]] = "ended"
      BY <1>2, <1>3, <2>1, <2>5 DEF Listing
    <3> QED BY <3>1, <3>2, <3>3, <3>4 DEF Listing
  <2>15. Holding'
    <3>1. ASSUME NEW u \in Tid, at[u] = "inherit"
          PROVE  thread_table'[born[u]] = slot[u]
      <4>1. /\ thread_table[born[u]] = slot[u] /\ slot[u] \in Pid /\ born[u] \in Tid
            /\ born[u] \in program /\ Owns(u, slot[u])
        BY <3>1 DEF OnSlot, Cloning, Newcomers, Ownership, Holding, TypeOK
      <4>2. CASE h \in program
        <5>1. slot[u] # p
          BY <1>2, <1>3, <2>1, <3>1, <4>1, <4>2, SoleOwner DEF Alive
        <5> QED BY <2>4, <4>1, <5>1
      <4>3. CASE h \notin program
        BY <2>4, <4>1, <4>3
      <4> QED BY <4>2, <4>3
    <3>2. \A u \in Tid : Cloning(u)' \/ Freeing(u)' => slot'[u] \notin children'[u]
      BY <1>2, <1>3, <2>1, <2>5 DEF Cloning, Freeing, Holding
    <3>3. \A u \in Tid : Reading(u)' => Reading(u)
      BY <2>5 DEF Reading
    <3>4. \A u \in Tid : exec'[u] /\ at'[u] \in {"publish", "inherit"} =>
            main_tid'[slot'[u]] = born'[u] /\ state'[slot'[u]] \in {"RUNNING", "FINISHED"}
      BY <1>2, <2>5 DEF Holding
    <3>5. \A u \in Tid : at'[u] = "inherit" => thread_table'[born'[u]] = slot'[u]
      BY <1>2, <2>5, <3>1
    <3> QED
      BY <1>2, <2>2, <3>2, <3>3, <3>4, <3>5 DEF Holding
  <2> QED BY <2>7, <2>8, <2>9, <2>10, <2>11, <2>12, <2>13, <2>14, <2>15
<1> QED BY <1>4, <1>5

(* The thread removed from a list has no entry any more.                   *)
LEMMA RemoveThreadKeeps ==
  ASSUME SingleShell, NEW t \in Tid, IInv, RemoveThread(t)
  PROVE  IInv'
<1> USE DEF IInv
<1>1. TypeOK' /\ Lineage' /\ Newcomers' /\ Tenancy' /\ Vacancy' /\ Holding'
  BY DEF RemoveThread, Step, OnSlot, Alive, Goto, Cloning, Freeing, Reading, TypeOK,
     Lineage, Newcomers, Tenancy, Vacancy, Holding
<1>2. TablesAgree'
  BY DEF RemoveThread, TablesAgree, Listing
<1>3. HandlesResolve'
  BY DEF RemoveThread, Alive, Goto, Registered, HandlesResolve, Listing
<1>4. Ownership'
  BY DEF RemoveThread, Goto, Owns, Cloning, Threading, Freeing, Reading, Ownership,
     Listing
<1>5. Listing'
  BY DEF RemoveThread, Goto, Freeing, Newcomers, Listing
<1> QED BY <1>1, <1>2, <1>3, <1>4, <1>5

(* No entry leads to the slot, nobody holds it and no program runs in it.  *)
LEMMA FreeSlotKeeps ==
  ASSUME SingleShell, NEW t \in Tid, IInv, FreeSlot(t)
  PROVE  IInv'
<1> USE DEF IInv
<1>1. TypeOK' /\ Lineage' /\ Newcomers' /\ Ownership' /\ Listing'
  BY DEF FreeSlot, Step, OnSlot, Goto, Owns, Cloning, Threading, Freeing, Reading,
     TypeOK, Lineage, Newcomers, Ownership, Listing
<1>2. TablesAgree'
  BY DEF FreeSlot, Freeing, TablesAgree, Listing
<1>3. HandlesResolve'
  BY DEF FreeSlot, Alive, Goto, Registered, Owns, Freeing, HandlesResolve, Ownership,
     Tenancy, Holding
<1>4. Tenancy'
  BY DEF FreeSlot, Kernel, Shell, Alive, Goto, Owns, Freeing, Ownership, Tenancy
<1>5. Vacancy'
  BY DEF FreeSlot, Kernel, Alive, Goto, Owns, Cloning, Freeing, TypeOK, TablesAgree,
     Lineage, Ownership, Tenancy, Vacancy
<1>6. Holding'
  BY DEF FreeSlot, Alive, Goto, Owns, Cloning, Freeing, Reading, Ownership, Tenancy,
     Holding
<1> QED BY <1>1, <1>2, <1>3, <1>4, <1>5, <1>6

(* The list that is emptied is that of a slot without entries.             *)
LEMMA ClearThreadsKeeps ==
  ASSUME SingleShell, NEW t \in Tid, IInv, ClearThreads(t)
  PROVE  IInv'
<1> USE DEF IInv
<1>1. TypeOK' /\ Lineage' /\ Newcomers' /\ Tenancy' /\ Vacancy' /\ Holding'
  BY DEF ClearThreads, Step, OnSlot, Alive, Goto, Cloning, Freeing, Reading, TypeOK,
     Lineage, Newcomers, Tenancy, Vacancy, Holding
<1>2. TablesAgree'
  BY DEF ClearThreads, Freeing, TablesAgree, Listing
<1>3. HandlesResolve'
  BY DEF ClearThreads, Alive, Goto, Registered, Freeing, TypeOK, HandlesResolve, Listing
<1>4. Ownership'
  BY DEF ClearThreads, Alive, Goto, Owns, Cloning, Threading, Freeing, Reading,
     Ownership, Tenancy
<1>5. Listing'
  BY DEF ClearThreads, Alive, Goto, Owns, Cloning, Threading, Freeing, Ownership,
     Tenancy, Listing
<1> QED BY <1>1, <1>2, <1>3, <1>4, <1>5

(* A thread between two calls may end: it owns nothing another thread      *)
(* waits to be done.                                                       *)
LEMMA EndingKeeps ==
  ASSUME SingleShell, NEW t \in Tid, IInv, at[t] = "user", Goto(t, "ended"),
         t = Boot => born[t] # NoTid,
         UNCHANGED <<state, main_tid, thread_list, ppid, thread_table, cwd_mapping,
                     shutdown_event, program, slot, born, exec, awaited, children,
                     siblings, crashed>>
  PROVE  IInv'
BY DEF IInv, Step, OnSlot, Alive, Goto, Registered, Owns, Cloning, Threading, Freeing,
   Reading, TypeOK, TablesAgree, HandlesResolve, Lineage, Newcomers, Ownership, Tenancy,
   Vacancy, Listing, Holding

(* A crash changes no table.                                               *)
LEMMA CrashingKeeps ==
  ASSUME IInv, crashed' = TRUE,
         UNCHANGED <<state, main_tid, thread_list, ppid, thread_table, cwd_mapping,
                     shutdown_event, at, program, slot, born, exec, awaited, children,
                     siblings>>
  PROVE  IInv'
BY DEF IInv, Alive, Registered, Owns, Cloning, Threading, Freeing, Reading, TypeOK,
   TablesAgree, HandlesResolve, Lineage, Newcomers, Ownership, Tenancy, Vacancy,
   Listing, Holding

(* The ends of programs, and crashes.                                      *)
LEMMA LeavingKeeps ==
  ASSUME SingleShell, NEW t \in Tid, IInv, Return(t) \/ Exit(t) \/ Crash(t)
  PROVE  IInv'
BY EndingKeeps, CrashingKeeps DEF Return, Exit, Crash

(* The directory of a registered thread is that of its own process.        *)
LEMMA SetDirectoryKeeps ==
  ASSUME SingleShell, NEW t \in Tid, IInv, SetDirectory(t)
  PROVE  IInv'
<1> USE DEF IInv
<1>1. TablesAgree' /\ HandlesResolve' /\ Lineage' /\ Newcomers' /\ Tenancy' /\ Listing'
  BY DEF SetDirectory, Alive, Registered, Freeing, Reading, TablesAgree,
     HandlesResolve, Lineage, Newcomers, Tenancy, Listing
<1>2. Ownership' /\ Vacancy' /\ Holding'
  BY DEF SetDirectory, Alive, Owns, Cloning, Threading, Freeing, Reading, Ownership,
     Vacancy, Holding
<1>3. TypeOK'
  <2>1. cwd_mapping' \subseteq Pid
    BY DEF SetDirectory, Registered, TypeOK, TablesAgree
  <2> QED
    BY <2>1 DEF SetDirectory, TypeOK
<1> QED BY <1>1, <1>2, <1>3

(* The sweep begins behind the kernel.                                     *)
LEMMA ShutdownKeeps ==
  ASSUME SingleShell, NEW t \in Tid, IInv, Shutdown(t)
  PROVE  IInv'
<1> USE DEF IInv
<1>1. TablesAgree' /\ HandlesResolve' /\ Lineage' /\ Newcomers' /\ Ownership' /\
      Tenancy' /\ Vacancy' /\ Listing' /\ Holding'
  BY DEF Shutdown, Kernel, Shell, Alive, Goto, Registered, Owns, Cloning, Threading,
     Freeing, Reading, TypeOK, TablesAgree, HandlesResolve, Lineage, Newcomers,
     Ownership, Tenancy, Vacancy, Listing, Holding
<1>2. TypeOK'
  BY PidLimitAssumption DEF Shutdown, Pid, Shell, Step, Goto, TypeOK
<1> QED BY <1>1, <1>2

(* A terminated thread has ended in the middle of a call: what it had not  *)
(* published stays unknown, and the slots it leaves in use stay so.        *)
LEMMA SweepKeeps ==
  ASSUME SingleShell, NEW t \in Tid, IInv, Sweep(t)
  PROVE  IInv'
<1> USE DEF IInv
<1> DEFINE p == slot[t]
<1>1. /\ at[t] = "sweep" /\ p \in Pid /\ p # Kernel
      /\ UNCHANGED <<main_tid, thread_list, ppid, thread_table, cwd_mapping,
                     shutdown_event, program, born, exec, awaited, children, siblings, crashed>>
  BY DEF Sweep, OnSlot, TypeOK, Ownership
<1>2. /\ at' \in [Tid -> Step]
      /\ \A u \in Tid \ {t} : at'[u] = at[u] \/ (Alive(u) /\ at'[u] = "ended")
      /\ at'[t] \in {"sweep", "user", "ended"}
  <2> DEFINE Terminated(T) == [u \in Tid |-> IF u \in T /\ Alive(u) THEN "ended" ELSE at[u]]
  <2>1. CASE \E T \in SUBSET thread_list[p] : t \in T /\ at' = Terminated(T)
    BY <1>1, <2>1 DEF Step, Alive, TypeOK
  <2>2. CASE at' = [Terminated(thread_list[p]) EXCEPT
                       ![t] = IF p < LastSlot THEN "sweep" ELSE "user"]
    BY <1>1, <2>2 DEF Step, Alive, TypeOK
  <2> QED BY <2>1, <2>2 DEF Sweep
<1>3. /\ state' = state \/ state' = [state EXCEPT ![p] = "FINISHED"]
      /\ \E q \in Pid \ {Kernel} : slot' = [slot EXCEPT ![t] = q]
  <2>1. CASE state' = state /\ slot' = slot
    <3>1. slot' = [slot EXCEPT ![t] = p]
      BY <2>1 DEF TypeOK
    <3> QED BY <1>1, <2>1, <3>1
  <2>2. CASE /\ state' = [state EXCEPT ![p] = "FINISHED"]
             /\ slot' = [slot EXCEPT ![t] = IF p < LastSlot THEN p + 1 ELSE p]
    <3>1. (IF p < LastSlot THEN p + 1 ELSE p) \in Pid \ {Kernel}
      BY <1>1, PidLimitAssumption DEF LastSlot, Pid, Kernel
    <3> QED BY <2>2, <3>1
  <2> QED BY <2>1, <2>2 DEF Sweep
<1>4. /\ \A q \in Pid : state'[q] = state[q] \/ state'[q] = "FINISHED"
      /\ state' \in [Pid -> {"FREE", "READY", "RUNNING", "FINISHED"}]
  BY <1>3 DEF TypeOK
<1>5. /\ \A u \in Tid \ {t} : slot'[u] = slot[u]
      /\ slot' \in [Tid -> Pid \cup {NoPid}] /\ slot'[t] \in Pid \ {Kernel}
  BY <1>3 DEF TypeOK
<1>6. \A u \in Tid :
        /\ at'[u] \notin {"user", "sweep", "ended"} => at'[u] = at[u] /\ slot'[u] = slot[u]
        /\ at'[u] \in {"user", "sweep"} => Alive(u)
        /\ at[u] = "ended" => at'[u] = "ended"
        /\ at[u] = "unborn" <=> at'[u] = "unborn"
  BY <1>1, <1>2, <1>5 DEF Alive
<1>7. \A u \in Tid : Alive(u)' => Alive(u)
  BY <1>6 DEF Alive
<1>8. \A u \in Tid : at'[u] = "sweep" => slot'[u] \in Pid \ {Kernel}
  BY <1>1, <1>2, <1>5 DEF OnSlot, Ownership, TypeOK
<1>9. TypeOK'
  BY <1>1, <1>2, <1>4, <1>5, <1>6, <1>8 DEF OnSlot, TypeOK
<1>10. TablesAgree' /\ Lineage'
  BY <1>1, <1>4, <1>6 DEF TypeOK, TablesAgree, Lineage
<1>11. Newcomers'
  <2>1. \A u \in Tid : Reading(u)' => Reading(u)
    BY <1>6 DEF Reading
  <2> QED
    BY <1>1, <1>6, <2>1 DEF Newcomers
<1>12. HandlesResolve'
  <2>1. ASSUME NEW u \in Tid, Alive(u)', NEW q \in children[u]
        PROVE  /\ state'[q] \in {"RUNNING", "FINISHED"} /\ q \in cwd_mapping
               /\ main_tid[q] \in Tid /\ Registered(main_tid[q]) /\ ppid[main_tid[q]] = q
               /\ \A v \in Tid \ {u} : Alive(v)' => q \notin children[v]
    <3>1. q \in Pid
      BY DEF TypeOK
    <3> QED
      BY <1>4, <1>7, <2>1, <3>1 DEF HandlesResolve
  <2>2. ASSUME NEW u \in Tid, Alive(u)', NEW s \in siblings[u]
        PROVE  Registered(s) /\ ppid[s] = ppid[u]
    BY <1>7, <2>2 DEF HandlesResolve
  <2> QED
    BY <1>1, <2>1, <2>2 DEF Registered, HandlesResolve
<1>13. Ownership'
  <2>1. \A u \in Tid : /\ Cloning(u)' \/ Freeing(u)' =>
                            (Cloning(u) \/ Freeing(u)) /\ slot'[u] = slot[u]
                       /\ Threading(u)' => Threading(u) /\ slot'[u] = slot[u]
                       /\ Reading(u)' => Reading(u)
    BY <1>1, <1>6 DEF Cloning, Threading, Freeing, Reading
  <2> QED
    <3>1. \A u \in Tid : \A h \in awaited[u] : h \in Tid
      BY DEF TypeOK
    <3>2. \A u \in Tid : at'[u] = "unpublish" => \A h \in awaited[u] : at'[h] = "ended"
      BY <1>6, <3>1 DEF Ownership
    <3>3. \A u \in Tid : Reading(u)' \/ at'[u] = "remove" => \A g, h \in awaited[u] : g = h
      BY <1>6, <2>1 DEF Ownership
    <3>4. \A u \in Tid : at'[u] = "sweep" => slot'[u] # Kernel
      BY <1>8
    <3> QED
      BY <1>1, <2>1, <3>2, <3>3, <3>4 DEF Owns, Ownership
<1>14. Tenancy'
  <2>1. \A u \in Tid : Freeing(u)' => Freeing(u)
    BY <1>6 DEF Freeing
  <2>2. \A u \in program : u \in Tid /\ ppid[u] \in Pid
    BY DEF Lineage, TypeOK
  <2>3. state'[Kernel] # "FREE" /\ \A u \in program : Alive(u)' => state'[ppid[u]] # "FREE"
    BY <1>4, <1>7, <2>2, PidLimitAssumption DEF Tenancy, Kernel, Pid
  <2>4. /\ \A u, v \in program : Alive(u)' /\ Alive(v)' /\ ppid[u] = ppid[v] => u = v
        /\ \A u \in program : Alive(u)' => \A h \in thread_list[ppid[u]] : h \in program => h = u
    BY <1>7, <2>2 DEF Tenancy
  <2>5. \A u \in Tid : Freeing(u)' \/ (exec[u] /\ at'[u] \in {"allocate", "start"}) =>
          \A v \in program : ppid[v] = slot'[u] => ~Alive(v)'
    <3>1. ASSUME NEW u \in Tid, Freeing(u)' \/ (exec[u] /\ at'[u] \in {"allocate", "start"})
          PROVE  /\ slot'[u] = slot[u]
                 /\ Freeing(u) \/ (exec[u] /\ at[u] \in {"allocate", "start"})
      BY <1>6, <3>1 DEF Freeing
    <3> QED
      BY <1>7, <2>2, <3>1 DEF Tenancy
  <2>6. \A u \in Tid : exec[u] /\ at'[u] = "insert" =>
          \A v \in program : ppid[v] = slot'[u] /\ Alive(v)' => v = born[u]
    BY <1>6, <1>7, <2>2 DEF Tenancy
  <2> QED
    BY <1>1, <2>3, <2>4, <2>5, <2>6 DEF Tenancy
<1>15. Vacancy'
  <2>1. born[Boot] # NoTid /\ at'[Boot] \notin {"allocate", "start"}
    BY <1>1, <1>6, TidAssumption DEF Vacancy
  <2>2. /\ \A u \in Tid : exec[u] /\ at'[u] \in {"start", "insert", "publish", "inherit"} =>
             state'[slot'[u]] # "FREE"
        /\ \A u \in Tid : exec[u] /\ at'[u] \in {"allocate", "start", "insert"} =>
             thread_list[slot'[u]] = {}
    BY <1>1, <1>4, <1>6 DEF OnSlot, TypeOK, Vacancy
  <2>3. ASSUME NEW u \in program, Alive(u)', ppid[u] = Shell,
               NEW q \in Pid \ {Kernel, Shell}, state'[q] = "FREE",
               ~(at'[u] = "clear" /\ slot'[u] = q)
        PROVE  thread_list[q] = {}
    <3>1. u \in Tid /\ Alive(u) /\ state[q] = "FREE" /\ ~(at[u] = "clear" /\ slot[u] = q)
      BY <1>1, <1>2, <1>4, <1>5, <1>7, <2>3 DEF Alive, TypeOK
    <3> QED BY <2>3, <3>1 DEF Vacancy
  <2> QED
    BY <1>1, <2>1, <2>2, <2>3 DEF Vacancy
<1>16. Listing'
  <2>1. \A u \in Tid : Freeing(u)' => Freeing(u) /\ slot'[u] = slot[u]
    BY <1>6 DEF Freeing
  <2>2. \A u \in Tid : at'[u] = "free" /\ thread_list[slot'[u]] # {} =>
          main_tid[slot'[u]] \in Tid /\ at'[main_tid[slot'[u]]] = "ended"
    BY <1>6 DEF Listing
  <2> QED
    BY <1>1, <1>6, <2>1, <2>2 DEF Listing
<1>17. Holding'
  <2>1. \A u \in Tid : /\ Cloning(u)' \/ Freeing(u)' =>
                            (Cloning(u) \/ Freeing(u)) /\ slot'[u] = slot[u]
                       /\ Reading(u)' => Reading(u)
    BY <1>1, <1>6 DEF Cloning, Freeing, Reading
  <2>2. \A u \in Tid : exec[u] /\ at'[u] \in {"publish", "inherit"} =>
          main_tid[slot'[u]] = born[u] /\ state'[slot'[u]] \in {"RUNNING", "FINISHED"}
    BY <1>4, <1>6 DEF OnSlot, TypeOK, Holding
  <2> QED
    BY <1>1, <1>6, <2>1, <2>2 DEF Holding
<1> QED BY <1>9, <1>10, <1>11, <1>12, <1>13, <1>14, <1>15, <1>16, <1>17

-----------------------------------------------------------------------------
(* The invariant holds initially.                                          *)
LEMMA InitIInv ==
  ASSUME Init
  PROVE  IInv
<1>1. Kernel \in Pid /\ Shell \in Pid /\ Kernel # Shell /\ NoPid \notin Pid /\ Boot \in Tid
  BY PidLimitAssumption, TidAssumption DEF Pid, Kernel, Shell, NoPid
<1>2. TypeOK /\ TablesAgree /\ HandlesResolve
  BY <1>1, TidAssumption DEF Init, Step, OnSlot, Registered, TypeOK, TablesAgree,
     HandlesResolve
<1>3. Lineage /\ Newcomers
  BY <1>1, TidAssumption DEF Init, Reading, Lineage, Newcomers
<1>4. Ownership /\ Tenancy
  BY <1>1, TidAssumption DEF Init, Alive, Cloning, Threading, Freeing, Reading,
     Ownership, Tenancy
<1>5. Vacancy
  BY <1>1, TidAssumption DEF Init, Vacancy
<1>6. Listing /\ Holding
  BY <1>1 DEF Init, Cloning, Freeing, Reading, Listing, Holding
<1> QED BY <1>2, <1>3, <1>4, <1>5, <1>6 DEF IInv

(* Every step keeps it.                                                    *)
LEMMA NextIInv ==
  ASSUME SingleShell, IInv, [Next]_vars
  PROVE  IInv'
<1>1. ASSUME NEW t \in Tid, Request(t)  PROVE IInv'
  BY <1>1, CreateProcessKeeps, CreateThreadKeeps, WaitForKeeps, ReadExitCodeKeeps,
     LeavingKeeps, SetDirectoryKeeps, ShutdownKeeps DEF Request
<1>2. ASSUME NEW t \in Tid, Continue(t)  PROVE IInv'
  BY <1>2, AllocateKeeps, StartThreadKeeps, ProgramNotFoundKeeps, InsertThreadKeeps,
     PublishThreadKeeps, InheritDirectoryKeeps, WaitForReturnsKeeps,
     ReadExitReturnsKeeps, UnpublishKeeps, RemoveThreadKeeps, FreeSlotKeeps,
     ClearThreadsKeeps, SweepKeeps DEF Continue
<1>3. CASE UNCHANGED vars
  BY <1>3 DEF vars, IInv, Alive, Registered, Owns, Cloning, Threading, Freeing,
     Reading, TypeOK, TablesAgree, HandlesResolve, Lineage, Newcomers, Ownership,
     Tenancy, Vacancy, Listing, Holding
<1> QED BY <1>1, <1>2, <1>3 DEF Next

(* The invariant.                                                          *)
LEMMA Invariance ==
  ASSUME SingleShell
  PROVE  Spec => []IInv
<1>1. Init => IInv
  BY InitIInv
<1>2. IInv /\ [Next]_vars => IInv'
  BY NextIInv
<1> QED BY <1>1, <1>2, PTL DEF Spec

(* Every component keeps its type, and a call on a slot works on one of    *)
(* the table (alloc_first_free, the truncations of handles to slots).      *)
THEOREM TypeCorrect ==
  ASSUME SingleShell
  PROVE  Spec => []TypeOK
<1>1. IInv => TypeOK
  BY DEF IInv
<1> QED BY <1>1, Invariance, PTL

(* thread_table, the thread lists and the slots tell the same story at     *)
(* every step of Clone, Read_Exit_Code and Shutdown, which no lock         *)
(* protects: get_thread does not follow an entry into a slot that was      *)
(* freed or taken over.                                                    *)
THEOREM TablesStayConsistent ==
  ASSUME SingleShell
  PROVE  Spec => []TablesAgree
<1>1. IInv => TablesAgree
  BY DEF IInv
<1> QED BY <1>1, Invariance, PTL

(* A handle that Clone returned stays good until its holder reads the exit *)
(* code, whatever the other threads clean up.                              *)
THEOREM HandlesStayGood ==
  ASSUME SingleShell
  PROVE  Spec => []HandlesResolve
<1>1. IInv => HandlesResolve
  BY DEF IInv
<1> QED BY <1>1, Invariance, PTL

(* What api.h:95 says of Clone holds as long as only the shell creates     *)
(* processes; MCTaskClone shows that it fails otherwise.                   *)
THEOREM HandlesHaveOneHolder ==
  ASSUME SingleShell
  PROVE  Spec => []HandlesAreDistinct
<1>1. IInv => HandlesAreDistinct
  BY DEF IInv, HandlesResolve, HandlesAreDistinct
<1> QED BY <1>1, Invariance, PTL

(* Only FreeSlot frees a slot that has threads.                            *)
LEMMA OnlyFreeSlotFrees ==
  ASSUME IInv, Next, NEW p \in Pid, state[p] # "FREE", state'[p] = "FREE"
  PROVE  \E t \in Tid : FreeSlot(t) /\ slot[t] = p
<1>1. PICK t \in Tid : Request(t) \/ Continue(t)
  BY DEF Next
<1>2. state' # state
  OBVIOUS
<1>3. CASE Request(t)
  BY <1>2, <1>3 DEF Request, CreateProcess, CreateThread, WaitFor, ReadExitCode,
     Return, Exit, Crash, SetDirectory, Shutdown
<1>4. CASE Continue(t)
  <2>1. CASE FreeSlot(t)
    BY <2>1 DEF FreeSlot, IInv, TypeOK
  <2>2. CASE Allocate(t)
    BY <2>2 DEF Allocate, IInv, TypeOK
  <2>3. CASE InsertThread(t)
    BY <1>2, <2>3 DEF InsertThread, IInv, TypeOK
  <2>4. CASE Sweep(t)
    BY <1>2, <2>4 DEF Sweep, IInv, TypeOK
  <2> QED
    BY <1>2, <1>4, <2>1, <2>2, <2>3, <2>4 DEF Continue, StartThread,
       ProgramNotFound, PublishThread, InheritDirectory, WaitForReturns,
       ReadExitReturns, Unpublish, RemoveThread, ClearThreads
<1> QED BY <1>1, <1>3, <1>4

(* free() is never called under a running main thread: a slot with threads *)
(* is freed by Read_Exit_Code after the main one has ended; about the      *)
(* others it says nothing.                                                 *)
THEOREM SlotsFreedLate ==
  ASSUME SingleShell
  PROVE  Spec => SlotsAreFreedLate
<1> DEFINE Late == \A p \in Pid :
             state[p] # "FREE" /\ state'[p] = "FREE" /\ thread_list[p] # {}
               => at[main_tid[p]] = "ended"
<1>1. ASSUME IInv, [Next]_vars  PROVE [Late]_vars
  <2>1. ASSUME Next, NEW p \in Pid, state[p] # "FREE", state'[p] = "FREE", thread_list[p] # {}
        PROVE  at[main_tid[p]] = "ended"
    BY <1>1, <2>1, OnlyFreeSlotFrees DEF FreeSlot, IInv, Listing
  <2> QED BY <1>1, <2>1
<1>2. IInv /\ [Next]_vars => [Late]_vars
  BY <1>1
<1> QED BY <1>2, Invariance, PTL DEF Spec, SlotsAreFreedLate
=============================================================================
