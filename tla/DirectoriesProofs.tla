------------------------- MODULE DirectoriesProofs -------------------------
(***************************************************************************)
(* Proofs about Directories, for any names, strings, buffers and requested *)
(* attributes, any number of files and handles, as long as paths lead into *)
(* a directory only while no object of it is kept (~Mixed: otherwise the   *)
(* properties fail, MCDirectoriesMixed).                                   *)
(*                                                                         *)
(* The invariant says of a disk and the elements that are kept what a call *)
(* relies on: the paths lead to entries of their own, with later starts    *)
(* further down, and every element stands for what its path leads to.  A   *)
(* call changes the disk in up to three steps, and an element has to stand *)
(* on all of the disks in between: so the invariant is one of a disk       *)
(* (SoundAt), and the lemmas say what becomes of the walks and of the      *)
(* elements when an object is made (NewObject), a list is rewritten        *)
(* (WalkRewritten, StandsRewritten) or objects go (BecomesIs).             *)
(*                                                                         *)
(* The tree that is promised (Directory_Tree) is what the paths lead to    *)
(* (TreeOf): objects are nothing of it, a list that is rewritten gives it  *)
(* one path more or takes one away (TreeRewritten), and every call does to *)
(* it what the promise says (PromiseIsKept).                               *)
(*                                                                         *)
(* What is defined by recursion along a path or a string is a run of       *)
(* steps; that a run exists, and what one element more makes of it, is     *)
(* proved once for all (RunExists, RunGrows), by induction over numbers    *)
(* as the least number principle gives it.                                 *)
(***************************************************************************)
EXTENDS Directories, TLAPS, WellFoundedInduction, FiniteSetTheorems, SequenceTheorems

(* Every set of numbers that is not empty has a least one.                 *)
LEMMA Least ==
  ASSUME NEW T, T \subseteq Nat, T # {}
  PROVE  \E m \in T : \A n \in T : m <= n
<1>1. PICK x \in T : \A y \in T : ~(<<y, x>> \in OpToRel(<, Nat))
  BY NatLessThanWellFounded, WFMin
<1>2. \A y \in T : ~(y < x)
  BY <1>1 DEF OpToRel
<1>3. \A y \in T : x <= y
  BY <1>2
<1> QED BY <1>3

(* Induction over the numbers, for a set.                                  *)
LEMMA NatInd ==
  ASSUME NEW T, 0 \in T, \A n \in Nat : n \in T => n + 1 \in T
  PROVE  Nat \subseteq T
<1>1. SUFFICES ASSUME Nat \ T # {} PROVE FALSE
  OBVIOUS
<1>2. PICK m \in Nat \ T : \A n \in Nat \ T : m <= n
  BY <1>1, Least
<1>3. m # 0 /\ m - 1 \in Nat
  BY <1>2
<1>4. m - 1 \in T
  BY <1>2, <1>3
<1> QED BY <1>2, <1>3, <1>4

(* The least of some numbers.                                              *)
LEMMA MinIsLeast ==
  ASSUME NEW T, T \subseteq Nat, T # {}
  PROVE  Min(T) \in T /\ \A n \in T : Min(T) <= n
BY Least DEF Min

(* The first n elements of a sequence.                                     *)
LEMMA Beginning ==
  ASSUME NEW S, NEW s \in Seq(S), NEW n \in Nat, n <= Len(s)
  PROVE  /\ SubSeq(s, 1, n) \in Seq(S) /\ Len(SubSeq(s, 1, n)) = n
         /\ \A i \in 1 .. n : SubSeq(s, 1, n)[i] = s[i]
<1>1. \A i \in 1 .. n : s[i] \in S
  OBVIOUS
<1>2. /\ SubSeq(s, 1, n) \in Seq(S)
      /\ Len(SubSeq(s, 1, n)) = IF 1 <= n THEN n - 1 + 1 ELSE 0
      /\ \A i \in 1 .. n - 1 + 1 : SubSeq(s, 1, n)[i] = s[1 + i - 1]
  BY <1>1, SubSeqProperties
<1> DEFINE f == SubSeq(s, 1, n)
<1> HIDE DEF f
<1>3. Len(f) = n /\ \A i \in 1 .. n : i \in 1 .. n - 1 + 1 /\ f[i] = s[i]
  <2>1. \A i \in 1 .. n : i \in 1 .. n - 1 + 1 /\ 1 + i - 1 = i
    OBVIOUS
  <2>2. \A i \in 1 .. n - 1 + 1 : f[i] = s[1 + i - 1]
    BY <1>2 DEF f
  <2>3. \A i \in 1 .. n : f[i] = s[i]
    BY <2>1, <2>2
  <2>4. Len(f) = IF 1 <= n THEN n - 1 + 1 ELSE 0
    BY <1>2 DEF f
  <2> QED BY <2>1, <2>3, <2>4
<1> QED BY <1>2, <1>3 DEF f

(* A sequence without its last element, and with one more.                 *)
LEMMA EndOfSequence ==
  ASSUME NEW S, NEW s \in Seq(S)
  PROVE  /\ s # <<>> => /\ Front(s) \in Seq(S) /\ Last(s) \in S
                        /\ s = Append(Front(s), Last(s)) /\ Len(Front(s)) = Len(s) - 1
         /\ \A x \in S : /\ Append(s, x) \in Seq(S) /\ Append(s, x) # <<>>
                         /\ Front(Append(s, x)) = s /\ Last(Append(s, x)) = x
                         /\ Len(Append(s, x)) = Len(s) + 1
<1>1. ASSUME s # <<>>
      PROVE  /\ Front(s) \in Seq(S) /\ Last(s) \in S
             /\ s = Append(Front(s), Last(s)) /\ Len(Front(s)) = Len(s) - 1
  <2>1. Len(s) \in Nat /\ Len(s) >= 1
    BY <1>1
  <2>2. SubSeq(s, 1, Len(s) - 1) \in Seq(S) /\ Len(SubSeq(s, 1, Len(s) - 1)) = Len(s) - 1
        /\ \A i \in 1 .. (Len(s) - 1) : SubSeq(s, 1, Len(s) - 1)[i] = s[i]
    <3>1. Len(s) - 1 \in Nat /\ Len(s) - 1 <= Len(s)
      BY <2>1
    <3> QED BY <3>1, Beginning
  <2> DEFINE f == SubSeq(s, 1, Len(s) - 1)
  <2> HIDE DEF f
  <2>3. s[Len(s)] \in S
    BY <2>1
  <2>4. Append(f, s[Len(s)]) \in Seq(S) /\ Len(Append(f, s[Len(s)])) = Len(s)
    BY <2>1, <2>2, <2>3 DEF f
  <2>5. \A i \in 1 .. Len(s) : Append(f, s[Len(s)])[i] = s[i]
    BY <2>1, <2>2, <2>3 DEF f
  <2>6. s = Append(f, s[Len(s)])
    BY ONLY <2>4, <2>5, SeqEqual
  <2> QED BY <2>2, <2>3, <2>6 DEF Front, Last, f
<1>2. ASSUME NEW x \in S
      PROVE  /\ Append(s, x) \in Seq(S) /\ Append(s, x) # <<>>
             /\ Front(Append(s, x)) = s /\ Last(Append(s, x)) = x
             /\ Len(Append(s, x)) = Len(s) + 1
  <2> DEFINE t == Append(s, x)
  <2>1. /\ t \in Seq(S) /\ t # <<>> /\ Len(t) = Len(s) + 1 /\ t[Len(s) + 1] = x
        /\ \A i \in 1 .. Len(s) : t[i] = s[i]
        /\ Len(s) \in Nat
    OBVIOUS
  <2> HIDE DEF t
  <2>2. SubSeq(t, 1, Len(t) - 1) \in Seq(S) /\ Len(SubSeq(t, 1, Len(t) - 1)) = Len(s)
        /\ \A i \in 1 .. Len(s) : SubSeq(t, 1, Len(t) - 1)[i] = t[i]
    BY <2>1
  <2>3. SubSeq(t, 1, Len(t) - 1) = s
    <3>1. \A i \in 1 .. Len(s) : SubSeq(t, 1, Len(t) - 1)[i] = s[i]
      BY <2>1, <2>2
    <3> QED BY ONLY <2>2, <3>1, s \in Seq(S), SeqEqual
  <2> QED BY <2>1, <2>3 DEF Front, Last, t
<1> QED BY <1>1, <1>2

(* Induction over sequences, for a set.                                    *)
LEMMA PathInd ==
  ASSUME NEW S, NEW T, <<>> \in T, \A q \in Seq(S), x \in S : q \in T => Append(q, x) \in T
  PROVE  Seq(S) \subseteq T
<1> DEFINE P == {n \in Nat : \A q \in Seq(S) : Len(q) = n => q \in T}
<1>1. 0 \in P
  OBVIOUS
<1>2. ASSUME NEW n \in Nat, n \in P  PROVE n + 1 \in P
  <2>1. SUFFICES ASSUME NEW q \in Seq(S), Len(q) = n + 1  PROVE q \in T
    OBVIOUS
  <2>2. q # <<>>
    BY <2>1
  <2>3. /\ Front(q) \in Seq(S) /\ Last(q) \in S
        /\ q = Append(Front(q), Last(q)) /\ Len(Front(q)) = n
    BY <2>1, <2>2, EndOfSequence
  <2>4. Front(q) \in T
    BY <1>2, <2>3
  <2> QED BY <2>3, <2>4
<1>3. Nat \subseteq P
  <2> HIDE DEF P
  <2> QED BY <1>1, <1>2, NatInd
<1>4. SUFFICES ASSUME NEW q \in Seq(S)  PROVE q \in T
  OBVIOUS
<1>5. Len(q) \in P
  BY <1>3
<1> QED BY <1>5

-----------------------------------------------------------------------------
(* What is defined by recursion over a sequence: a run takes one element   *)
(* after the other.                                                        *)
Taking_Elements == [name |-> "elements"]
Cleaning == [name |-> "cleanup"]
Walking(D) == [name |-> "walk", disk |-> D]
Descending == [name |-> "level"]
Next_Value(kind, v, x) ==
  CASE kind.name = "elements" -> Taken(v, x)
    [] kind.name = "cleanup" -> Step(v, x)
    [] kind.name = "walk" -> EntryIn(kind.disk, v, x)
    [] kind.name = "level" -> Below(v)
IsRun(g, kind, base, list, n) ==
  g = [i \in 0 .. n |-> IF i = 0 THEN base ELSE Next_Value(kind, g[i - 1], list[i])]

(* There is a run, however long the sequence is.                           *)
LEMMA RunExists ==
  ASSUME NEW kind, NEW base, NEW list, NEW n \in Nat
  PROVE  \E g : IsRun(g, kind, base, list, n)
<1> DEFINE T == {m \in Nat : \E g : IsRun(g, kind, base, list, m)}
<1>1. 0 \in T
  <2> DEFINE g == [i \in 0 .. 0 |-> base]
  <2>1. IsRun(g, kind, base, list, 0)
    BY DEF IsRun
  <2> QED BY <2>1
<1>2. ASSUME NEW m \in Nat, m \in T  PROVE m + 1 \in T
  <2>1. PICK g : IsRun(g, kind, base, list, m)
    BY <1>2
  <2> DEFINE h == [i \in 0 .. (m + 1) |->
                     IF i = m + 1 THEN Next_Value(kind, g[m], list[i]) ELSE g[i]]
  <2>2. ASSUME NEW i \in 0 .. (m + 1)
        PROVE  h[i] = IF i = 0 THEN base ELSE Next_Value(kind, h[i - 1], list[i])
    <3>1. CASE i = m + 1
      <4>1. h[i] = Next_Value(kind, g[m], list[i]) /\ h[m] = g[m] /\ i - 1 = m /\ i # 0
        BY <3>1
      <4> HIDE DEF h
      <4> QED BY <3>1, <4>1
    <3>2. CASE i # m + 1
      <4>1. i \in 0 .. m /\ h[i] = g[i] /\ (i # 0 => h[i - 1] = g[i - 1])
        BY <3>2
      <4>2. g[i] = IF i = 0 THEN base ELSE Next_Value(kind, g[i - 1], list[i])
        BY <2>1, <4>1 DEF IsRun
      <4> HIDE DEF h
      <4> QED BY <4>1, <4>2
    <3> QED BY <3>1, <3>2
  <2>3. h = [i \in 0 .. (m + 1) |-> h[i]]
    OBVIOUS
  <2> HIDE DEF h
  <2>4. IsRun(h, kind, base, list, m + 1)
    BY <2>2, <2>3, Zenon DEF IsRun
  <2> QED BY <2>4
<1> HIDE DEF T
<1>3. n \in T
  BY <1>1, <1>2, NatInd
<1> QED BY <1>3 DEF T

(* A run starts with its base, and every element makes a step.             *)
LEMMA RunSteps ==
  ASSUME NEW g, NEW kind, NEW base, NEW list, NEW n \in Nat, IsRun(g, kind, base, list, n)
  PROVE  g[0] = base /\ \A i \in 1 .. n : g[i] = Next_Value(kind, g[i - 1], list[i])
BY DEF IsRun

(* A run over one element more goes one step further.                      *)
LEMMA RunGrows ==
  ASSUME NEW S, NEW s \in Seq(S), NEW x \in S, NEW kind, NEW base, NEW g, NEW h,
         IsRun(g, kind, base, s, Len(s)), IsRun(h, kind, base, Append(s, x), Len(Append(s, x)))
  PROVE  h[Len(Append(s, x))] = Next_Value(kind, g[Len(s)], x)
<1> DEFINE n == Len(s)
           t == Append(s, x)
<1>1. /\ n \in Nat /\ Len(t) = n + 1 /\ t[n + 1] = x /\ \A i \in 1 .. n : t[i] = s[i]
  OBVIOUS
<1> HIDE DEF n, t
<1>g. IsRun(g, kind, base, s, n) /\ IsRun(h, kind, base, t, n + 1)
  BY <1>1 DEF n, t
<1>2. g[0] = base /\ \A i \in 1 .. n : g[i] = Next_Value(kind, g[i - 1], s[i])
  BY ONLY <1>1, <1>g, RunSteps
<1>3. h[0] = base /\ \A i \in 1 .. (n + 1) : h[i] = Next_Value(kind, h[i - 1], t[i])
  <2>1. n + 1 \in Nat
    BY <1>1
  <2> QED BY ONLY <2>1, <1>g, RunSteps
<1> DEFINE T == {i \in Nat : i <= n => h[i] = g[i]}
<1>4. 0 \in T
  BY <1>2, <1>3
<1>5. ASSUME NEW i \in Nat, i \in T  PROVE i + 1 \in T
  <2>1. SUFFICES ASSUME i + 1 <= n  PROVE h[i + 1] = g[i + 1]
    OBVIOUS
  <2>2. i + 1 \in 1 .. n /\ i + 1 \in 1 .. (n + 1) /\ (i + 1) - 1 = i /\ h[i] = g[i]
    <3>1. i <= n
      BY ONLY <1>1, <2>1, i \in Nat
    <3>2. h[i] = g[i]
      BY <1>5, <3>1
    <3>3. i + 1 \in 1 .. n /\ i + 1 \in 1 .. (n + 1) /\ (i + 1) - 1 = i
      BY ONLY <1>1, <2>1, i \in Nat
    <3> QED BY <3>2, <3>3
  <2>3. h[i + 1] = Next_Value(kind, h[i], t[i + 1]) /\ g[i + 1] = Next_Value(kind, g[i], s[i + 1])
    BY <1>2, <1>3, <2>2
  <2> QED BY <1>1, <2>2, <2>3
<1>6. n \in T
  <2> HIDE DEF T
  <2> QED BY <1>1, <1>4, <1>5, NatInd
<1>7. h[n] = g[n]
  BY <1>1, <1>6
<1>8. n + 1 \in 1 .. (n + 1) /\ (n + 1) - 1 = n
  BY <1>1
<1>9. h[n + 1] = Next_Value(kind, h[n], t[n + 1])
  BY <1>3, <1>8
<1> QED BY <1>1, <1>7, <1>9 DEF n, t

-----------------------------------------------------------------------------
(* The elements of a string, the names of a path and the entry of a path,  *)
(* element by element.                                                     *)
LEMMA ElementsStep ==
  ASSUME NEW S
  PROVE  /\ Elements(<<>>) = <<>>
         /\ \A s \in Seq(S), x \in S : Elements(Append(s, x)) = Taken(Elements(s), x)
<1>1. \A v, x : Next_Value(Taking_Elements, v, x) = Taken(v, x)
  BY DEF Next_Value, Taking_Elements
<1>2. ASSUME NEW s \in Seq(S)
      PROVE  \E g : IsRun(g, Taking_Elements, <<>>, s, Len(s)) /\ Elements(s) = g[Len(s)]
  <2> DEFINE D(g) == g = [i \in 0 .. Len(s) |-> IF i = 0 THEN <<>> ELSE Taken(g[i - 1], s[i])]
  <2>1. Elements(s) = (CHOOSE g : D(g))[Len(s)]
    BY Zenon DEF Elements
  <2>2. \A g : D(g) <=> IsRun(g, Taking_Elements, <<>>, s, Len(s))
    BY <1>1, Zenon DEF IsRun
  <2>3. \E g : IsRun(g, Taking_Elements, <<>>, s, Len(s))
    <3>1. Len(s) \in Nat
      OBVIOUS
    <3> QED BY ONLY <3>1, RunExists
  <2> HIDE DEF D
  <2> QED BY <2>1, <2>2, <2>3, Zenon
<1>3. Elements(<<>>) = <<>>
  <2>1. <<>> \in Seq(S) /\ Len(<<>>) = 0
    OBVIOUS
  <2>2. PICK g : IsRun(g, Taking_Elements, <<>>, <<>>, 0) /\ Elements(<<>>) = g[0]
    BY ONLY <1>2, <2>1
  <2> QED BY <2>2, RunSteps
<1>4. ASSUME NEW s \in Seq(S), NEW x \in S
      PROVE  Elements(Append(s, x)) = Taken(Elements(s), x)
  <2>1. Append(s, x) \in Seq(S)
    OBVIOUS
  <2>2. PICK g : IsRun(g, Taking_Elements, <<>>, s, Len(s)) /\ Elements(s) = g[Len(s)]
    BY <1>2
  <2>3. PICK h : /\ IsRun(h, Taking_Elements, <<>>, Append(s, x), Len(Append(s, x)))
                 /\ Elements(Append(s, x)) = h[Len(Append(s, x))]
    BY <1>2, <2>1
  <2>4. h[Len(Append(s, x))] = Next_Value(Taking_Elements, g[Len(s)], x)
    BY <2>2, <2>3, RunGrows
  <2> QED BY <1>1, <2>2, <2>3, <2>4, Zenon
<1> QED BY <1>3, <1>4

(* One element more is one step more of Cleanup.                           *)
LEMMA CleanupStep ==
  ASSUME NEW S
  PROVE  /\ Cleanup(<<>>) = <<>>
         /\ \A s \in Seq(S), x \in S : Cleanup(Append(s, x)) = Step(Cleanup(s), x)
<1>1. \A v, x : Next_Value(Cleaning, v, x) = Step(v, x)
  BY DEF Next_Value, Cleaning
<1>2. ASSUME NEW s \in Seq(S)
      PROVE  \E g : IsRun(g, Cleaning, <<>>, s, Len(s)) /\ Cleanup(s) = g[Len(s)]
  <2> DEFINE D(g) == g = [i \in 0 .. Len(s) |-> IF i = 0 THEN <<>> ELSE Step(g[i - 1], s[i])]
  <2>1. Cleanup(s) = (CHOOSE g : D(g))[Len(s)]
    BY Zenon DEF Cleanup
  <2>2. \A g : D(g) <=> IsRun(g, Cleaning, <<>>, s, Len(s))
    BY <1>1, Zenon DEF IsRun
  <2>3. \E g : IsRun(g, Cleaning, <<>>, s, Len(s))
    <3>1. Len(s) \in Nat
      OBVIOUS
    <3> QED BY ONLY <3>1, RunExists
  <2> HIDE DEF D
  <2> QED BY <2>1, <2>2, <2>3, Zenon
<1>3. Cleanup(<<>>) = <<>>
  <2>1. <<>> \in Seq(S) /\ Len(<<>>) = 0
    OBVIOUS
  <2>2. PICK g : IsRun(g, Cleaning, <<>>, <<>>, 0) /\ Cleanup(<<>>) = g[0]
    BY ONLY <1>2, <2>1
  <2> QED BY <2>2, RunSteps
<1>4. ASSUME NEW s \in Seq(S), NEW x \in S
      PROVE  Cleanup(Append(s, x)) = Step(Cleanup(s), x)
  <2>1. Append(s, x) \in Seq(S)
    OBVIOUS
  <2>2. PICK g : IsRun(g, Cleaning, <<>>, s, Len(s)) /\ Cleanup(s) = g[Len(s)]
    BY <1>2
  <2>3. PICK h : /\ IsRun(h, Cleaning, <<>>, Append(s, x), Len(Append(s, x)))
                 /\ Cleanup(Append(s, x)) = h[Len(Append(s, x))]
    BY <1>2, <2>1
  <2>4. h[Len(Append(s, x))] = Next_Value(Cleaning, g[Len(s)], x)
    BY <2>2, <2>3, RunGrows
  <2> QED BY <1>1, <2>2, <2>3, <2>4, Zenon
<1> QED BY <1>3, <1>4

(* One name more is one directory more that is looked into.                *)
LEMMA WalkStep ==
  ASSUME NEW D, NEW S
  PROVE  /\ Walk(D, <<>>) = RootEntry(D)
         /\ \A q \in Seq(S), x \in S : Walk(D, Append(q, x)) = EntryIn(D, Walk(D, q), x)
<1>1. \A v, x : Next_Value(Walking(D), v, x) = EntryIn(D, v, x)
  BY DEF Next_Value, Walking
<1>2. ASSUME NEW s \in Seq(S)
      PROVE  \E g : IsRun(g, Walking(D), RootEntry(D), s, Len(s)) /\ Walk(D, s) = g[Len(s)]
  <2> DEFINE C(g) == g = [i \in 0 .. Len(s) |->
                      IF i = 0 THEN RootEntry(D) ELSE EntryIn(D, g[i - 1], s[i])]
  <2>1. Walk(D, s) = (CHOOSE g : C(g))[Len(s)]
    BY Zenon DEF Walk
  <2>2. \A g : C(g) <=> IsRun(g, Walking(D), RootEntry(D), s, Len(s))
    BY <1>1, Zenon DEF IsRun
  <2>3. \E g : IsRun(g, Walking(D), RootEntry(D), s, Len(s))
    <3>1. Len(s) \in Nat
      OBVIOUS
    <3> QED BY ONLY <3>1, RunExists
  <2> HIDE DEF C
  <2> QED BY <2>1, <2>2, <2>3, Zenon
<1>3. Walk(D, <<>>) = RootEntry(D)
  <2>1. <<>> \in Seq(S) /\ Len(<<>>) = 0
    OBVIOUS
  <2>2. PICK g : IsRun(g, Walking(D), RootEntry(D), <<>>, 0) /\ Walk(D, <<>>) = g[0]
    BY ONLY <1>2, <2>1
  <2> QED BY <2>2, RunSteps
<1>4. ASSUME NEW s \in Seq(S), NEW x \in S
      PROVE  Walk(D, Append(s, x)) = EntryIn(D, Walk(D, s), x)
  <2>1. Append(s, x) \in Seq(S)
    OBVIOUS
  <2>2. PICK g : IsRun(g, Walking(D), RootEntry(D), s, Len(s)) /\ Walk(D, s) = g[Len(s)]
    BY <1>2
  <2>3. PICK h : /\ IsRun(h, Walking(D), RootEntry(D), Append(s, x), Len(Append(s, x)))
                 /\ Walk(D, Append(s, x)) = h[Len(Append(s, x))]
    BY <1>2, <2>1
  <2>4. h[Len(Append(s, x))] = Next_Value(Walking(D), g[Len(s)], x)
    BY <2>2, <2>3, RunGrows
  <2> QED BY <1>1, <2>2, <2>3, <2>4, Zenon
<1> QED BY <1>3, <1>4

(* What the disk and the objects on it are made of.                        *)
Path == Seq(Name)
Entry == [file_attributes : Valid, file_name : Name, file_start : Start, file_size : Nat]
Node == [file_attributes : Attributes, file_name : Name \cup {Unnamed}, file_start : Start,
         file_size : Nat]
Object == [file_start : Start, file_size : Nat, file_position : Nat]
Element == [file_attributes : Valid, file_name : Name \cup {Unnamed}, self : Nat, parent : Nat]

Typed(D) ==
  /\ D = [clusters |-> D.clusters, created |-> D.created, objects |-> D.objects]
  /\ D.clusters \in [Start -> Seq(Entry)]
  /\ D.created \in 0 .. MaxFiles
  /\ D.objects \in [DOMAIN D.objects -> Object]
  /\ DOMAIN D.objects \subseteq Nat /\ IsFiniteSet(DOMAIN D.objects)
  /\ RootObject \in DOMAIN D.objects /\ D.objects[RootObject].file_start = 0

(* The paths lead to entries with starts of their own, later ones further  *)
(* down, and a directory has the names of its entries once.                *)
Exists(D, q) == Walk(D, q).file_attributes # "INVALID"
StartOf(D, q) == Walk(D, q).file_start
Size(D, q) == Walk(D, q).file_size
Cluster(D, q) == D.clusters[StartOf(D, q)]
Listed(list, n) ==
  n <= Len(list) /\ \A i, j \in 1 .. n : list[i].file_name = list[j].file_name => i = j
Sorted(D) ==
  /\ \A q, r \in Path : Exists(D, q) /\ Exists(D, r) /\ StartOf(D, q) = StartOf(D, r) => q = r
  /\ \A q \in Path, x \in Name : Exists(D, Append(q, x)) => StartOf(D, q) < StartOf(D, Append(q, x))
  /\ \A q \in Path : Exists(D, q) => StartOf(D, q) <= D.created
  /\ \A q \in Path : IsDirectory(D, q) => Listed(Cluster(D, q), Size(D, q))
Good(D) == Typed(D) /\ Sorted(D)

(* The entry a name has among the first n of a list.                       *)
Lookup(list, n, x) ==
  LET found == {i \in 1 .. n : list[i].file_name = x} IN
  IF found # {} THEN list[Min(found)] ELSE NoEntry

(* What is found is an entry with the name, or there is none with it.      *)
LEMMA LookupFinds ==
  ASSUME NEW list, NEW n \in Nat, NEW x
  PROVE  \/ \E i \in 1 .. n : list[i].file_name = x /\ Lookup(list, n, x) = list[i]
         \/ (\A i \in 1 .. n : list[i].file_name # x) /\ Lookup(list, n, x) = NoEntry
<1> DEFINE found == {i \in 1 .. n : list[i].file_name = x}
<1>1. CASE found # {}
  <2>1. found \subseteq Nat
    OBVIOUS
  <2>2. Min(found) \in found
    BY <1>1, <2>1, MinIsLeast
  <2>3. Lookup(list, n, x) = list[Min(found)]
    BY <1>1, Zenon DEF Lookup
  <2> QED BY <2>2, <2>3
<1>2. CASE found = {}
  <2>1. Lookup(list, n, x) = NoEntry
    BY <1>2, Zenon DEF Lookup
  <2> QED BY <1>2, <2>1
<1> QED BY <1>1, <1>2

(* Where names are not repeated the entry with the name is what is found.  *)
LEMMA LookupIs ==
  ASSUME NEW list, NEW n \in Nat, NEW x, NEW i \in 1 .. n, list[i].file_name = x,
         \A j, k \in 1 .. n : list[j].file_name = list[k].file_name => j = k
  PROVE  Lookup(list, n, x) = list[i]
<1>1. PICK j \in 1 .. n : list[j].file_name = x /\ Lookup(list, n, x) = list[j]
  BY LookupFinds
<1>2. j = i
  BY <1>1
<1> QED BY <1>1, <1>2

(* The entry a name has in a directory is looked up in its list.           *)
LEMMA EntryInIs ==
  ASSUME NEW D, NEW entry, NEW x
  PROVE  EntryIn(D, entry, x) =
           IF entry.file_attributes = "DIRECTORY"
           THEN Lookup(D.clusters[entry.file_start], entry.file_size, x) ELSE NoEntry
BY Zenon DEF EntryIn, Lookup

(* The index of a name in a list.                                          *)
LEMMA IndexFinds ==
  ASSUME NEW S, NEW list \in Seq(S), NEW x
  PROVE  \/ /\ Index(list, x) \in 1 .. Len(list) /\ list[Index(list, x)].file_name = x
            /\ \A i \in 1 .. Len(list) : list[i].file_name = x => Index(list, x) <= i
            /\ Found(list, x)
         \/ /\ ~Found(list, x)
            /\ \A i \in 1 .. Len(list) : list[i].file_name # x
<1> DEFINE found == {i \in 1 .. Len(list) : list[i].file_name = x}
<1>1. Index(list, x) = IF found # {} THEN Min(found) ELSE 0
  BY Zenon DEF Index, SelectInSeq
<1>2. CASE found # {}
  <2>1. found \subseteq Nat
    OBVIOUS
  <2>2. Min(found) \in found /\ \A i \in found : Min(found) <= i
    BY <1>2, <2>1, MinIsLeast
  <2>3. Index(list, x) \in found /\ \A i \in found : Index(list, x) <= i
    BY <1>1, <1>2, <2>2
  <2>4. Index(list, x) # 0
    BY <2>3
  <2> QED BY <2>3, <2>4 DEF Found
<1>3. CASE found = {}
  <2>1. Index(list, x) = 0
    BY <1>1, <1>3
  <2> QED BY <1>3, <2>1 DEF Found
<1> QED BY <1>2, <1>3

-----------------------------------------------------------------------------
(* The root is a directory.                                                *)
LEMMA RootIsThere ==
  ASSUME NEW D, Typed(D)
  PROVE  /\ <<>> \in Path /\ Walk(D, <<>>) = RootEntry(D) /\ IsDirectory(D, <<>>) /\ Exists(D, <<>>)
         /\ RootEntry(D) \in Node /\ StartOf(D, <<>>) = 0
         /\ Size(D, <<>>) = D.objects[RootObject].file_size
<1>1. Walk(D, <<>>) = RootEntry(D)
  BY WalkStep
<1>2. <<>> \in Path
  BY DEF Path
<1>3. D.objects[RootObject].file_size \in Nat
  BY DEF Typed, Object
<1>4. 0 \in Start /\ "DIRECTORY" \in Attributes
  BY BoundAssumption DEF Start, Attributes
<1>5. /\ RootEntry(D).file_attributes = "DIRECTORY" /\ RootEntry(D).file_start = 0
      /\ RootEntry(D).file_size = D.objects[RootObject].file_size
      /\ RootEntry(D) \in Node
  BY <1>3, <1>4 DEF RootEntry, Node
<1> QED BY <1>1, <1>2, <1>5 DEF IsDirectory, Exists, StartOf, Size

(* A path leads where its last name does from the path before it.          *)
LEMMA WalkOn ==
  ASSUME NEW D, NEW q \in Path, NEW x \in Name
  PROVE  Append(q, x) \in Path /\ Walk(D, Append(q, x)) = EntryIn(D, Walk(D, q), x)
<1>1. \A r \in Seq(Name), y \in Name : Walk(D, Append(r, y)) = EntryIn(D, Walk(D, r), y)
  BY WalkStep, Zenon
<1>2. q \in Seq(Name) /\ Append(q, x) \in Seq(Name)
  BY DEF Path
<1> QED BY <1>1, <1>2 DEF Path

(* What is returned when nothing is found is no element.                   *)
LEMMA NoEntryIsNone ==
  /\ NoEntry \in Node /\ NoEntry.file_attributes = "INVALID" /\ NoEntry.file_size = 0
  /\ "INVALID" # "DIRECTORY"
BY BoundAssumption DEF NoEntry, Node, Attributes, Start

(* An entry of a list can be what a path leads to, and is an element.      *)
LEMMA EntriesAreNodes ==
  ASSUME NEW e \in Entry
  PROVE  e \in Node /\ e.file_attributes # "INVALID" /\ e.file_attributes \in Valid /\ e # NoEntry
         /\ e.file_start \in Start /\ e.file_size \in Nat /\ e.file_name \in Name
BY DEF Entry, Node, Valid, NoEntry

(* What a path leads to: nothing, or an entry of the directory before it.  *)
LEMMA Nodes ==
  ASSUME NEW D, Good(D), NEW q \in Path
  PROVE  /\ Walk(D, q) \in Node
         /\ ~Exists(D, q) => Walk(D, q) = NoEntry
         /\ IsDirectory(D, q) => Exists(D, q)
<1> DEFINE P(w) == w \in Node /\ (w.file_attributes = "INVALID" => w = NoEntry)
           T == {r \in Path : P(Walk(D, r))}
<1>1. <<>> \in T
  BY RootIsThere DEF Good, IsDirectory
<1>2. ASSUME NEW r \in Path, NEW x \in Name, r \in T  PROVE Append(r, x) \in T
  <2>1. Append(r, x) \in Path /\ Walk(D, Append(r, x)) = EntryIn(D, Walk(D, r), x)
    BY WalkOn
  <2>2. CASE ~IsDirectory(D, r)
    <3>1. Walk(D, Append(r, x)) = NoEntry
      BY <2>1, <2>2, EntryInIs DEF IsDirectory
    <3> QED BY <2>1, <3>1, NoEntryIsNone
  <2>3. CASE IsDirectory(D, r)
    <3>1. Listed(Cluster(D, r), Size(D, r))
      BY <2>3 DEF Good, Sorted
    <3>2. Walk(D, r) \in Node
      BY <1>2
    <3>3. StartOf(D, r) \in Start /\ Size(D, r) \in Nat
      BY <3>2 DEF StartOf, Size, Node
    <3>4. Cluster(D, r) \in Seq(Entry)
      BY <3>3 DEF Cluster, Good, Typed
    <3>5. Walk(D, Append(r, x)) = Lookup(Cluster(D, r), Size(D, r), x)
      BY <2>1, <2>3, EntryInIs DEF IsDirectory, Cluster, StartOf, Size
    <3> DEFINE list == Cluster(D, r)
               n == Size(D, r)
    <3> HIDE DEF list, n
    <3>6. CASE Lookup(list, n, x) = NoEntry
      BY <2>1, <3>5, <3>6, NoEntryIsNone DEF list, n
    <3>7. CASE \E i \in 1 .. n : Lookup(list, n, x) = list[i]
      <4>1. PICK i \in 1 .. n : Lookup(list, n, x) = list[i]
        BY <3>7
      <4>2. i \in 1 .. Len(list)
        BY <3>1, <3>3, <3>4 DEF Listed, list, n
      <4>3. list[i] \in Entry
        BY <3>4, <4>2 DEF list
      <4>4. Walk(D, Append(r, x)) \in Entry
        BY <3>5, <4>1, <4>3 DEF list, n
      <4> QED BY <2>1, <4>4, EntriesAreNodes
    <3>8. n \in Nat
      BY <3>3 DEF n
    <3> QED BY <3>6, <3>7, <3>8, LookupFinds
  <2> QED BY <2>2, <2>3
<1>3. q \in T
  <2>1. Path \subseteq T
    <3> HIDE DEF T
    <3> QED BY <1>1, <1>2, PathInd DEF Path
  <2> QED BY <2>1
<1> QED BY <1>3, NoEntryIsNone DEF Exists, IsDirectory

(* The list of a directory that a path leads to, and what it says.         *)
LEMMA DirectoryIs ==
  ASSUME NEW D, Good(D), NEW q \in Path, IsDirectory(D, q)
  PROVE  /\ Exists(D, q) /\ StartOf(D, q) \in Start /\ Size(D, q) \in Nat
         /\ Cluster(D, q) \in Seq(Entry) /\ Size(D, q) <= Len(Cluster(D, q))
         /\ \A i, j \in 1 .. Size(D, q) :
              Cluster(D, q)[i].file_name = Cluster(D, q)[j].file_name => i = j
         /\ \A i \in 1 .. Size(D, q) : Cluster(D, q)[i] \in Entry
         /\ \A x \in Name : /\ Append(q, x) \in Path
                            /\ Walk(D, Append(q, x)) = Lookup(Cluster(D, q), Size(D, q), x)
<1>1. Walk(D, q) \in Node /\ Exists(D, q)
  BY Nodes
<1>2. StartOf(D, q) \in Start /\ Size(D, q) \in Nat
  BY <1>1 DEF StartOf, Size, Node
<1>3. Cluster(D, q) \in Seq(Entry)
  BY <1>2 DEF Cluster, Good, Typed
<1>4. Listed(Cluster(D, q), Size(D, q))
  BY DEF Good, Sorted
<1>5. ASSUME NEW x \in Name
      PROVE  /\ Append(q, x) \in Path
             /\ Walk(D, Append(q, x)) = Lookup(Cluster(D, q), Size(D, q), x)
  BY WalkOn, EntryInIs DEF IsDirectory, Cluster, StartOf, Size
<1> DEFINE list == Cluster(D, q)
           n == Size(D, q)
<1> HIDE DEF list, n
<1>6. n \in Nat /\ list \in Seq(Entry) /\ n <= Len(list)
  BY <1>2, <1>3, <1>4 DEF Listed, list, n
<1>7. \A i \in 1 .. n : list[i] \in Entry
  BY <1>6
<1> QED BY <1>1, <1>2, <1>4, <1>5, <1>6, <1>7 DEF Listed, list, n

(* A path that is there has a directory before its last name, and is one   *)
(* of its entries.                                                         *)
LEMMA ChildIs ==
  ASSUME NEW D, Good(D), NEW q \in Path, NEW x \in Name, Exists(D, Append(q, x))
  PROVE  /\ IsDirectory(D, q) /\ Exists(D, q)
         /\ Walk(D, Append(q, x)) \in Entry /\ Walk(D, Append(q, x)).file_name = x
         /\ \E i \in 1 .. Size(D, q) : Walk(D, Append(q, x)) = Cluster(D, q)[i]
<1>1. Walk(D, Append(q, x)) = EntryIn(D, Walk(D, q), x)
  BY WalkOn
<1>2. IsDirectory(D, q)
  <2>1. SUFFICES ASSUME ~IsDirectory(D, q)  PROVE FALSE
    OBVIOUS
  <2>2. Walk(D, Append(q, x)) = NoEntry
    BY <1>1, <2>1, EntryInIs DEF IsDirectory
  <2> QED BY <2>2, NoEntryIsNone DEF Exists
<1> DEFINE list == Cluster(D, q)
           n == Size(D, q)
<1>3. /\ n \in Nat /\ Exists(D, q) /\ Walk(D, Append(q, x)) = Lookup(list, n, x)
      /\ \A i \in 1 .. n : list[i] \in Entry
  BY <1>2, DirectoryIs
<1> HIDE DEF list, n
<1>4. Lookup(list, n, x) # NoEntry
  BY <1>3, NoEntryIsNone DEF Exists
<1>5. PICK i \in 1 .. n : list[i].file_name = x /\ Lookup(list, n, x) = list[i]
  BY <1>3, <1>4, LookupFinds
<1>6. Walk(D, Append(q, x)) \in Entry /\ Walk(D, Append(q, x)).file_name = x
  BY <1>3, <1>5
<1>7. \E j \in 1 .. n : Walk(D, Append(q, x)) = list[j]
  BY <1>3, <1>5
<1> QED BY <1>2, <1>3, <1>6, <1>7 DEF list, n

(* An entry of a directory is what its path and the name lead to.          *)
LEMMA EntryIsChild ==
  ASSUME NEW D, Good(D), NEW q \in Path, IsDirectory(D, q), NEW i \in 1 .. Size(D, q)
  PROVE  LET x == Cluster(D, q)[i].file_name IN
         /\ x \in Name /\ Walk(D, Append(q, x)) = Cluster(D, q)[i] /\ Exists(D, Append(q, x))
<1> DEFINE list == Cluster(D, q)
           n == Size(D, q)
           x == list[i].file_name
<1>1. /\ n \in Nat
      /\ \A j, k \in 1 .. n : list[j].file_name = list[k].file_name => j = k
      /\ list[i] \in Entry
      /\ \A y \in Name : Walk(D, Append(q, y)) = Lookup(list, n, y)
  BY DirectoryIs
<1>i. i \in 1 .. n
  OBVIOUS
<1> HIDE DEF list, n
<1>2. x \in Name
  BY <1>1, EntriesAreNodes
<1>3. Lookup(list, n, x) = list[i]
  BY <1>1, <1>i, LookupIs
<1>4. Walk(D, Append(q, x)) = list[i]
  BY <1>1, <1>2, <1>3
<1> HIDE DEF x
<1>5. Exists(D, Append(q, x))
  BY <1>1, <1>4, EntriesAreNodes DEF Exists
<1> QED BY <1>2, <1>4, <1>5 DEF list, n, x

(* The two numbers for new objects.                                        *)
LEMMA FreshIs ==
  ASSUME NEW D, Typed(D)
  PROVE  /\ Fresh(D, 0) \in Nat \ DOMAIN D.objects /\ Fresh(D, 1) \in Nat \ DOMAIN D.objects
         /\ Fresh(D, 0) # Fresh(D, 1)
<1> DEFINE N == DOMAIN D.objects
           c == Cardinality(N)
           free == (0 .. (c + 1)) \ N
           Rank(o) == Cardinality({p \in free : p < o})
<1>1. IsFiniteSet(N) /\ c \in Nat /\ N \subseteq Nat
  BY FS_CardinalityType DEF Typed
<1>2. \A k : Fresh(D, k) = CHOOSE o \in free : Rank(o) = k
  BY Zenon DEF Fresh
<1> HIDE DEF N, c
<1>3. IsFiniteSet(0 .. (c + 1)) /\ Cardinality(0 .. (c + 1)) = c + 2
  <2>1. 0 \in Int /\ c + 1 \in Int /\ 0 <= c + 1 /\ (c + 1) - 0 + 1 = c + 2
    BY <1>1
  <2>2. IsFiniteSet(0 .. (c + 1)) /\ Cardinality(0 .. (c + 1)) = IF 0 > c + 1 THEN 0 ELSE (c + 1) - 0 + 1
    BY <2>1, FS_Interval
  <2> QED BY <2>1, <2>2
<1>4. ASSUME NEW m  PROVE free \ {m} # {}
  <2>1. SUFFICES ASSUME free \subseteq {m}  PROVE FALSE
    OBVIOUS
  <2>2. 0 .. (c + 1) \subseteq N \cup {m}
    BY <2>1
  <2>3. IsFiniteSet(N \cup {m}) /\ Cardinality(N \cup {m}) \in {c, c + 1}
    BY <1>1, FS_AddElement DEF c
  <2>4. Cardinality(0 .. (c + 1)) <= Cardinality(N \cup {m})
    BY <2>2, <2>3, FS_Subset
  <2> QED BY <1>1, <1>3, <2>3, <2>4
<1>5. free \subseteq Nat
  OBVIOUS
<1> HIDE DEF free
<1> DEFINE first == Min(free)
           second == Min(free \ {first})
<1>6. first \in free /\ \A n \in free : first <= n
  <2>1. free # {}
    BY <1>4
  <2> QED BY <1>5, <2>1, MinIsLeast
<1> HIDE DEF first
<1>7. second \in free \ {first} /\ \A n \in free \ {first} : second <= n
  <2>1. free \ {first} # {} /\ free \ {first} \subseteq Nat
    BY <1>4, <1>5
  <2> QED BY <2>1, MinIsLeast
<1> HIDE DEF second
<1>8. Rank(first) = 0
  <2>0. first \in Nat /\ \A p \in free : p \in Nat /\ ~(p < first)
    <3>1. first \in Nat
      BY <1>5, <1>6
    <3> QED BY <1>5, <1>6, <3>1
  <2>1. {p \in free : p < first} = {}
    BY <2>0, Zenon
  <2> QED BY <2>1, FS_EmptySet
<1>9. Rank(second) = 1
  <2>0. first \in Nat /\ second \in Nat
    BY <1>5, <1>6, <1>7
  <2>1. first < second
    BY <1>6, <1>7, <2>0
  <2>2. \A p \in free : p < second => p = first
    <3> SUFFICES ASSUME NEW p \in free, p < second, p # first  PROVE FALSE
      OBVIOUS
    <3>1. p \in Nat /\ second <= p
      BY <1>5, <1>7
    <3> QED BY <2>0, <3>1
  <2>3. {p \in free : p < second} = {first}
    BY <1>6, <2>1, <2>2, Zenon
  <2> QED BY <2>3, FS_Singleton
<1>10. Fresh(D, 0) \in free /\ Rank(Fresh(D, 0)) = 0 /\ Fresh(D, 1) \in free /\ Rank(Fresh(D, 1)) = 1
  <2> HIDE DEF Rank
  <2> QED BY <1>2, <1>6, <1>7, <1>8, <1>9
<1>11. Fresh(D, 0) # Fresh(D, 1)
  <2> HIDE DEF Rank
  <2> QED BY <1>10
<1> QED BY <1>5, <1>10, <1>11 DEF free, N

(* A new object changes no other.                                          *)
IsWith(E, D, o, entry) ==
  /\ E = [clusters |-> E.clusters, created |-> E.created, objects |-> E.objects]
  /\ E.clusters = D.clusters /\ E.created = D.created
  /\ DOMAIN E.objects = DOMAIN D.objects \cup {o}
  /\ E.objects[o] = [file_start |-> entry.file_start, file_size |-> entry.file_size,
                     file_position |-> 0]
  /\ \A p \in DOMAIN D.objects : p # o => E.objects[p] = D.objects[p]
  /\ E.objects \in [DOMAIN D.objects \cup {o} ->
                      {E.objects[p] : p \in DOMAIN D.objects \cup {o}}]

(* With gives the disk an object, and changes no other.                    *)
LEMMA WithIs ==
  ASSUME NEW D, Typed(D), NEW o, NEW entry
  PROVE  IsWith(With(D, o, entry), D, o, entry)
<1> DEFINE E == With(D, o, entry)
           new == [file_start |-> entry.file_start, file_size |-> entry.file_size,
                   file_position |-> 0]
           objs == [p \in DOMAIN D.objects \cup {o} |-> IF p = o THEN new ELSE D.objects[p]]
<1>1. D = [clusters |-> D.clusters, created |-> D.created, objects |-> D.objects]
  BY DEF Typed
<1>2. E = [D EXCEPT !.objects = objs]
  BY DEF With
<1>3. /\ DOMAIN objs = DOMAIN D.objects \cup {o}
      /\ objs[o] = new
      /\ \A p \in DOMAIN D.objects : p # o => objs[p] = D.objects[p]
      /\ objs = [p \in DOMAIN objs |-> objs[p]]
  OBVIOUS
<1> HIDE DEF objs, new, E
<1>4. E = [clusters |-> D.clusters, created |-> D.created, objects |-> objs]
  BY <1>1, <1>2
<1>5. E.clusters = D.clusters /\ E.created = D.created /\ E.objects = objs
  BY <1>4
<1>6. objs \in [DOMAIN objs -> {objs[p] : p \in DOMAIN objs}]
  BY <1>3
<1> QED BY <1>3, <1>4, <1>5, <1>6 DEF E, new, IsWith

-----------------------------------------------------------------------------
(* The tree depends on the clusters and on the size of the root.           *)
SameTree(D, E) ==
  E.clusters = D.clusters /\ D.created <= E.created
  /\ E.objects[RootObject].file_size = D.objects[RootObject].file_size

(* With the same lists and root every path leads to the same.              *)
LEMMA WalkSame ==
  ASSUME NEW D, NEW E, SameTree(D, E), NEW q \in Path
  PROVE  Walk(E, q) = Walk(D, q)
<1> DEFINE T == {r \in Path : Walk(E, r) = Walk(D, r)}
<1>1. <<>> \in T
  <2>1. Walk(E, <<>>) = RootEntry(E) /\ Walk(D, <<>>) = RootEntry(D)
    BY WalkStep
  <2>2. RootEntry(E) = RootEntry(D)
    BY DEF RootEntry, SameTree
  <2> QED BY <2>1, <2>2 DEF Path
<1>2. ASSUME NEW r \in Path, NEW x \in Name, r \in T  PROVE Append(r, x) \in T
  <2>1. /\ Append(r, x) \in Path /\ Walk(D, Append(r, x)) = EntryIn(D, Walk(D, r), x)
        /\ Walk(E, Append(r, x)) = EntryIn(E, Walk(E, r), x)
    BY WalkOn
  <2>2. Walk(E, r) = Walk(D, r) /\ E.clusters = D.clusters
    BY <1>2 DEF SameTree
  <2>3. EntryIn(E, Walk(E, r), x) = EntryIn(D, Walk(D, r), x)
    BY <2>2, EntryInIs, Zenon
  <2> QED BY <2>1, <2>3
<1>3. Path \subseteq T
  <2> HIDE DEF T
  <2> QED BY <1>1, <1>2, PathInd DEF Path
<1> QED BY <1>3

(* The paths are in order where they lead to the same.                     *)
LEMMA GoodSame ==
  ASSUME NEW D, Good(D), NEW E, Typed(E), SameTree(D, E)
  PROVE  Good(E)
<1>1. \A q \in Path : Walk(E, q) = Walk(D, q)
  BY WalkSame
<1>2. \A q \in Path : /\ StartOf(E, q) = StartOf(D, q) /\ Size(E, q) = Size(D, q)
                      /\ (Exists(E, q) <=> Exists(D, q))
                      /\ (IsDirectory(E, q) <=> IsDirectory(D, q))
  BY <1>1 DEF StartOf, Size, Exists, IsDirectory
<1>3. \A q \in Path : Cluster(E, q) = Cluster(D, q)
  BY <1>2 DEF Cluster, SameTree
<1>4. \A q \in Path, x \in Name : Append(q, x) \in Path
  BY DEF Path
<1>5. Sorted(D) /\ D.created <= E.created /\ D.created \in Nat /\ E.created \in Nat
  BY BoundAssumption DEF Good, SameTree, Typed
<1>5a. \A q \in Path : Exists(D, q) => StartOf(D, q) \in Nat
  BY Nodes, BoundAssumption DEF StartOf, Node, Start
<1>6. Sorted(E)
  <2>1. \A q, r \in Path : Exists(E, q) /\ Exists(E, r) /\ StartOf(E, q) = StartOf(E, r) => q = r
    BY <1>2, <1>5 DEF Sorted
  <2>2. \A q \in Path, x \in Name : Exists(E, Append(q, x)) => StartOf(E, q) < StartOf(E, Append(q, x))
    BY <1>2, <1>4, <1>5 DEF Sorted
  <2>3. \A q \in Path : Exists(E, q) => StartOf(E, q) <= E.created
    BY <1>2, <1>5, <1>5a DEF Sorted
  <2>4. \A q \in Path : IsDirectory(E, q) => Listed(Cluster(E, q), Size(E, q))
    BY <1>2, <1>3, <1>5 DEF Sorted
  <2> QED BY <2>1, <2>2, <2>3, <2>4 DEF Sorted
<1> QED BY <1>6 DEF Good

-----------------------------------------------------------------------------
(* An element stands for what its path leads to: its own object is as      *)
(* large as the entry says, and the one of the directory it is in, which   *)
(* may be an old one, still has its entry.                                 *)
Holds(D, q, o) ==
  /\ D.objects[o].file_start = StartOf(D, Front(q))
  /\ D.objects[o].file_size <= Len(Cluster(D, Front(q)))
  /\ \E i \in 1 .. D.objects[o].file_size :
       i <= Size(D, Front(q)) /\ Cluster(D, Front(q))[i].file_name = Last(q)
Stands(D, q, e) ==
  /\ q \in Path /\ Exists(D, q)
  /\ e \in Element /\ e.self \in DOMAIN D.objects /\ e.parent \in DOMAIN D.objects
  /\ e.file_attributes = Walk(D, q).file_attributes /\ e.file_name = Get_Filename(q)
  /\ D.objects[e.self].file_start = StartOf(D, q)
  /\ D.objects[e.self].file_size = Size(D, q)
  /\ q = <<>> => e = RootElement
  /\ q # <<>> => Holds(D, q, e.parent)

(* A path that is not the root's has a last name and a path before it.     *)
LEMMA FrontIs ==
  ASSUME NEW q \in Path, q # <<>>
  PROVE  /\ Front(q) \in Path /\ Last(q) \in Name /\ q = Append(Front(q), Last(q))
         /\ Get_Filename(q) = Last(q)
BY EndOfSequence DEF Path, Get_Filename

(* An element stands on, where its objects are as large as they were.      *)
LEMMA StandsSame ==
  ASSUME NEW D, NEW E, SameTree(D, E), NEW q, NEW e, Stands(D, q, e),
         \A o \in {e.self, e.parent} : /\ o \in DOMAIN E.objects
                                      /\ E.objects[o].file_start = D.objects[o].file_start
                                      /\ E.objects[o].file_size = D.objects[o].file_size
  PROVE  Stands(E, q, e)
<1>1. \A r \in Path : Walk(E, r) = Walk(D, r)
  BY WalkSame
<1>2. \A r \in Path : /\ StartOf(E, r) = StartOf(D, r) /\ Size(E, r) = Size(D, r)
                      /\ (Exists(E, r) <=> Exists(D, r)) /\ Cluster(E, r) = Cluster(D, r)
  BY <1>1 DEF StartOf, Size, Exists, Cluster, SameTree
<1>3. q # <<>> => Holds(E, q, e.parent)
  <2> SUFFICES ASSUME q # <<>>  PROVE Holds(E, q, e.parent)
    OBVIOUS
  <2>1. Front(q) \in Path /\ Holds(D, q, e.parent)
    BY FrontIs DEF Stands
  <2> QED BY <1>2, <2>1 DEF Holds
<1> QED BY <1>1, <1>2, <1>3 DEF Stands

(* An object more does not change where the paths lead.                    *)
LEMMA NewObject ==
  ASSUME NEW D, Good(D), NEW o \in Nat \ DOMAIN D.objects, NEW entry \in Node
  PROVE  LET E == With(D, o, entry) IN
         /\ Good(E) /\ SameTree(D, E)
         /\ \A q, e : Stands(D, q, e) => Stands(E, q, e)
<1> DEFINE E == With(D, o, entry)
           N == DOMAIN D.objects \cup {o}
<1>0. Typed(D) /\ RootObject \in DOMAIN D.objects /\ DOMAIN D.objects \subseteq Nat
  BY DEF Good, Typed
<1>w. IsWith(E, D, o, entry)
  BY <1>0, WithIs
<1> HIDE DEF E
<1>1. /\ E = [clusters |-> E.clusters, created |-> E.created, objects |-> E.objects]
      /\ E.clusters = D.clusters /\ E.created = D.created
      /\ DOMAIN E.objects = N
      /\ E.objects[o] = [file_start |-> entry.file_start, file_size |-> entry.file_size,
                         file_position |-> 0]
      /\ \A p \in DOMAIN D.objects : p # o => E.objects[p] = D.objects[p]
      /\ E.objects \in [N -> {E.objects[p] : p \in N}]
  BY <1>w DEF IsWith
<1>2. \A p \in DOMAIN D.objects : E.objects[p] = D.objects[p]
  BY <1>1
<1>3. E.objects[o] \in Object
  BY <1>1 DEF Object, Node
<1>4. \A p \in DOMAIN D.objects : D.objects[p] \in Object
  BY DEF Good, Typed
<1>5. E.objects \in [N -> Object]
  BY <1>1, <1>2, <1>3, <1>4
<1>6. IsFiniteSet(N) /\ N \subseteq Nat
  BY <1>0, FS_AddElement DEF Typed
<1>7. Typed(E)
  <2>1. D.clusters \in [Start -> Seq(Entry)] /\ D.created \in 0 .. MaxFiles
    BY <1>0 DEF Typed
  <2>2. E.objects[RootObject].file_start = 0
    BY <1>0, <1>2 DEF Typed
  <2>3. E.objects \in [DOMAIN E.objects -> Object] /\ RootObject \in DOMAIN E.objects
    BY <1>0, <1>1, <1>5
  <2> QED BY <1>1, <1>6, <2>1, <2>2, <2>3, Zenon DEF Typed
<1>8. SameTree(D, E)
  <2>1. D.created <= E.created
    BY <1>0, <1>1, BoundAssumption DEF Typed
  <2> QED BY <1>0, <1>1, <1>2, <2>1 DEF SameTree
<1>9. Good(E)
  BY <1>7, <1>8, GoodSame
<1>10. ASSUME NEW q, NEW e, Stands(D, q, e)  PROVE Stands(E, q, e)
  <2>1. e.self \in DOMAIN D.objects /\ e.parent \in DOMAIN D.objects
    BY <1>10 DEF Stands
  <2> QED BY <1>1, <1>2, <1>8, <1>10, <2>1, StandsSame
<1> QED BY <1>8, <1>9, <1>10 DEF E

(* The elements of a path before it is cleaned.                            *)
Part == Name \cup {Here, Above}

(* No name is one of the special elements of a string.                     *)
LEMMA SpecialNames == Here # Above /\ Here # Separator /\ Above # Separator
                      /\ Name \cap {Here, Above, Separator} = {}
BY NameAssumption DEF Here, Above, Separator

(* Cleanup makes a path of elements, and a path is clean.                  *)
LEMMA CleanupIs ==
  /\ \A s \in Seq(Part) : Cleanup(s) \in Path
  /\ \A q \in Path : Cleanup(q) = q /\ q \in Seq(Part)
<1> DEFINE T == {s \in Seq(Part) : Cleanup(s) \in Path}
           U == {q \in Path : Cleanup(q) = q}
<1>1. Cleanup(<<>>) = <<>> /\ <<>> \in Path
  BY CleanupStep DEF Path
<1>2. ASSUME NEW s \in Seq(Part), NEW x \in Part, s \in T  PROVE Append(s, x) \in T
  <2>1. Cleanup(Append(s, x)) = Step(Cleanup(s), x)
    BY CleanupStep, Zenon
  <2>2. Cleanup(s) \in Path
    BY <1>2
  <2>3. x = Here \/ x = Above \/ x \in Name
    BY DEF Part
  <2>4. Step(Cleanup(s), x) \in Path
    <3> DEFINE done == Cleanup(s)
    <3> HIDE DEF done
    <3>0. done \in Seq(Name)
      BY <2>2 DEF done, Path
    <3>1. CASE x = Here
      <4>1. Step(done, x) = done
        BY <3>1, SpecialNames DEF Step
      <4> QED BY <3>0, <4>1 DEF Path, done
    <3>2. CASE x = Above /\ done = <<>>
      <4>1. Step(done, x) = done
        BY <3>2, SpecialNames DEF Step
      <4> QED BY <3>0, <4>1 DEF Path, done
    <3>3. CASE x = Above /\ done # <<>>
      <4>1. Front(done) \in Seq(Name)
        BY <3>0, <3>3, EndOfSequence
      <4>2. Step(done, x) = Front(done)
        BY <3>3, SpecialNames DEF Step
      <4> QED BY <4>1, <4>2 DEF Path, done
    <3>4. CASE x \in Name
      <4>1. Step(done, x) = Append(done, x)
        BY <3>4, SpecialNames DEF Step
      <4> QED BY <3>0, <3>4, <4>1 DEF Path, done
    <3> QED BY <2>3, <3>1, <3>2, <3>3, <3>4
  <2> QED BY <2>1, <2>4
<1>3. Seq(Part) \subseteq T
  <2>1. <<>> \in T
    BY <1>1
  <2> HIDE DEF T
  <2> QED BY <1>2, <2>1, PathInd
<1>4. ASSUME NEW q \in Path, NEW x \in Name, q \in U  PROVE Append(q, x) \in U
  <2>1. Cleanup(Append(q, x)) = Step(Cleanup(q), x)
    BY CleanupStep, Zenon DEF Path
  <2>2. Step(q, x) = Append(q, x)
    BY SpecialNames DEF Step
  <2> QED BY <1>4, <2>1, <2>2 DEF Path
<1>5. Path \subseteq U
  <2>1. <<>> \in U
    BY <1>1
  <2> HIDE DEF U
  <2> QED BY <1>4, <2>1, PathInd DEF Path
<1>6. \A q \in Path : q \in Seq(Part)
  BY DEF Path, Part
<1> QED BY <1>3, <1>5, <1>6

(* The elements of a string are its tokens without the separators.         *)
LEMMA ElementsIs == \A raw \in Seq(Token) : Elements(raw) \in Seq(Part)
<1> DEFINE T == {s \in Seq(Token) : Elements(s) \in Seq(Part)}
<1>1. <<>> \in T
  <2>1. Elements(<<>>) = <<>>
    BY ElementsStep
  <2>2. <<>> \in Seq(Part) /\ <<>> \in Seq(Token)
    OBVIOUS
  <2>3. Elements(<<>>) \in Seq(Part)
    BY <2>1, <2>2, Zenon
  <2> QED BY <2>2, <2>3, Zenon
<1>2. ASSUME NEW s \in Seq(Token), NEW x \in Token, s \in T  PROVE Append(s, x) \in T
  <2>1. Elements(Append(s, x)) = Taken(Elements(s), x)
    BY ElementsStep, Zenon
  <2>2. Elements(s) \in Seq(Part)
    BY <1>2
  <2>3. Taken(Elements(s), x) \in Seq(Part)
    BY <2>2 DEF Taken, Token, Part
  <2> QED BY <2>1, <2>3
<1>3. Seq(Token) \subseteq T
  <2> HIDE DEF T
  <2> QED BY <1>1, <1>2, PathInd
<1> QED BY <1>3

(* A sequence of one element is that of the element.                       *)
LEMMA OneOnly ==
  \A S : \A s \in Seq(S) : Len(s) = 1 => s = <<s[1]>> /\ s[1] \in S
<1> SUFFICES ASSUME NEW S, NEW s \in Seq(S), Len(s) = 1  PROVE s = <<s[1]>> /\ s[1] \in S
  OBVIOUS
<1>1. s[1] \in S
  OBVIOUS
<1>2. <<s[1]>> \in Seq(S) /\ Len(<<s[1]>>) = 1 /\ <<s[1]>>[1] = s[1]
  BY <1>1
<1> DEFINE t == <<s[1]>>
<1> HIDE DEF t
<1>3. \A i \in 1 .. Len(s) : s[i] = t[i]
  BY <1>2 DEF t
<1>4. s = t
  BY ONLY s \in Seq(S), Len(s) = 1, <1>2, <1>3, SeqEqual DEF t
<1> QED BY <1>1, <1>4 DEF t

(* A string of one name.                                                   *)
LEMMA OneElement ==
  ASSUME NEW x \in Part, NEW q \in Path
  PROVE  Elements(<<x>>) = <<x>> /\ Appended(q, <<x>>) = Step(q, x)
<1>1. <<>> \in Seq(Part) /\ <<x>> = Append(<<>>, x)
  OBVIOUS
<1>2. x # Separator
  BY SpecialNames DEF Part
<1>3. Elements(<<x>>) = Taken(<<>>, x)
  BY <1>1, ElementsStep
<1>4. Elements(<<x>>) = <<x>>
  BY <1>2, <1>3 DEF Taken
<1>5. q \in Seq(Part)
  BY CleanupIs
<1>6. q \o <<x>> = Append(q, x)
  BY <1>5
<1>7. Cleanup(Append(q, x)) = Step(Cleanup(q), x)
  BY <1>5, CleanupStep, Zenon
<1> QED BY <1>4, <1>6, <1>7, CleanupIs DEF Appended

(* The path above is the path without its last name.                       *)
LEMMA ParentIs ==
  ASSUME NEW q \in Path
  PROVE  /\ ParentPath(q) \in Path /\ (q = <<>> => ParentPath(q) = <<>>)
         /\ (q # <<>> => ParentPath(q) = Front(q))
<1>1. ParentPath(q) = Step(q, Above)
  BY OneElement DEF ParentPath, Part
<1>2. Step(q, Above) = IF q = <<>> THEN q ELSE Front(q)
  BY SpecialNames DEF Step
<1> QED BY <1>1, <1>2, FrontIs

(* What path a string means, by its kind.                                  *)
LEMMA FilePathIs ==
  ASSUME NEW raw \in Raw, cwd.path \in Path
  PROVE  /\ FilePath(raw) \in Path
         /\ Get_Filename_Type(raw) \in {"INVALID", "CURRENT", "RELATIVE_PATH", "FILENAME", "ABSOLUTE_PATH"}
         /\ Get_Filename_Type(raw) = "INVALID" <=> raw = <<>>
         /\ Get_Filename_Type(raw) = "CURRENT" => FilePath(raw) = cwd.path
         /\ Get_Filename_Type(raw) = "FILENAME" =>
              Len(raw) = 1 /\ raw[1] \in Name /\ FilePath(raw) = Append(cwd.path, raw[1])
         /\ Get_Path_Type(raw) \in {"INVALID", "ABSOLUTE_PATH", "RELATIVE_PATH"}
<1>1. raw \in Seq(Token) /\ \A i \in 2 .. Len(raw) : raw[i - 1] = Separator \/ raw[i] = Separator
  BY RawAssumption DEF IsRaw
<1>2. Elements(raw) \in Seq(Part)
  BY <1>1, ElementsIs
<1>3. cwd.path \o Elements(raw) \in Seq(Part)
  BY <1>2, CleanupIs
<1>4. FilePath(raw) \in Path
  BY <1>2, <1>3, CleanupIs DEF FilePath, PathOf, Appended
<1>5. /\ Get_Filename_Type(raw) \in {"INVALID", "CURRENT", "RELATIVE_PATH", "FILENAME", "ABSOLUTE_PATH"}
      /\ Get_Filename_Type(raw) = "INVALID" <=> raw = <<>>
      /\ Get_Filename_Type(raw) = "CURRENT" => raw = <<Here>>
      /\ Get_Filename_Type(raw) = "FILENAME" =>
           raw # <<>> /\ raw # <<Here>> /\ raw # <<Above>> /\ ~Contains(raw, Separator)
  <2>1. <<Here>> # <<>> /\ <<Above>> # <<>> /\ <<Here>> # <<Above>>
    BY SpecialNames
  <2>2. CASE raw = <<>>
    BY <2>1, <2>2 DEF Get_Filename_Type
  <2>3. CASE raw = <<Here>>
    BY <2>1, <2>3 DEF Get_Filename_Type
  <2>4. CASE raw = <<Above>>
    BY <2>1, <2>4 DEF Get_Filename_Type
  <2>5. CASE raw # <<>> /\ raw # <<Here>> /\ raw # <<Above>>
    BY <2>5 DEF Get_Filename_Type
  <2> QED BY <2>2, <2>3, <2>4, <2>5
<1>6. ASSUME Get_Filename_Type(raw) = "CURRENT"  PROVE FilePath(raw) = cwd.path
  <2>1. raw = <<Here>>
    BY <1>5, <1>6
  <2>2. FilePath(raw) = Appended(cwd.path, <<Here>>)
    BY <1>6, <2>1 DEF FilePath
  <2>3. FilePath(raw) = Step(cwd.path, Here)
    BY <2>2, OneElement DEF Part
  <2> QED BY <2>3, SpecialNames DEF Step
<1>7. ASSUME Get_Filename_Type(raw) = "FILENAME"
      PROVE  Len(raw) = 1 /\ raw[1] \in Name /\ FilePath(raw) = Append(cwd.path, raw[1])
  <2>1. /\ raw # <<>> /\ raw # <<Here>> /\ raw # <<Above>>
        /\ \A i \in 1 .. Len(raw) : raw[i] # Separator
    BY <1>5, <1>7 DEF Contains
  <2>2. Len(raw) = 1
    <3>1. Len(raw) \in Nat /\ Len(raw) # 0
      BY <1>1, <2>1
    <3>2. ASSUME Len(raw) >= 2  PROVE FALSE
      <4>1. 2 \in 2 .. Len(raw) /\ 1 \in 1 .. Len(raw) /\ 2 \in 1 .. Len(raw) /\ 2 - 1 = 1
        BY <3>1, <3>2
      <4> QED BY <1>1, <2>1, <4>1
    <3> DEFINE n == Len(raw)
    <3> HIDE DEF n
    <3>3. n \in Nat /\ n # 0 /\ ~(n >= 2)
      BY <3>1, <3>2 DEF n
    <3>4. n = 1
      BY <3>3
    <3> QED BY <3>4 DEF n
  <2>3. raw = <<raw[1]>> /\ raw[1] \in Token
    BY <1>1, <2>2, OneOnly, Zenon
  <2>4. raw[1] \in Name
    BY <2>1, <2>2, <2>3 DEF Token
  <2>5. FilePath(raw) = Appended(cwd.path, <<raw[1]>>)
    BY <1>7, <2>3 DEF FilePath
  <2>6. FilePath(raw) = Step(cwd.path, raw[1])
    BY <2>4, <2>5, OneElement DEF Part
  <2>7. Step(cwd.path, raw[1]) = Append(cwd.path, raw[1])
    BY <2>4, SpecialNames DEF Step
  <2> QED BY <2>2, <2>4, <2>6, <2>7
<1>8. Get_Path_Type(raw) \in {"INVALID", "ABSOLUTE_PATH", "RELATIVE_PATH"}
  BY <1>5 DEF Get_Path_Type
<1> QED BY <1>4, <1>5, <1>6, <1>7, <1>8

(* Another object, or a later time: everything stands as it did.           *)
Keeps(D, E) ==
  Good(E) /\ SameTree(D, E) /\ \A q, e : Stands(D, q, e) => Stands(E, q, e)

(* What two changes keep in turn is kept by both.                          *)
LEMMA KeepsOn ==
  ASSUME NEW D, Good(D), NEW E, Keeps(D, E), NEW F, Keeps(E, F)
  PROVE  Keeps(D, F)
<1>1. D.created \in Nat /\ E.created \in Nat /\ F.created \in Nat
  BY BoundAssumption DEF Keeps, Good, Typed
<1>2. SameTree(D, F)
  BY <1>1 DEF Keeps, SameTree
<1> QED BY <1>2 DEF Keeps

(* No change keeps everything.                                             *)
LEMMA KeepsItself ==
  ASSUME NEW D, Good(D)
  PROVE  Keeps(D, D)
<1>1. D.created \in Nat
  BY BoundAssumption DEF Good, Typed
<1> QED BY <1>1 DEF Keeps, SameTree

(* The root's element stands for the root.                                 *)
LEMMA RootStands ==
  ASSUME NEW D, Good(D)
  PROVE  Stands(D, <<>>, RootElement)
<1>1. /\ <<>> \in Path /\ IsDirectory(D, <<>>) /\ Exists(D, <<>>) /\ StartOf(D, <<>>) = 0
      /\ Size(D, <<>>) = D.objects[RootObject].file_size
  BY RootIsThere DEF Good
<1>2. /\ RootElement.self = RootObject /\ RootElement.parent = RootObject
      /\ RootElement.file_attributes = "DIRECTORY" /\ RootElement.file_name = Unnamed
      /\ RootElement \in Element
  BY DEF RootElement, Element, RootObject, Valid, Attributes
<1>3. RootObject \in DOMAIN D.objects /\ D.objects[RootObject].file_start = 0
  BY DEF Good, Typed
<1>4. Get_Filename(<<>>) = Unnamed
  BY DEF Get_Filename
<1> QED BY <1>1, <1>2, <1>3, <1>4 DEF Stands, IsDirectory

(* A path that is there, as the directory before it has it.                *)
LEMMA LastIs ==
  ASSUME NEW D, Good(D), NEW q \in Path, q # <<>>, Exists(D, q)
  PROVE  /\ Front(q) \in Path /\ Last(q) \in Name /\ q = Append(Front(q), Last(q))
         /\ Get_Filename(q) = Last(q)
         /\ IsDirectory(D, Front(q)) /\ Exists(D, Front(q))
         /\ Walk(D, q) \in Entry /\ Walk(D, q).file_name = Last(q)
         /\ \E i \in 1 .. Size(D, Front(q)) : Walk(D, q) = Cluster(D, Front(q))[i]
<1> DEFINE p == Front(q)
           x == Last(q)
<1>1. p \in Path /\ x \in Name /\ q = Append(p, x) /\ Get_Filename(q) = x
  BY FrontIs
<1> HIDE DEF p, x
<1>2. Exists(D, Append(p, x))
  BY <1>1
<1>3. /\ IsDirectory(D, p) /\ Exists(D, p)
      /\ Walk(D, Append(p, x)) \in Entry /\ Walk(D, Append(p, x)).file_name = x
      /\ \E i \in 1 .. Size(D, p) : Walk(D, Append(p, x)) = Cluster(D, p)[i]
  BY <1>1, <1>2, ChildIs
<1>4. Walk(D, Append(p, x)) = Walk(D, q)
  BY <1>1
<1> QED BY <1>1, <1>3, <1>4 DEF p, x

(* A new element for a path that is there.                                 *)
LEMMA NewStands ==
  ASSUME NEW D, Good(D), NEW q \in Path, q # <<>>, Exists(D, q), NEW e,
         e = Make(e.parent, Walk(D, q), e.self), e.self \in DOMAIN D.objects,
         e.parent \in DOMAIN D.objects,
         D.objects[e.self].file_start = StartOf(D, q), D.objects[e.self].file_size = Size(D, q),
         D.objects[e.parent].file_start = StartOf(D, Front(q)),
         D.objects[e.parent].file_size = Size(D, Front(q))
  PROVE  Stands(D, q, e)
<1>1. /\ Front(q) \in Path /\ IsDirectory(D, Front(q)) /\ Get_Filename(q) = Last(q)
      /\ Walk(D, q) \in Entry /\ Walk(D, q).file_name = Last(q)
      /\ \E i \in 1 .. Size(D, Front(q)) : Walk(D, q) = Cluster(D, Front(q))[i]
  BY LastIs
<1>2. e.file_attributes = Walk(D, q).file_attributes /\ e.file_name = Walk(D, q).file_name
  BY DEF Make
<1>3. e.self \in Nat /\ e.parent \in Nat
  BY DEF Good, Typed
<1>4. Walk(D, q).file_attributes \in Valid /\ Walk(D, q).file_name \in Name
  BY <1>1 DEF Entry
<1>5. e \in Element
  BY <1>3, <1>4 DEF Make, Element
<1>6. Size(D, Front(q)) \in Nat /\ Size(D, Front(q)) <= Len(Cluster(D, Front(q)))
  BY <1>1, DirectoryIs
<1>7. Holds(D, q, e.parent)
  <2>1. PICK i \in 1 .. Size(D, Front(q)) : Walk(D, q) = Cluster(D, Front(q))[i]
    BY <1>1
  <2>2. i <= Size(D, Front(q)) /\ Cluster(D, Front(q))[i].file_name = Last(q)
    BY <1>1, <1>6, <2>1
  <2> QED BY <1>6, <2>1, <2>2 DEF Holds
<1> QED BY <1>1, <1>2, <1>5, <1>7 DEF Stands

(* Opened_Directory makes an element that stands for the path.             *)
LEMMA OpenedIs ==
  ASSUME NEW D, Good(D), NEW p \in Path, IsDirectory(D, p)
  PROVE  /\ Keeps(D, Opened_Directory(D, p).disk)
         /\ Stands(Opened_Directory(D, p).disk, p, Opened_Directory(D, p).directory)
<1>1. CASE p = <<>>
  <2>1. /\ Opened_Directory(D, p).disk = D
        /\ Opened_Directory(D, p).directory = RootElement
    BY <1>1 DEF Opened_Directory
  <2> QED BY <1>1, <2>1, KeepsItself, RootStands
<1>2. CASE p # <<>>
  <2> DEFINE r == Front(p)
             above == IF Len(p) = 1 THEN RootObject ELSE Fresh(D, 1)
             self == Fresh(D, 0)
             raised == IF Len(p) = 1 THEN D ELSE With(D, above, Walk(D, r))
             E == With(raised, self, Walk(D, p))
             e == Make(above, Walk(D, p), self)
  <2>1. Opened_Directory(D, p).disk = E /\ Opened_Directory(D, p).directory = e
    BY <1>2 DEF Opened_Directory
  <2>2. /\ self \in Nat \ DOMAIN D.objects /\ Fresh(D, 1) \in Nat \ DOMAIN D.objects
        /\ self # Fresh(D, 1) /\ RootObject \in DOMAIN D.objects
        /\ DOMAIN D.objects \subseteq Nat
    BY FreshIs DEF Good, Typed
  <2>3. /\ Exists(D, p) /\ r \in Path /\ IsDirectory(D, r)
        /\ Walk(D, p) \in Node /\ Walk(D, r) \in Node
    BY <1>2, LastIs, Nodes
  <2>4. /\ Keeps(D, raised) /\ DOMAIN raised.objects = DOMAIN D.objects \cup {above}
        /\ raised.objects[above].file_start = StartOf(D, r)
        /\ raised.objects[above].file_size = Size(D, r)
    <3>1. CASE Len(p) = 1
      <4>1. raised = D /\ above = RootObject
        BY <3>1
      <4>2. r = <<>>
        <5>1. r \in Seq(Name) /\ Len(r) = 0
          BY <1>2, <3>1, EndOfSequence DEF Path
        <5> QED BY <5>1
      <4>3. StartOf(D, <<>>) = 0 /\ Size(D, <<>>) = D.objects[RootObject].file_size
        BY RootIsThere DEF Good
      <4>4. D.objects[RootObject].file_start = 0
        BY DEF Good, Typed
      <4> HIDE DEF raised, above, r
      <4> QED BY <2>2, <4>1, <4>2, <4>3, <4>4, KeepsItself
    <3>2. CASE Len(p) # 1
      <4> DEFINE o == Fresh(D, 1)
                 w == Walk(D, r)
      <4>1. raised = With(D, o, w) /\ above = o
        BY <3>2
      <4>2. o \in Nat \ DOMAIN D.objects /\ w \in Node
        BY <2>2, <2>3
      <4> HIDE DEF raised, above, o, w, r
      <4>3. Keeps(D, With(D, o, w))
        BY ONLY Good(D), <4>2, NewObject, Zenon DEF Keeps
      <4>4. Typed(D)
        BY DEF Good
      <4>5. IsWith(With(D, o, w), D, o, w)
        BY ONLY <4>4, WithIs
      <4>6. IsWith(raised, D, above, w)
        BY <4>1, <4>5
      <4>7. /\ DOMAIN raised.objects = DOMAIN D.objects \cup {above}
            /\ raised.objects[above].file_start = w.file_start
            /\ raised.objects[above].file_size = w.file_size
        BY <4>6 DEF IsWith
      <4> QED BY <4>1, <4>3, <4>7 DEF w, StartOf, Size
    <3> QED BY <3>1, <3>2
  <2>5. above \in DOMAIN raised.objects /\ self \in Nat \ DOMAIN raised.objects
    <3>1. above # self
      BY <2>2
    <3> HIDE DEF above, self, raised
    <3> QED BY <2>2, <2>4, <3>1
  <2> DEFINE w == Walk(D, p)
  <2> HIDE DEF raised, above, self, r, w
  <2>6. Good(raised) /\ SameTree(D, raised)
    BY <2>4 DEF Keeps
  <2>7. Keeps(raised, With(raised, self, w))
    <3>1. w \in Node
      BY <2>3 DEF w
    <3> QED BY ONLY <2>5, <2>6, <3>1, NewObject, Zenon DEF Keeps
  <2>8. Typed(raised)
    BY <2>6 DEF Good
  <2>8a. IsWith(With(raised, self, w), raised, self, w)
    BY ONLY <2>8, WithIs
  <2>9. E = With(raised, self, w)
    BY DEF w
  <2> HIDE DEF E
  <2>9a. IsWith(E, raised, self, w)
    BY <2>8a, <2>9
  <2>10. Keeps(D, E)
    BY ONLY Good(D), <2>4, <2>7, <2>9, KeepsOn
  <2>11. \A q \in Path : Walk(E, q) = Walk(D, q)
    BY <2>10, WalkSame DEF Keeps
  <2>12. /\ Exists(E, p) /\ StartOf(E, p) = w.file_start /\ Size(E, p) = w.file_size
         /\ StartOf(E, r) = StartOf(D, r) /\ Size(E, r) = Size(D, r) /\ Walk(E, p) = w
    BY <2>3, <2>11 DEF Exists, StartOf, Size, w
  <2>13. E.objects[self].file_start = w.file_start /\ E.objects[self].file_size = w.file_size
    BY <2>9a DEF IsWith
  <2>14. E.objects[above] = raised.objects[above] /\ above \in DOMAIN E.objects
         /\ self \in DOMAIN E.objects
    BY <2>5, <2>9a DEF IsWith
  <2>15. e = Make(above, w, self) /\ e.self = self /\ e.parent = above
    BY DEF Make, w
  <2> HIDE DEF e
  <2>16. e = Make(e.parent, Walk(E, p), e.self)
    BY <2>12, <2>15
  <2>17. Stands(E, p, e)
    <3>1. Good(E)
      BY <2>10 DEF Keeps
    <3>2. E.objects[e.parent].file_start = StartOf(E, Front(p)) /\
          E.objects[e.parent].file_size = Size(E, Front(p))
      BY <2>4, <2>12, <2>14, <2>15 DEF r
    <3>3. E.objects[e.self].file_start = StartOf(E, p) /\ E.objects[e.self].file_size = Size(E, p)
      BY <2>12, <2>13, <2>15
    <3>4. e.self \in DOMAIN E.objects /\ e.parent \in DOMAIN E.objects
      BY <2>14, <2>15
    <3> QED BY ONLY <1>2, <2>12, <2>16, <3>1, <3>2, <3>3, <3>4, p \in Path, NewStands
  <2> QED BY <2>1, <2>10, <2>17
<1> QED BY <1>1, <1>2

-----------------------------------------------------------------------------
(* The elements that are kept stand on a disk.                             *)
Sound(D) ==
  /\ Good(D)
  /\ \A path \in DOMAIN handles : Stands(D, path, handles[path].element)
  /\ Stands(D, cwd.path, cwd.element)

(* What keeps everything keeps the elements there are.                     *)
LEMMA SoundKeeps ==
  ASSUME NEW D, Sound(D), NEW E, Keeps(D, E)
  PROVE  Sound(E)
BY DEF Sound, Keeps

(* The directory a call works in; it is the element that is kept, if one   *)
(* is.                                                                     *)
LEMMA LocatedIs ==
  ASSUME ~Mixed, NEW D, Sound(D), cwd.element.file_attributes = "DIRECTORY",
         cwd.path # <<>> => cwd.path \in DOMAIN handles,
         cwd.path \in DOMAIN handles => handles[cwd.path].element = cwd.element,
         NEW raw \in Raw, MayUse(raw), Located(D, raw).valid,
         Get_Filename_Type(raw) \notin {"INVALID", "CURRENT"}
  PROVE  LET at == Located(D, raw)
             q == FilePath(raw)
         IN /\ at.path = q /\ q \in Path /\ Keeps(D, at.disk)
            /\ q # <<>> => /\ Stands(at.disk, Front(q), at.directory)
                           /\ IsDirectory(at.disk, Front(q))
                           /\ Front(q) = cwd.path => at.directory = cwd.element
                           /\ Registered(Front(q)) => at.directory = handles[Front(q)].element
<1> DEFINE at == Located(D, raw)
           q == FilePath(raw)
<1>1. cwd.path \in Path
  BY DEF Sound, Stands
<1>2. /\ q \in Path
      /\ Get_Filename_Type(raw) = "FILENAME" => \E x \in Name : q = Append(cwd.path, x)
  BY <1>1, FilePathIs
<1>3. at.path = q
  BY DEF Located
<1>4. CASE Get_Filename_Type(raw) = "FILENAME"
  <2>1. at = [path |-> q, valid |-> TRUE, disk |-> D, directory |-> cwd.element]
    BY <1>4 DEF Located
  <2>2. at.disk = D /\ at.directory = cwd.element
    BY <2>1
  <2>3. PICK x \in Name : q = Append(cwd.path, x)
    BY <1>2, <1>4
  <2>4. Front(q) = cwd.path
    <3>1. cwd.path \in Seq(Name)
      BY <1>1 DEF Path
    <3> DEFINE c == cwd.path
    <3> HIDE DEF q, c
    <3>1a. c \in Seq(Name)
      BY <3>1 DEF c
    <3>2. Front(Append(c, x)) = c
      BY ONLY <3>1a, x \in Name, EndOfSequence
    <3> QED BY <2>3, <3>2 DEF c
  <2>5. IsDirectory(D, cwd.path)
    BY DEF Sound, Stands, IsDirectory
  <2>6. Keeps(D, D) /\ Stands(D, cwd.path, cwd.element)
    BY KeepsItself DEF Sound
  <2> HIDE DEF at, q
  <2> QED BY <1>2, <1>3, <2>2, <2>4, <2>5, <2>6 DEF at, q, Registered
<1>5. CASE Get_Filename_Type(raw) # "FILENAME"
  <2> DEFINE p == ParentPath(q)
             O == Opened_Directory(D, p)
  <2>1. at = IF IsDirectory(D, p)
             THEN [path |-> q, valid |-> TRUE, disk |-> O.disk, directory |-> O.directory]
             ELSE [path |-> q, valid |-> FALSE, disk |-> D, directory |-> RootElement]
    BY <1>5 DEF Located
  <2> HIDE DEF at, q, p, O
  <2>2. IsDirectory(D, p) /\ at.disk = O.disk /\ at.directory = O.directory
    <3>1. at.valid
      BY DEF at
    <3> QED BY <2>1, <3>1
  <2>3. p \in Path /\ (q # <<>> => p = Front(q))
    BY <1>2, ParentIs DEF p
  <2>4. Good(D)
    BY DEF Sound
  <2>5. Keeps(D, O.disk) /\ Stands(O.disk, p, O.directory)
    BY ONLY <2>2, <2>3, <2>4, OpenedIs DEF O
  <2>6. IsDirectory(O.disk, p)
    <3>1. Walk(O.disk, p) = Walk(D, p)
      BY ONLY <2>3, <2>5, WalkSame DEF Keeps
    <3> QED BY <2>2, <3>1 DEF IsDirectory
  <2>7. p = <<>> \/ ~Registered(p)
    BY <1>5 DEF MayUse, q, p
  <2>8. p = cwd.path => O.directory = cwd.element
    <3>1. p = cwd.path => p = <<>>
      BY <2>7 DEF Registered
    <3>2. p = <<>> => O.directory = RootElement
      BY <2>5 DEF Stands
    <3>3. cwd.path = <<>> => cwd.element = RootElement
      BY DEF Sound, Stands
    <3> QED BY <3>1, <3>2, <3>3
  <2>9. Registered(p) => O.directory = handles[p].element
    <3>1. p = <<>> => O.directory = RootElement
      BY <2>5 DEF Stands
    <3>2. Registered(p) /\ p = <<>> => handles[p].element = RootElement
      BY DEF Sound, Stands, Registered
    <3> QED BY <2>7, <3>1, <3>2
  <2> QED BY <1>2, <1>3, <2>2, <2>3, <2>5, <2>6, <2>8, <2>9 DEF at, q
<1> QED BY <1>4, <1>5

(* A list with one entry changed, added or removed: the one of a name m;   *)
(* the others are no further behind than they were.                        *)
Edited(list, n, new, k, m) ==
  /\ Listed(new, k) /\ Len(list) <= Len(new)
  /\ \A i \in 1 .. n : list[i].file_name # m => \E j \in 1 .. k : j <= i /\ new[j] = list[i]
  /\ \A j \in 1 .. k : new[j].file_name # m => \E i \in 1 .. n : new[j] = list[i]

(* A list whose entry of a name has another size.                          *)
Sized(entry, size) ==
  [file_attributes |-> entry.file_attributes, file_name |-> entry.file_name,
   file_start |-> entry.file_start, file_size |-> size]
Resized(list, n, new, x, size) ==
  /\ Len(new) = Len(list)
  /\ \E k \in 1 .. n : /\ list[k].file_name = x
                       /\ \A i \in 1 .. Len(list) :
                            new[i] = IF i = k THEN Sized(list[k], size) ELSE list[i]

(* Another entry of the list is found as it was.                           *)
LEMMA EditedLookup ==
  ASSUME NEW list, NEW n \in Nat, Listed(list, n), NEW new, NEW k \in Nat, NEW m,
         Edited(list, n, new, k, m), NEW x, x # m
  PROVE  Lookup(new, k, x) = Lookup(list, n, x)
<1>1. CASE \E i \in 1 .. n : list[i].file_name = x /\ Lookup(list, n, x) = list[i]
  <2>1. PICK i \in 1 .. n : list[i].file_name = x /\ Lookup(list, n, x) = list[i]
    BY <1>1
  <2>2. PICK j \in 1 .. k : new[j] = list[i]
    BY <2>1 DEF Edited
  <2>3. new[j].file_name = x /\ \A a, b \in 1 .. k : new[a].file_name = new[b].file_name => a = b
    BY <2>1, <2>2 DEF Edited, Listed
  <2>4. Lookup(new, k, x) = new[j]
    BY ONLY k \in Nat, <2>2, <2>3, LookupIs
  <2> QED BY <2>1, <2>2, <2>4
<1>2. CASE (\A i \in 1 .. n : list[i].file_name # x) /\ Lookup(list, n, x) = NoEntry
  <2>1. \A j \in 1 .. k : new[j].file_name # x
    BY <1>2 DEF Edited
  <2>2. Lookup(new, k, x) = NoEntry
    BY <2>1, LookupFinds
  <2> QED BY <1>2, <2>2
<1> QED BY <1>1, <1>2, LookupFinds

(* Where one entry has a new size, the others are found as they were.      *)
LEMMA ResizedLookup ==
  ASSUME NEW list, NEW n \in Nat, Listed(list, n), Len(list) \in Nat, NEW new, NEW x, NEW size,
         Resized(list, n, new, x, size)
  PROVE  /\ Listed(new, n)
         /\ \A i \in 1 .. Len(list) : new[i].file_name = list[i].file_name
         /\ Lookup(new, n, x) = Sized(Lookup(list, n, x), size)
         /\ \A y : y # x => Lookup(new, n, y) = Lookup(list, n, y)
<1>1. PICK k \in 1 .. n :
        /\ list[k].file_name = x
        /\ \A i \in 1 .. Len(list) : new[i] = IF i = k THEN Sized(list[k], size) ELSE list[i]
  BY DEF Resized
<1>2. /\ \A i \in 1 .. n : i \in 1 .. Len(list)
      /\ \A i, j \in 1 .. n : list[i].file_name = list[j].file_name => i = j
  BY DEF Listed
<1>3. \A i \in 1 .. Len(list) : new[i].file_name = list[i].file_name
  BY <1>1 DEF Sized
<1>4. \A i, j \in 1 .. n : new[i].file_name = new[j].file_name => i = j
  BY <1>2, <1>3
<1>5. Listed(new, n)
  BY <1>4 DEF Listed, Resized
<1>6. Lookup(list, n, x) = list[k]
  BY ONLY n \in Nat, <1>1, <1>2, LookupIs
<1>7. Lookup(new, n, x) = new[k]
  <2>1. new[k].file_name = x
    BY <1>1, <1>2, <1>3
  <2> QED BY ONLY n \in Nat, k \in 1 .. n, <1>4, <2>1, LookupIs
<1>8. new[k] = Sized(list[k], size)
  BY <1>1, <1>2
<1>9. ASSUME NEW y, y # x  PROVE Lookup(new, n, y) = Lookup(list, n, y)
  <2>1. CASE \E i \in 1 .. n : list[i].file_name = y /\ Lookup(list, n, y) = list[i]
    <3>1. PICK i \in 1 .. n : list[i].file_name = y /\ Lookup(list, n, y) = list[i]
      BY <2>1
    <3>2. i # k /\ new[i] = list[i]
      BY <1>1, <1>2, <1>9, <3>1
    <3>3. new[i].file_name = y
      BY <3>1, <3>2
    <3>4. Lookup(new, n, y) = new[i]
      BY ONLY n \in Nat, i \in 1 .. n, <1>4, <3>3, LookupIs
    <3> QED BY <3>1, <3>2, <3>4
  <2>2. CASE (\A i \in 1 .. n : list[i].file_name # y) /\ Lookup(list, n, y) = NoEntry
    <3>1. \A i \in 1 .. n : new[i].file_name # y
      BY <1>2, <1>3, <2>2
    <3>2. Lookup(new, n, y) = NoEntry
      BY <3>1, LookupFinds
    <3> QED BY <2>2, <3>2
  <2> QED BY <2>1, <2>2, LookupFinds
<1> QED BY <1>3, <1>5, <1>6, <1>7, <1>8, <1>9

-----------------------------------------------------------------------------
(* The disk E is D with the entry of m in the directory p changed to c,    *)
(* and p as large as its list is then; neither the old nor the new child   *)
(* has children.                                                           *)
Childless(entry) == entry.file_attributes = "DIRECTORY" => entry.file_size = 0
New(D, E, p) == E.clusters[StartOf(D, p)]
Rewritten(D, E, p, m, c, n) ==
  /\ p \in Path /\ IsDirectory(D, p) /\ m \in Name /\ n \in Nat /\ c \in Node
  /\ Childless(c) /\ Childless(Walk(D, Append(p, m)))
  /\ Edited(Cluster(D, p), Size(D, p), New(D, E, p), n, m)
  /\ Lookup(New(D, E, p), n, m) = c
  /\ IF p = <<>> THEN E.objects[RootObject].file_size = n
     ELSE /\ E.objects[RootObject].file_size = D.objects[RootObject].file_size
          /\ Resized(Cluster(D, Front(p)), Size(D, Front(p)), New(D, E, Front(p)), Last(p), n)
  /\ \A s \in Start : \/ s = StartOf(D, p) \/ (p # <<>> /\ s = StartOf(D, Front(p)))
                      \/ E.clusters[s] = D.clusters[s]

(* Where the paths lead then.                                              *)
After(D, p, m, c, n, q) ==
  IF q = Append(p, m) THEN c ELSE IF q = p THEN Sized(Walk(D, p), n) ELSE Walk(D, q)

(* Paths with a name more are told apart by the path and the name.         *)
LEMMA Appends ==
  ASSUME NEW p \in Path, NEW m \in Name, NEW r \in Path, NEW x \in Name
  PROVE  /\ Append(p, m) \in Path /\ Append(p, m) # p /\ Append(p, m) # <<>>
         /\ Append(r, x) = Append(p, m) <=> (r = p /\ x = m)
         /\ Append(r, x) = p <=> (p # <<>> /\ r = Front(p) /\ x = Last(p))
         /\ r = Append(p, m) => Append(r, x) # p /\ Append(r, x) # Append(p, m)
         /\ Front(Append(p, m)) = p /\ Last(Append(p, m)) = m
<1>1. p \in Seq(Name) /\ r \in Seq(Name)
  BY DEF Path
<1>2. /\ Append(p, m) \in Seq(Name) /\ Append(p, m) # <<>> /\ Len(Append(p, m)) = Len(p) + 1
      /\ Front(Append(p, m)) = p /\ Last(Append(p, m)) = m
  <2>1. p \in Seq(Name)
    BY <1>1
  <2>2. Front(Append(p, m)) = p
    BY ONLY <2>1, m \in Name, EndOfSequence
  <2>3. Last(Append(p, m)) = m
    BY ONLY <2>1, m \in Name, EndOfSequence
  <2>4. Append(p, m) \in Seq(Name) /\ Len(Append(p, m)) = Len(p) + 1 /\ Len(p) \in Nat
    BY <2>1
  <2>5. Append(p, m) # <<>>
    BY <2>4
  <2> QED BY <2>2, <2>3, <2>4, <2>5
<1>3. /\ Append(r, x) \in Seq(Name) /\ Append(r, x) # <<>> /\ Len(Append(r, x)) = Len(r) + 1
      /\ Front(Append(r, x)) = r /\ Last(Append(r, x)) = x
  <2>1. r \in Seq(Name)
    BY <1>1
  <2>2. Front(Append(r, x)) = r
    BY ONLY <2>1, x \in Name, EndOfSequence
  <2>3. Last(Append(r, x)) = x
    BY ONLY <2>1, x \in Name, EndOfSequence
  <2>4. Append(r, x) \in Seq(Name) /\ Len(Append(r, x)) = Len(r) + 1 /\ Len(r) \in Nat
    BY <2>1
  <2>5. Append(r, x) # <<>>
    BY <2>4
  <2> QED BY <2>2, <2>3, <2>4, <2>5
<1>4. Len(p) \in Nat /\ Len(r) \in Nat
  BY <1>1
<1>5. p # <<>> => p = Append(Front(p), Last(p))
  BY <1>1, EndOfSequence
<1>6. Append(p, m) # p
  BY <1>2, <1>4
<1>7. r = Append(p, m) => Len(Append(r, x)) = Len(p) + 2
  BY <1>2, <1>3, <1>4
<1>8. r = Append(p, m) => Append(r, x) # p /\ Append(r, x) # Append(p, m)
  BY <1>2, <1>4, <1>7
<1> QED BY <1>2, <1>3, <1>5, <1>6, <1>8 DEF Path

(* A childless entry leads nowhere.                                        *)
LEMMA NoChild ==
  ASSUME NEW D, NEW entry, Childless(entry), NEW x
  PROVE  EntryIn(D, entry, x) = NoEntry
<1>1. CASE entry.file_attributes = "DIRECTORY"
  <2> DEFINE list == D.clusters[entry.file_start]
  <2>1. EntryIn(D, entry, x) = Lookup(list, 0, x)
    BY <1>1, EntryInIs DEF Childless
  <2> HIDE DEF list
  <2>2. Lookup(list, 0, x) = NoEntry
    BY LookupFinds
  <2> QED BY <2>1, <2>2
<1>2. CASE entry.file_attributes # "DIRECTORY"
  BY <1>2, EntryInIs
<1> QED BY <1>1, <1>2

(* The directories that are not touched, and the one above.                *)
LEMMA OtherLists ==
  ASSUME NEW D, Good(D), NEW E, NEW p, NEW m, NEW c, NEW n, Rewritten(D, E, p, m, c, n),
         NEW r \in Path, IsDirectory(D, r), r # p
  PROVE  /\ New(D, E, r) = Cluster(D, r) \/ (p # <<>> /\ r = Front(p))
         /\ Len(New(D, E, r)) = Len(Cluster(D, r))
         /\ Listed(New(D, E, r), Size(D, r))
         /\ \A i \in 1 .. Len(Cluster(D, r)) :
              New(D, E, r)[i].file_name = Cluster(D, r)[i].file_name
         /\ \A x : ~(p # <<>> /\ r = Front(p) /\ x = Last(p)) =>
              Lookup(New(D, E, r), Size(D, r), x) = Lookup(Cluster(D, r), Size(D, r), x)
         /\ \A x : p # <<>> /\ r = Front(p) /\ x = Last(p) =>
              Lookup(New(D, E, r), Size(D, r), x) = Sized(Lookup(Cluster(D, r), Size(D, r), x), n)
<1>1. /\ Exists(D, r) /\ StartOf(D, r) \in Start /\ Size(D, r) \in Nat
      /\ Cluster(D, r) \in Seq(Entry)
  BY DirectoryIs
<1>2. Listed(Cluster(D, r), Size(D, r))
  BY DEF Good, Sorted
<1>3. p \in Path /\ Exists(D, p)
  BY DirectoryIs DEF Rewritten
<1>4. StartOf(D, r) # StartOf(D, p)
  BY <1>1, <1>3 DEF Good, Sorted
<1>5. CASE p # <<>> /\ r = Front(p)
  <2>1. Resized(Cluster(D, r), Size(D, r), New(D, E, r), Last(p), n)
    BY <1>5 DEF Rewritten
  <2>2. Len(Cluster(D, r)) \in Nat
    BY <1>1
  <2> DEFINE list == Cluster(D, r)
             k == Size(D, r)
             new == New(D, E, r)
             l == Last(p)
  <2> HIDE DEF list, k, new, l
  <2>3. /\ Listed(new, k)
        /\ \A i \in 1 .. Len(list) : new[i].file_name = list[i].file_name
        /\ Lookup(new, k, l) = Sized(Lookup(list, k, l), n)
        /\ \A y : y # l => Lookup(new, k, y) = Lookup(list, k, y)
    <3>1. k \in Nat /\ Listed(list, k) /\ Len(list) \in Nat /\ Resized(list, k, new, l, n)
      BY <1>1, <1>2, <2>1, <2>2 DEF list, k, new, l
    <3> QED BY ONLY <3>1, ResizedLookup
  <2>4. Len(new) = Len(list)
    BY <2>1 DEF Resized, list, new
  <2> QED BY <1>5, <2>3, <2>4 DEF list, k, new, l
<1>6. CASE ~(p # <<>> /\ r = Front(p))
  <2>1. p # <<>> => StartOf(D, r) # StartOf(D, Front(p))
    <3>1. SUFFICES ASSUME p # <<>>  PROVE StartOf(D, r) # StartOf(D, Front(p))
      OBVIOUS
    <3>2. Front(p) \in Path /\ Exists(D, Front(p))
      BY <1>3, <3>1, LastIs
    <3> QED BY <1>1, <1>6, <3>1, <3>2 DEF Good, Sorted
  <2>2. New(D, E, r) = Cluster(D, r)
    BY <1>1, <1>4, <2>1 DEF Rewritten, New, Cluster
  <2> QED BY <1>2, <1>6, <2>2
<1> QED BY <1>5, <1>6

(* Where each path leads after an entry is changed.                        *)
LEMMA WalkRewritten ==
  ASSUME NEW D, Good(D), NEW E, NEW p, NEW m, NEW c, NEW n, Rewritten(D, E, p, m, c, n),
         NEW q \in Path
  PROVE  Walk(E, q) = After(D, p, m, c, n, q)
<1> DEFINE W(r) == After(D, p, m, c, n, r)
           T == {r \in Path : Walk(E, r) = W(r)}
<1>0. /\ p \in Path /\ IsDirectory(D, p) /\ m \in Name /\ n \in Nat
      /\ Childless(c) /\ Childless(Walk(D, Append(p, m))) /\ Exists(D, p)
  BY DirectoryIs DEF Rewritten
<1>1. <<>> \in T
  <2>1. Walk(E, <<>>) = RootEntry(E) /\ Walk(D, <<>>) = RootEntry(D) /\ <<>> \in Path
    BY WalkStep DEF Path
  <2>2. Append(p, m) # <<>>
    BY <1>0, Appends
  <2>3. CASE p = <<>>
    <3>1. E.objects[RootObject].file_size = n
      BY <2>3 DEF Rewritten
    <3>2. W(<<>>) = Sized(RootEntry(D), n)
      BY <2>1, <2>2, <2>3 DEF After
    <3> QED BY <2>1, <3>1, <3>2 DEF RootEntry, Sized
  <2>4. CASE p # <<>>
    <3>1. E.objects[RootObject].file_size = D.objects[RootObject].file_size
      BY <2>4 DEF Rewritten
    <3>2. W(<<>>) = RootEntry(D)
      BY <2>1, <2>2, <2>4 DEF After
    <3> QED BY <2>1, <3>1, <3>2 DEF RootEntry
  <2> QED BY <2>3, <2>4
<1>2. ASSUME NEW r \in Path, NEW x \in Name, r \in T  PROVE Append(r, x) \in T
  <2> DEFINE s == Append(r, x)
             pm == Append(p, m)
  <2>1. /\ s \in Path /\ Walk(D, s) = EntryIn(D, Walk(D, r), x)
        /\ Walk(E, s) = EntryIn(E, Walk(E, r), x) /\ Walk(E, r) = W(r)
    BY <1>2, WalkOn
  <2>2. /\ s = pm <=> (r = p /\ x = m)
        /\ s = p <=> (p # <<>> /\ r = Front(p) /\ x = Last(p))
        /\ r = pm => s # p /\ s # pm
        /\ pm # p
    BY <1>0, Appends
  <2> HIDE DEF s, pm
  <2>3. CASE r = pm
    <3>1. W(r) = c /\ W(s) = Walk(D, s)
      BY <2>2, <2>3 DEF After, pm
    <3>2. Walk(E, s) = NoEntry
      BY <1>0, <2>1, <3>1, NoChild
    <3>3. Walk(D, s) = NoEntry
      BY <1>0, <2>1, <2>3, NoChild DEF pm
    <3> QED BY <2>1, <3>1, <3>2, <3>3 DEF s
  <2>4. CASE r = p
    <3>1. W(r) = Sized(Walk(D, p), n)
      BY <2>2, <2>4 DEF After, pm
    <3>2. /\ W(r).file_attributes = "DIRECTORY" /\ W(r).file_start = StartOf(D, p)
          /\ W(r).file_size = n
      BY <1>0, <3>1 DEF Sized, IsDirectory, StartOf
    <3>3. Walk(E, s) = Lookup(New(D, E, p), n, x)
      <4> DEFINE w == W(r)
      <4>1. /\ w.file_attributes = "DIRECTORY" /\ w.file_start = StartOf(D, p)
            /\ w.file_size = n /\ Walk(E, s) = EntryIn(E, w, x)
        BY <2>1, <3>2
      <4> HIDE DEF w
      <4> QED BY <4>1, EntryInIs DEF New
    <3>4. CASE x = m
      <4>1. W(s) = c
        BY <2>2, <2>4, <3>4 DEF After, pm
      <4> QED BY <2>1, <3>3, <3>4, <4>1 DEF Rewritten, s
    <3>5. CASE x # m
      <4>1. s # pm /\ s # p
        <5>1. Append(r, x) # r
          BY Appends
        <5> QED BY <2>2, <2>4, <3>5, <5>1 DEF s
      <4>2. W(s) = Walk(D, s)
        BY <4>1 DEF After, pm
      <4>3. /\ Size(D, p) \in Nat /\ Walk(D, s) = Lookup(Cluster(D, p), Size(D, p), x)
            /\ Listed(Cluster(D, p), Size(D, p))
        BY <1>0, <2>4, DirectoryIs DEF s, Good, Sorted
      <4>4. Edited(Cluster(D, p), Size(D, p), New(D, E, p), n, m)
        BY DEF Rewritten
      <4>5. Lookup(New(D, E, p), n, x) = Lookup(Cluster(D, p), Size(D, p), x)
        BY ONLY <1>0, <3>5, <4>3, <4>4, EditedLookup
      <4> QED BY <2>1, <3>3, <4>2, <4>3, <4>5 DEF s
    <3> QED BY <3>4, <3>5
  <2>5. CASE r # p /\ r # pm
    <3>1. Walk(E, r) = Walk(D, r) /\ s # pm
      BY <2>1, <2>2, <2>5 DEF After, pm
    <3>2. CASE ~IsDirectory(D, r)
      <4>1. Walk(E, s) = NoEntry /\ Walk(D, s) = NoEntry
        BY <2>1, <3>1, <3>2, EntryInIs DEF IsDirectory
      <4>2. s # p
        BY <1>0, <2>2, <3>2, LastIs
      <4>3. W(s) = Walk(D, s)
        BY <3>1, <4>2 DEF After, pm
      <4> QED BY <2>1, <4>1, <4>3 DEF s
    <3>3. CASE IsDirectory(D, r)
      <4>1. Walk(E, s) = Lookup(New(D, E, r), Size(D, r), x)
        BY <2>1, <3>1, <3>3, EntryInIs DEF IsDirectory, New, StartOf, Size
      <4>2. Walk(D, s) = Lookup(Cluster(D, r), Size(D, r), x)
        BY <3>3, DirectoryIs DEF s
      <4>3. /\ ~(p # <<>> /\ r = Front(p) /\ x = Last(p)) =>
                 Lookup(New(D, E, r), Size(D, r), x) = Lookup(Cluster(D, r), Size(D, r), x)
            /\ p # <<>> /\ r = Front(p) /\ x = Last(p) =>
                 Lookup(New(D, E, r), Size(D, r), x)
                   = Sized(Lookup(Cluster(D, r), Size(D, r), x), n)
        BY <2>5, <3>3, OtherLists
      <4>4. CASE s = p
        <5>1. W(s) = Sized(Walk(D, p), n)
          BY <3>1, <4>4 DEF After, pm
        <5> QED BY <2>1, <2>2, <4>1, <4>2, <4>3, <4>4, <5>1 DEF s
      <4>5. CASE s # p
        <5>1. W(s) = Walk(D, s)
          BY <3>1, <4>5 DEF After, pm
        <5> QED BY <2>1, <2>2, <4>1, <4>2, <4>3, <4>5, <5>1 DEF s
      <4> QED BY <4>4, <4>5
    <3> QED BY <3>2, <3>3
  <2> QED BY <2>3, <2>4, <2>5
<1>3. Path \subseteq T
  <2> HIDE DEF T
  <2> QED BY <1>1, <1>2, PathInd DEF Path
<1> QED BY <1>3

(* The child's start is its own.                                           *)
Fits(D, E, p, m, c) ==
  /\ D.created <= E.created
  /\ c.file_attributes # "INVALID" =>
       /\ c.file_start <= E.created /\ StartOf(D, p) < c.file_start
       /\ \A q \in Path : Exists(D, q) /\ StartOf(D, q) = c.file_start => q = Append(p, m)

(* What the paths lead to after the change.                                *)
LEMMA AfterIs ==
  ASSUME NEW D, Good(D), NEW E, NEW p, NEW m, NEW c, NEW n, Rewritten(D, E, p, m, c, n)
  PROVE  /\ p \in Path /\ m \in Name /\ Append(p, m) \in Path /\ Exists(D, p) /\ IsDirectory(D, p)
         /\ Append(p, m) # p
         /\ Walk(E, Append(p, m)) = c /\ Walk(E, p) = Sized(Walk(D, p), n)
         /\ \A q \in Path : q # Append(p, m) =>
              /\ Exists(E, q) <=> Exists(D, q)
              /\ IsDirectory(E, q) <=> IsDirectory(D, q)
              /\ Walk(E, q).file_attributes = Walk(D, q).file_attributes
              /\ StartOf(E, q) = StartOf(D, q)
              /\ Size(E, q) = IF q = p THEN n ELSE Size(D, q)
              /\ Cluster(E, q) = New(D, E, q)
         /\ \A x : ~Exists(D, Append(Append(p, m), x)) \/ x \notin Name
<1>1. p \in Path /\ m \in Name /\ IsDirectory(D, p) /\ Exists(D, p)
  BY DirectoryIs DEF Rewritten
<1>2. Append(p, m) \in Path /\ Append(p, m) # p
  BY <1>1, Appends
<1>3. \A q \in Path : Walk(E, q) = After(D, p, m, c, n, q)
  BY WalkRewritten
<1>4. Walk(E, Append(p, m)) = c /\ Walk(E, p) = Sized(Walk(D, p), n)
  BY <1>1, <1>2, <1>3 DEF After
<1>5. ASSUME NEW q \in Path, q # Append(p, m)
      PROVE  /\ Exists(E, q) <=> Exists(D, q)
             /\ IsDirectory(E, q) <=> IsDirectory(D, q)
             /\ Walk(E, q).file_attributes = Walk(D, q).file_attributes
             /\ StartOf(E, q) = StartOf(D, q)
             /\ Size(E, q) = IF q = p THEN n ELSE Size(D, q)
             /\ Cluster(E, q) = New(D, E, q)
  <2>1. Walk(E, q) = IF q = p THEN Sized(Walk(D, p), n) ELSE Walk(D, q)
    BY <1>3, <1>5 DEF After
  <2>2. StartOf(E, q) = StartOf(D, q)
    BY <2>1 DEF StartOf, Sized
  <2>3. Walk(E, q).file_attributes = Walk(D, q).file_attributes
    BY <2>1 DEF Sized
  <2>4. Size(E, q) = IF q = p THEN n ELSE Size(D, q)
    BY <2>1 DEF Sized, Size
  <2> QED BY <2>2, <2>3, <2>4 DEF Exists, IsDirectory, Cluster, New
<1>6. ASSUME NEW x \in Name  PROVE ~Exists(D, Append(Append(p, m), x))
  <2>1. Walk(D, Append(Append(p, m), x)) = EntryIn(D, Walk(D, Append(p, m)), x)
    BY <1>2, WalkOn
  <2>2. EntryIn(D, Walk(D, Append(p, m)), x) = NoEntry
    BY NoChild DEF Rewritten
  <2> QED BY <2>1, <2>2, NoEntryIsNone DEF Exists
<1> QED BY <1>1, <1>2, <1>4, <1>5, <1>6

(* The start and the size of what a path leads to are numbers.             *)
LEMMA StartsAreNumbers ==
  ASSUME NEW D, Good(D), NEW q \in Path
  PROVE  StartOf(D, q) \in Nat /\ Size(D, q) \in Nat
BY Nodes, BoundAssumption DEF StartOf, Size, Node, Start

(* The paths are in order after the change of an entry that fits.          *)
LEMMA GoodRewritten ==
  ASSUME NEW D, Good(D), NEW E, Typed(E), NEW p, NEW m, NEW c, NEW n,
         Rewritten(D, E, p, m, c, n), Fits(D, E, p, m, c)
  PROVE  Good(E)
<1> DEFINE pm == Append(p, m)
<1>1. /\ p \in Path /\ m \in Name /\ pm \in Path /\ Exists(D, p) /\ IsDirectory(D, p) /\ pm # p
      /\ Walk(E, pm) = c
      /\ \A q \in Path : q # pm =>
              /\ Exists(E, q) <=> Exists(D, q)
              /\ IsDirectory(E, q) <=> IsDirectory(D, q)
              /\ StartOf(E, q) = StartOf(D, q)
              /\ Size(E, q) = IF q = p THEN n ELSE Size(D, q)
              /\ Cluster(E, q) = New(D, E, q)
      /\ \A x \in Name : ~Exists(D, Append(pm, x))
  BY AfterIs
<1>2. StartOf(E, pm) = c.file_start /\ (Exists(E, pm) => c.file_attributes # "INVALID")
  BY <1>1 DEF StartOf, Exists
<1>3. D.created \in Nat /\ E.created \in Nat
  BY BoundAssumption DEF Good, Typed
<1>4. ASSUME NEW q \in Path, NEW r \in Path, Exists(E, q), Exists(E, r), StartOf(E, q) = StartOf(E, r)
      PROVE  q = r
  <2>1. CASE q # pm /\ r # pm
    BY <1>1, <1>4, <2>1 DEF Good, Sorted
  <2>2. CASE q = pm /\ r # pm
    BY <1>1, <1>2, <1>4, <2>2 DEF Fits
  <2>3. CASE q # pm /\ r = pm
    BY <1>1, <1>2, <1>4, <2>3 DEF Fits
  <2> QED BY <2>1, <2>2, <2>3
<1>5. ASSUME NEW q \in Path, NEW x \in Name, Exists(E, Append(q, x))
      PROVE  StartOf(E, q) < StartOf(E, Append(q, x))
  <2> DEFINE s == Append(q, x)
  <2>1. s \in Path /\ (s = pm <=> q = p /\ x = m)
    BY <1>1, Appends
  <2> HIDE DEF s, pm
  <2>2. CASE s = pm
    BY <1>1, <1>2, <1>5, <2>1, <2>2 DEF Fits, s
  <2>3. CASE s # pm
    <3>1. Exists(D, s) /\ StartOf(E, s) = StartOf(D, s)
      BY <1>1, <1>5, <2>1, <2>3 DEF s
    <3>2. q # pm
      BY <1>1, <3>1 DEF s
    <3>3. StartOf(D, q) < StartOf(D, s)
      BY <3>1 DEF Good, Sorted, s
    <3> QED BY <1>1, <3>1, <3>2, <3>3 DEF s
  <2> QED BY <2>2, <2>3
<1>6. ASSUME NEW q \in Path, Exists(E, q)  PROVE StartOf(E, q) <= E.created
  <2>1. CASE q = pm
    BY <1>2, <1>6, <2>1 DEF Fits
  <2>2. CASE q # pm
    <3>1. StartOf(D, q) <= D.created /\ StartOf(D, q) \in Nat
      BY <1>1, <1>6, <2>2, StartsAreNumbers DEF Good, Sorted
    <3> QED BY <1>1, <1>3, <2>2, <3>1 DEF Fits
  <2> QED BY <2>1, <2>2
<1>7. ASSUME NEW q \in Path, IsDirectory(E, q)  PROVE Listed(Cluster(E, q), Size(E, q))
  <2>1. CASE q = pm
    <3>1. Size(E, q) = 0
      BY <1>1, <1>7, <2>1 DEF Rewritten, Childless, IsDirectory, Size
    <3>2. c.file_start \in Start
      BY DEF Rewritten, Node
    <3>3. Cluster(E, q) \in Seq(Entry)
      BY <1>2, <2>1, <3>2 DEF Typed, Cluster
    <3>4. 0 <= Len(Cluster(E, q))
      BY <3>3
    <3> QED BY <3>1, <3>4 DEF Listed
  <2>2. CASE q = p
    BY <1>1, <2>2 DEF Rewritten, Edited
  <2>3. CASE q # p /\ q # pm
    BY <1>1, <1>7, <2>3, OtherLists
  <2> QED BY <2>1, <2>2, <2>3
<1> HIDE DEF pm
<1>8. Sorted(E)
  BY <1>4, <1>5, <1>6, <1>7 DEF Sorted
<1> QED BY <1>8 DEF Good

(* What stands is not moved by a change elsewhere.  The objects that       *)
(* change are of the directory or of the child.                            *)
LEMMA StandsRewritten ==
  ASSUME NEW D, Good(D), NEW E, NEW p, NEW m, NEW c, NEW n,
         Rewritten(D, E, p, m, c, n),
         \A o \in DOMAIN D.objects :
            /\ o \in DOMAIN E.objects /\ E.objects[o].file_start = D.objects[o].file_start
            /\ \/ E.objects[o].file_size = D.objects[o].file_size
               \/ D.objects[o].file_start = StartOf(D, p) /\ E.objects[o].file_size = n
               \/ Exists(D, Append(p, m)) /\ D.objects[o].file_start = StartOf(D, Append(p, m)),
         NEW q, NEW e, Stands(D, q, e), q # Append(p, m),
         q = p => E.objects[e.self].file_size = n
  PROVE  Stands(E, q, e)
<1> DEFINE pm == Append(p, m)
           f == Front(q)
           o == e.parent
<1>1. /\ p \in Path /\ m \in Name /\ pm \in Path /\ Exists(D, p) /\ IsDirectory(D, p) /\ pm # p
      /\ \A r \in Path : r # pm =>
              /\ Exists(E, r) <=> Exists(D, r)
              /\ Walk(E, r).file_attributes = Walk(D, r).file_attributes
              /\ StartOf(E, r) = StartOf(D, r)
              /\ Size(E, r) = IF r = p THEN n ELSE Size(D, r)
              /\ Cluster(E, r) = New(D, E, r)
      /\ \A x \in Name : ~Exists(D, Append(pm, x))
  BY AfterIs
<1>2. /\ q \in Path /\ Exists(D, q) /\ e \in Element /\ q # pm
      /\ e.self \in DOMAIN D.objects /\ o \in DOMAIN D.objects
      /\ D.objects[e.self].file_start = StartOf(D, q) /\ D.objects[e.self].file_size = Size(D, q)
  BY DEF Stands
<1>3. E.objects[e.self].file_start = StartOf(E, q) /\ E.objects[e.self].file_size = Size(E, q)
  <2>1. E.objects[e.self].file_start = D.objects[e.self].file_start
    BY <1>2
  <2>2. CASE q = p
    BY <1>1, <1>2, <2>1, <2>2
  <2>3. CASE q # p
    <3>1. StartOf(D, q) # StartOf(D, p)
      BY <1>1, <1>2, <2>3 DEF Good, Sorted
    <3>2. Exists(D, pm) => StartOf(D, q) # StartOf(D, pm)
      BY <1>1, <1>2 DEF Good, Sorted
    <3>3. E.objects[e.self].file_size = D.objects[e.self].file_size
      BY <1>2, <3>1, <3>2
    <3> QED BY <1>1, <1>2, <2>1, <2>3, <3>3
  <2> QED BY <2>2, <2>3
<1>4. ASSUME q # <<>>  PROVE Holds(E, q, o)
  <2> DEFINE x == Last(q)
             list == Cluster(D, f)
             new == New(D, E, f)
             size == D.objects[o].file_size
  <2>1. f \in Path /\ IsDirectory(D, f) /\ Exists(D, f) /\ q = Append(f, x) /\ x \in Name
    BY <1>2, <1>4, LastIs
  <2>2. f # pm
    BY <1>1, <1>2, <2>1
  <2>3. /\ D.objects[o].file_start = StartOf(D, f) /\ size <= Len(list)
        /\ \E i \in 1 .. size : i <= Size(D, f) /\ list[i].file_name = x
    BY <1>4 DEF Stands, Holds
  <2>4. /\ StartOf(E, f) = StartOf(D, f) /\ Size(E, f) = IF f = p THEN n ELSE Size(D, f)
        /\ Cluster(E, f) = new
    BY <1>1, <2>1, <2>2
  <2>5. E.objects[o].file_start = StartOf(E, f)
    BY <1>2, <2>3, <2>4
  <2>6. Exists(D, pm) => StartOf(D, f) # StartOf(D, pm)
    BY <1>1, <2>1, <2>2 DEF Good, Sorted
  <2>7. size \in Nat /\ n \in Nat /\ Size(D, f) \in Nat /\ Len(list) \in Nat
    <3>1. D.objects[o] \in Object
      BY <1>2 DEF Good, Typed
    <3>2. list \in Seq(Entry)
      BY <2>1, DirectoryIs
    <3>3. Len(list) \in Nat
      BY <3>2
    <3>4. n \in Nat
      BY DEF Rewritten
    <3>5. Size(D, f) \in Nat
      BY <2>1, StartsAreNumbers
    <3>6. size \in Nat
      BY <3>1 DEF Object
    <3> QED BY <3>3, <3>4, <3>5, <3>6
  <2>8. CASE f # p
    <3>1. StartOf(D, f) # StartOf(D, p)
      BY <1>1, <2>1, <2>8 DEF Good, Sorted
    <3>2. E.objects[o].file_size = size
      BY <1>2, <2>3, <2>6, <3>1
    <3>3. /\ Len(new) = Len(list)
          /\ \A i \in 1 .. Len(list) : new[i].file_name = list[i].file_name
      BY <2>1, <2>8, OtherLists
    <3> HIDE DEF list, new, size, f, x
    <3>4. \E i \in 1 .. size : i <= Size(E, f) /\ new[i].file_name = x
      <4>1. PICK i \in 1 .. size : i <= Size(D, f) /\ list[i].file_name = x
        BY <2>3
      <4>2. i \in 1 .. Len(list)
        BY <2>3, <2>7, <4>1
      <4> QED BY <2>4, <2>8, <3>3, <4>1, <4>2
    <3> QED BY <2>3, <2>4, <2>5, <3>2, <3>3, <3>4 DEF Holds, f, x
  <2>9. CASE f = p
    <3>1. x # m
      BY <1>2, <2>1, <2>9
    <3>2. Edited(list, Size(D, f), new, n, m)
      BY <2>9 DEF Rewritten
    <3>3. PICK i \in 1 .. size : i <= Size(D, f) /\ list[i].file_name = x
      BY <2>3
    <3> HIDE DEF list, new, size, x, f
    <3>4. PICK j \in 1 .. n : j <= i /\ new[j] = list[i]
      BY <2>7, <3>1, <3>2, <3>3 DEF Edited
    <3>5. Len(list) <= Len(new) /\ n <= Len(new)
      BY <3>2 DEF Edited, Listed
    <3>6. E.objects[o].file_size = size \/ E.objects[o].file_size = n
      BY <1>2, <2>3, <2>6 DEF size
    <3>7. E.objects[o].file_size <= Len(new)
      <4>1. E.clusters[StartOf(D, f)] = new
        BY DEF new, New
      <4> DEFINE l == Len(new)
      <4>2. CASE E.objects[o].file_size = n
        BY <3>5, <4>2
      <4>3. CASE E.objects[o].file_size = size
        <5>1. size <= Len(list) /\ Len(list) <= l
          BY <2>3, <3>5
        <5>2. l \in Nat
          <6>1. New(D, E, f) = Cluster(E, f)
            BY <2>4 DEF new
          <6> QED BY <3>5, <2>7 DEF new
        <5> HIDE DEF l
        <5>3. size <= l
          BY <2>7, <5>1, <5>2
        <5> QED BY <4>3, <5>3 DEF l
      <4> QED BY <3>6, <4>2, <4>3
    <3>8. j \in 1 .. E.objects[o].file_size /\ j <= Size(E, f) /\ new[j].file_name = x
      BY <2>4, <2>7, <2>9, <3>3, <3>4, <3>6
    <3> QED BY <2>4, <2>5, <3>7, <3>8 DEF Holds, f, x
  <2> QED BY <2>8, <2>9
<1>5. e.file_attributes = Walk(E, q).file_attributes /\ Exists(E, q)
  BY <1>1, <1>2 DEF Stands
<1>6. e.self \in DOMAIN E.objects /\ o \in DOMAIN E.objects
  BY <1>2
<1> QED BY <1>2, <1>3, <1>4, <1>5, <1>6 DEF Stands

SameBut(D, E, s) ==
  /\ Typed(E) /\ E.created = D.created /\ DOMAIN E.objects = DOMAIN D.objects
  /\ \A o \in DOMAIN D.objects : E.objects[o].file_start = D.objects[o].file_start
  /\ \A t \in Start : t # s => E.clusters[t] = D.clusters[t]

(* A list written over another.                                            *)
Over(new, list, old) ==
  /\ new \in Seq(Entry) /\ Len(list) <= Len(new) /\ Len(old) <= Len(new)
  /\ \A i \in 1 .. Len(list) : new[i] = list[i]
  /\ \A i \in 1 .. Len(old) : i > Len(list) => new[i] = old[i]
  /\ Len(list) <= Len(old) => Len(new) = Len(old)

(* A list with what was behind it is the list over what was there.         *)
LEMMA OverIs ==
  ASSUME NEW list \in Seq(Entry), NEW old \in Seq(Entry)
  PROVE  Over(list \o SubSeq(old, Len(list) + 1, Len(old)), list, old)
<1> DEFINE n == Len(list)
           k == Len(old)
           behind == SubSeq(old, n + 1, k)
           new == list \o behind
<1>1. n \in Nat /\ k \in Nat
  OBVIOUS
<1>2. /\ behind \in Seq(Entry)
      /\ Len(behind) = IF n + 1 <= k THEN k - (n + 1) + 1 ELSE 0
      /\ \A i \in 1 .. Len(behind) : behind[i] = old[n + 1 + i - 1]
  BY <1>1, SubSeqProperties
<1> HIDE DEF behind
<1>3. /\ new \in Seq(Entry) /\ Len(new) = n + Len(behind)
      /\ \A i \in 1 .. Len(new) : new[i] = IF i <= n THEN list[i] ELSE behind[i - n]
  BY <1>2
<1>4. \A i \in 1 .. n : list[i] = new[i]
  BY <1>1, <1>2, <1>3
<1> HIDE DEF n, k, new
<1> DEFINE l == Len(behind)
<1>5. l \in Nat
  BY <1>2
<1>6. l = IF n + 1 <= k THEN k - n ELSE 0
  BY <1>1, <1>2
<1> HIDE DEF l
<1>7. ASSUME NEW i \in 1 .. k, i > n  PROVE new[i] = old[i]
  <2>1. i \in 1 .. (n + l) /\ i - n \in 1 .. l /\ n + 1 + (i - n) - 1 = i /\ ~(i <= n)
    BY <1>1, <1>5, <1>6, <1>7
  <2>2. new[i] = behind[i - n]
    BY <1>3, <2>1 DEF l
  <2>3. behind[i - n] = old[n + 1 + (i - n) - 1]
    BY <1>2, <2>1 DEF l
  <2> QED BY <2>1, <2>2, <2>3
<1>8. n <= n + l /\ k <= n + l /\ (n <= k => n + l = k)
  BY <1>1, <1>5, <1>6
<1> QED BY <1>3, <1>4, <1>7, <1>8 DEF Over, new, n, k, l, behind

(* Write_Entries writes the list and sets the size, and no more.           *)
LEMMA WrittenIs ==
  ASSUME NEW D, Typed(D), NEW o \in DOMAIN D.objects, NEW list \in Seq(Entry)
  PROVE  LET E == Write_Entries(D, o, list)
             s == D.objects[o].file_start
         IN /\ s \in Start /\ SameBut(D, E, s)
            /\ Over(E.clusters[s], list, D.clusters[s])
            /\ \A u \in DOMAIN D.objects : E.objects[u].file_size =
                 IF u = o THEN Len(list) ELSE D.objects[u].file_size
<1> DEFINE E == Write_Entries(D, o, list)
           s == D.objects[o].file_start
           old == D.clusters[s]
           new == list \o SubSeq(old, Len(list) + 1, Len(old))
           n == Len(list)
<1>1. D = [clusters |-> D.clusters, created |-> D.created, objects |-> D.objects]
  BY DEF Typed
<1>2. E = [D EXCEPT !.clusters[s] = new, !.objects[o].file_size = n]
  BY DEF Write_Entries
<1>3. D.objects[o] \in Object /\ s \in Start
  BY DEF Typed, Object
<1>4. D.clusters \in [Start -> Seq(Entry)] /\ old \in Seq(Entry) /\ n \in Nat
  BY <1>3 DEF Typed
<1>5. Over(new, list, old)
  BY <1>4, OverIs
<1> HIDE DEF E, new, n
<1> DEFINE cls == [D.clusters EXCEPT ![s] = new]
           objs == [D.objects EXCEPT ![o].file_size = n]
<1>6. E = [clusters |-> cls, created |-> D.created, objects |-> objs]
  BY <1>1, <1>2
<1>7. E.clusters = cls /\ E.created = D.created /\ E.objects = objs
  BY <1>6
<1>8. /\ cls \in [Start -> Seq(Entry)] /\ cls[s] = new
      /\ \A t \in Start : t # s => cls[t] = D.clusters[t]
  BY <1>3, <1>4, <1>5 DEF Over
<1>9. D.objects \in [DOMAIN D.objects -> Object]
  BY DEF Typed
<1>10. /\ DOMAIN objs = DOMAIN D.objects
       /\ \A u \in DOMAIN D.objects :
            /\ objs[u] \in Object /\ objs[u].file_start = D.objects[u].file_start
            /\ objs[u].file_size = IF u = o THEN n ELSE D.objects[u].file_size
  <2>1. DOMAIN objs = DOMAIN D.objects
    OBVIOUS
  <2>2. ASSUME NEW u \in DOMAIN D.objects
        PROVE  /\ objs[u] \in Object /\ objs[u].file_start = D.objects[u].file_start
               /\ objs[u].file_size = IF u = o THEN n ELSE D.objects[u].file_size
    <3>1. D.objects[u] \in Object
      BY <1>9
    <3>2. CASE u = o
      <4>1. objs[u] = [D.objects[u] EXCEPT !.file_size = n]
        BY <1>9, <3>2
      <4> QED BY <1>4, <3>1, <3>2, <4>1 DEF Object
    <3>3. CASE u # o
      <4>1. objs[u] = D.objects[u]
        BY <1>9, <3>3
      <4> QED BY <3>1, <3>3, <4>1
    <3> QED BY <3>2, <3>3
  <2> QED BY <2>1, <2>2
<1>11. objs \in [DOMAIN objs -> Object]
  <2>1. objs = [u \in DOMAIN objs |-> objs[u]]
    BY <1>9
  <2> HIDE DEF objs
  <2> QED BY <1>10, <2>1
<1> HIDE DEF cls, objs
<1>12. Typed(E)
  <2>1. /\ D.created \in 0 .. MaxFiles /\ DOMAIN D.objects \subseteq Nat
        /\ IsFiniteSet(DOMAIN D.objects) /\ RootObject \in DOMAIN D.objects
        /\ D.objects[RootObject].file_start = 0
    BY DEF Typed
  <2> QED BY <1>6, <1>7, <1>8, <1>10, <1>11, <2>1 DEF Typed
<1>13. SameBut(D, E, s)
  BY <1>7, <1>8, <1>10, <1>12 DEF SameBut
<1> QED BY <1>3, <1>5, <1>7, <1>8, <1>10, <1>13 DEF E, n

(* The entries an object sees.                                             *)
LEMMA ReadIs ==
  ASSUME NEW D, Typed(D), NEW o \in DOMAIN D.objects,
         D.objects[o].file_size <= Len(D.clusters[D.objects[o].file_start])
  PROVE  LET list == Read_All_Entries(D, o)
             n == D.objects[o].file_size
         IN /\ list \in Seq(Entry) /\ Len(list) = n /\ n \in Nat
            /\ \A i \in 1 .. n : list[i] = D.clusters[D.objects[o].file_start][i]
<1> DEFINE s == D.clusters[D.objects[o].file_start]
           n == D.objects[o].file_size
<1>1. s \in Seq(Entry) /\ n \in Nat /\ n <= Len(s)
  BY DEF Typed, Object
<1> HIDE DEF s, n
<1>2. /\ SubSeq(s, 1, n) \in Seq(Entry) /\ Len(SubSeq(s, 1, n)) = n
      /\ \A i \in 1 .. n : SubSeq(s, 1, n)[i] = s[i]
  BY <1>1, Beginning
<1> QED BY <1>1, <1>2 DEF Read_All_Entries, s, n

(* An entry changed through an object, which may see fewer or more of the  *)
(* list than there is.                                                     *)
LEMMA ParentTold ==
  ASSUME NEW D, Good(D), NEW q, NEW e, Stands(D, q, e), q # <<>>,
         NEW M, Typed(M), DOMAIN D.objects \subseteq DOMAIN M.objects, NEW n,
         M.clusters[StartOf(D, Front(q))] = Cluster(D, Front(q)),
         M.objects[e.parent].file_start = D.objects[e.parent].file_start,
         M.objects[e.parent].file_size = D.objects[e.parent].file_size,
         M.objects[e.self].file_start = D.objects[e.self].file_start,
         M.objects[e.self].file_size = n
  PROVE  LET E == Change_Entry(M, e.parent, e.file_name, EntryOf(M, e)) IN
         /\ SameBut(M, E, StartOf(D, Front(q)))
         /\ \A o \in DOMAIN M.objects : E.objects[o].file_size = M.objects[o].file_size
         /\ Resized(Cluster(D, Front(q)), Size(D, Front(q)), New(D, E, Front(q)), Last(q), n)
<1> DEFINE E == Change_Entry(M, e.parent, e.file_name, EntryOf(M, e))
           f == Front(q)
           x == Last(q)
           L == Cluster(D, f)
           N == Size(D, f)
           o == e.parent
           z == D.objects[o].file_size
           entry == EntryOf(M, e)
           list == Read_All_Entries(M, o)
           k == Index(list, x)
<1>1. /\ q \in Path /\ Exists(D, q) /\ e \in Element /\ e.self \in DOMAIN M.objects
      /\ o \in DOMAIN M.objects /\ e.file_name = Get_Filename(q)
      /\ e.file_attributes = Walk(D, q).file_attributes
      /\ D.objects[e.self].file_start = StartOf(D, q)
  BY DEF Stands
<1>2. /\ f \in Path /\ x \in Name /\ q = Append(f, x) /\ Get_Filename(q) = x
      /\ IsDirectory(D, f) /\ Walk(D, q) \in Entry /\ Walk(D, q).file_name = x
  BY <1>1, LastIs
<1>3. /\ D.objects[o].file_start = StartOf(D, f) /\ z <= Len(L)
      /\ \E i \in 1 .. z : i <= N /\ L[i].file_name = x
  BY DEF Stands, Holds
<1>4. /\ L \in Seq(Entry) /\ N \in Nat /\ StartOf(D, f) \in Start /\ N <= Len(L)
      /\ \A i, j \in 1 .. N : L[i].file_name = L[j].file_name => i = j
      /\ Walk(D, q) = Lookup(L, N, x)
  <2> HIDE DEF f, x
  <2>1. /\ L \in Seq(Entry) /\ N \in Nat /\ StartOf(D, f) \in Start /\ N <= Len(L)
        /\ \A i, j \in 1 .. N : L[i].file_name = L[j].file_name => i = j
        /\ Walk(D, Append(f, x)) = Lookup(L, N, x)
    BY ONLY Good(D), <1>2, DirectoryIs
  <2> QED BY <1>2, <2>1
<1>5. M.objects[o].file_start = StartOf(D, f) /\ M.objects[o].file_size = z
      /\ M.clusters[StartOf(D, f)] = L
  BY <1>3
<1>6. /\ list \in Seq(Entry) /\ Len(list) = z /\ z \in Nat
      /\ \A i \in 1 .. z : list[i] = L[i]
  <2>1. M.objects[o].file_size <= Len(M.clusters[M.objects[o].file_start])
    BY <1>3, <1>5
  <2>2. /\ list \in Seq(Entry) /\ Len(list) = M.objects[o].file_size
        /\ M.objects[o].file_size \in Nat
        /\ \A i \in 1 .. M.objects[o].file_size :
             list[i] = M.clusters[M.objects[o].file_start][i]
    BY ONLY Typed(M), <1>1, <2>1, ReadIs
  <2> QED BY <1>5, <2>2
<1>7. n \in Nat
  BY <1>1 DEF Typed, Object
<1>8. /\ entry = [file_attributes |-> e.file_attributes, file_name |-> e.file_name,
                  file_start |-> M.objects[e.self].file_start,
                  file_size |-> M.objects[e.self].file_size]
  BY DEF EntryOf
<1>9. entry = Sized(Walk(D, q), n)
  BY <1>1, <1>2, <1>8 DEF Sized, StartOf
<1>10. entry \in Entry
  BY <1>2, <1>7, <1>9 DEF Sized, Entry
<1>11. E = IF Found(list, x) THEN Write_Entries(M, o, [list EXCEPT ![k] = entry]) ELSE M
  BY <1>1, <1>2 DEF Change_Entry
<1> HIDE DEF E, f, x, L, N, o, z, entry, list, k
<1>12. \A i \in 1 .. N : L[i].file_name = x => Lookup(L, N, x) = L[i]
  BY ONLY <1>4, LookupIs
<1>13. PICK i \in 1 .. z : i <= N /\ L[i].file_name = x
  BY <1>3
<1>14. /\ Found(list, x) /\ k \in 1 .. z /\ list[k].file_name = x
       /\ k <= i
  <2>1. \/ /\ k \in 1 .. Len(list) /\ list[k].file_name = x
           /\ \A j \in 1 .. Len(list) : list[j].file_name = x => k <= j
           /\ Found(list, x)
        \/ /\ ~Found(list, x)
           /\ \A j \in 1 .. Len(list) : list[j].file_name # x
    BY <1>6, IndexFinds DEF k
  <2>2. i \in 1 .. Len(list) /\ list[i].file_name = x
    BY <1>6, <1>13
  <2> QED BY <1>6, <2>1, <2>2
<1>15. k \in 1 .. N /\ L[k] = Walk(D, q) /\ L[k].file_name = x
  <2>1. k \in 1 .. N
    BY <1>4, <1>13, <1>14
  <2>2. L[k].file_name = x
    BY <1>6, <1>14
  <2> QED BY <1>4, <1>12, <2>1, <2>2
<1> DEFINE new == [list EXCEPT ![k] = entry]
<1>16. /\ new \in Seq(Entry) /\ Len(new) = z
       /\ \A j \in 1 .. z : new[j] = IF j = k THEN entry ELSE L[j]
  BY <1>6, <1>10, <1>14
<1> HIDE DEF new
<1>17. /\ SameBut(M, E, StartOf(D, f))
       /\ Over(E.clusters[StartOf(D, f)], new, L)
       /\ \A u \in DOMAIN M.objects : E.objects[u].file_size =
            IF u = o THEN Len(new) ELSE M.objects[u].file_size
  <2>1. E = Write_Entries(M, o, new)
    BY <1>11, <1>14 DEF new
  <2>2. /\ SameBut(M, E, M.objects[o].file_start)
        /\ Over(E.clusters[M.objects[o].file_start], new, M.clusters[M.objects[o].file_start])
        /\ \A u \in DOMAIN M.objects : E.objects[u].file_size =
             IF u = o THEN Len(new) ELSE M.objects[u].file_size
    BY ONLY Typed(M), <1>1, <1>16, <2>1, WrittenIs
  <2> QED BY <1>5, <2>2
<1>18. \A u \in DOMAIN M.objects : E.objects[u].file_size = M.objects[u].file_size
  BY <1>5, <1>16, <1>17
<1>19. Resized(L, N, New(D, E, f), x, n)
  <2> DEFINE K == E.clusters[StartOf(D, f)]
  <2>1. Over(K, new, L)
    BY <1>17
  <2> HIDE DEF K
  <2>2. Len(K) = Len(L)
    BY <1>3, <1>16, <2>1 DEF Over
  <2>3. ASSUME NEW j \in 1 .. Len(L)  PROVE K[j] = IF j = k THEN Sized(L[k], n) ELSE L[j]
    <3>1. CASE j <= z
      <4>1. j \in 1 .. z
        BY <1>4, <1>6, <3>1
      <4>2. K[j] = new[j]
        BY <1>16, <2>1, <4>1 DEF Over
      <4> QED BY <1>9, <1>15, <1>16, <4>1, <4>2
    <3>2. CASE ~(j <= z)
      <4>1. j > Len(new) /\ j # k
        BY <1>4, <1>6, <1>14, <1>16, <3>2
      <4> QED BY <2>1, <4>1 DEF Over
    <3> QED BY <3>1, <3>2
  <2>4. K = New(D, E, f)
    BY DEF K, New
  <2> QED BY <1>15, <2>2, <2>3, <2>4 DEF Resized
<1> QED BY <1>17, <1>18, <1>19 DEF E, f, x, L, N, o, entry

(* A directory's list is written and the directory above told.             *)
LEMMA ListWritten ==
  ASSUME NEW D, Good(D), NEW p, NEW d, Stands(D, p, d), IsDirectory(D, p), NEW m \in Name,
         NEW list \in Seq(Entry), NEW c \in Node,
         Childless(c), Childless(Walk(D, Append(p, m))), Fits(D, D, p, m, c),
         \A K : Over(K, list, Cluster(D, p)) =>
           /\ Edited(Cluster(D, p), Size(D, p), K, Len(list), m)
           /\ Lookup(K, Len(list), m) = c
  PROVE  LET E == Tell_Parent(Write_Entries(D, d.self, list), d) IN
         /\ Good(E) /\ Rewritten(D, E, p, m, c, Len(list))
         /\ E.created = D.created /\ DOMAIN E.objects = DOMAIN D.objects
         /\ \A o \in DOMAIN D.objects :
              /\ E.objects[o].file_start = D.objects[o].file_start
              /\ E.objects[o].file_size = IF o = d.self THEN Len(list) ELSE D.objects[o].file_size
         /\ \A q, e : Stands(D, q, e) /\ q # Append(p, m) /\ (q = p => e.self = d.self) =>
              Stands(E, q, e)
<1> DEFINE M == Write_Entries(D, d.self, list)
           E == Tell_Parent(M, d)
           n == Len(list)
           s == StartOf(D, p)
<1>1. /\ p \in Path /\ Exists(D, p) /\ d.self \in DOMAIN D.objects /\ d.parent \in DOMAIN D.objects
      /\ D.objects[d.self].file_start = s
  BY DEF Stands
<1>2. Typed(D) /\ RootObject \in DOMAIN D.objects /\ D.objects[RootObject].file_start = 0
  BY DEF Good, Typed
<1>3. /\ s \in Start /\ SameBut(D, M, s) /\ Over(M.clusters[s], list, D.clusters[s])
      /\ \A u \in DOMAIN D.objects : M.objects[u].file_size =
           IF u = d.self THEN n ELSE D.objects[u].file_size
  <2> HIDE DEF M, n, s
  <2>1. /\ D.objects[d.self].file_start \in Start
        /\ SameBut(D, M, D.objects[d.self].file_start)
        /\ Over(M.clusters[D.objects[d.self].file_start], list,
                D.clusters[D.objects[d.self].file_start])
        /\ \A u \in DOMAIN D.objects : M.objects[u].file_size =
             IF u = d.self THEN n ELSE D.objects[u].file_size
    BY <1>1, <1>2, WrittenIs DEF M, n
  <2> QED BY <1>1, <2>1
<1>4. n \in Nat
  OBVIOUS
<1>5. /\ Edited(Cluster(D, p), Size(D, p), M.clusters[s], n, m)
      /\ Lookup(M.clusters[s], n, m) = c
  BY <1>3 DEF Cluster
<1> HIDE DEF M, n, s, E
<1>6. /\ Typed(E) /\ Rewritten(D, E, p, m, c, n)
      /\ E.created = D.created /\ DOMAIN E.objects = DOMAIN D.objects
      /\ \A o \in DOMAIN D.objects :
           /\ E.objects[o].file_start = D.objects[o].file_start
           /\ E.objects[o].file_size = IF o = d.self THEN n ELSE D.objects[o].file_size
  <2>1. CASE p = <<>>
    <3>1. d.self = RootObject
      BY <2>1 DEF Stands, RootElement
    <3>2. E = M
      BY <3>1 DEF E, Tell_Parent
    <3>3. M.objects[RootObject].file_size = n
      BY <1>1, <1>3, <3>1
    <3>4. \A t \in Start : t = s \/ M.clusters[t] = D.clusters[t]
      BY <1>3 DEF SameBut
    <3>5. Rewritten(D, E, p, m, c, n)
      BY <1>1, <1>4, <1>5, <2>1, <3>2, <3>3, <3>4 DEF Rewritten, New, s
    <3> QED BY <1>3, <3>2, <3>5 DEF SameBut
  <2>2. CASE p # <<>>
    <3> DEFINE f == Front(p)
               t == StartOf(D, f)
    <3>1. /\ f \in Path /\ Exists(D, f) /\ IsDirectory(D, f)
          /\ f # p
      <4>1. /\ f \in Path /\ Last(p) \in Name /\ Exists(D, f) /\ IsDirectory(D, f)
            /\ p = Append(f, Last(p))
        BY <1>1, <2>2, LastIs
      <4>2. Append(f, Last(p)) # f
        <5> HIDE DEF f
        <5> QED BY <4>1, Appends
      <4> QED BY <4>1, <4>2
    <3> HIDE DEF f, t
    <3>2. t # s
      BY <1>1, <3>1 DEF Good, Sorted, t, s
    <3>3. d.self # RootObject
      <4>1. <<>> \in Path /\ Exists(D, <<>>) /\ StartOf(D, <<>>) = 0
        BY <1>2, RootIsThere
      <4>2. s # 0
        BY <1>1, <2>2, <4>1 DEF Good, Sorted, s
      <4> QED BY <1>1, <1>2, <4>2
    <3>4. d.parent # d.self /\ D.objects[d.parent].file_start = t
      <4>1. D.objects[d.parent].file_start = t
        BY <2>2 DEF Stands, Holds, t, f
      <4> QED BY <1>1, <3>2, <4>1
    <3>5. E = Change_Entry(M, d.parent, d.file_name, EntryOf(M, d))
      BY <3>3 DEF E, Tell_Parent
    <3>6. t \in Start
      BY <3>1, DirectoryIs DEF t
    <3>7. M.clusters[t] = Cluster(D, f)
      BY <1>3, <3>2, <3>6 DEF SameBut, Cluster, t
    <3>8. /\ SameBut(M, E, t)
          /\ \A o \in DOMAIN M.objects : E.objects[o].file_size = M.objects[o].file_size
          /\ Resized(Cluster(D, f), Size(D, f), New(D, E, f), Last(p), n)
      <4>1. /\ Typed(M) /\ DOMAIN D.objects \subseteq DOMAIN M.objects
            /\ M.clusters[StartOf(D, Front(p))] = Cluster(D, Front(p))
            /\ M.objects[d.parent].file_start = D.objects[d.parent].file_start
            /\ M.objects[d.self].file_start = D.objects[d.self].file_start
        BY <1>1, <1>3, <3>7 DEF SameBut, t, f
      <4>2. /\ M.objects[d.parent].file_size = D.objects[d.parent].file_size
            /\ M.objects[d.self].file_size = n
        BY <1>1, <1>3, <3>4
      <4>3. /\ SameBut(M, E, StartOf(D, Front(p)))
            /\ \A o \in DOMAIN M.objects : E.objects[o].file_size = M.objects[o].file_size
            /\ Resized(Cluster(D, Front(p)), Size(D, Front(p)), New(D, E, Front(p)), Last(p), n)
        BY ONLY Good(D), Stands(D, p, d), <2>2, <3>5, <4>1, <4>2, ParentTold
      <4> QED BY <4>3 DEF t, f
    <3>9. E.clusters[s] = M.clusters[s]
      BY <1>3, <3>2, <3>8 DEF SameBut
    <3>10. \A u \in Start : u = s \/ u = t \/ E.clusters[u] = D.clusters[u]
      BY <1>3, <3>8 DEF SameBut
    <3>11. E.objects[RootObject].file_size = D.objects[RootObject].file_size
      BY <1>2, <1>3, <3>3, <3>8 DEF SameBut
    <3>12. Edited(Cluster(D, p), Size(D, p), New(D, E, p), n, m) /\ Lookup(New(D, E, p), n, m) = c
      BY <1>5, <3>9 DEF New, s
    <3>13. Rewritten(D, E, p, m, c, n)
      BY <1>1, <1>4, <2>2, <3>8, <3>10, <3>11, <3>12 DEF Rewritten, s, t, f
    <3> QED BY <1>3, <3>8, <3>13 DEF SameBut
  <2> QED BY <2>1, <2>2
<1>7. Fits(D, E, p, m, c)
  BY <1>6 DEF Fits
<1>8. Good(E)
  BY ONLY Good(D), <1>6, <1>7, GoodRewritten
<1>9. ASSUME NEW q, NEW e, Stands(D, q, e), q # Append(p, m), q = p => e.self = d.self
      PROVE  Stands(E, q, e)
  <2>1. \A o \in DOMAIN D.objects :
          /\ o \in DOMAIN E.objects /\ E.objects[o].file_start = D.objects[o].file_start
          /\ \/ E.objects[o].file_size = D.objects[o].file_size
             \/ D.objects[o].file_start = StartOf(D, p) /\ E.objects[o].file_size = n
             \/ Exists(D, Append(p, m)) /\ D.objects[o].file_start = StartOf(D, Append(p, m))
    BY <1>1, <1>6 DEF s
  <2>2. q = p => E.objects[e.self].file_size = n
    BY <1>1, <1>6, <1>9
  <2> QED BY ONLY Good(D), <1>6, <1>9, <2>1, <2>2, StandsRewritten
<1> QED BY <1>6, <1>8, <1>9 DEF E, M, n

-----------------------------------------------------------------------------
(* What a directory's own object sees of it.                               *)
LEMMA OwnList ==
  ASSUME NEW D, Good(D), NEW p, NEW d, Stands(D, p, d), IsDirectory(D, p)
  PROVE  LET list == Read_All_Entries(D, d.self) IN
         /\ list \in Seq(Entry) /\ Len(list) = Size(D, p) /\ Size(D, p) \in Nat
         /\ \A i \in 1 .. Size(D, p) : list[i] = Cluster(D, p)[i]
         /\ \A i, j \in 1 .. Size(D, p) : list[i].file_name = list[j].file_name => i = j
         /\ \A x \in Name : /\ Found(list, x) <=> Exists(D, Append(p, x))
                            /\ Found(list, x) => /\ Index(list, x) \in 1 .. Len(list)
                                                 /\ list[Index(list, x)] = Walk(D, Append(p, x))
                                                 /\ list[Index(list, x)].file_name = x
<1> DEFINE list == Read_All_Entries(D, d.self)
           N == Size(D, p)
           L == Cluster(D, p)
<1>1. /\ p \in Path /\ d.self \in DOMAIN D.objects
      /\ D.objects[d.self].file_start = StartOf(D, p) /\ D.objects[d.self].file_size = N
  BY DEF Stands
<1>2. /\ L \in Seq(Entry) /\ N <= Len(L) /\ N \in Nat
      /\ \A i, j \in 1 .. N : L[i].file_name = L[j].file_name => i = j
      /\ \A i \in 1 .. N : L[i] \in Entry
      /\ \A x \in Name : Walk(D, Append(p, x)) = Lookup(L, N, x)
  BY <1>1, DirectoryIs
<1>3. Typed(D) /\ D.clusters[D.objects[d.self].file_start] = L
  BY <1>1 DEF Good, Cluster
<1>4. /\ list \in Seq(Entry) /\ Len(list) = N /\ \A i \in 1 .. N : list[i] = L[i]
  <2>1. D.objects[d.self].file_size <= Len(D.clusters[D.objects[d.self].file_start])
    BY <1>1, <1>2, <1>3
  <2>2. /\ list \in Seq(Entry) /\ Len(list) = D.objects[d.self].file_size
        /\ \A i \in 1 .. D.objects[d.self].file_size :
             list[i] = D.clusters[D.objects[d.self].file_start][i]
    BY ONLY <1>1, <1>3, <2>1, ReadIs
  <2> QED BY <1>1, <1>3, <2>2
<1> HIDE DEF list, N, L
<1>5. ASSUME NEW x \in Name
      PROVE  /\ Found(list, x) <=> Exists(D, Append(p, x))
             /\ Found(list, x) => /\ Index(list, x) \in 1 .. Len(list)
                                  /\ list[Index(list, x)] = Walk(D, Append(p, x))
                                  /\ list[Index(list, x)].file_name = x
  <2> DEFINE k == Index(list, x)
  <2>1. \/ /\ k \in 1 .. Len(list) /\ list[k].file_name = x
           /\ Found(list, x)
        \/ /\ ~Found(list, x)
           /\ \A j \in 1 .. Len(list) : list[j].file_name # x
    BY <1>4, IndexFinds
  <2>w. Walk(D, Append(p, x)) = Lookup(L, N, x)
    BY <1>2
  <2> HIDE DEF k
  <2>2. CASE k \in 1 .. Len(list) /\ list[k].file_name = x /\ Found(list, x)
    <3>1. k \in 1 .. N /\ L[k] = list[k] /\ L[k].file_name = x /\ L[k] \in Entry
      BY <1>2, <1>4, <2>2
    <3>2. Lookup(L, N, x) = L[k]
      BY ONLY <1>2, <3>1, LookupIs
    <3>3. L[k].file_attributes # "INVALID"
      BY <3>1, EntriesAreNodes
    <3> QED BY <2>w, <2>2, <3>1, <3>2, <3>3 DEF k, Exists
  <2>3. CASE ~Found(list, x) /\ \A j \in 1 .. Len(list) : list[j].file_name # x
    <3>1. \A j \in 1 .. N : L[j].file_name # x
      BY <1>4, <2>3
    <3>2. Lookup(L, N, x) = NoEntry
      BY ONLY <1>2, <3>1, LookupFinds
    <3> QED BY <2>w, <2>3, <3>2, NoEntryIsNone DEF Exists
  <2> QED BY <2>1, <2>2, <2>3
<1>6. \A i, j \in 1 .. N : list[i].file_name = list[j].file_name => i = j
  BY <1>2, <1>4
<1> QED BY <1>2, <1>4, <1>5, <1>6 DEF list, N, L

(* Set_Last_Element_To_Index: the last entry takes the place.              *)
LEMMA LastPutIs ==
  ASSUME NEW list \in Seq(Entry), NEW i \in 1 .. Len(list)
  PROVE  LET new == SetLastTo(list, i) IN
         /\ new \in Seq(Entry) /\ Len(new) = Len(list) - 1
         /\ \A j \in 1 .. Len(list) - 1 : new[j] = IF j = i THEN list[Len(list)] ELSE list[j]
<1> DEFINE put == [list EXCEPT ![i] = Last(list)]
           n == Len(list)
<1>1. n \in Nat /\ n >= 1 /\ n \in 1 .. n /\ Last(list) = list[n] /\ list[n] \in Entry
  BY DEF Last
<1>2. /\ put \in Seq(Entry) /\ Len(put) = n
      /\ \A j \in 1 .. n : put[j] = IF j = i THEN list[n] ELSE list[j]
  BY <1>1
<1> HIDE DEF put, n
<1>3. SetLastTo(list, i) = SubSeq(put, 1, n - 1)
  BY <1>2 DEF SetLastTo, Front, put
<1>4. n - 1 \in Nat /\ n - 1 <= Len(put)
  BY <1>1, <1>2
<1>5. /\ SubSeq(put, 1, n - 1) \in Seq(Entry) /\ Len(SubSeq(put, 1, n - 1)) = n - 1
      /\ \A j \in 1 .. n - 1 : SubSeq(put, 1, n - 1)[j] = put[j]
  BY ONLY <1>2, <1>4, Beginning
<1>6. \A j \in 1 .. n - 1 : j \in 1 .. n
  BY <1>1
<1> QED BY <1>2, <1>3, <1>5, <1>6 DEF n

(* What a change in the directory p of the element d leaves alone.         *)
Changes(D, E, p, d, m, c, n) ==
  /\ Good(E) /\ Rewritten(D, E, p, m, c, n)
  /\ E.created = D.created /\ DOMAIN E.objects = DOMAIN D.objects
  /\ \A o \in DOMAIN D.objects :
       /\ E.objects[o].file_start = D.objects[o].file_start
       /\ E.objects[o].file_size = IF o = d.self THEN n ELSE D.objects[o].file_size
  /\ \A q, e : Stands(D, q, e) /\ q # Append(p, m) /\ (q = p => e.self = d.self) => Stands(E, q, e)

(* Remove_Entry changes the entry to none.                                 *)
LEMMA RemoveIs ==
  ASSUME NEW D, Good(D), NEW p, NEW d, Stands(D, p, d), IsDirectory(D, p), NEW m \in Name,
         Exists(D, Append(p, m)), Childless(Walk(D, Append(p, m)))
  PROVE  Changes(D, Remove_Entry(D, d, m), p, d, m, NoEntry, Size(D, p) - 1)
<1> DEFINE list == Read_All_Entries(D, d.self)
           N == Size(D, p)
           L == Cluster(D, p)
           k == Index(list, m)
           new == SetLastTo(list, k)
           E == Tell_Parent(Write_Entries(D, d.self, new), d)
<1>1. /\ list \in Seq(Entry) /\ Len(list) = N /\ N \in Nat
      /\ \A i \in 1 .. N : list[i] = L[i]
      /\ \A i, j \in 1 .. N : list[i].file_name = list[j].file_name => i = j
      /\ k \in 1 .. Len(list) /\ list[k].file_name = m
  BY OwnList
<1>2. E = Remove_Entry(D, d, m)
  BY DEF Remove_Entry
<1>3. p \in Path
  BY DEF Stands
<1> HIDE DEF list, k, L, N
<1>4. /\ new \in Seq(Entry) /\ Len(new) = N - 1
      /\ \A j \in 1 .. N - 1 : new[j] = IF j = k THEN list[N] ELSE list[j]
  <2>1. /\ new \in Seq(Entry) /\ Len(new) = Len(list) - 1
        /\ \A j \in 1 .. Len(list) - 1 : new[j] = IF j = k THEN list[Len(list)] ELSE list[j]
    BY ONLY <1>1, LastPutIs
  <2> QED BY <1>1, <2>1
<1> HIDE DEF new, E
<1>5. ASSUME NEW K, Over(K, new, L)
      PROVE  Edited(L, N, K, N - 1, m) /\ Lookup(K, N - 1, m) = NoEntry
  <2>0. N - 1 \in Nat /\ N \in 1 .. N /\ \A j \in 1 .. N - 1 : j \in 1 .. N /\ j # N
    BY <1>1
  <2>1. \A j \in 1 .. N - 1 : K[j] = IF j = k THEN list[N] ELSE list[j]
    BY <1>4, <1>5 DEF Over
  <2>2. \A j \in 1 .. N - 1 : K[j].file_name # m
    <3>1. SUFFICES ASSUME NEW j \in 1 .. N - 1, K[j].file_name = m  PROVE FALSE
      OBVIOUS
    <3>2. CASE j = k
      <4>1. list[N].file_name = list[k].file_name /\ N # k
        BY <1>1, <2>0, <2>1, <3>1, <3>2
      <4> QED BY <1>1, <2>0, <4>1
    <3>3. CASE j # k
      BY <1>1, <2>0, <2>1, <3>1, <3>3
    <3> QED BY <3>2, <3>3
  <2>3. Lookup(K, N - 1, m) = NoEntry
    BY <2>0, <2>2, LookupFinds
  <2>4. ASSUME NEW i \in 1 .. N - 1, NEW j \in 1 .. N - 1, K[i].file_name = K[j].file_name
        PROVE  i = j
    <3>1. CASE i = k /\ j # k
      BY <1>1, <2>0, <2>1, <2>4, <3>1
    <3>2. CASE i # k /\ j = k
      BY <1>1, <2>0, <2>1, <2>4, <3>2
    <3>3. CASE i # k /\ j # k
      BY <1>1, <2>0, <2>1, <2>4, <3>3
    <3> QED BY <3>1, <3>2, <3>3
  <2>5. N - 1 <= Len(K) /\ Len(L) <= Len(K)
    BY <1>4, <1>5 DEF Over
  <2>6. Listed(K, N - 1)
    BY <2>4, <2>5 DEF Listed
  <2>7. ASSUME NEW i \in 1 .. N, L[i].file_name # m
        PROVE  \E j \in 1 .. N - 1 : j <= i /\ K[j] = L[i]
    <3>1. i # k /\ L[i] = list[i]
      BY <1>1, <2>7
    <3>2. CASE i = N
      <4>1. k \in 1 .. N - 1 /\ k <= i
        BY <1>1, <3>1, <3>2
      <4>2. K[k] = L[i]
        BY <2>1, <3>1, <3>2, <4>1
      <4> QED BY <4>1, <4>2
    <3>3. CASE i # N
      <4>1. i \in 1 .. N - 1 /\ i <= i
        BY <1>1, <3>3
      <4> QED BY <2>1, <3>1, <4>1
    <3> QED BY <3>2, <3>3
  <2>8. ASSUME NEW j \in 1 .. N - 1  PROVE \E i \in 1 .. N : K[j] = L[i]
    BY <1>1, <2>0, <2>1
  <2> QED BY <2>3, <2>5, <2>6, <2>7, <2>8 DEF Edited
<1>6. Fits(D, D, p, m, NoEntry) /\ Childless(NoEntry) /\ NoEntry \in Node
  <2>1. D.created \in Nat
    BY BoundAssumption DEF Good, Typed
  <2> QED BY <2>1, NoEntryIsNone DEF Fits, Childless
<1>7. \A K : Over(K, new, L) => Edited(L, N, K, Len(new), m) /\ Lookup(K, Len(new), m) = NoEntry
  BY <1>4, <1>5
<1>8. /\ Good(E) /\ Rewritten(D, E, p, m, NoEntry, Len(new))
      /\ E.created = D.created /\ DOMAIN E.objects = DOMAIN D.objects
      /\ \A o \in DOMAIN D.objects :
           /\ E.objects[o].file_start = D.objects[o].file_start
           /\ E.objects[o].file_size = IF o = d.self THEN Len(new) ELSE D.objects[o].file_size
      /\ \A q, e : Stands(D, q, e) /\ q # Append(p, m) /\ (q = p => e.self = d.self) =>
           Stands(E, q, e)
  <2> DEFINE none == NoEntry
  <2>1. /\ none \in Node /\ Childless(none) /\ Fits(D, D, p, m, none)
        /\ \A K : Over(K, new, Cluster(D, p)) =>
             Edited(Cluster(D, p), Size(D, p), K, Len(new), m) /\ Lookup(K, Len(new), m) = none
    BY <1>6, <1>7 DEF L, N
  <2> HIDE DEF none
  <2>2. /\ Good(E) /\ Rewritten(D, E, p, m, none, Len(new))
        /\ E.created = D.created /\ DOMAIN E.objects = DOMAIN D.objects
        /\ \A o \in DOMAIN D.objects :
             /\ E.objects[o].file_start = D.objects[o].file_start
             /\ E.objects[o].file_size = IF o = d.self THEN Len(new) ELSE D.objects[o].file_size
        /\ \A q, e : Stands(D, q, e) /\ q # Append(p, m) /\ (q = p => e.self = d.self) =>
             Stands(E, q, e)
    BY ONLY Good(D), Stands(D, p, d), IsDirectory(D, p), m \in Name, <1>4, <2>1,
            Childless(Walk(D, Append(p, m))), ListWritten DEF E
  <2> QED BY <2>2 DEF none
<1> QED BY <1>2, <1>4, <1>8 DEF Changes, N

(* Create_New_Entry adds the entry, and its element stands for it.         *)
LEMMA CreateIs ==
  ASSUME NEW D, Good(D), NEW p, NEW d, Stands(D, p, d), IsDirectory(D, p), NEW m \in Name,
         ~Exists(D, Append(p, m)), NEW c \in Entry, c.file_name = m, c.file_size = 0,
         \A q \in Path : Exists(D, q) => StartOf(D, q) < c.file_start,
         c.file_start <= D.created, NEW self \in DOMAIN D.objects,
         D.objects[self].file_start = c.file_start, D.objects[self].file_size = 0
  PROVE  /\ Changes(D, Create_New_Entry(D, d, c), p, d, m, c, Size(D, p) + 1)
         /\ Stands(Create_New_Entry(D, d, c), Append(p, m), Make(d.self, c, self))
<1> DEFINE list == Read_All_Entries(D, d.self)
           N == Size(D, p)
           L == Cluster(D, p)
           new == Append(list, c)
           E == Tell_Parent(Write_Entries(D, d.self, new), d)
           pm == Append(p, m)
<1>1. /\ list \in Seq(Entry) /\ Len(list) = N /\ N \in Nat
      /\ \A i \in 1 .. N : list[i] = L[i]
      /\ \A i, j \in 1 .. N : list[i].file_name = list[j].file_name => i = j
      /\ ~Found(list, m)
  BY OwnList
<1>2. E = Create_New_Entry(D, d, c)
  BY DEF Create_New_Entry
<1>3. /\ p \in Path /\ d.self \in DOMAIN D.objects /\ Exists(D, p)
      /\ D.objects[d.self].file_start = StartOf(D, p)
  BY DEF Stands
<1>4. /\ pm \in Path /\ pm # p /\ pm # <<>> /\ Front(pm) = p /\ Last(pm) = m
      /\ Get_Filename(pm) = m
  BY <1>3, Appends DEF Get_Filename
<1>5. \A j \in 1 .. Len(list) : list[j].file_name # m
  BY <1>1, IndexFinds
<1> HIDE DEF list, L, N
<1>6. /\ new \in Seq(Entry) /\ Len(new) = N + 1
      /\ \A j \in 1 .. N + 1 : new[j] = IF j = N + 1 THEN c ELSE list[j]
  BY <1>1
<1> HIDE DEF new, E, pm
<1>7. ASSUME NEW K, Over(K, new, L)
      PROVE  Edited(L, N, K, N + 1, m) /\ Lookup(K, N + 1, m) = c
  <2>0. /\ N + 1 \in Nat /\ N + 1 \in 1 .. N + 1 /\ N + 1 \notin 1 .. N
        /\ \A j \in 1 .. N + 1 : j = N + 1 \/ j \in 1 .. N
        /\ \A j \in 1 .. N : j \in 1 .. N + 1 /\ j <= j
    BY <1>1
  <2>1. K[N + 1] = c /\ \A j \in 1 .. N : K[j] = L[j] /\ K[j].file_name # m
    BY <1>1, <1>5, <1>6, <1>7, <2>0 DEF Over
  <2>2. \A i, j \in 1 .. N + 1 : K[i].file_name = K[j].file_name => i = j
    BY <1>1, <2>0, <2>1
  <2>3. Lookup(K, N + 1, m) = c
    <3> DEFINE k == N + 1
    <3>1. k \in Nat /\ k \in 1 .. k /\ K[k] = c /\ K[k].file_name = m
          /\ \A i, j \in 1 .. k : K[i].file_name = K[j].file_name => i = j
      BY <2>0, <2>1, <2>2
    <3> HIDE DEF k
    <3>2. Lookup(K, k, m) = K[k]
      BY ONLY <3>1, LookupIs
    <3> QED BY <3>1, <3>2 DEF k
  <2>4. N + 1 <= Len(K) /\ Len(L) <= Len(K)
    BY <1>6, <1>7 DEF Over
  <2>5. Listed(K, N + 1)
    BY <2>2, <2>4 DEF Listed
  <2>6. \A i \in 1 .. N : L[i].file_name # m => \E j \in 1 .. N + 1 : j <= i /\ K[j] = L[i]
    BY <2>0, <2>1
  <2>7. \A j \in 1 .. N + 1 : K[j].file_name # m => \E i \in 1 .. N : K[j] = L[i]
    BY <2>0, <2>1
  <2> QED BY <2>3, <2>4, <2>5, <2>6, <2>7 DEF Edited
<1>8. c \in Node /\ c.file_attributes # "INVALID" /\ c.file_start \in Nat
  BY EntriesAreNodes, BoundAssumption DEF Start
<1>9. Fits(D, D, p, m, c)
  <2>1. D.created \in Nat
    BY BoundAssumption DEF Good, Typed
  <2>2. ASSUME NEW q \in Path, Exists(D, q), StartOf(D, q) = c.file_start  PROVE FALSE
    BY <1>8, <2>2
  <2> QED BY <1>3, <2>1, <2>2 DEF Fits
<1>10. Childless(c)
  BY DEF Childless
<1>11. Childless(Walk(D, pm))
  <2>1. Walk(D, pm) = NoEntry
    BY <1>4, Nodes DEF pm
  <2> QED BY <2>1, NoEntryIsNone DEF Childless
<1>12. Changes(D, E, p, d, m, c, N + 1)
  <2>1. \A K : Over(K, new, Cluster(D, p)) =>
             Edited(Cluster(D, p), Size(D, p), K, Len(new), m) /\ Lookup(K, Len(new), m) = c
    BY <1>6, <1>7 DEF L, N
  <2>2. /\ Good(E) /\ Rewritten(D, E, p, m, c, Len(new))
        /\ E.created = D.created /\ DOMAIN E.objects = DOMAIN D.objects
        /\ \A o \in DOMAIN D.objects :
             /\ E.objects[o].file_start = D.objects[o].file_start
             /\ E.objects[o].file_size = IF o = d.self THEN Len(new) ELSE D.objects[o].file_size
        /\ \A q, e : Stands(D, q, e) /\ q # Append(p, m) /\ (q = p => e.self = d.self) =>
             Stands(E, q, e)
    <3>1. Childless(Walk(D, Append(p, m)))
      BY <1>11 DEF pm
    <3> QED BY ONLY Good(D), Stands(D, p, d), IsDirectory(D, p), m \in Name, <1>6, <1>8, <1>9, <1>10,
            <2>1, <3>1, ListWritten DEF E
  <2> QED BY <1>6, <2>2 DEF Changes
<1>13. Stands(E, pm, Make(d.self, c, self))
  <2> DEFINE e == Make(d.self, c, self)
  <2>1. /\ Walk(E, pm) = c /\ StartOf(E, p) = StartOf(D, p) /\ Size(E, p) = N + 1
    <3>1. Rewritten(D, E, p, m, c, N + 1)
      BY <1>12 DEF Changes
    <3>2. /\ Walk(E, Append(p, m)) = c
          /\ \A q \in Path : q # Append(p, m) => /\ StartOf(E, q) = StartOf(D, q)
                                                 /\ Size(E, q) = IF q = p THEN N + 1 ELSE Size(D, q)
      BY ONLY Good(D), <3>1, AfterIs
    <3> QED BY <1>3, <1>4, <3>2 DEF pm
  <2>2. Exists(E, pm) /\ StartOf(E, pm) = c.file_start /\ Size(E, pm) = 0
    BY <1>8, <2>1 DEF Exists, StartOf, Size
  <2>3. self # d.self
    <3>1. StartOf(D, p) < c.file_start /\ StartOf(D, p) \in Nat
      BY <1>3, StartsAreNumbers
    <3> QED BY <1>3, <1>8, <3>1
  <2>4. /\ self \in DOMAIN E.objects /\ d.self \in DOMAIN E.objects
        /\ E.objects[self].file_start = c.file_start /\ E.objects[self].file_size = 0
        /\ E.objects[d.self].file_start = StartOf(E, p)
        /\ E.objects[d.self].file_size = Size(E, p)
    BY <1>3, <1>12, <2>1, <2>3 DEF Changes
  <2>5. e.self = self /\ e.parent = d.self /\ e = Make(e.parent, Walk(E, pm), e.self)
    BY <2>1 DEF Make
  <2> HIDE DEF e
  <2>6. Good(E)
    BY <1>12 DEF Changes
  <2>7. /\ e.self \in DOMAIN E.objects /\ e.parent \in DOMAIN E.objects
        /\ E.objects[e.self].file_start = StartOf(E, pm) /\ E.objects[e.self].file_size = Size(E, pm)
        /\ E.objects[e.parent].file_start = StartOf(E, Front(pm))
        /\ E.objects[e.parent].file_size = Size(E, Front(pm))
    BY <1>4, <2>2, <2>4, <2>5
  <2>8. Stands(E, pm, e)
    BY ONLY <1>4, <2>2, <2>5, <2>6, <2>7, NewStands
  <2> QED BY <2>8 DEF e
<1> QED BY <1>2, <1>12, <1>13 DEF N, pm

-----------------------------------------------------------------------------
(* What is written makes a file larger.                                    *)
LEMMA GrownIs ==
  ASSUME NEW D, Typed(D), NEW o \in DOMAIN D.objects
  PROVE  LET G == [D EXCEPT !.objects[o].file_size = 1] IN
         /\ Typed(G) /\ G.clusters = D.clusters /\ G.created = D.created
         /\ DOMAIN G.objects = DOMAIN D.objects
         /\ \A u \in DOMAIN D.objects :
              /\ G.objects[u].file_start = D.objects[u].file_start
              /\ G.objects[u].file_size = IF u = o THEN 1 ELSE D.objects[u].file_size
<1> DEFINE G == [D EXCEPT !.objects[o].file_size = 1]
           objs == [D.objects EXCEPT ![o].file_size = 1]
<1>1. D = [clusters |-> D.clusters, created |-> D.created, objects |-> D.objects]
      /\ D.objects \in [DOMAIN D.objects -> Object]
  BY DEF Typed
<1>2. G = [clusters |-> D.clusters, created |-> D.created, objects |-> objs]
  BY <1>1
<1>3. G.clusters = D.clusters /\ G.created = D.created /\ G.objects = objs
  BY <1>2
<1>4. ASSUME NEW u \in DOMAIN D.objects
      PROVE  /\ objs[u] \in Object /\ objs[u].file_start = D.objects[u].file_start
             /\ objs[u].file_size = IF u = o THEN 1 ELSE D.objects[u].file_size
  <2>1. D.objects[u] \in Object
    BY <1>1
  <2>2. CASE u = o
    <3>1. objs[u] = [D.objects[u] EXCEPT !.file_size = 1]
      BY <1>1, <2>2
    <3> QED BY <2>1, <2>2, <3>1 DEF Object
  <2>3. CASE u # o
    <3>1. objs[u] = D.objects[u]
      BY <1>1, <2>3
    <3> QED BY <2>1, <2>3, <3>1
  <2> QED BY <2>2, <2>3
<1>5. DOMAIN objs = DOMAIN D.objects /\ objs = [u \in DOMAIN objs |-> objs[u]]
  BY <1>1
<1> HIDE DEF objs, G
<1>6. objs \in [DOMAIN objs -> Object]
  BY <1>4, <1>5
<1>7. Typed(G)
  <2>1. /\ D.clusters \in [Start -> Seq(Entry)] /\ D.created \in 0 .. MaxFiles
        /\ DOMAIN D.objects \subseteq Nat
        /\ IsFiniteSet(DOMAIN D.objects) /\ RootObject \in DOMAIN D.objects
        /\ D.objects[RootObject].file_start = 0
    BY DEF Typed
  <2> QED BY <1>2, <1>3, <1>4, <1>5, <1>6, <2>1 DEF Typed
<1> QED BY <1>3, <1>4, <1>5, <1>7 DEF G

(* A file that is written, and its entry in the directory.                 *)
LEMMA WriteIs ==
  ASSUME NEW D, Good(D), NEW q, NEW e, Stands(D, q, e), e.file_attributes = "FILE"
  PROVE  LET E == Tell_Directory([D EXCEPT !.objects[e.self].file_size = 1], e) IN
         /\ Good(E) /\ Stands(E, q, e) /\ \A r, f : Stands(D, r, f) /\ r # q => Stands(E, r, f)
         /\ q # <<>>
         /\ Rewritten(D, E, Front(q), Last(q), Sized(Walk(D, q), 1), Size(D, Front(q)))
<1> DEFINE G == [D EXCEPT !.objects[e.self].file_size = 1]
           E == Tell_Directory(G, e)
           p == Front(q)
           m == Last(q)
           L == Cluster(D, p)
           N == Size(D, p)
           c == Sized(Walk(D, q), 1)
<1>1. /\ q \in Path /\ Exists(D, q) /\ e.self \in DOMAIN D.objects /\ e.parent \in DOMAIN D.objects
      /\ Walk(D, q).file_attributes = "FILE" /\ e.file_name = Get_Filename(q)
      /\ D.objects[e.self].file_start = StartOf(D, q)
  BY DEF Stands
<1>2. q # <<>>
  BY <1>1, RootIsThere DEF Good, IsDirectory
<1>3. /\ p \in Path /\ m \in Name /\ q = Append(p, m) /\ IsDirectory(D, p) /\ Exists(D, p)
      /\ Walk(D, q) \in Entry /\ Walk(D, q).file_name = m
  BY <1>1, <1>2, LastIs
<1>4. p # q /\ StartOf(D, p) # StartOf(D, q)
  <2> HIDE DEF p, m
  <2>1. p # q
    BY <1>3, Appends
  <2> QED BY <1>1, <1>3, <2>1 DEF Good, Sorted
<1>5. /\ Typed(G) /\ G.clusters = D.clusters /\ G.created = D.created
      /\ DOMAIN G.objects = DOMAIN D.objects
      /\ \A u \in DOMAIN D.objects :
           /\ G.objects[u].file_start = D.objects[u].file_start
           /\ G.objects[u].file_size = IF u = e.self THEN 1 ELSE D.objects[u].file_size
  BY <1>1, GrownIs DEF Good
<1>6. D.objects[e.parent].file_start = StartOf(D, p)
  BY <1>2 DEF Stands, Holds
<1>7. e.parent # e.self
  BY <1>1, <1>4, <1>6
<1> HIDE DEF G
<1>8. /\ SameBut(G, E, StartOf(D, p))
      /\ \A o \in DOMAIN G.objects : E.objects[o].file_size = G.objects[o].file_size
      /\ Resized(L, N, New(D, E, p), m, 1)
  <2>1. /\ DOMAIN D.objects \subseteq DOMAIN G.objects
        /\ G.clusters[StartOf(D, Front(q))] = Cluster(D, Front(q))
        /\ G.objects[e.parent].file_start = D.objects[e.parent].file_start
        /\ G.objects[e.parent].file_size = D.objects[e.parent].file_size
        /\ G.objects[e.self].file_start = D.objects[e.self].file_start
        /\ G.objects[e.self].file_size = 1
    BY <1>1, <1>5, <1>7 DEF Cluster
  <2>2. E = Change_Entry(G, e.parent, e.file_name, EntryOf(G, e))
    BY DEF Tell_Directory
  <2> HIDE DEF E
  <2>3. /\ SameBut(G, E, StartOf(D, Front(q)))
        /\ \A o \in DOMAIN G.objects : E.objects[o].file_size = G.objects[o].file_size
        /\ Resized(Cluster(D, Front(q)), Size(D, Front(q)), New(D, E, Front(q)), Last(q), 1)
    BY ONLY Good(D), Stands(D, q, e), <1>2, <1>5, <2>1, <2>2, ParentTold
  <2> QED BY <2>3
<1> HIDE DEF E
<1>9. /\ L \in Seq(Entry) /\ N \in Nat /\ N <= Len(L) /\ Listed(L, N)
      /\ Walk(D, q) = Lookup(L, N, m) /\ Len(L) \in Nat
  <2> HIDE DEF p, m
  <2>1. /\ L \in Seq(Entry) /\ N \in Nat /\ N <= Len(L)
        /\ Walk(D, Append(p, m)) = Lookup(L, N, m)
    BY ONLY Good(D), <1>3, DirectoryIs
  <2>2. Len(L) \in Nat
    BY <2>1
  <2>3. Listed(L, N)
    BY <1>3 DEF Good, Sorted
  <2> QED BY <1>3, <2>1, <2>2, <2>3
<1> DEFINE K == New(D, E, p)
<1> HIDE DEF p, m, L, N, K
<1>10. Edited(L, N, K, N, m) /\ Lookup(K, N, m) = c
  <2>1. Resized(L, N, K, m, 1)
    BY <1>8 DEF K
  <2>2. Listed(K, N) /\ Lookup(K, N, m) = Sized(Lookup(L, N, m), 1)
    BY ONLY <1>9, <2>1, ResizedLookup
  <2>3. PICK k \in 1 .. N : /\ L[k].file_name = m
                            /\ \A i \in 1 .. Len(L) : K[i] = IF i = k THEN Sized(L[k], 1) ELSE L[i]
    BY <2>1 DEF Resized
  <2>4. \A i \in 1 .. N : i \in 1 .. Len(L) /\ i <= i
    BY <1>9
  <2>5. \A i \in 1 .. N : L[i].file_name # m => K[i] = L[i]
    BY <2>3, <2>4
  <2>6. \A i \in 1 .. N : K[i].file_name # m => K[i] = L[i]
    <3>1. K[k].file_name = m
      BY <2>3, <2>4 DEF Sized
    <3> QED BY <2>3, <2>4, <3>1
  <2>7. Len(L) <= Len(K)
    BY <1>9, <2>1 DEF Resized
  <2>8. Edited(L, N, K, N, m)
    BY <2>2, <2>4, <2>5, <2>6, <2>7 DEF Edited
  <2> QED BY <1>9, <2>2, <2>8
<1>11. /\ c \in Node /\ Childless(c) /\ Childless(Walk(D, Append(p, m)))
       /\ c.file_start = StartOf(D, q) /\ c.file_attributes = "FILE"
  <2>1. Walk(D, q) \in Node
    BY <1>1, Nodes
  <2> QED BY <1>1, <1>3, <2>1 DEF Sized, Node, Childless, StartOf
<1>12. E.objects[RootObject].file_size = D.objects[RootObject].file_size
  <2>1. /\ <<>> \in Path /\ Exists(D, <<>>) /\ StartOf(D, <<>>) = 0
        /\ RootObject \in DOMAIN D.objects /\ D.objects[RootObject].file_start = 0
    BY RootIsThere DEF Good, Typed
  <2>2. StartOf(D, q) # 0
    BY <1>1, <1>2, <2>1 DEF Good, Sorted
  <2>3. RootObject # e.self
    BY <1>1, <2>1, <2>2
  <2> QED BY <1>5, <1>8, <2>1, <2>3
<1>13. \A s \in Start : s = StartOf(D, p) \/ E.clusters[s] = D.clusters[s]
  BY <1>5, <1>8 DEF SameBut
<1>14. Rewritten(D, E, p, m, c, N)
  <2>1. CASE p = <<>>
    <3>1. N = D.objects[RootObject].file_size
      BY <2>1, RootIsThere DEF Good, N
    <3> QED BY <1>3, <1>9, <1>10, <1>11, <1>12, <1>13, <2>1, <3>1 DEF Rewritten, K, L, N
  <2>2. CASE p # <<>>
    <3> DEFINE f == Front(p)
               x == Last(p)
    <3>1. /\ f \in Path /\ x \in Name /\ p = Append(f, x) /\ Exists(D, f) /\ IsDirectory(D, f)
          /\ Walk(D, p) \in Entry /\ Walk(D, p).file_name = x
          /\ \E i \in 1 .. Size(D, f) : Walk(D, p) = Cluster(D, f)[i]
      BY <1>3, <2>2, LastIs
    <3> HIDE DEF f, x
    <3>2. f # p
      BY <3>1, Appends
    <3>3. StartOf(D, f) # StartOf(D, p) /\ StartOf(D, f) \in Start
      BY <1>3, <3>1, <3>2, DirectoryIs DEF Good, Sorted
    <3>4. New(D, E, f) = Cluster(D, f)
      BY <1>13, <3>3 DEF New, Cluster
    <3>5. PICK k \in 1 .. Size(D, f) : Walk(D, p) = Cluster(D, f)[k]
      BY <3>1
    <3>6. Sized(Walk(D, p), N) = Walk(D, p)
      BY <3>1 DEF Sized, N, Size, Entry
    <3>7. Resized(Cluster(D, f), Size(D, f), New(D, E, f), x, N)
      BY <3>1, <3>4, <3>5, <3>6 DEF Resized
    <3> QED BY <1>3, <1>9, <1>10, <1>11, <1>12, <1>13, <2>2, <3>7 DEF Rewritten, K, L, N, f, x
  <2> QED BY <2>1, <2>2
<1>15. /\ Typed(E) /\ DOMAIN E.objects = DOMAIN D.objects /\ E.created = D.created
       /\ \A u \in DOMAIN D.objects :
            /\ E.objects[u].file_start = D.objects[u].file_start
            /\ E.objects[u].file_size = IF u = e.self THEN 1 ELSE D.objects[u].file_size
  BY <1>5, <1>8 DEF SameBut
<1>16. Fits(D, E, p, m, c)
  <2>1. D.created \in Nat
    BY BoundAssumption DEF Good, Typed
  <2>2. StartOf(D, q) <= D.created /\ StartOf(D, p) < StartOf(D, q)
    BY <1>1, <1>3 DEF Good, Sorted
  <2>3. \A r \in Path : Exists(D, r) /\ StartOf(D, r) = c.file_start => r = q
    BY <1>1, <1>11 DEF Good, Sorted
  <2> QED BY <1>3, <1>11, <1>15, <2>1, <2>2, <2>3 DEF Fits
<1> HIDE DEF c
<1>17. Good(E)
  BY ONLY Good(D), <1>14, <1>15, <1>16, GoodRewritten
<1>18. ASSUME NEW r, NEW f, Stands(D, r, f), r # q  PROVE Stands(E, r, f)
  <2>1. \A o \in DOMAIN D.objects :
          /\ o \in DOMAIN E.objects /\ E.objects[o].file_start = D.objects[o].file_start
          /\ \/ E.objects[o].file_size = D.objects[o].file_size
             \/ D.objects[o].file_start = StartOf(D, p) /\ E.objects[o].file_size = N
             \/ Exists(D, Append(p, m)) /\ D.objects[o].file_start = StartOf(D, Append(p, m))
    BY <1>1, <1>3, <1>15
  <2>2. r = p => E.objects[f.self].file_size = N
    <3>1. SUFFICES ASSUME r = p  PROVE E.objects[f.self].file_size = N
      OBVIOUS
    <3>2. /\ f.self \in DOMAIN D.objects /\ D.objects[f.self].file_start = StartOf(D, p)
          /\ D.objects[f.self].file_size = N
      BY <1>18, <3>1 DEF Stands, N
    <3>3. f.self # e.self
      BY <1>1, <1>4, <3>2 DEF p
    <3> QED BY <1>15, <3>2, <3>3
  <2>3. r # Append(p, m)
    BY <1>3, <1>18
  <2> QED BY ONLY Good(D), <1>14, <1>18, <2>1, <2>2, <2>3, StandsRewritten
<1>19. Stands(E, q, e)
  <2>1. /\ Walk(E, q) = c
        /\ \A r \in Path : r # Append(p, m) =>
             /\ StartOf(E, r) = StartOf(D, r)
             /\ Size(E, r) = IF r = p THEN N ELSE Size(D, r)
             /\ Cluster(E, r) = New(D, E, r)
    <3>1. /\ Walk(E, Append(p, m)) = c
          /\ \A r \in Path : r # Append(p, m) =>
               /\ StartOf(E, r) = StartOf(D, r)
               /\ Size(E, r) = IF r = p THEN N ELSE Size(D, r)
               /\ Cluster(E, r) = New(D, E, r)
      BY ONLY Good(D), <1>14, AfterIs
    <3> QED BY <1>3, <3>1
  <2>2. /\ StartOf(E, p) = StartOf(D, p) /\ Size(E, p) = N /\ Cluster(E, p) = K
    BY <1>3, <1>4, <2>1 DEF N, K, p
  <2>3. /\ Exists(E, q) /\ Walk(E, q).file_attributes = e.file_attributes
        /\ StartOf(E, q) = StartOf(D, q) /\ Size(E, q) = 1
    <3>1. c.file_size = 1
      BY DEF c, Sized
    <3> QED BY <1>11, <2>1, <3>1 DEF Exists, StartOf, Size, c
  <2>4. Holds(E, q, e.parent)
    <3> DEFINE z == D.objects[e.parent].file_size
    <3>1. z <= Len(L) /\ \E i \in 1 .. z : i <= N /\ L[i].file_name = m
      BY <1>2 DEF Stands, Holds, L, N, p, m
    <3>2. Resized(L, N, K, m, 1)
      BY <1>8 DEF K
    <3>3. \A i \in 1 .. Len(L) : K[i].file_name = L[i].file_name
      BY ONLY <1>9, <3>2, ResizedLookup
    <3>4. z \in Nat
      BY <1>1 DEF Good, Typed, Object
    <3> HIDE DEF z
    <3>5. PICK i \in 1 .. z : i <= N /\ L[i].file_name = m
      BY <3>1
    <3>6. i \in 1 .. Len(L)
      BY <1>9, <3>1, <3>4
    <3>7. E.objects[e.parent].file_size = z /\ E.objects[e.parent].file_start = StartOf(E, p)
      BY <1>1, <1>6, <1>7, <1>15, <2>2 DEF z
    <3>8. Len(K) = Len(L)
      BY <3>2 DEF Resized
    <3> QED BY <2>2, <3>1, <3>3, <3>5, <3>6, <3>7, <3>8 DEF Holds, p, m
  <2> QED BY <1>1, <1>2, <1>15, <2>3, <2>4 DEF Stands
<1> QED BY <1>2, <1>14, <1>17, <1>18, <1>19 DEF E, G, p, m, N, c

(* The entries of paths and the working directory: a directory that is     *)
(* worked in is counted, and the root is always there.                     *)
Kind == [element : Element, cwd_count : Int, is_open : BOOLEAN]
Place == [path : Path, element : Element]
Holder(path, place) == IF path = place.path THEN 1 ELSE 0

SoundAt(D, table, place) ==
  /\ Good(D)
  /\ \A path \in DOMAIN table : Stands(D, path, table[path].element)
  /\ Stands(D, place.path, place.element)
Counted(table, place) ==
  /\ table \in [DOMAIN table -> Kind] /\ place \in Place
  /\ \A path \in DOMAIN table : path # <<>> => table[path].cwd_count >= Holder(path, place)
  /\ place.path # <<>> => place.path \in DOMAIN table
  /\ place.path \in DOMAIN table => table[place.path].element = place.element
  /\ place.element.file_attributes = "DIRECTORY"

(* The inductive invariant.                                                *)
IInv == SoundAt(Disk, handles, cwd) /\ Counted(handles, cwd)

(* SoundAt is Sound of the entries and the directory there are.            *)
LEMMA SoundIs == ASSUME NEW D PROVE Sound(D) <=> SoundAt(D, handles, cwd)
BY DEF Sound, SoundAt

(* Only the objects somebody keeps are left; nothing else changes.         *)
LEMMA BecomesIs ==
  ASSUME NEW D, NEW table, NEW place, SoundAt(D, table, place), Counted(table, place),
         Becomes(D, table, place)
  PROVE  IInv'
<1> DEFINE E == Disk'
           keep == Kept(table, place.element)
<1>1. /\ E = [clusters |-> D.clusters, created |-> D.created, objects |-> objects']
      /\ objects' = [o \in keep |-> D.objects[o]]
      /\ handles' = table /\ cwd' = place
  BY DEF Becomes, Disk
<1>2. /\ keep \subseteq DOMAIN D.objects /\ RootObject \in keep
      /\ \A path \in DOMAIN table : /\ table[path].element.self \in keep
                                    /\ table[path].element.parent \in keep
      /\ place.element.self \in keep /\ place.element.parent \in keep
  <2>1. RootObject \in DOMAIN D.objects
    BY DEF SoundAt, Good, Typed
  <2>2. \A path \in DOMAIN table : /\ table[path].element.self \in DOMAIN D.objects
                                   /\ table[path].element.parent \in DOMAIN D.objects
    BY DEF SoundAt, Stands
  <2>3. /\ place.element.self \in DOMAIN D.objects
        /\ place.element.parent \in DOMAIN D.objects
    BY DEF SoundAt, Stands
  <2> QED BY <2>1, <2>2, <2>3 DEF Kept
<1> HIDE DEF keep, E
<1>3. /\ E.clusters = D.clusters /\ E.created = D.created /\ DOMAIN E.objects = keep
      /\ \A o \in keep : E.objects[o] = D.objects[o]
      /\ E = [clusters |-> E.clusters, created |-> E.created, objects |-> E.objects]
      /\ E.objects = [o \in keep |-> D.objects[o]]
  BY <1>1
<1>4. Typed(D)
  BY DEF SoundAt, Good
<1>5. Typed(E)
  <2>1. IsFiniteSet(keep) /\ keep \subseteq Nat
    BY <1>2, <1>4, FS_Subset DEF Typed
  <2>2. E.objects \in [keep -> Object]
    BY <1>2, <1>3, <1>4 DEF Typed
  <2>3. E.objects[RootObject].file_start = 0
    BY <1>2, <1>3, <1>4 DEF Typed
  <2> QED BY <1>2, <1>3, <1>4, <2>1, <2>2, <2>3 DEF Typed
<1>6. SameTree(D, E)
  <2>1. D.created \in Nat
    BY <1>4, BoundAssumption DEF Typed
  <2> QED BY <1>2, <1>3, <2>1 DEF SameTree
<1>7. Good(E)
  BY <1>5, <1>6, GoodSame DEF SoundAt
<1>8. ASSUME NEW q, NEW e, Stands(D, q, e), e.self \in keep, e.parent \in keep
      PROVE  Stands(E, q, e)
  <2>1. \A o \in {e.self, e.parent} : /\ o \in DOMAIN E.objects
                                      /\ E.objects[o].file_start = D.objects[o].file_start
                                      /\ E.objects[o].file_size = D.objects[o].file_size
    BY <1>3, <1>8
  <2> QED BY ONLY <1>6, <1>8, <2>1, StandsSame
<1>9. SoundAt(E, table, place)
  BY <1>2, <1>7, <1>8 DEF SoundAt
<1>10. IInv' <=> SoundAt(E, handles', cwd') /\ Counted(handles', cwd')
  BY DEF IInv, E
<1> QED BY <1>1, <1>9, <1>10

(* A call that changes nothing.                                            *)
LEMMA RefusesIs ==
  ASSUME IInv, UNCHANGED <<clusters, created, objects, handles, cwd>>
  PROVE  IInv'
<1>1. Disk' = Disk
  BY DEF Disk
<1>2. IInv' <=> SoundAt(Disk', handles', cwd') /\ Counted(handles', cwd')
  BY DEF IInv
<1> QED BY <1>1, <1>2 DEF IInv

(* The position in an object means nothing to the tree.                    *)
LEMMA MovedIs ==
  ASSUME IInv, NEW o \in DOMAIN objects, NEW n \in Nat,
         objects' = [objects EXCEPT ![o].file_position = n],
         UNCHANGED <<clusters, created, handles, cwd>>
  PROVE  IInv'
<1> DEFINE D == Disk
           E == Disk'
<1>1. /\ D.clusters = clusters /\ D.created = created /\ D.objects = objects
      /\ E = [clusters |-> clusters, created |-> created, objects |-> objects']
  BY DEF Disk
<1>2. Good(D) /\ Typed(D) /\ objects \in [DOMAIN objects -> Object]
  BY <1>1 DEF IInv, SoundAt, Good, Typed
<1>3. \A u \in DOMAIN objects : /\ objects'[u] \in Object
                                /\ objects'[u].file_start = objects[u].file_start
                                /\ objects'[u].file_size = objects[u].file_size
  <2>1. SUFFICES ASSUME NEW u \in DOMAIN objects
                 PROVE  /\ objects'[u] \in Object
                        /\ objects'[u].file_start = objects[u].file_start
                        /\ objects'[u].file_size = objects[u].file_size
    OBVIOUS
  <2>2. objects[u] \in Object
    BY <1>2
  <2>3. objects'[u] = objects[u] \/ objects'[u] = [objects[u] EXCEPT !.file_position = n]
    BY <1>2
  <2> QED BY <2>2, <2>3 DEF Object
<1>4. DOMAIN objects' = DOMAIN objects /\ objects' \in [DOMAIN objects -> Object]
  <2>1. DOMAIN objects' = DOMAIN objects /\ objects' = [u \in DOMAIN objects |-> objects'[u]]
    BY <1>2
  <2> QED BY <1>3, <2>1
<1> HIDE DEF D, E
<1>5. /\ E.clusters = clusters /\ E.created = created /\ E.objects = objects'
      /\ E = [clusters |-> E.clusters, created |-> E.created, objects |-> E.objects]
  BY <1>1
<1>6. Typed(E)
  BY <1>1, <1>2, <1>3, <1>4, <1>5 DEF Typed
<1>7. SameTree(D, E)
  <2>1. created \in Nat /\ RootObject \in DOMAIN objects
    BY <1>1, <1>2, BoundAssumption DEF Typed
  <2> QED BY <1>1, <1>3, <1>5, <2>1 DEF SameTree
<1>8. Good(E)
  BY <1>2, <1>6, <1>7, GoodSame
<1>9. ASSUME NEW q, NEW e, Stands(D, q, e)  PROVE Stands(E, q, e)
  <2>1. \A u \in {e.self, e.parent} : /\ u \in DOMAIN E.objects
                                      /\ E.objects[u].file_start = D.objects[u].file_start
                                      /\ E.objects[u].file_size = D.objects[u].file_size
    BY <1>1, <1>3, <1>4, <1>5, <1>9 DEF Stands
  <2> QED BY ONLY <1>7, <1>9, <2>1, StandsSame
<1>10. SoundAt(E, handles, cwd)
  BY <1>8, <1>9 DEF IInv, SoundAt, D
<1>11. IInv' <=> SoundAt(E, handles', cwd') /\ Counted(handles', cwd')
  BY DEF IInv, E
<1> QED BY <1>10, <1>11 DEF IInv

-----------------------------------------------------------------------------
(* The entries of paths.                                                   *)
Same(table, other) ==
  /\ DOMAIN other = DOMAIN table
  /\ \A path \in DOMAIN table : other[path].element = table[path].element

(* The elements alone count: flags and numbers do not.                     *)
LEMMA SoundSame ==
  ASSUME NEW D, NEW table, NEW place, SoundAt(D, table, place), NEW other, Same(table, other)
  PROVE  SoundAt(D, other, place)
BY DEF SoundAt, Same

(* An entry that is opened or closed.                                      *)
LEMMA OpenFlag ==
  ASSUME NEW table, NEW place, Counted(table, place), NEW path \in DOMAIN table, NEW b \in BOOLEAN
  PROVE  LET other == [table EXCEPT ![path].is_open = b] IN
         Same(table, other) /\ Counted(other, place)
<1> DEFINE other == [table EXCEPT ![path].is_open = b]
<1>1. table \in [DOMAIN table -> Kind]
  BY DEF Counted
<1>2. ASSUME NEW x \in DOMAIN table
      PROVE  /\ other[x] \in Kind /\ other[x].element = table[x].element
             /\ other[x].cwd_count = table[x].cwd_count
  <2>1. table[x] \in Kind
    BY <1>1
  <2>2. other[x] = table[x] \/ other[x] = [table[x] EXCEPT !.is_open = b]
    BY <1>1
  <2> QED BY <2>1, <2>2 DEF Kind
<1>3. DOMAIN other = DOMAIN table /\ other = [x \in DOMAIN table |-> other[x]]
  BY <1>1
<1> HIDE DEF other
<1>4. other \in [DOMAIN other -> Kind]
  BY <1>2, <1>3
<1>5. Counted(other, place)
  BY <1>2, <1>3, <1>4 DEF Counted
<1>6. Same(table, other)
  BY <1>2, <1>3 DEF Same
<1> QED BY <1>5, <1>6 DEF other

(* An entry that is counted up or down.                                    *)
LEMMA CountIs ==
  ASSUME NEW table, table \in [DOMAIN table -> Kind], NEW path \in DOMAIN table, NEW n \in Int
  PROVE  LET other == [table EXCEPT ![path].cwd_count = @ + n] IN
         /\ Same(table, other) /\ other \in [DOMAIN other -> Kind]
         /\ \A x \in DOMAIN table :
              other[x].cwd_count = IF x = path THEN table[x].cwd_count + n ELSE table[x].cwd_count
<1> DEFINE other == [table EXCEPT ![path].cwd_count = @ + n]
<1>2. ASSUME NEW x \in DOMAIN table
      PROVE  /\ other[x] \in Kind /\ other[x].element = table[x].element
             /\ other[x].cwd_count = IF x = path THEN table[x].cwd_count + n
                                     ELSE table[x].cwd_count
  <2>1. table[x] \in Kind /\ table[x].cwd_count \in Int
    BY DEF Kind
  <2>2. CASE x = path
    <3>1. other[x] = [table[x] EXCEPT !.cwd_count = table[x].cwd_count + n]
      BY <2>2
    <3> QED BY <2>1, <2>2, <3>1 DEF Kind
  <2>3. CASE x # path
    <3>1. other[x] = table[x]
      BY <2>3
    <3> QED BY <2>1, <2>3, <3>1
  <2> QED BY <2>2, <2>3
<1>3. DOMAIN other = DOMAIN table /\ other = [x \in DOMAIN table |-> other[x]]
  OBVIOUS
<1> HIDE DEF other
<1>4. other \in [DOMAIN other -> Kind]
  BY <1>2, <1>3
<1>6. Same(table, other)
  BY <1>2, <1>3 DEF Same
<1> QED BY <1>2, <1>4, <1>6 DEF other

(* Try_Remove keeps what is counted.                                       *)
LEMMA SettledIs ==
  ASSUME NEW D, NEW table, NEW place, SoundAt(D, table, place), Counted(table, place),
         NEW path \in DOMAIN table
  PROVE  SoundAt(D, Settled(table, path), place) /\ Counted(Settled(table, path), place)
<1>1. CASE table[path].cwd_count <= 0 /\ ~table[path].is_open
  <2> DEFINE other == [x \in DOMAIN table \ {path} |-> table[x]]
  <2>1. Settled(table, path) = other
    BY <1>1 DEF Settled
  <2>2. /\ DOMAIN other = DOMAIN table \ {path}
        /\ \A x \in DOMAIN other : other[x] = table[x]
        /\ other \in [DOMAIN other -> Kind]
    BY DEF Counted
  <2>3. place.path # <<>> => place.path # path
    <3>1. table[path].cwd_count \in Int
      BY DEF Counted, Kind
    <3> QED BY <1>1, <3>1 DEF Counted, Holder
  <2> HIDE DEF other
  <2>4. SoundAt(D, other, place)
    BY <2>2 DEF SoundAt
  <2>5. Counted(other, place)
    BY <2>2, <2>3 DEF Counted
  <2> QED BY <2>1, <2>4, <2>5
<1>2. CASE ~(table[path].cwd_count <= 0 /\ ~table[path].is_open)
  BY <1>2 DEF Settled
<1> QED BY <1>1, <1>2

(* An entry more.                                                          *)
LEMMA AddedIs ==
  ASSUME NEW D, SoundAt(D, handles, cwd), Counted(handles, cwd), NEW path, NEW e,
         ~Registered(path), Stands(D, path, e), NEW n \in Int, NEW b \in BOOLEAN
  PROVE  LET table == Added(path, Handle(e, n, b)) IN
         /\ SoundAt(D, table, cwd) /\ table \in [DOMAIN table -> Kind]
         /\ DOMAIN table = DOMAIN handles \cup {path}
         /\ table[path].element = e /\ table[path].cwd_count = n
         /\ \A x \in DOMAIN handles : table[x] = handles[x]
         /\ (path = cwd.path => e = cwd.element) /\ (path # <<>> => path # cwd.path) /\ n >= 0 =>
              Counted(table, cwd)
<1> DEFINE h == Handle(e, n, b)
           table == Added(path, h)
<1>1. h \in Kind /\ h.element = e /\ h.cwd_count = n
  BY DEF Handle, Kind, Stands
<1>2. /\ DOMAIN table = DOMAIN handles \cup {path}
      /\ table = [x \in DOMAIN table |-> table[x]]
      /\ table[path] = h /\ \A x \in DOMAIN handles : table[x] = handles[x]
  BY DEF Added, Registered
<1> HIDE DEF table, h
<1>3. table \in [DOMAIN table -> Kind]
  <2>1. \A x \in DOMAIN table : table[x] \in Kind
    BY <1>1, <1>2 DEF Counted
  <2> QED BY <1>2, <2>1
<1>4. SoundAt(D, table, cwd)
  BY <1>1, <1>2 DEF SoundAt
<1>5. ASSUME path = cwd.path => e = cwd.element, path # <<>> => path # cwd.path, n >= 0
      PROVE  Counted(table, cwd)
  <2>1. \A x \in DOMAIN table : x # <<>> => table[x].cwd_count >= Holder(x, cwd)
    BY <1>1, <1>2, <1>5 DEF Counted, Holder
  <2>2. cwd.path \in DOMAIN table => table[cwd.path].element = cwd.element
    BY <1>1, <1>2, <1>5 DEF Counted
  <2> QED BY <1>2, <1>3, <2>1, <2>2 DEF Counted
<1> QED BY <1>1, <1>2, <1>3, <1>4, <1>5 DEF table, h

(* The working directory changes: the new one is counted, the old one was. *)
LEMMA LeftIs ==
  ASSUME NEW D, NEW table, SoundAt(D, table, cwd), Counted(handles, cwd),
         table \in [DOMAIN table -> Kind],
         NEW path \in DOMAIN table, NEW e, e = table[path].element, e.file_attributes = "DIRECTORY",
         \A x \in DOMAIN table : x # <<>> =>
           table[x].cwd_count >= Holder(x, cwd) + IF x = path THEN 1 ELSE 0,
         cwd.path # <<>> => cwd.path \in DOMAIN table
  PROVE  LET place == [path |-> path, element |-> e] IN
         SoundAt(D, Left(table), place) /\ Counted(Left(table), place)
<1> DEFINE place == [path |-> path, element |-> e]
<1>1. Stands(D, path, e) /\ place.path = path /\ place.element = e
  BY DEF SoundAt
<1>2. place \in Place /\ SoundAt(D, table, place)
  BY <1>1 DEF Place, Stands, SoundAt
<1> HIDE DEF place
<1>3. CASE cwd.path \in DOMAIN table
  <2> DEFINE other == [table EXCEPT ![cwd.path].cwd_count = @ - 1]
  <2>1. Left(table) = Settled(other, cwd.path)
    BY <1>3 DEF Left
  <2>2. /\ Same(table, other) /\ other \in [DOMAIN other -> Kind]
        /\ \A x \in DOMAIN table : other[x].cwd_count =
             IF x = cwd.path THEN table[x].cwd_count - 1 ELSE table[x].cwd_count
    <3> DEFINE c == cwd.path
               one == [table EXCEPT ![c].cwd_count = @ + (-1)]
    <3>1. c \in DOMAIN table /\ -1 \in Int
      BY <1>3
    <3>2. other = one
      <4>1. table[c].cwd_count \in Int
        BY <3>1 DEF Kind
      <4>2. table[c].cwd_count - 1 = table[c].cwd_count + (-1)
        BY <4>1
      <4> QED BY <4>2
    <3> HIDE DEF c
    <3>3. /\ Same(table, one) /\ one \in [DOMAIN one -> Kind]
          /\ \A x \in DOMAIN table : one[x].cwd_count =
               IF x = c THEN table[x].cwd_count + (-1) ELSE table[x].cwd_count
      <4> DEFINE k == -1
      <4>1. k \in Int
        BY <3>1
      <4> HIDE DEF k
      <4>2. /\ Same(table, [table EXCEPT ![c].cwd_count = @ + k])
            /\ [table EXCEPT ![c].cwd_count = @ + k]
                 \in [DOMAIN [table EXCEPT ![c].cwd_count = @ + k] -> Kind]
            /\ \A x \in DOMAIN table : [table EXCEPT ![c].cwd_count = @ + k][x].cwd_count =
               IF x = c THEN table[x].cwd_count + k ELSE table[x].cwd_count
        BY ONLY table \in [DOMAIN table -> Kind], <3>1, <4>1, CountIs
      <4> QED BY <4>2 DEF k
    <3>4. \A x \in DOMAIN table : table[x].cwd_count \in Int
      BY DEF Kind
    <3> HIDE DEF other, one
    <3> QED BY <3>2, <3>3, <3>4 DEF c
  <2> HIDE DEF other
  <2>3. SoundAt(D, other, place)
    BY <1>2, <2>2, SoundSame
  <2>4. \A x \in DOMAIN table : x # <<>> => other[x].cwd_count >= Holder(x, place)
    <3>1. SUFFICES ASSUME NEW x \in DOMAIN table, x # <<>>
                   PROVE  other[x].cwd_count >= Holder(x, place)
      OBVIOUS
    <3>2. table[x].cwd_count \in Int
      BY DEF Kind
    <3>3. Holder(x, cwd) = (IF x = cwd.path THEN 1 ELSE 0)
          /\ Holder(x, place) = (IF x = path THEN 1 ELSE 0)
      BY <1>1 DEF Holder
    <3> QED BY <2>2, <3>1, <3>2, <3>3
  <2>5. Counted(other, place)
    BY <1>1, <1>2, <2>2, <2>4 DEF Counted, Same
  <2>6. cwd.path \in DOMAIN other
    BY <1>3, <2>2 DEF Same
  <2> QED BY <2>1, <2>3, <2>5, <2>6, SettledIs DEF place
<1>4. CASE cwd.path \notin DOMAIN table
  <2>1. Left(table) = table
    BY <1>4 DEF Left
  <2>2. \A x \in DOMAIN table : x # <<>> => table[x].cwd_count >= Holder(x, place)
    <3>1. SUFFICES ASSUME NEW x \in DOMAIN table, x # <<>>
                   PROVE  table[x].cwd_count >= Holder(x, place)
      OBVIOUS
    <3>2. table[x].cwd_count \in Int
      BY DEF Kind
    <3>3. Holder(x, cwd) = 0 /\ Holder(x, place) = (IF x = path THEN 1 ELSE 0)
      BY <1>1, <1>4 DEF Holder
    <3> QED BY <3>1, <3>2, <3>3
  <2>3. Counted(table, place)
    BY <1>1, <1>2, <2>2 DEF Counted
  <2> QED BY <1>2, <2>1, <2>3 DEF place
<1> QED BY <1>3, <1>4

(* A change in the directory a call works in, of a path nobody uses.       *)
LEMMA ChangeKeeps ==
  ASSUME NEW D, SoundAt(D, handles, cwd), Counted(handles, cwd), NEW p \in Path, NEW d, NEW m \in Name,
         NEW c, NEW n, NEW E, Changes(D, E, p, d, m, c, n), ~Registered(Append(p, m)),
         p = cwd.path => d = cwd.element, Registered(p) => d = handles[p].element
  PROVE  SoundAt(E, handles, cwd)
<1>1. Append(p, m) # <<>>
  BY Appends
<1>2. cwd.path # Append(p, m)
  BY <1>1 DEF Counted, Registered
<1>3. Good(E) /\ \A q, e : Stands(D, q, e) /\ q # Append(p, m) /\ (q = p => e.self = d.self) =>
                    Stands(E, q, e)
  BY DEF Changes
<1>4. Stands(E, cwd.path, cwd.element)
  BY <1>2, <1>3 DEF SoundAt
<1>5. ASSUME NEW path \in DOMAIN handles  PROVE Stands(E, path, handles[path].element)
  <2>1. path # Append(p, m)
    BY <1>5 DEF Registered
  <2> QED BY <1>3, <1>5, <2>1 DEF SoundAt, Registered
<1> QED BY <1>3, <1>4, <1>5 DEF SoundAt

(* What a call that changes a directory starts from.                       *)
Begun(D, at, q) ==
  /\ at.path = q /\ SoundAt(at.disk, handles, cwd) /\ SameTree(D, at.disk)
  /\ Front(q) \in Path /\ Last(q) \in Name /\ q = Append(Front(q), Last(q))
  /\ Get_Filename(q) = Last(q)
  /\ Stands(at.disk, Front(q), at.directory) /\ IsDirectory(at.disk, Front(q))
  /\ Front(q) = cwd.path => at.directory = cwd.element
  /\ Registered(Front(q)) => at.directory = handles[Front(q)].element

(* Located gives a call such a beginning.                                  *)
LEMMA BeginsIs ==
  ASSUME ~Mixed, NEW D, SoundAt(D, handles, cwd), Counted(handles, cwd), NEW raw \in Raw, MayUse(raw),
         Located(D, raw).valid, Get_Filename_Type(raw) \notin {"INVALID", "CURRENT"},
         FilePath(raw) # <<>>
  PROVE  Begun(D, Located(D, raw), FilePath(raw))
<1> DEFINE at == Located(D, raw)
           q == FilePath(raw)
<1>1. Sound(D)
  BY SoundIs
<1>2. /\ at.path = q /\ q \in Path /\ Keeps(D, at.disk)
      /\ q # <<>> => /\ Stands(at.disk, Front(q), at.directory)
                     /\ IsDirectory(at.disk, Front(q))
                     /\ Front(q) = cwd.path => at.directory = cwd.element
                     /\ Registered(Front(q)) => at.directory = handles[Front(q)].element
  BY <1>1, LocatedIs DEF Counted
<1>3. SoundAt(at.disk, handles, cwd)
  BY <1>1, <1>2, SoundKeeps, SoundIs
<1> HIDE DEF at, q
<1>4. q # <<>>
  BY DEF q
<1>5. /\ Front(q) \in Path /\ Last(q) \in Name /\ q = Append(Front(q), Last(q))
      /\ Get_Filename(q) = Last(q)
  BY <1>2, <1>4, FrontIs
<1>6. Begun(D, at, q)
  BY <1>2, <1>3, <1>4, <1>5 DEF Begun, Keeps
<1> QED BY <1>6 DEF at, q

(* What is found there is what the path leads to.                          *)
LEMMA FoundIs ==
  ASSUME NEW D, NEW at, NEW q, Begun(D, at, q)
  PROVE  LET list == Read_All_Entries(at.disk, at.directory.self)
             name == Get_Filename(at.path)
         IN /\ name = Last(q) /\ q \in Path /\ q # <<>>
            /\ Walk(at.disk, q) = Walk(D, q)
            /\ Found(list, name) <=> Exists(at.disk, q)
            /\ Found(list, name) <=> Exists(D, q)
            /\ Found(list, name) => /\ list[Index(list, name)] = Walk(at.disk, q)
                                    /\ Walk(at.disk, q) \in Entry
<1> DEFINE F == at.disk
           list == Read_All_Entries(F, at.directory.self)
           p == Front(q)
           m == Last(q)
<1>1. /\ at.path = q /\ Good(F) /\ SameTree(D, F) /\ p \in Path /\ m \in Name /\ q = Append(p, m)
      /\ Get_Filename(q) = m /\ Stands(F, p, at.directory) /\ IsDirectory(F, p)
  BY DEF Begun, SoundAt
<1> HIDE DEF p, m
<1>2. q \in Path /\ q # <<>>
  BY <1>1, Appends
<1>3. Walk(F, q) = Walk(D, q)
  BY ONLY <1>1, <1>2, WalkSame
<1>4. /\ Found(list, m) <=> Exists(F, Append(p, m))
      /\ Found(list, m) => /\ Index(list, m) \in 1 .. Len(list)
                           /\ list[Index(list, m)] = Walk(F, Append(p, m))
      /\ list \in Seq(Entry)
  <2> DEFINE d == at.directory
             G == F
  <2> HIDE DEF d, G
  <2>1. Good(G) /\ Stands(G, p, d) /\ IsDirectory(G, p) /\ m \in Name
    BY <1>1 DEF G, d
  <2>2. /\ Read_All_Entries(G, d.self) \in Seq(Entry)
        /\ \A x \in Name :
             /\ Found(Read_All_Entries(G, d.self), x) <=> Exists(G, Append(p, x))
             /\ Found(Read_All_Entries(G, d.self), x) =>
                  /\ Index(Read_All_Entries(G, d.self), x) \in 1 .. Len(Read_All_Entries(G, d.self))
                  /\ Read_All_Entries(G, d.self)[Index(Read_All_Entries(G, d.self), x)]
                       = Walk(G, Append(p, x))
    BY ONLY <2>1, OwnList
  <2> QED BY <2>1, <2>2 DEF G, d
<1> HIDE DEF list, F
<1>5. Found(list, m) => Walk(F, q) \in Entry
  BY <1>1, <1>4
<1> QED BY <1>1, <1>2, <1>3, <1>4, <1>5 DEF Exists, list, F, m

-----------------------------------------------------------------------------
(* delete_file: what stands stands on, and the path leads nowhere then.    *)
LEMMA DeletedIs ==
  ASSUME ~Mixed, IInv, NEW raw \in Raw, MayUse(raw)
  PROVE  /\ SoundAt(Deleted(raw).disk, handles, cwd)
         /\ Deleted(raw).result \notin DOMAIN Refusal /\ raw # <<>>
              /\ Located(Deleted(raw).disk, raw).valid =>
              /\ FilePath(raw) # <<>> /\ ~Registered(FilePath(raw))
              /\ ~Exists(Deleted(raw).disk, FilePath(raw))
              /\ Get_Filename_Type(raw) \notin {"INVALID", "CURRENT"}
<1> DEFINE q == FilePath(raw)
           at == Located(Disk, raw)
           type == Get_Filename_Type(raw)
<1>1. /\ SoundAt(Disk, handles, cwd) /\ Counted(handles, cwd) /\ cwd.path \in Path
  BY DEF IInv, SoundAt, Stands
<1>2. q \in Path /\ (type = "INVALID" <=> raw = <<>>)
  BY <1>1, FilePathIs
<1>3. "CANT_REMOVE" \in DOMAIN Refusal /\ "FILE_OPENED" \in DOMAIN Refusal
      /\ "NOT_EMPTY" \in DOMAIN Refusal
  BY DEF Refusal
<1> HIDE DEF q, at, type
<1>4. CASE type = "CURRENT"
  <2>1. Deleted(raw).disk = Disk /\ Deleted(raw).result = "CANT_REMOVE"
    BY <1>4 DEF Deleted, type
  <2> QED BY <1>1, <1>3, <2>1
<1>5. CASE type # "CURRENT" /\ (type = "INVALID" \/ ~at.valid)
  <2>1. Deleted(raw).disk = Disk
    BY <1>5 DEF Deleted, type, at
  <2>2. raw = <<>> \/ ~Located(Disk, raw).valid
    BY <1>2, <1>5 DEF at
  <2> QED BY <1>1, <2>1, <2>2
<1>6. CASE type # "CURRENT" /\ type # "INVALID" /\ at.valid
  <2>1. Deleted(raw) = DeletedIn(at)
    BY <1>6 DEF Deleted, type, at
  <2>2. at.path = q
    BY DEF Located, at, q
  <2>3. CASE q = <<>>
    <3>1. Deleted(raw).disk = Disk /\ Deleted(raw).result = "CANT_REMOVE"
      BY <2>1, <2>2, <2>3 DEF DeletedIn
    <3> QED BY <1>1, <1>3, <3>1
  <2>4. CASE q # <<>> /\ Registered(q)
    <3>1. Deleted(raw).disk = Disk /\ Deleted(raw).result = "FILE_OPENED"
      BY <2>1, <2>2, <2>4 DEF DeletedIn
    <3> QED BY <1>1, <1>3, <3>1
  <2>5. CASE q # <<>> /\ ~Registered(q)
    <3> DEFINE F == at.disk
               list == Read_All_Entries(F, at.directory.self)
               m == Get_Filename(at.path)
               p == Front(q)
    <3>1. Begun(Disk, at, q)
      BY <1>1, <1>6, <2>5, BeginsIs DEF at, q, type
    <3>2. /\ m = Last(q) /\ Walk(F, q) = Walk(Disk, q)
          /\ Found(list, m) <=> Exists(F, q)
          /\ Found(list, m) <=> Exists(Disk, q)
          /\ Found(list, m) => list[Index(list, m)] = Walk(F, q) /\ Walk(F, q) \in Entry
      BY ONLY <3>1, FoundIs
    <3> HIDE DEF list, m, F
    <3>3. CASE ~Found(list, m)
      <4>1. Deleted(raw).disk = Disk
        BY <2>1, <2>2, <2>5, <3>3 DEF DeletedIn, list, m, F
      <4> QED BY <1>1, <1>6, <2>5, <3>2, <3>3, <4>1 DEF q, type
    <3>4. CASE Found(list, m) /\ ~MayRemove(list[Index(list, m)])
      <4>1. Deleted(raw).disk = Disk /\ Deleted(raw).result = "NOT_EMPTY"
        BY <2>1, <2>2, <2>5, <3>4 DEF DeletedIn, list, m, F
      <4> QED BY <1>1, <1>3, <4>1
    <3>5. CASE Found(list, m) /\ MayRemove(list[Index(list, m)])
      <4> DEFINE d == at.directory
                 E == Remove_Entry(F, d, m)
      <4>1. Deleted(raw).disk = E
        BY <2>1, <2>2, <2>5, <3>5 DEF DeletedIn, list, m, F
      <4>2. /\ Good(F) /\ SoundAt(F, handles, cwd) /\ p \in Path /\ m \in Name /\ q = Append(p, m)
            /\ Stands(F, p, d) /\ IsDirectory(F, p)
            /\ p = cwd.path => d = cwd.element
            /\ Registered(p) => d = handles[p].element
        BY <3>1, <3>2 DEF Begun, SoundAt, F
      <4> HIDE DEF p, d, E
      <4>3. Exists(F, Append(p, m)) /\ Childless(Walk(F, Append(p, m)))
        BY <3>2, <3>5, <4>2 DEF MayRemove, Childless
      <4>4. Changes(F, E, p, d, m, NoEntry, Size(F, p) - 1)
        BY ONLY <4>2, <4>3, RemoveIs DEF E
      <4>5. ~Registered(Append(p, m))
        BY <2>5, <4>2
      <4>6. SoundAt(E, handles, cwd)
        BY ONLY <1>1, <4>2, <4>4, <4>5, ChangeKeeps
      <4>7. ~Exists(E, q)
        <5> DEFINE none == NoEntry
                   k == Size(F, p) - 1
        <5>1. Rewritten(F, E, p, m, none, k)
          BY <4>4 DEF Changes
        <5> HIDE DEF none, k
        <5>2. Walk(E, Append(p, m)) = none
          BY ONLY <4>2, <5>1, AfterIs
        <5> QED BY <4>2, <5>2, NoEntryIsNone DEF Exists, none
      <4> QED BY <1>6, <2>5, <4>1, <4>6, <4>7 DEF q, type
    <3> QED BY <3>3, <3>4, <3>5
  <2> QED BY <2>3, <2>4, <2>5
<1> QED BY <1>4, <1>5, <1>6

(* The step Delete keeps the invariant.                                    *)
LEMMA DeleteStep ==
  ASSUME ~Mixed, IInv, NEW raw \in Raw, Delete(raw)
  PROVE  IInv'
<1>1. MayUse(raw) /\ Becomes(Deleted(raw).disk, handles, cwd)
  BY DEF Delete
<1>2. SoundAt(Deleted(raw).disk, handles, cwd)
  BY <1>1, DeletedIs
<1> QED BY <1>1, <1>2, BecomesIs DEF IInv

(* What a file that is created makes of the disk: an entry more in its     *)
(* directory.                                                              *)
Gains(D, E, q, attributes) ==
  \E F, c, n : /\ Good(F) /\ SameTree(D, F) /\ Rewritten(F, E, Front(q), Last(q), c, n)
               /\ c.file_attributes = attributes

(* create_file_using_parent: nothing for attributes nobody can have, else  *)
(* an entry more, and the element is open.                                 *)
LEMMA CreateInIs ==
  ASSUME ~Mixed, NEW D, SoundAt(D, handles, cwd), Counted(handles, cwd), NEW at, NEW q,
         Begun(D, at, q), ~Registered(q), ~Exists(D, q), NEW attributes \in Attributes,
         CreateIn(at, attributes)
  PROVE  \/ /\ attributes = "INVALID" /\ Becomes(at.disk, handles, cwd)
            /\ Says("create", q, attributes, "INVALID_FILE_TYPE")
         \/ /\ attributes # "INVALID" /\ Says("create", q, attributes, "OK")
            /\ \E E, e : /\ Becomes(E, Added(q, Handle(e, 0, TRUE)), cwd)
                         /\ SoundAt(E, Added(q, Handle(e, 0, TRUE)), cwd)
                         /\ Counted(Added(q, Handle(e, 0, TRUE)), cwd)
                         /\ Gains(D, E, q, attributes)
<1> DEFINE F == at.disk
           d == at.directory
           p == Front(q)
           m == Get_Filename(at.path)
           self == Fresh(F, 0)
           start == F.created + 1
           entry == [file_attributes |-> attributes, file_name |-> m, file_start |-> start,
                     file_size |-> 0]
           G == With(F, self, entry)
           made == [G EXCEPT !.created = start]
           list == Read_All_Entries(F, d.self)
<1>1. /\ at.path = q /\ SoundAt(F, handles, cwd) /\ Good(F) /\ p \in Path /\ Last(q) \in Name
      /\ q = Append(p, Last(q)) /\ m = Last(q)
      /\ Stands(F, p, d) /\ IsDirectory(F, p)
      /\ p = cwd.path => d = cwd.element
      /\ Registered(p) => d = handles[p].element
  BY DEF Begun, SoundAt
<1>2. /\ ~Found(list, m) /\ ~Exists(F, q) /\ q \in Path /\ q # <<>>
  BY ONLY Begun(D, at, q), ~Exists(D, q), FoundIs
<1>3. CASE attributes = "INVALID"
  <2>1. Becomes(F, handles, cwd) /\ Says("create", q, attributes, "INVALID_FILE_TYPE")
    BY <1>1, <1>3 DEF CreateIn
  <2> QED BY <1>3, <2>1
<1>4. CASE attributes # "INVALID"
  <2> DEFINE E == Create_New_Entry(made, d, entry)
             e == Make(d.self, entry, self)
             table == Added(q, Handle(e, 0, TRUE))
  <2>1. start <= MaxFiles /\ Becomes(E, table, cwd) /\ Says("create", q, attributes, "OK")
    BY <1>1, <1>2, <1>4 DEF CreateIn
  <2>2. F.created \in Nat /\ start \in Nat /\ start \in Start /\ Typed(F)
    BY <1>1, <2>1, BoundAssumption DEF Good, Typed, Start
  <2>3. /\ self \in Nat \ DOMAIN F.objects
    BY <1>1, FreshIs DEF Good
  <2>4. /\ entry \in Entry /\ entry.file_name = m /\ entry.file_size = 0
        /\ entry.file_start = start /\ entry.file_attributes = attributes
    BY <1>1, <1>4, <2>2 DEF Entry, Valid
  <2> HIDE DEF F, d, p, m, self, start, entry, list
  <2>5. /\ Good(G) /\ SameTree(F, G) /\ \A r, f : Stands(F, r, f) => Stands(G, r, f)
        /\ IsWith(G, F, self, entry)
    <3>1. entry \in Node
      BY <2>4, EntriesAreNodes
    <3>2. IsWith(G, F, self, entry)
      BY <2>2, WithIs
    <3> HIDE DEF G
    <3>3. /\ Good(G) /\ SameTree(F, G) /\ \A r, f : Stands(F, r, f) => Stands(G, r, f)
      BY ONLY <1>1, <2>3, <3>1, NewObject DEF G
    <3> QED BY <3>2, <3>3
  <2> HIDE DEF G
  <2>6. /\ made = [clusters |-> F.clusters, created |-> start, objects |-> G.objects]
        /\ DOMAIN G.objects = DOMAIN F.objects \cup {self}
        /\ G.objects[self] = [file_start |-> entry.file_start, file_size |-> entry.file_size,
                              file_position |-> 0]
        /\ G.clusters = F.clusters /\ G.created = F.created
    BY <2>5 DEF IsWith
  <2>7. made.clusters = G.clusters /\ made.created = start /\ made.objects = G.objects
        /\ made = [clusters |-> made.clusters, created |-> made.created, objects |-> made.objects]
    BY <2>6
  <2> HIDE DEF made
  <2>8. Typed(made)
    <3>1. start \in 0 .. MaxFiles
      BY <2>1, <2>2
    <3>2. Typed(G)
      BY <2>5 DEF Good
    <3> QED BY <2>7, <3>1, <3>2 DEF Typed
  <2>9. SameTree(G, made)
    <3>1. G.created <= made.created
      BY <2>2, <2>6, <2>7 DEF start
    <3>2. \A o \in DOMAIN G.objects : made.objects[o] = G.objects[o]
      BY <2>7
    <3>3. RootObject \in DOMAIN G.objects
      BY <2>5 DEF Good, Typed
    <3> QED BY <2>7, <3>1, <3>2, <3>3 DEF SameTree
  <2>10. Good(made)
    BY ONLY <2>5, <2>8, <2>9, GoodSame
  <2>11. \A r, f : Stands(F, r, f) => Stands(made, r, f)
    <3>1. SUFFICES ASSUME NEW r, NEW f, Stands(G, r, f)  PROVE Stands(made, r, f)
      BY <2>5
    <3>2. \A o \in {f.self, f.parent} : /\ o \in DOMAIN made.objects
                                        /\ made.objects[o].file_start = G.objects[o].file_start
                                        /\ made.objects[o].file_size = G.objects[o].file_size
      BY <2>7, <3>1 DEF Stands
    <3> QED BY ONLY <2>9, <3>1, <3>2, StandsSame
  <2>12. \A r \in Path : Walk(made, r) = Walk(F, r)
    <3>1. \A r \in Path : Walk(G, r) = Walk(F, r)
      BY ONLY <2>5, WalkSame
    <3>2. \A r \in Path : Walk(made, r) = Walk(G, r)
      BY ONLY <2>9, WalkSame
    <3> QED BY <3>1, <3>2
  <2>13. SoundAt(made, handles, cwd)
    BY <1>1, <2>10, <2>11 DEF SoundAt
  <2>14. Stands(made, p, d) /\ IsDirectory(made, p) /\ ~Exists(made, Append(p, m)) /\ m \in Name
         /\ q = Append(p, m)
    <3>1. m \in Name /\ q = Append(p, m)
      BY <1>1
    <3> QED BY <1>1, <1>2, <2>11, <2>12, <3>1 DEF IsDirectory, Exists
  <2>15. \A r \in Path : Exists(made, r) => StartOf(made, r) < entry.file_start
    <3>1. SUFFICES ASSUME NEW r \in Path, Exists(made, r)  PROVE StartOf(made, r) < start
      BY <2>4
    <3>2. Exists(F, r) /\ StartOf(made, r) = StartOf(F, r)
      BY <2>12, <3>1 DEF Exists, StartOf
    <3>3. StartOf(F, r) <= F.created /\ StartOf(F, r) \in Nat
      BY <1>1, <3>2, StartsAreNumbers DEF Good, Sorted
    <3> QED BY <2>2, <3>2, <3>3 DEF start
  <2>16. /\ entry.file_start <= made.created /\ self \in DOMAIN made.objects
         /\ made.objects[self].file_start = entry.file_start /\ made.objects[self].file_size = 0
    BY <2>2, <2>4, <2>6, <2>7
  <2>17. Changes(made, E, p, d, m, entry, Size(made, p) + 1) /\ Stands(E, q, e)
    <3>1. /\ Changes(made, E, p, d, m, entry, Size(made, p) + 1)
          /\ Stands(E, Append(p, m), e)
      BY ONLY <2>4, <2>10, <2>14, <2>15, <2>16, CreateIs
    <3> QED BY <2>14, <3>1
  <2> HIDE DEF E, e
  <2>18. SoundAt(E, handles, cwd)
    <3>1. /\ p \in Path /\ ~Registered(Append(p, m))
          /\ p = cwd.path => d = cwd.element
          /\ Registered(p) => d = handles[p].element
      BY <1>1, <2>14
    <3> DEFINE n == Size(made, p) + 1
    <3>2. Changes(made, E, p, d, m, entry, n)
      BY <2>17
    <3> HIDE DEF n
    <3> QED BY ONLY Counted(handles, cwd), <2>13, <2>14, <3>1, <3>2, ChangeKeeps
  <2>19. q # cwd.path
    BY <1>2 DEF Counted, Registered
  <2>20. SoundAt(E, table, cwd) /\ Counted(table, cwd)
    <3> DEFINE n == 0
               b == TRUE
               t == Added(q, Handle(e, n, b))
    <3>1. n \in Int /\ b \in BOOLEAN /\ n >= 0
      OBVIOUS
    <3> HIDE DEF n, b
    <3>2. /\ SoundAt(E, t, cwd)
          /\ (q = cwd.path => e = cwd.element) /\ (q # <<>> => q # cwd.path) /\ n >= 0 =>
               Counted(t, cwd)
      BY ONLY <2>18, Counted(handles, cwd), ~Registered(q), <2>17, <3>1, AddedIs
    <3> QED BY <2>19, <3>1, <3>2 DEF n, b
  <2>21. Gains(D, E, q, attributes)
    <3> DEFINE n == Size(made, p) + 1
    <3>1. Rewritten(made, E, p, m, entry, n)
      BY <2>17 DEF Changes
    <3>2. SameTree(D, made)
      <4>1. D.created \in Nat /\ F.created \in Nat /\ made.created \in Nat /\ G.created \in Nat
        BY <2>2, <2>6, <2>7, BoundAssumption DEF SoundAt, Good, Typed
      <4>2. SameTree(D, F)
        BY DEF Begun, F
      <4> QED BY <2>5, <2>9, <4>1, <4>2 DEF SameTree
    <3>3. p = Front(q) /\ m = Last(q)
      BY <1>1 DEF p
    <3> HIDE DEF n
    <3> QED BY <2>4, <2>10, <3>1, <3>2, <3>3 DEF Gains
  <2>22. /\ Becomes(E, Added(q, Handle(e, 0, TRUE)), cwd)
         /\ SoundAt(E, Added(q, Handle(e, 0, TRUE)), cwd)
         /\ Counted(Added(q, Handle(e, 0, TRUE)), cwd)
    BY <2>1, <2>20
  <2> HIDE DEF table
  <2> QED BY <1>4, <2>1, <2>21, <2>22
<1> QED BY <1>3, <1>4

(* create_file_using_parent keeps the invariant.                           *)
LEMMA CreateInStep ==
  ASSUME ~Mixed, NEW D, SoundAt(D, handles, cwd), Counted(handles, cwd), NEW at, NEW q,
         Begun(D, at, q), ~Registered(q), ~Exists(D, q), NEW attributes \in Attributes,
         CreateIn(at, attributes)
  PROVE  IInv'
<1>1. SoundAt(at.disk, handles, cwd)
  BY DEF Begun
<1>2. \/ Becomes(at.disk, handles, cwd)
      \/ \E E, e : /\ Becomes(E, Added(q, Handle(e, 0, TRUE)), cwd)
                   /\ SoundAt(E, Added(q, Handle(e, 0, TRUE)), cwd)
                   /\ Counted(Added(q, Handle(e, 0, TRUE)), cwd)
  BY CreateInIs
<1> QED BY <1>1, <1>2, BecomesIs

(* The step Create keeps the invariant.                                    *)
LEMMA CreateStep ==
  ASSUME ~Mixed, IInv, NEW raw \in Raw, NEW attributes \in Asked, Create(raw, attributes)
  PROVE  IInv'
<1> DEFINE after == Deleted(raw)
           D == after.disk
           at == Located(D, raw)
           q == FilePath(raw)
<1>1. MayUse(raw) /\ MayCreate(raw, attributes) /\
      IF after.result \in DOMAIN Refusal
      THEN Rejects("create", q, attributes, Refusal[after.result])
      ELSE IF raw = <<>> THEN Rejects("create", Nothing, attributes, "INVALID_FILENAME")
      ELSE IF at.valid THEN CreateIn(at, attributes)
      ELSE Rejects("create", at.path, attributes, "FILE_NOT_FOUND")
  BY DEF Create
<1>2. SoundAt(D, handles, cwd) /\ Counted(handles, cwd)
  BY <1>1, DeletedIs DEF IInv
<1>3. CASE after.result \notin DOMAIN Refusal /\ raw # <<>> /\ at.valid
  <2>1. /\ q # <<>> /\ ~Registered(q) /\ ~Exists(D, q)
        /\ Get_Filename_Type(raw) \notin {"INVALID", "CURRENT"}
    BY <1>1, <1>3, DeletedIs
  <2>2. CreateIn(at, attributes) /\ attributes \in Attributes
    BY <1>1, <1>3, AskedAssumption
  <2> HIDE DEF after, D, at
  <2>3. Begun(D, at, q)
    BY <1>1, <1>2, <1>3, <2>1, BeginsIs DEF at
  <2> QED BY <1>2, <2>1, <2>2, <2>3, CreateInStep
<1>4. CASE ~(after.result \notin DOMAIN Refusal /\ raw # <<>> /\ at.valid)
  <2> HIDE DEF after, at, q
  <2>1. UNCHANGED <<clusters, created, objects, handles, cwd>>
    BY <1>1, <1>4 DEF Refuses, Rejects
  <2> QED BY <2>1, RefusesIs
<1> QED BY <1>3, <1>4

(* An open element more, that stands on a disk which is kept.              *)
LEMMA NewEntry ==
  ASSUME NEW D, SoundAt(D, handles, cwd), Counted(handles, cwd), NEW q, NEW e, ~Registered(q),
         Stands(D, q, e), q = cwd.path => e = cwd.element, q # <<>> => q # cwd.path,
         NEW n \in Int, n >= 0, Becomes(D, Added(q, Handle(e, n, TRUE)), cwd)
  PROVE  IInv'
<1> DEFINE b == TRUE
           table == Added(q, Handle(e, n, b))
<1>1. b \in BOOLEAN
  OBVIOUS
<1>2. Becomes(D, table, cwd)
  OBVIOUS
<1> HIDE DEF b
<1>3. /\ SoundAt(D, table, cwd)
      /\ (q = cwd.path => e = cwd.element) /\ (q # <<>> => q # cwd.path) /\ n >= 0 =>
           Counted(table, cwd)
  BY ONLY SoundAt(D, handles, cwd), Counted(handles, cwd), ~Registered(q), Stands(D, q, e), n \in Int,
          <1>1, AddedIs
<1> HIDE DEF table
<1>4. Counted(table, cwd)
  BY <1>3
<1> QED BY ONLY <1>2, <1>3, <1>4, BecomesIs

(* open_file_using_parent keeps the invariant.                             *)
LEMMA OpenInStep ==
  ASSUME ~Mixed, NEW D, SoundAt(D, handles, cwd), Counted(handles, cwd), D = Disk, NEW at, NEW q,
         Begun(D, at, q), ~Registered(q), OpenIn(at)
  PROVE  IInv'
<1> DEFINE F == at.disk
           d == at.directory
           m == Get_Filename(at.path)
           list == Read_All_Entries(F, d.self)
           entry == list[Index(list, m)]
           self == Fresh(F, 0)
           e == Make(d.self, entry, self)
           E == With(F, self, entry)
<1>1. /\ at.path = q /\ SoundAt(F, handles, cwd) /\ Good(F) /\ Front(q) \in Path
      /\ Stands(F, Front(q), d) /\ IsDirectory(F, Front(q))
  BY DEF Begun, SoundAt
<1>2. /\ m = Last(q) /\ q \in Path /\ q # <<>> /\ Walk(F, q) = Walk(D, q)
      /\ Found(list, m) <=> Exists(F, q)
      /\ Found(list, m) => entry = Walk(F, q) /\ Walk(F, q) \in Entry
  BY ONLY Begun(D, at, q), FoundIs
<1>3. CASE ~Found(list, m)
  <2>1. UNCHANGED <<clusters, created, objects, handles, cwd>>
    BY <1>3 DEF OpenIn, Refuses, Rejects
  <2> QED BY <2>1, RefusesIs DEF IInv
<1>4. CASE Found(list, m)
  <2>1. Becomes(E, Added(q, Handle(e, 0, TRUE)), cwd)
    BY <1>1, <1>4 DEF OpenIn
  <2>2. self \in Nat \ DOMAIN F.objects
    BY <1>1, FreshIs DEF Good
  <2>3. entry = Walk(F, q) /\ entry \in Entry /\ entry \in Node /\ Exists(F, q)
    BY <1>2, <1>4, EntriesAreNodes
  <2>4. e = Make(d.self, entry, self) /\ e.self = self /\ e.parent = d.self
    BY DEF Make
  <2>5. Good(E) /\ SameTree(F, E) /\ \A r, f : Stands(F, r, f) => Stands(E, r, f)
    <3> HIDE DEF F, entry, self
    <3> QED BY ONLY <1>1, <2>2, <2>3, NewObject DEF E
  <2>6. IsWith(E, F, self, entry)
    <3>1. Typed(F)
      BY <1>1 DEF Good
    <3> HIDE DEF F, entry, self
    <3> QED BY ONLY <3>1, WithIs DEF E
  <2> HIDE DEF F, d, m, list, entry, self, e, E
  <2>7. \A r \in Path : Walk(E, r) = Walk(F, r)
    BY ONLY <2>5, WalkSame
  <2>8. d.self \in DOMAIN F.objects /\ F.objects[d.self].file_start = StartOf(F, Front(q))
        /\ F.objects[d.self].file_size = Size(F, Front(q))
    BY <1>1 DEF Stands
  <2>9. e.self \in DOMAIN E.objects /\ e.parent \in DOMAIN E.objects
    BY <2>4, <2>6, <2>8 DEF IsWith
  <2>10. E.objects[e.self].file_start = StartOf(E, q) /\ E.objects[e.self].file_size = Size(E, q)
    BY <1>2, <2>3, <2>4, <2>6, <2>7 DEF IsWith, StartOf, Size
  <2>11. E.objects[e.parent].file_start = StartOf(E, Front(q))
         /\ E.objects[e.parent].file_size = Size(E, Front(q))
    <3>1. d.self # self
      BY <2>2, <2>8
    <3>2. E.objects[d.self] = F.objects[d.self]
      BY <2>6, <2>8, <3>1 DEF IsWith
    <3> QED BY <1>1, <2>4, <2>7, <2>8, <3>2 DEF StartOf, Size
  <2>12. Exists(E, q) /\ e = Make(e.parent, Walk(E, q), e.self) /\ Good(E)
    BY <1>2, <2>3, <2>4, <2>5, <2>7 DEF Exists
  <2>13. Stands(E, q, e)
    BY ONLY <1>2, <2>9, <2>10, <2>11, <2>12, NewStands
  <2>14. SoundAt(E, handles, cwd)
    BY <1>1, <2>5 DEF SoundAt
  <2>15. q # cwd.path
    BY <1>2 DEF Counted, Registered
  <2>16. 0 \in Int /\ 0 >= 0
    OBVIOUS
  <2> QED BY <2>1, <2>13, <2>14, <2>15, <2>16, NewEntry
<1> QED BY <1>3, <1>4

(* The step Open keeps the invariant.                                      *)
LEMMA OpenStep ==
  ASSUME ~Mixed, IInv, NEW raw \in Raw, Open(raw)
  PROVE  IInv'
<1> DEFINE type == Get_Filename_Type(raw)
           q == FilePath(raw)
           at == Located(Disk, raw)
           D == Disk
<1>1. SoundAt(D, handles, cwd) /\ Counted(handles, cwd) /\ cwd.path \in Path
  BY DEF IInv, SoundAt, Stands
<1>2. /\ q \in Path
      /\ type = "CURRENT" => q = cwd.path
  BY <1>1, FilePathIs
<1>3. /\ MayUse(raw)
      /\ \/ Refuses("open", Nothing, "INVALID_FILENAME")
         \/ Registered(q) /\ Reopen(q)
         \/ type = "CURRENT" /\ ~Registered(q) /\ Register(q, cwd.element, 1)
         \/ /\ type \notin {"INVALID", "CURRENT"} /\ ~Registered(q)
            /\ \/ q = <<>> /\ Register(q, RootElement, 0)
               \/ q # <<>> /\ at.valid /\ OpenIn(at)
               \/ Refuses("open", q, "FILE_NOT_FOUND")
  BY Zenon DEF Open
<1> HIDE DEF q, type, at, D
<1>4. CASE Refuses("open", Nothing, "INVALID_FILENAME") \/ Refuses("open", q, "FILE_NOT_FOUND")
  <2>1. UNCHANGED <<clusters, created, objects, handles, cwd>>
    BY <1>4 DEF Refuses, Rejects
  <2> QED BY <2>1, RefusesIs
<1>5. CASE Registered(q) /\ Reopen(q)
  <2>1. CASE handles[q].is_open
    <3>1. UNCHANGED <<clusters, created, objects, handles, cwd>>
      BY <1>5, <2>1 DEF Reopen, Refuses, Rejects
    <3> QED BY <3>1, RefusesIs
  <2>2. CASE ~handles[q].is_open
    <3> DEFINE b == TRUE
               table == [handles EXCEPT ![q].is_open = b]
    <3>1. Becomes(D, table, cwd) /\ q \in DOMAIN handles /\ b \in BOOLEAN
      BY <1>5, <2>2 DEF Reopen, Registered, D
    <3> HIDE DEF b
    <3>2. Same(handles, table) /\ Counted(table, cwd)
      BY ONLY <1>1, <3>1, OpenFlag
    <3> HIDE DEF table
    <3>3. SoundAt(D, table, cwd)
      BY ONLY <1>1, <3>2, SoundSame
    <3> QED BY ONLY <3>1, <3>2, <3>3, BecomesIs
  <2> QED BY <2>1, <2>2
<1>6. CASE type = "CURRENT" /\ ~Registered(q) /\ Register(q, cwd.element, 1)
  <2>1. q = cwd.path /\ cwd.path = <<>>
    BY <1>1, <1>2, <1>6 DEF Counted, Registered
  <2>2. Becomes(D, Added(q, Handle(cwd.element, 1, TRUE)), cwd)
    BY <1>6 DEF Register, D
  <2>3. Stands(D, q, cwd.element) /\ 1 \in Int /\ 1 >= 0
    BY <1>1, <2>1 DEF SoundAt
  <2> QED BY <1>1, <1>6, <2>1, <2>2, <2>3, NewEntry
<1>7. CASE ~Registered(q) /\ q = <<>> /\ Register(q, RootElement, 0)
  <2>1. Becomes(D, Added(q, Handle(RootElement, 0, TRUE)), cwd)
    BY <1>7 DEF Register, D
  <2>2. Stands(D, q, RootElement) /\ 0 \in Int /\ 0 >= 0
    BY <1>1, <1>7, RootStands DEF SoundAt
  <2>3. q = cwd.path => RootElement = cwd.element
    BY <1>1, <1>7 DEF SoundAt, Stands
  <2> QED BY <1>1, <1>7, <2>1, <2>2, <2>3, NewEntry
<1>8. CASE /\ type \notin {"INVALID", "CURRENT"} /\ ~Registered(q)
           /\ q # <<>> /\ at.valid /\ OpenIn(at)
  <2>1. Begun(D, at, q)
    BY <1>1, <1>3, <1>8, BeginsIs DEF at, q, type, D
  <2> QED BY <1>1, <1>8, <2>1, OpenInStep DEF D
<1> QED BY <1>3, <1>4, <1>5, <1>6, <1>7, <1>8

(* The step Close keeps the invariant.                                     *)
LEMMA CloseStep ==
  ASSUME IInv, NEW path, Close(path)
  PROVE  IInv'
<1> DEFINE b == FALSE
           table == [handles EXCEPT ![path].is_open = b]
           D == Disk
           other == Settled(table, path)
<1>1. SoundAt(D, handles, cwd) /\ Counted(handles, cwd)
  BY DEF IInv
<1>2. path \in DOMAIN handles /\ b \in BOOLEAN /\ Becomes(D, other, cwd)
  BY DEF Close, Registered
<1> HIDE DEF b, D
<1>3. Same(handles, table) /\ Counted(table, cwd)
  BY ONLY <1>1, <1>2, OpenFlag
<1>4. path \in DOMAIN table
  BY <1>2, <1>3 DEF Same
<1> HIDE DEF table
<1>5. SoundAt(D, table, cwd)
  BY ONLY <1>1, <1>3, SoundSame
<1>6. SoundAt(D, other, cwd) /\ Counted(other, cwd)
  BY ONLY <1>3, <1>4, <1>5, SettledIs
<1> HIDE DEF other
<1> QED BY ONLY <1>2, <1>6, BecomesIs

(* The working directory changes to one that is there.                     *)
LEMMA EnterIs ==
  ASSUME NEW D, NEW table, SoundAt(D, table, cwd), Counted(handles, cwd),
         table \in [DOMAIN table -> Kind],
         NEW path \in DOMAIN table, NEW e, e = table[path].element, e.file_attributes = "DIRECTORY",
         \A x \in DOMAIN table : x # <<>> =>
           table[x].cwd_count >= Holder(x, cwd) + IF x = path THEN 1 ELSE 0,
         cwd.path # <<>> => cwd.path \in DOMAIN table, Enter(D, table, path, e)
  PROVE  IInv'
<1> DEFINE place == [path |-> path, element |-> e]
<1>1. Becomes(D, Left(table), place)
  BY DEF Enter
<1>2. SoundAt(D, Left(table), place) /\ Counted(Left(table), place)
  BY LeftIs
<1> HIDE DEF place
<1> QED BY ONLY <1>1, <1>2, BecomesIs

(* Entering a path that has an entry keeps the invariant.                  *)
LEMMA EnterRegisteredStep ==
  ASSUME IInv, NEW q, Registered(q), Enter_Registered(q)
  PROVE  IInv'
<1> DEFINE n == 1
           table == [handles EXCEPT ![q].cwd_count = @ + n]
           e == handles[q].element
           D == Disk
<1>1. SoundAt(D, handles, cwd) /\ Counted(handles, cwd)
  BY DEF IInv
<1>2. handles \in [DOMAIN handles -> Kind] /\ q \in DOMAIN handles /\ n \in Int
  BY <1>1 DEF Counted, Registered
<1>3. \/ e.file_attributes = "DIRECTORY" /\ Enter(D, table, q, e)
      \/ Becomes(D, table, cwd)
  BY DEF Enter_Registered
<1> HIDE DEF n, D
<1>4. /\ Same(handles, table) /\ table \in [DOMAIN table -> Kind]
      /\ \A x \in DOMAIN handles :
           table[x].cwd_count = IF x = q THEN handles[x].cwd_count + n ELSE handles[x].cwd_count
  BY ONLY <1>2, CountIs
<1> HIDE DEF table
<1>5. SoundAt(D, table, cwd) /\ DOMAIN table = DOMAIN handles /\ e = table[q].element
  <2>1. SoundAt(D, table, cwd)
    BY ONLY <1>1, <1>4, SoundSame
  <2> QED BY <1>2, <1>4, <2>1 DEF Same
<1>6. \A x \in DOMAIN table : x # <<>> =>
           table[x].cwd_count >= Holder(x, cwd) + IF x = q THEN 1 ELSE 0
  <2>1. SUFFICES ASSUME NEW x \in DOMAIN table, x # <<>>
                 PROVE  table[x].cwd_count >= Holder(x, cwd) + IF x = q THEN 1 ELSE 0
    OBVIOUS
  <2>2. handles[x].cwd_count \in Int /\ Holder(x, cwd) \in Int
        /\ handles[x].cwd_count >= Holder(x, cwd)
    BY <1>1, <1>2, <1>5, <2>1 DEF Kind, Holder, Counted
  <2> QED BY <1>4, <1>5, <2>1, <2>2 DEF n
<1>7. CASE e.file_attributes = "DIRECTORY" /\ Enter(D, table, q, e)
  <2>1. cwd.path # <<>> => cwd.path \in DOMAIN table
    BY <1>1, <1>5 DEF Counted
  <2>2. q \in DOMAIN table
    BY <1>2, <1>5
  <2> HIDE DEF e
  <2> QED BY ONLY <1>1, <1>4, <1>5, <1>6, <1>7, <2>1, <2>2, EnterIs
<1>8. CASE Becomes(D, table, cwd)
  <2>1. \A x \in DOMAIN table : x # <<>> => table[x].cwd_count >= Holder(x, cwd)
    <3>1. SUFFICES ASSUME NEW x \in DOMAIN table, x # <<>>
                   PROVE  table[x].cwd_count >= Holder(x, cwd)
      OBVIOUS
    <3>2. table[x].cwd_count \in Int /\ Holder(x, cwd) \in Int
      BY <1>4, <3>1 DEF Kind, Holder
    <3> QED BY <1>6, <3>1, <3>2
  <2>2. Counted(table, cwd)
    BY <1>1, <1>4, <1>5, <2>1 DEF Counted, Same
  <2> QED BY ONLY <1>5, <1>8, <2>2, BecomesIs
<1> QED BY <1>3, <1>7, <1>8

(* Entering a path that has none keeps the invariant.                      *)
LEMMA EnterOpenedStep ==
  ASSUME IInv, NEW q \in Path, ~Registered(q), Enter_Opened(q)
  PROVE  IInv'
<1> DEFINE opened == Opened_Directory(Disk, q)
           E == opened.disk
           e == opened.directory
           n == 1
           b == FALSE
           table == Added(q, Handle(e, n, b))
<1>1. SoundAt(Disk, handles, cwd) /\ Counted(handles, cwd)
  BY DEF IInv
<1>2. CASE IsDirectory(Disk, q)
  <2>0. Enter(E, table, q, e)
    BY <1>2, Zenon DEF Enter_Opened
  <2>1. n \in Int /\ b \in BOOLEAN
    OBVIOUS
  <2>2. Keeps(Disk, E) /\ Stands(E, q, e)
    BY <1>1, <1>2, OpenedIs DEF SoundAt
  <2>3. SoundAt(E, handles, cwd)
    BY <1>1, <2>2 DEF SoundAt, Keeps
  <2>4. e.file_attributes = "DIRECTORY"
    <3>1. Walk(E, q) = Walk(Disk, q)
      <4>1. SameTree(Disk, E)
        BY <2>2 DEF Keeps
      <4> QED BY ONLY <4>1, q \in Path, WalkSame
    <3> QED BY <1>2, <2>2, <3>1 DEF Stands, IsDirectory
  <2> HIDE DEF E, e, n, b
  <2>5. /\ SoundAt(E, table, cwd) /\ table \in [DOMAIN table -> Kind]
        /\ DOMAIN table = DOMAIN handles \cup {q}
        /\ table[q].element = e /\ table[q].cwd_count = n
        /\ \A x \in DOMAIN handles : table[x] = handles[x]
    <3>1. SoundAt(E, table, cwd)
      BY ONLY <2>1, <2>2, <2>3, <1>1, ~Registered(q), AddedIs
    <3>2. table \in [DOMAIN table -> Kind]
      BY ONLY <2>1, <2>2, <2>3, <1>1, ~Registered(q), AddedIs
    <3>3. DOMAIN table = DOMAIN handles \cup {q}
      BY DEF Added
    <3>4. table[q].element = e /\ table[q].cwd_count = n
      BY DEF Added, Handle
    <3>5. \A x \in DOMAIN handles : table[x] = handles[x]
      BY DEF Added, Registered
    <3> QED BY <3>1, <3>2, <3>3, <3>4, <3>5
  <2> HIDE DEF table
  <2>6. \A x \in DOMAIN table : x # <<>> =>
           table[x].cwd_count >= Holder(x, cwd) + IF x = q THEN 1 ELSE 0
    <3>1. SUFFICES ASSUME NEW x \in DOMAIN table, x # <<>>
                   PROVE  table[x].cwd_count >= Holder(x, cwd) + IF x = q THEN 1 ELSE 0
      OBVIOUS
    <3>2. CASE x = q
      <4>1. Holder(x, cwd) = 0
        BY <1>1, <3>1, <3>2 DEF Holder, Counted, Registered
      <4> QED BY <2>5, <3>2, <4>1 DEF n
    <3>3. CASE x # q
      <4>1. x \in DOMAIN handles /\ table[x] = handles[x] /\ handles[x] \in Kind
        BY <1>1, <2>5, <3>1, <3>3 DEF Counted
      <4>2. handles[x].cwd_count >= Holder(x, cwd) /\ Holder(x, cwd) \in Int
            /\ handles[x].cwd_count \in Int
        BY <1>1, <3>1, <4>1 DEF Counted, Kind, Holder
      <4> QED BY <3>3, <4>1, <4>2
    <3> QED BY <3>2, <3>3
  <2>7. cwd.path # <<>> => cwd.path \in DOMAIN table
    BY <1>1, <2>5 DEF Counted
  <2>8. q \in DOMAIN table /\ e = table[q].element
    BY <2>5
  <2> QED BY ONLY <1>1, <2>0, <2>4, <2>5, <2>6, <2>7, <2>8, EnterIs
<1>3. CASE ~IsDirectory(Disk, q)
  <2>1. UNCHANGED <<clusters, created, objects, handles, cwd>>
    BY <1>3 DEF Enter_Opened, Refuses, Rejects
  <2> QED BY <2>1, RefusesIs
<1> QED BY <1>2, <1>3

(* The step Set_CWD keeps the invariant.                                   *)
LEMMA SetCwdStep ==
  ASSUME IInv, NEW raw \in Raw, Set_CWD(raw)
  PROVE  IInv'
<1>1. cwd.path \in Path
  BY DEF IInv, SoundAt, Stands
<1>2. FilePath(raw) \in Path
  BY <1>1, FilePathIs
<1>3. CASE Get_Path_Type(raw) = "INVALID"
  <2>1. UNCHANGED <<clusters, created, objects, handles, cwd>>
    BY <1>3 DEF Set_CWD, Refuses, Rejects
  <2> QED BY <2>1, RefusesIs
<1>4. CASE Get_Path_Type(raw) # "INVALID" /\ Registered(FilePath(raw))
  <2>1. Enter_Registered(FilePath(raw))
    BY <1>4 DEF Set_CWD
  <2> QED BY <1>4, <2>1, EnterRegisteredStep
<1>5. CASE Get_Path_Type(raw) # "INVALID" /\ ~Registered(FilePath(raw))
  <2>1. Enter_Opened(FilePath(raw))
    BY <1>5 DEF Set_CWD
  <2> QED BY <1>2, <1>5, <2>1, EnterOpenedStep
<1> QED BY <1>3, <1>4, <1>5

(* The step Write keeps the invariant.                                     *)
LEMMA WriteStep ==
  ASSUME IInv, NEW path, Write(path)
  PROVE  IInv'
<1> DEFINE e == handles[path].element
           D == Disk
           grown == [D EXCEPT !.objects[e.self].file_size = 1]
           E == Tell_Directory(grown, e)
<1>1. path \in DOMAIN handles /\ e.file_attributes = "FILE" /\ Becomes(E, handles, cwd)
  BY DEF Write, Registered
<1>2. SoundAt(D, handles, cwd) /\ Counted(handles, cwd) /\ Good(D) /\ Stands(D, path, e)
  BY <1>1 DEF IInv, SoundAt
<1>3. cwd.path # path
  BY <1>1, <1>2 DEF Counted
<1> HIDE DEF e, D
<1>4. Good(E) /\ Stands(E, path, e) /\ \A r, f : Stands(D, r, f) /\ r # path => Stands(E, r, f)
  BY ONLY <1>1, <1>2, WriteIs
<1> HIDE DEF E
<1>5. SoundAt(E, handles, cwd)
  <2>1. Stands(E, cwd.path, cwd.element)
    BY <1>2, <1>3, <1>4 DEF SoundAt
  <2>2. ASSUME NEW x \in DOMAIN handles  PROVE Stands(E, x, handles[x].element)
    <3>1. CASE x = path
      BY <1>4, <3>1 DEF e
    <3>2. CASE x # path
      BY <1>2, <1>4, <3>2 DEF SoundAt
    <3> QED BY <3>1, <3>2
  <2> QED BY <1>4, <2>1, <2>2 DEF SoundAt
<1> QED BY ONLY <1>1, <1>2, <1>5, BecomesIs

(* The step Read keeps the invariant.                                      *)
LEMMA ReadStep ==
  ASSUME IInv, NEW path, Read(path)
  PROVE  IInv'
<1> DEFINE o == handles[path].element.self
           position == objects[o].file_position
           list == Read_All_Entries(Disk, o)
<1>1. path \in DOMAIN handles
      /\ IF position >= Len(list) THEN Refuses("read", path, "EOF")
         ELSE /\ objects' = [objects EXCEPT ![o].file_position = position + 1]
              /\ UNCHANGED <<clusters, created, handles, cwd>>
  BY DEF Read, Registered
<1>2. o \in DOMAIN objects /\ position \in Nat
  <2>1. Stands(Disk, path, handles[path].element) /\ Disk.objects = objects /\ Typed(Disk)
    BY <1>1 DEF IInv, SoundAt, Disk, Good
  <2> QED BY <2>1 DEF Stands, Typed, Object
<1>3. CASE position >= Len(list)
  <2>1. UNCHANGED <<clusters, created, objects, handles, cwd>>
    BY <1>1, <1>3 DEF Refuses, Rejects
  <2> QED BY <2>1, RefusesIs
<1>4. CASE ~(position >= Len(list))
  <2> DEFINE n == position + 1
  <2>1. n \in Nat
    BY <1>2
  <2>2. /\ objects' = [objects EXCEPT ![o].file_position = n]
        /\ UNCHANGED <<clusters, created, handles, cwd>>
    BY <1>1, <1>4
  <2> HIDE DEF n, o
  <2> QED BY ONLY IInv, <1>2, <2>1, <2>2, MovedIs
<1> QED BY <1>3, <1>4

(* The step Seek keeps the invariant.                                      *)
LEMMA SeekStep ==
  ASSUME IInv, NEW path, Seek(path)
  PROVE  IInv'
<1> DEFINE o == handles[path].element.self
           n == 0
<1>1. /\ path \in DOMAIN handles /\ objects' = [objects EXCEPT ![o].file_position = n]
      /\ UNCHANGED <<clusters, created, handles, cwd>> /\ n \in Nat
  BY DEF Seek, Registered
<1>2. o \in DOMAIN objects
  <2>1. Stands(Disk, path, handles[path].element) /\ Disk.objects = objects
    BY <1>1 DEF IInv, SoundAt, Disk
  <2> QED BY <2>1 DEF Stands
<1> HIDE DEF n, o
<1> QED BY ONLY IInv, <1>1, <1>2, MovedIs

(* The calls that only look keep the invariant.                            *)
LEMMA LookStep ==
  ASSUME IInv, NEW raw, NEW attributes, NEW size,
         \/ Get_File_Attribute(raw) \/ Set_File_Attribute(raw, attributes) \/ Get_Working_Dir(size)
  PROVE  IInv'
<1>1. UNCHANGED <<clusters, created, objects, handles, cwd>>
  BY DEF Get_File_Attribute, Set_File_Attribute, Get_Working_Dir, Refuses, Rejects
<1> QED BY <1>1, RefusesIs

(* A path and one name more.                                               *)
LEMMA Longer ==
  ASSUME NEW q \in Path, NEW x \in Name
  PROVE  /\ Append(q, x) \in Path /\ Append(q, x) # <<>> /\ Front(Append(q, x)) = q
         /\ Last(Append(q, x)) = x /\ Len(Append(q, x)) = Len(q) + 1 /\ Len(q) \in Nat
<1>1. Len(q) \in Nat /\ Len(Append(q, x)) = Len(q) + 1
  BY DEF Path
<1>2. Append(q, x) \in Path /\ Append(q, x) # <<>>
  BY Appends
<1>3. Front(Append(q, x)) = q /\ Last(Append(q, x)) = x
  BY Appends
<1> QED BY <1>1, <1>2, <1>3

(* In the beginning there is the root.                                     *)
LEMMA OnlyRoot ==
  ASSUME NEW D, Typed(D), D.objects[RootObject].file_size = 0, NEW q \in Path, q # <<>>
  PROVE  Walk(D, q) = NoEntry
<1> DEFINE T == {r \in Path : r # <<>> => Walk(D, r) = NoEntry}
<1>1. <<>> \in T
  BY RootIsThere
<1>2. ASSUME NEW r \in Path, NEW x \in Name, r \in T  PROVE Append(r, x) \in T
  <2>1. Append(r, x) \in Path /\ Walk(D, Append(r, x)) = EntryIn(D, Walk(D, r), x)
    BY WalkOn
  <2>2. Childless(Walk(D, r))
    <3>1. CASE r = <<>>
      BY <3>1, RootIsThere DEF Childless, Size
    <3>2. CASE r # <<>>
      BY <1>2, <3>2, NoEntryIsNone DEF Childless
    <3> QED BY <3>1, <3>2
  <2>3. EntryIn(D, Walk(D, r), x) = NoEntry
    BY <2>2, NoChild
  <2> QED BY <2>1, <2>3
<1>3. Path \subseteq T
  <2> HIDE DEF T
  <2> QED BY <1>1, <1>2, PathInd DEF Path
<1> QED BY <1>3

(* The invariant holds in the beginning.                                   *)
LEMMA InitIs == Init => IInv
<1> SUFFICES ASSUME Init  PROVE IInv
  OBVIOUS
<1> DEFINE D == Disk
<1>1. /\ D = [clusters |-> clusters, created |-> created, objects |-> objects]
      /\ D.clusters = clusters /\ D.created = created /\ D.objects = objects
  BY DEF Disk
<1>2. Typed(D)
  <2>1. clusters \in [Start -> Seq(Entry)]
    BY DEF Init
  <2>2. created \in 0 .. MaxFiles
    BY BoundAssumption DEF Init
  <2>3. /\ DOMAIN objects = {0} /\ objects \in [DOMAIN objects -> Object]
        /\ objects[RootObject].file_start = 0 /\ RootObject \in DOMAIN objects
    BY BoundAssumption DEF Init, RootObject, Object, Start
  <2>4. DOMAIN objects \subseteq Nat /\ IsFiniteSet(DOMAIN objects)
    <3>1. IsFiniteSet({0})
      BY FS_Singleton
    <3> QED BY <2>3, <3>1
  <2> HIDE DEF D
  <2> QED BY <1>1, <2>1, <2>2, <2>3, <2>4 DEF Typed
<1>3. D.objects[RootObject].file_size = 0
  BY <1>1 DEF Init, RootObject
<1> HIDE DEF D
<1>4. \A q \in Path : Exists(D, q) => q = <<>>
  <2>1. \A q \in Path : q # <<>> => Walk(D, q) = NoEntry
    BY ONLY <1>2, <1>3, OnlyRoot
  <2> QED BY <2>1, NoEntryIsNone DEF Exists
<1>5. Good(D)
  <2>1. \A q, r \in Path : Exists(D, q) /\ Exists(D, r) /\ StartOf(D, q) = StartOf(D, r) => q = r
    BY <1>4
  <2>2. \A q \in Path, x \in Name : ~Exists(D, Append(q, x))
    BY <1>4, Longer
  <2>3. \A q \in Path : Exists(D, q) => StartOf(D, q) <= D.created
    <3>1. StartOf(D, <<>>) = 0 /\ D.created \in Nat
      BY <1>2, RootIsThere DEF Typed
    <3> QED BY <1>4, <3>1
  <2>4. \A q \in Path : IsDirectory(D, q) => Listed(Cluster(D, q), Size(D, q))
    <3>1. SUFFICES ASSUME NEW q \in Path, IsDirectory(D, q)  PROVE Listed(Cluster(D, q), Size(D, q))
      OBVIOUS
    <3>2. Exists(D, q)
      BY <3>1 DEF IsDirectory, Exists
    <3>3. Size(D, q) = 0 /\ StartOf(D, q) = 0
      BY <1>2, <1>3, <1>4, <3>2, RootIsThere
    <3>4. Cluster(D, q) \in Seq(Entry)
      <4>1. 0 \in Start
        BY BoundAssumption DEF Start
      <4> QED BY <1>2, <3>3, <4>1 DEF Typed, Cluster
    <3> QED BY <3>3, <3>4 DEF Listed
  <2> QED BY <1>2, <2>1, <2>2, <2>3, <2>4 DEF Good, Sorted
<1>6. Stands(D, <<>>, RootElement)
  BY <1>5, RootStands
<1>7. handles = <<>> /\ cwd = [path |-> <<>>, element |-> RootElement]
  BY DEF Init
<1>8. DOMAIN handles = {} /\ handles \in [DOMAIN handles -> Kind]
  BY <1>7
<1>9. cwd.path = <<>> /\ cwd.element = RootElement /\ cwd \in Place
  BY <1>6, <1>7 DEF Place, Stands
<1>10. RootElement.file_attributes = "DIRECTORY"
  BY DEF RootElement
<1>11. SoundAt(D, handles, cwd) /\ Counted(handles, cwd)
  BY <1>5, <1>6, <1>8, <1>9, <1>10 DEF SoundAt, Counted
<1> QED BY <1>11 DEF IInv, D

(* Every step keeps the invariant.                                         *)
LEMMA NextIs ==
  ASSUME ~Mixed, IInv, Next
  PROVE  IInv'
<1>1. CASE \E raw \in Raw : Open(raw)
  BY <1>1, OpenStep
<1>2. CASE \E raw \in Raw : Delete(raw)
  BY <1>2, DeleteStep
<1>3. CASE \E raw \in Raw : Set_CWD(raw)
  BY <1>3, SetCwdStep
<1>4. CASE \E raw \in Raw : Get_File_Attribute(raw)
  BY <1>4, LookStep
<1>5. CASE \E raw \in Raw, attributes \in Asked : Create(raw, attributes)
  BY <1>5, CreateStep
<1>6. CASE \E raw \in Raw, attributes \in Asked : Set_File_Attribute(raw, attributes)
  BY <1>6, LookStep
<1>7. CASE \E path \in DOMAIN handles : Close(path)
  BY <1>7, CloseStep
<1>8. CASE \E path \in DOMAIN handles : Write(path)
  BY <1>8, WriteStep
<1>9. CASE \E path \in DOMAIN handles : Read(path)
  BY <1>9, ReadStep
<1>10. CASE \E path \in DOMAIN handles : Seek(path)
  BY <1>10, SeekStep
<1>11. CASE \E buffer_size \in BufferSizes : Get_Working_Dir(buffer_size)
  BY <1>11, LookStep
<1> QED BY <1>1, <1>2, <1>3, <1>4, <1>5, <1>6, <1>7, <1>8, <1>9, <1>10, <1>11 DEF Next

(* The invariant holds as long as the calls keep to the paths (~Mixed).    *)
THEOREM Inductive == ASSUME ~Mixed PROVE Spec => []IInv
<1>1. Init => IInv
  BY InitIs
<1>2. IInv /\ [Next]_vars => IInv'
  <2>1. ASSUME IInv, UNCHANGED vars  PROVE IInv'
    BY <2>1, RefusesIs DEF vars
  <2> QED BY <2>1, NextIs
<1> QED BY <1>1, <1>2, PTL DEF Spec

-----------------------------------------------------------------------------
(* The deeper a path leads, the later its element was made.                *)
LEMMA Deep ==
  ASSUME NEW D, Good(D), NEW q \in Path, Exists(D, q)
  PROVE  Len(q) <= StartOf(D, q) /\ Len(q) <= MaxFiles /\ Len(q) \in Nat
<1> DEFINE T == {r \in Path : Exists(D, r) => Len(r) <= StartOf(D, r)}
<1>1. <<>> \in T
  BY RootIsThere DEF Good
<1>2. ASSUME NEW r \in Path, NEW x \in Name, r \in T  PROVE Append(r, x) \in T
  <2>1. Append(r, x) \in Path /\ Len(Append(r, x)) = Len(r) + 1 /\ Len(r) \in Nat
        /\ Append(r, x) # <<>> /\ Front(Append(r, x)) = r
    BY Longer
  <2>2. SUFFICES ASSUME Exists(D, Append(r, x))
                 PROVE  Len(r) + 1 <= StartOf(D, Append(r, x))
    BY <2>1
  <2>3. Exists(D, r)
    BY <2>1, <2>2, LastIs
  <2>4. StartOf(D, r) < StartOf(D, Append(r, x))
    BY <2>2 DEF Good, Sorted
  <2>5. StartOf(D, r) \in Nat /\ StartOf(D, Append(r, x)) \in Nat
    BY <2>1, StartsAreNumbers
  <2> QED BY <1>2, <2>1, <2>3, <2>4, <2>5
<1>3. Path \subseteq T
  <2> HIDE DEF T
  <2> QED BY <1>1, <1>2, PathInd DEF Path
<1>4. StartOf(D, q) <= D.created /\ D.created \in 0 .. MaxFiles /\ StartOf(D, q) \in Nat
  BY StartsAreNumbers DEF Good, Typed, Sorted
<1>5. Len(q) \in Nat
  BY DEF Path
<1> QED BY <1>3, <1>4, <1>5, BoundAssumption

(* The names in a directory are those its path can go on with.             *)
LEMMA NamesInIs ==
  ASSUME Good(Disk), NEW q \in Path
  PROVE  NamesIn(q) = {x \in Name : Exists(Disk, Append(q, x))}
<1> DEFINE D == Disk
           n == Size(D, q)
           list == Cluster(D, q)
<1>1. D.clusters = clusters
  BY DEF Disk
<1>2. NamesIn(q) = IF IsDirectory(D, q) THEN {list[i].file_name : i \in 1 .. n} ELSE {}
  BY <1>1, Zenon DEF NamesIn, IsDirectory, Size, Cluster, StartOf
<1>3. CASE ~IsDirectory(D, q)
  <2>1. \A x \in Name : Append(q, x) \in Path /\ Append(q, x) # <<>> /\ Front(Append(q, x)) = q
    BY Longer
  <2>2. \A x \in Name : ~Exists(D, Append(q, x))
    BY <1>3, <2>1, LastIs
  <2> QED BY <1>2, <1>3, <2>2
<1>4. CASE IsDirectory(D, q)
  <2> HIDE DEF D
  <2>1. /\ n \in Nat /\ list \in Seq(Entry) /\ n <= Len(list)
        /\ \A i, j \in 1 .. n : list[i].file_name = list[j].file_name => i = j
    BY <1>4, DirectoryIs DEF Good, Sorted, Listed, D
  <2>2. \A x \in Name : Walk(D, Append(q, x)) = Lookup(list, n, x)
    BY <1>4, WalkOn, EntryInIs DEF IsDirectory, Size, Cluster, StartOf
  <2> HIDE DEF n, list
  <2>3. \A i \in 1 .. n : list[i] \in Entry
    BY <2>1
  <2>4. ASSUME NEW i \in 1 .. n
        PROVE  list[i].file_name \in Name /\ Exists(D, Append(q, list[i].file_name))
    <3> DEFINE x == list[i].file_name
    <3>1. x \in Name /\ list[i].file_attributes # "INVALID"
      BY <2>3, EntriesAreNodes
    <3>2. Lookup(list, n, x) = list[i]
      BY ONLY <2>1, <2>4, LookupIs
    <3> QED BY <2>2, <3>1, <3>2 DEF Exists
  <2>5. ASSUME NEW x \in Name, Exists(D, Append(q, x))
        PROVE  \E i \in 1 .. n : list[i].file_name = x
    <3>1. Lookup(list, n, x) # NoEntry
      BY <2>2, <2>5, NoEntryIsNone DEF Exists
    <3> QED BY <2>1, <3>1, LookupFinds
  <2>6. {list[i].file_name : i \in 1 .. n} = {x \in Name : Exists(D, Append(q, x))}
    BY <2>4, <2>5
  <2> QED BY <1>2, <1>4, <2>6 DEF D
<1> QED BY <1>3, <1>4

(* Going down name by name finds every path that leads somewhere.          *)
LEMMA ThereIs ==
  ASSUME Good(Disk)
  PROVE  There = {q \in Path : q # <<>> /\ Exists(Disk, q)}
<1> DEFINE D == Disk
           C(g) == g = [k \in 0 .. MaxFiles |-> IF k = 0 THEN {<<>>} ELSE Below(g[k - 1])]
           level == CHOOSE g : C(g)
<1>0. MaxFiles \in Nat
  BY BoundAssumption
<1>1. There = UNION {level[k] : k \in 1 .. MaxFiles}
  BY Zenon DEF There
<1>2. C(level)
  <2>1. \A v, x : Next_Value(Descending, v, x) = Below(v)
    BY DEF Next_Value, Descending
  <2> DEFINE list == <<>>
             base == {<<>>}
  <2>2. \E g : IsRun(g, Descending, base, list, MaxFiles)
    BY ONLY <1>0, RunExists
  <2>3. \A g : C(g) <=> IsRun(g, Descending, base, list, MaxFiles)
    BY <2>1, Zenon DEF IsRun
  <2> HIDE DEF C
  <2> QED BY <2>2, <2>3, Zenon
<1> HIDE DEF level
<1>3. level[0] = {<<>>} /\ \A k \in 1 .. MaxFiles : level[k] = Below(level[k - 1])
  <2>1. level = [k \in 0 .. MaxFiles |-> IF k = 0 THEN {<<>>} ELSE Below(level[k - 1])]
    BY <1>2
  <2>2. 0 \in 0 .. MaxFiles /\ \A k \in 1 .. MaxFiles : k \in 0 .. MaxFiles /\ k # 0
    BY <1>0
  <2>3. \A k \in 0 .. MaxFiles : level[k] = IF k = 0 THEN {<<>>} ELSE Below(level[k - 1])
    BY <2>1, Zenon
  <2> QED BY <2>2, <2>3, Zenon
<1>4. \A paths : Below(paths) = UNION {{Append(q, x) : x \in NamesIn(q)} : q \in paths}
  BY Zenon DEF Below
<1> HIDE DEF C, D
<1> DEFINE At(k) == {q \in Path : Len(q) = k /\ Exists(D, q)}
           K == {k \in Nat : k <= MaxFiles => level[k] = At(k)}
<1>5. 0 \in K
  <2>1. At(0) = {<<>>}
    <3>1. <<>> \in Path /\ Exists(D, <<>>) /\ Len(<<>>) = 0
      BY RootIsThere DEF Good, D
    <3>2. \A q \in Path : Len(q) = 0 => q = <<>>
      BY DEF Path
    <3> QED BY <3>1, <3>2, Zenon
  <2> QED BY <1>3, <2>1
<1>6. ASSUME NEW k \in Nat, k \in K  PROVE k + 1 \in K
  <2>1. SUFFICES ASSUME k + 1 <= MaxFiles  PROVE level[k + 1] = At(k + 1)
    OBVIOUS
  <2>2. k + 1 \in 1 .. MaxFiles /\ (k + 1) - 1 = k /\ k <= MaxFiles
    BY <1>0, <2>1
  <2>3. level[k + 1] = Below(level[k]) /\ level[k] = At(k)
    BY <1>3, <1>6, <2>2
  <2>4. \A q \in Path : NamesIn(q) = {x \in Name : Exists(D, Append(q, x))}
    BY NamesInIs DEF D
  <2>5. \A r : r \in level[k + 1] <=>
                 \E q \in At(k) : \E x \in Name : Exists(D, Append(q, x)) /\ r = Append(q, x)
    BY <1>4, <2>3, <2>4
  <2>6. ASSUME NEW q \in At(k), NEW x \in Name, Exists(D, Append(q, x))
        PROVE  Append(q, x) \in At(k + 1)
    <3>1. q \in Path /\ Len(q) = k
      OBVIOUS
    <3>2. Append(q, x) \in Path /\ Len(Append(q, x)) = Len(q) + 1
      BY <3>1, Longer
    <3> QED BY <2>6, <3>1, <3>2
  <2>7. ASSUME NEW r \in At(k + 1)
        PROVE  \E q \in At(k) : \E x \in Name : Exists(D, Append(q, x)) /\ r = Append(q, x)
    <3>1. r \in Path /\ r # <<>> /\ Exists(D, r) /\ Len(r) = k + 1
      OBVIOUS
    <3>2. /\ Front(r) \in Path /\ Last(r) \in Name /\ r = Append(Front(r), Last(r))
          /\ Exists(D, Front(r))
      BY <3>1, LastIs DEF D
    <3>3. Len(Front(r)) = k
      <4>1. Len(Front(r)) = Len(r) - 1
        BY <3>1, EndOfSequence DEF Path
      <4> QED BY <3>1, <4>1
    <3> QED BY <3>1, <3>2, <3>3
  <2> HIDE DEF At
  <2> QED BY <2>5, <2>6, <2>7
<1>7. \A k \in 0 .. MaxFiles : level[k] = At(k)
  <2>1. Nat \subseteq K
    <3> HIDE DEF K
    <3> QED BY <1>5, <1>6, NatInd
  <2> QED BY <1>0, <2>1
<1>8. ASSUME NEW q \in Path, q # <<>>, Exists(D, q)  PROVE q \in There
  <2>1. Len(q) \in 1 .. MaxFiles
    <3>1. Len(q) <= MaxFiles /\ Len(q) \in Nat
      BY <1>8, Deep DEF D
    <3>2. Len(q) # 0
      BY <1>8 DEF Path
    <3> QED BY <1>0, <3>1, <3>2
  <2>2. q \in At(Len(q))
    BY <1>8
  <2> QED BY <1>0, <1>1, <1>7, <2>1, <2>2
<1>9. ASSUME NEW q \in There  PROVE q \in Path /\ q # <<>> /\ Exists(D, q)
  <2>1. PICK k \in 1 .. MaxFiles : q \in level[k]
    BY <1>1
  <2>2. q \in At(k) /\ k # 0
    BY <1>0, <1>7, <2>1
  <2> QED BY <2>2 DEF Path
<1> QED BY <1>8, <1>9 DEF D

(* An element that stands has the type.                                    *)
LEMMA ElementsAre ==
  ASSUME IInv, NEW e, NEW q, Stands(Disk, q, e)
  PROVE  e \in [file_attributes : Valid, file_name : Name \cup {Unnamed}, self : DOMAIN objects,
                parent : DOMAIN objects]
<1>1. e \in Element /\ e.self \in DOMAIN objects /\ e.parent \in DOMAIN objects
  BY DEF Stands, Disk
<1> QED BY <1>1 DEF Element

(* The invariant gives each component its type.                            *)
LEMMA TypeIs == IInv => TypeOK
<1> SUFFICES ASSUME IInv  PROVE TypeOK
  OBVIOUS
<1> DEFINE element == [file_attributes : Valid, file_name : Name \cup {Unnamed}, self : DOMAIN objects,
                       parent : DOMAIN objects]
<1>1. /\ SoundAt(Disk, handles, cwd) /\ Counted(handles, cwd) /\ Typed(Disk) /\ Good(Disk)
      /\ Disk.clusters = clusters /\ Disk.created = created /\ Disk.objects = objects
  BY DEF IInv, SoundAt, Good, Disk
<1>2. clusters \in [Start -> Seq(Entry)] /\ created \in 0 .. MaxFiles
      /\ DOMAIN objects \subseteq Nat /\ IsFiniteSet(DOMAIN objects)
      /\ \A o \in DOMAIN objects : objects[o] \in Object
  BY <1>1 DEF Typed
<1>3. \A path \in DOMAIN handles :
        handles[path] \in [element : element, cwd_count : Int, is_open : BOOLEAN]
  <2>1. SUFFICES ASSUME NEW path \in DOMAIN handles
                 PROVE  handles[path] \in [element : element, cwd_count : Int, is_open : BOOLEAN]
    OBVIOUS
  <2>2. handles[path].element \in element
    BY <1>1, ElementsAre DEF SoundAt
  <2>3. handles[path] \in Kind
    BY <1>1 DEF Counted
  <2> HIDE DEF element
  <2> QED BY <2>2, <2>3 DEF Kind
<1>4. cwd \in [path : DeepestPaths, element : element]
  <2>1. cwd.element \in element
    BY <1>1, ElementsAre DEF SoundAt
  <2>2. cwd.path \in Path /\ Exists(Disk, cwd.path) /\ cwd \in Place
    BY <1>1 DEF SoundAt, Stands, Counted
  <2>3. Len(cwd.path) \in 0 .. MaxFiles /\ MaxFiles \in Nat
    <3>1. Len(cwd.path) <= MaxFiles /\ Len(cwd.path) \in Nat
      BY <1>1, <2>2, Deep
    <3> QED BY <3>1, BoundAssumption
  <2>4. cwd.path \in [1 .. Len(cwd.path) -> Name]
    BY <2>2 DEF Path
  <2>5. cwd.path \in DeepestPaths
    BY <2>3, <2>4, Zenon DEF DeepestPaths, PathsTo
  <2> HIDE DEF element
  <2> QED BY <2>1, <2>2, <2>5 DEF Place
<1> QED BY <1>2, <1>3, <1>4, Zenon DEF TypeOK, Entry, Object

(* Each component has its type in every state that is reached.             *)
THEOREM TypesAreKept == ASSUME ~Mixed PROVE Spec => []TypeOK
<1>1. IInv => TypeOK
  BY TypeIs
<1> QED BY <1>1, Inductive, PTL

(* What is open can be found from the root until it is closed, whatever    *)
(* the calls in between open, remove and create (open_file, close_handle). *)
THEOREM WhatIsOpenIsThere == ASSUME ~Mixed PROVE Spec => []OpenFilesExist
<1>1. IInv => OpenFilesExist
  <2> SUFFICES ASSUME IInv, NEW path \in IsOpen, path # <<>>  PROVE path \in There
    BY DEF OpenFilesExist
  <2>1. Stands(Disk, path, handles[path].element) /\ Good(Disk)
    BY DEF IInv, SoundAt, IsOpen
  <2> QED BY <2>1, ThereIs DEF Stands
<1> QED BY <1>1, Inductive, PTL

(* Every object of a directory that is open or worked in has the start     *)
(* and the size of its entry: no copy of a Fat_Directory that is kept is   *)
(* stale.                                                                  *)
THEOREM KeptObjectsAgree == ASSUME ~Mixed PROVE Spec => []ObjectsAgree
<1>1. IInv => ObjectsAgree
  <2> SUFFICES ASSUME IInv, NEW path \in DOMAIN handles \cup {cwd.path}
               PROVE  LET element == IF path = cwd.path THEN cwd.element ELSE handles[path].element
                      IN /\ Walk(Disk, path).file_start = objects[element.self].file_start
                         /\ Walk(Disk, path).file_size = objects[element.self].file_size
    BY Zenon DEF ObjectsAgree
  <2> DEFINE element == IF path = cwd.path THEN cwd.element ELSE handles[path].element
  <2>1. Stands(Disk, path, element)
    BY DEF IInv, SoundAt
  <2> HIDE DEF element
  <2>2. Disk.objects = objects
    BY DEF Disk
  <2>3. /\ Walk(Disk, path).file_start = objects[element.self].file_start
        /\ Walk(Disk, path).file_size = objects[element.self].file_size
    BY <2>1, <2>2 DEF Stands, StartOf, Size
  <2> QED BY <2>3 DEF element
<1> QED BY <1>1, Inductive, PTL

(* The entry of an open file is as large as the file, although the object  *)
(* of the directory it was found in may be an old one (VFS_File::Write).   *)
THEOREM WritesAreTold == ASSUME ~Mixed PROVE Spec => []SizesAreTold
<1>1. IInv => SizesAreTold
  <2> SUFFICES ASSUME IInv, NEW path \in IsOpen
               PROVE  Walk(Disk, path).file_size = objects[handles[path].element.self].file_size
    BY DEF SizesAreTold
  <2>1. Stands(Disk, path, handles[path].element) /\ Disk.objects = objects
    BY DEF IInv, SoundAt, IsOpen, Disk
  <2> QED BY <2>1 DEF Stands, Size
<1> QED BY <1>1, Inductive, PTL

(* The tree on a disk: what the properties see of it.                      *)
TreeOf(D) == [q \in {r \in Path : r # <<>> /\ Exists(D, r)} |-> Walk(D, q).file_attributes]

(* The tree of the properties is what the paths lead to.                   *)
LEMMA TreeIs == IInv => Tree = TreeOf(Disk)
<1> SUFFICES ASSUME IInv  PROVE Tree = TreeOf(Disk)
  OBVIOUS
<1>1. There = {q \in Path : q # <<>> /\ Exists(Disk, q)}
  BY ThereIs DEF IInv, SoundAt
<1> QED BY <1>1, Zenon DEF Tree, TreeOf

(* It is so after every step.                                              *)
LEMMA TreeNext == IInv' => Tree' = TreeOf(Disk')
<1>1. (IInv => Tree = TreeOf(Disk))'
  BY TreeIs, PTL
<1> QED BY <1>1

(* Which tree it is depends on where the paths lead.                       *)
LEMMA TreeSame ==
  ASSUME NEW D, NEW E, SameTree(D, E)
  PROVE  TreeOf(E) = TreeOf(D)
<1>1. \A q \in Path : Walk(E, q) = Walk(D, q)
  BY WalkSame
<1>2. {r \in Path : r # <<>> /\ Exists(E, r)} = {r \in Path : r # <<>> /\ Exists(D, r)}
  BY <1>1 DEF Exists
<1> QED BY <1>1, <1>2 DEF TreeOf

(* What a call makes of the tree and of the entries of paths.              *)
LEMMA BecomesTree ==
  ASSUME NEW D, NEW table, NEW place, IInv', Typed(D), Becomes(D, table, place)
  PROVE  /\ Tree' = TreeOf(D) /\ handles' = table /\ cwd' = place
         /\ (DOMAIN handles)' = DOMAIN table
         /\ IsOpen' = {path \in DOMAIN table : table[path].is_open}
<1>1. /\ Disk' = [clusters |-> D.clusters, created |-> D.created, objects |-> objects']
      /\ objects' = [o \in Kept(table, place.element) |-> D.objects[o]]
      /\ handles' = table /\ cwd' = place
  BY DEF Becomes, Disk
<1>2. RootObject \in Kept(table, place.element)
  BY DEF Kept
<1>3. D.created \in Nat
  BY BoundAssumption DEF Typed
<1>4. SameTree(D, Disk')
  BY <1>1, <1>2, <1>3 DEF SameTree
<1>5. TreeOf(Disk') = TreeOf(D)
  BY <1>4, TreeSame
<1>6. Tree' = TreeOf(D)
  BY <1>5, TreeNext
<1>7. IsOpen' = {path \in DOMAIN table : table[path].is_open}
  BY <1>1 DEF IsOpen
<1> QED BY <1>1, <1>6, <1>7

(* A call that is refused leaves them alone.                               *)
LEMMA RefusesTree ==
  ASSUME IInv, UNCHANGED <<clusters, created, objects, handles, cwd>>
  PROVE  Tree' = Tree /\ IsOpen' = IsOpen /\ (DOMAIN handles)' = DOMAIN handles
         /\ cwd'.path = cwd.path
<1>1. IInv' /\ Disk' = Disk
  BY RefusesIs DEF Disk
<1>2. Tree' = TreeOf(Disk') /\ Tree = TreeOf(Disk)
  BY <1>1, TreeNext, TreeIs
<1> QED BY <1>1, <1>2 DEF IsOpen

(* What the promise says of paths, said of the disk.                       *)
LEMMA AbstractIs ==
  ASSUME IInv, NEW x \in Path
  PROVE  /\ x \in DOMAIN Tree <=> x # <<>> /\ Exists(Disk, x)
         /\ x \in DOMAIN Tree => Tree[x] = Walk(Disk, x).file_attributes
         /\ Promise!There(x) <=> Exists(Disk, x)
         /\ Promise!IsDirectory(x) <=> IsDirectory(Disk, x)
         /\ x # <<>> => Promise!Above(x) = Front(x)
<1>1. Tree = TreeOf(Disk) /\ Good(Disk)
  BY TreeIs DEF IInv, SoundAt
<1>2. /\ x \in DOMAIN Tree <=> x # <<>> /\ Exists(Disk, x)
      /\ x \in DOMAIN Tree => Tree[x] = Walk(Disk, x).file_attributes
  BY <1>1 DEF TreeOf
<1>3. Exists(Disk, <<>>) /\ IsDirectory(Disk, <<>>)
  BY <1>1, RootIsThere DEF Good
<1>4. IsDirectory(Disk, x) => Exists(Disk, x)
  BY <1>1, Nodes
<1>5. Promise!There(x) <=> Exists(Disk, x)
  BY <1>2, <1>3 DEF Promise!There, Promise!Root
<1>6. Promise!IsDirectory(x) <=> IsDirectory(Disk, x)
  BY <1>2, <1>3, <1>4 DEF Promise!IsDirectory, Promise!Root, IsDirectory
<1>7. x # <<>> => Promise!Above(x) = Front(x)
  BY DEF Promise!Above, Front
<1> QED BY <1>2, <1>5, <1>6, <1>7

(* What is below a path goes on with one name more.                        *)
LEMMA ChildrenAre ==
  ASSUME IInv, NEW x \in Path
  PROVE  Promise!Children(x) = {Append(x, m) : m \in {y \in Name : Exists(Disk, Append(x, y))}}
<1>1. ASSUME NEW y \in Promise!Children(x)
      PROVE  \E m \in Name : Exists(Disk, Append(x, m)) /\ y = Append(x, m)
  <2>1. y \in DOMAIN Tree /\ y # <<>> /\ Promise!Above(y) = x
    BY DEF Promise!Children, Promise!Root
  <2>2. y \in Path /\ Exists(Disk, y)
    BY <2>1, TreeIs DEF TreeOf
  <2>3. Front(y) = x /\ Last(y) \in Name /\ y = Append(Front(y), Last(y))
    BY <2>1, <2>2, AbstractIs, FrontIs
  <2> QED BY <2>2, <2>3
<1>2. ASSUME NEW m \in Name, Exists(Disk, Append(x, m))
      PROVE  Append(x, m) \in Promise!Children(x)
  <2>1. Append(x, m) \in Path /\ Append(x, m) # <<>> /\ Front(Append(x, m)) = x
    BY Longer
  <2>2. Append(x, m) \in DOMAIN Tree /\ Promise!Above(Append(x, m)) = x
    BY <1>2, <2>1, AbstractIs
  <2> QED BY <2>1, <2>2 DEF Promise!Children, Promise!Root
<1> QED BY <1>1, <1>2

(* Below a path that leads nowhere there is nothing.                       *)
LEMMA NothingBelow ==
  ASSUME IInv, NEW x \in Path, ~IsDirectory(Disk, x)
  PROVE  Promise!Children(x) = {} /\ \A m \in Name : ~Exists(Disk, Append(x, m))
<1>1. \A m \in Name : ~Exists(Disk, Append(x, m))
  <2>1. SUFFICES ASSUME NEW m \in Name, Exists(Disk, Append(x, m))  PROVE FALSE
    OBVIOUS
  <2>2. Append(x, m) \in Path /\ Append(x, m) # <<>> /\ Front(Append(x, m)) = x
    BY Longer
  <2>3. IsDirectory(Disk, x)
    BY <2>1, <2>2, LastIs DEF IInv, SoundAt
  <2> QED BY <2>3
<1> QED BY <1>1, ChildrenAre

(* In the beginning there is only the root, and nothing is open.           *)
LEMMA InitPromise == Init => Promise!Init
<1> SUFFICES ASSUME Init  PROVE Promise!Init
  OBVIOUS
<1>1. IInv /\ Typed(Disk)
  BY InitIs DEF IInv, SoundAt, Good
<1>2. Disk.objects[RootObject].file_size = 0
  BY DEF Init, Disk, RootObject
<1>3. \A q \in Path : q # <<>> => ~Exists(Disk, q)
  <2>1. \A q \in Path : q # <<>> => Walk(Disk, q) = NoEntry
    BY ONLY <1>1, <1>2, OnlyRoot
  <2> QED BY <2>1, NoEntryIsNone DEF Exists
<1>4. Tree = [x \in {} |-> "DIRECTORY"]
  <2>1. {r \in Path : r # <<>> /\ Exists(Disk, r)} = {}
    BY <1>3
  <2> QED BY <1>1, <2>1, TreeIs DEF TreeOf
<1>5. handles = <<>> /\ cwd.path = <<>>
      /\ answer = [call |-> "none", path |-> <<>>, attributes |-> "NONE", result |-> "OK"]
  BY DEF Init
<1>6. DOMAIN handles = {} /\ IsOpen = {}
  BY <1>5 DEF IsOpen
<1> QED BY <1>4, <1>5, <1>6 DEF Promise!Init, Promise!Root

(* One path more is in use and open.                                       *)
LEMMA AddedTree ==
  ASSUME IInv', NEW q, ~Registered(q), NEW D, Typed(D), NEW e, NEW n,
         Becomes(D, Added(q, Handle(e, n, TRUE)), cwd)
  PROVE  /\ Tree' = TreeOf(D) /\ cwd'.path = cwd.path
         /\ IsOpen' = IsOpen \cup {q} /\ (DOMAIN handles)' = DOMAIN handles \cup {q}
<1> DEFINE b == TRUE
           table == Added(q, Handle(e, n, b))
<1>1. Becomes(D, table, cwd)
  OBVIOUS
<1>2. DOMAIN table = DOMAIN handles \cup {q} /\ table[q].is_open
      /\ \A x \in DOMAIN handles : table[x] = handles[x]
  <2>1. DOMAIN table = DOMAIN handles \cup {q}
    BY DEF Added
  <2>2. table[q] = Handle(e, n, b)
    BY DEF Added
  <2>3. table[q].is_open
    <3>1. b
      OBVIOUS
    <3> HIDE DEF b, table
    <3>2. table[q].is_open = b
      BY <2>2 DEF Handle
    <3> QED BY <3>1, <3>2
  <2>4. \A x \in DOMAIN handles : table[x] = handles[x]
    BY DEF Added, Registered
  <2> QED BY <2>1, <2>3, <2>4
<1> HIDE DEF table
<1>3. /\ Tree' = TreeOf(D) /\ cwd' = cwd
      /\ (DOMAIN handles)' = DOMAIN table
      /\ IsOpen' = {path \in DOMAIN table : table[path].is_open}
  BY ONLY <1>1, IInv', Typed(D), BecomesTree
<1>4. IsOpen' = IsOpen \cup {q}
  BY <1>2, <1>3 DEF IsOpen
<1> QED BY <1>2, <1>3, <1>4

(* The same on a disk with new objects: they are nothing of the tree.      *)
LEMMA AddedOpen ==
  ASSUME IInv, IInv', NEW q, ~Registered(q), NEW D, Typed(D), SameTree(Disk, D), NEW e, NEW n,
         Becomes(D, Added(q, Handle(e, n, TRUE)), cwd)
  PROVE  /\ Tree' = Tree /\ cwd'.path = cwd.path
         /\ IsOpen' = IsOpen \cup {q} /\ (DOMAIN handles)' = DOMAIN handles \cup {q}
BY AddedTree, TreeSame, TreeIs

(* A path that is there and has no entry is opened.                        *)
LEMMA NowOpen ==
  ASSUME IInv, NEW q \in Path, ~Registered(q), Exists(Disk, q), Answers("open", q, "OK"),
         Tree' = Tree, cwd'.path = cwd.path,
         IsOpen' = IsOpen \cup {q}, (DOMAIN handles)' = DOMAIN handles \cup {q}
  PROVE  Promise!Open(q)
<1>1. Promise!There(q) /\ q \notin IsOpen
  BY AbstractIs DEF IsOpen, Registered
<1>2. answer'.call = "open" /\ answer'.path = q /\ answer'.result = "OK"
  BY DEF Answers, Says
<1> QED BY <1>1, <1>2 DEF Promise!Open, Promise!Answers, Promise!Result

(* A path that leads nowhere is not.                                       *)
LEMMA NotThere ==
  ASSUME IInv, NEW q \in Path, ~Registered(q), ~Exists(Disk, q),
         Refuses("open", q, "FILE_NOT_FOUND")
  PROVE  Promise!Open(q)
<1>1. ~Promise!There(q) /\ q \notin IsOpen
  BY AbstractIs DEF IsOpen, Registered
<1>2. answer'.call = "open" /\ answer'.path = q /\ answer'.result = "FILE_NOT_FOUND"
  BY DEF Refuses, Rejects, Says
<1>3. Tree' = Tree /\ IsOpen' = IsOpen /\ (DOMAIN handles)' = DOMAIN handles
      /\ cwd'.path = cwd.path
  BY RefusesTree DEF Refuses, Rejects
<1> QED BY <1>1, <1>2, <1>3 DEF Promise!Open, Promise!Answers, Promise!Result

(* open_file_using_parent opens what is there, and nothing else.           *)
LEMMA OpenInKeeps ==
  ASSUME IInv, IInv', NEW at, NEW q, Begun(Disk, at, q), ~Registered(q), OpenIn(at)
  PROVE  Promise!Open(q)
<1> DEFINE F == at.disk
           d == at.directory
           m == Get_Filename(at.path)
           list == Read_All_Entries(F, d.self)
           entry == list[Index(list, m)]
           self == Fresh(F, 0)
           e == Make(d.self, entry, self)
           E == With(F, self, entry)
           D == Disk
<1>1. at.path = q /\ Good(F) /\ SameTree(D, F) /\ Typed(F) /\ Typed(D)
  BY DEF Begun, SoundAt, Good, IInv
<1>2. Begun(D, at, q)
  OBVIOUS
<1> HIDE DEF D
<1>3. /\ q \in Path /\ q # <<>>
      /\ Found(list, m) <=> Exists(D, q)
      /\ Found(list, m) => entry = Walk(F, q) /\ Walk(F, q) \in Entry
  BY ONLY <1>2, FoundIs
<1>4. CASE ~Found(list, m)
  <2>1. Refuses("open", q, "FILE_NOT_FOUND")
    BY <1>1, <1>4 DEF OpenIn
  <2> QED BY <1>3, <1>4, <2>1, NotThere DEF D
<1>5. CASE Found(list, m)
  <2>1. Becomes(E, Added(q, Handle(e, 0, TRUE)), cwd) /\ Answers("open", q, "OK")
    BY <1>1, <1>5 DEF OpenIn
  <2>2. self \in Nat \ DOMAIN F.objects
    BY <1>1, FreshIs
  <2>3. entry \in Node
    BY <1>3, <1>5, EntriesAreNodes
  <2>4. Good(E) /\ SameTree(F, E)
    <3> HIDE DEF F, entry, self
    <3> QED BY ONLY <1>1, <2>2, <2>3, NewObject DEF E
  <2> HIDE DEF F, E, e
  <2>5. Typed(E)
    BY <2>4 DEF Good
  <2>6. SameTree(D, E)
    <3>1. D.created \in Nat /\ F.created \in Nat /\ E.created \in Nat
      BY <1>1, <2>5, BoundAssumption DEF Typed
    <3> QED BY <1>1, <2>4, <3>1 DEF SameTree
  <2>7. /\ Tree' = Tree /\ cwd'.path = cwd.path
        /\ IsOpen' = IsOpen \cup {q} /\ (DOMAIN handles)' = DOMAIN handles \cup {q}
    BY <2>1, <2>5, <2>6, AddedOpen DEF D
  <2> QED BY <1>3, <1>5, <2>1, <2>7, NowOpen DEF D
<1> QED BY <1>4, <1>5

(* A path that has an entry is opened once at a time.                      *)
LEMMA ReopenKeeps ==
  ASSUME IInv, IInv', NEW q, Registered(q), Reopen(q)
  PROVE  Promise!Open(q)
<1>1. q \in DOMAIN handles /\ q \in Path /\ Exists(Disk, q) /\ Typed(Disk) /\ Promise!There(q)
  <2>1. Stands(Disk, q, handles[q].element)
    BY DEF IInv, SoundAt, Registered
  <2>2. Typed(Disk)
    BY DEF IInv, SoundAt, Good
  <2>3. q \in Path /\ Exists(Disk, q)
    BY <2>1 DEF Stands
  <2> QED BY <2>2, <2>3, AbstractIs DEF Registered
<1>2. CASE handles[q].is_open
  <2>1. q \in IsOpen
    BY <1>1, <1>2 DEF IsOpen
  <2>2. Refuses("open", q, "ALREADY_OPENED")
    BY <1>2 DEF Reopen
  <2>3. answer'.call = "open" /\ answer'.path = q /\ answer'.result = "ALREADY_OPENED"
    BY <2>2 DEF Refuses, Rejects, Says
  <2>4. Tree' = Tree /\ IsOpen' = IsOpen /\ (DOMAIN handles)' = DOMAIN handles
        /\ cwd'.path = cwd.path
    BY <2>2, RefusesTree DEF Refuses, Rejects
  <2> QED BY <2>1, <2>3, <2>4 DEF Promise!Open, Promise!Answers, Promise!Result
<1>3. CASE ~handles[q].is_open
  <2> DEFINE b == TRUE
             table == [handles EXCEPT ![q].is_open = b]
             D == Disk
  <2>1. q \notin IsOpen
    BY <1>3 DEF IsOpen
  <2>2. Becomes(D, table, cwd) /\ Answers("open", q, "OK")
    BY <1>3 DEF Reopen
  <2>3. DOMAIN table = DOMAIN handles /\ \A x \in DOMAIN handles : x # q => table[x] = handles[x]
    BY <1>1
  <2>4. table[q].is_open
    <3>1. handles[q] \in Kind
      BY <1>1 DEF IInv, Counted
    <3>2. table[q].is_open = b
      BY <1>1, <3>1 DEF Kind
    <3> QED BY <3>2
  <2> HIDE DEF table, D
  <2>5. /\ Tree' = TreeOf(D) /\ cwd' = cwd
        /\ (DOMAIN handles)' = DOMAIN table
        /\ IsOpen' = {path \in DOMAIN table : table[path].is_open}
    BY <1>1, <2>2, BecomesTree DEF D
  <2>6. Tree' = Tree
    BY <2>5, TreeIs DEF D
  <2>7. IsOpen' = IsOpen \cup {q}
    BY <1>1, <2>3, <2>4, <2>5 DEF IsOpen
  <2>8. answer'.call = "open" /\ answer'.path = q /\ answer'.result = "OK"
    BY <2>2 DEF Answers, Says
  <2>9. (DOMAIN handles)' = DOMAIN handles \cup {q}
    BY <1>1, <2>3, <2>5
  <2> QED BY <1>1, <2>1, <2>5, <2>6, <2>7, <2>8, <2>9
          DEF Promise!Open, Promise!Answers, Promise!Result
<1> QED BY <1>2, <1>3

(* The empty string names nothing, and the calls say so.                   *)
LEMMA NothingNamed ==
  ASSUME IInv, NEW call, NEW attributes,
         NEW result \in {"INVALID_FILENAME", "INVALID_PATH", "FILE_NOT_EXISTING", "FILE_NOT_FOUND"},
         Rejects(call, Nothing, attributes, result)
  PROVE  Promise!Nameless
<1>1. answer'.path = Nothing /\ answer'.result = result
  BY DEF Rejects, Says
<1>2. Tree' = Tree /\ IsOpen' = IsOpen /\ (DOMAIN handles)' = DOMAIN handles
      /\ cwd'.path = cwd.path
  BY RefusesTree DEF Rejects
<1> QED BY <1>1, <1>2 DEF Promise!Nameless, Promise!Result

(* The root is there to be opened.                                         *)
LEMMA RootOpened ==
  ASSUME IInv, IInv', NEW q, q = <<>>, ~Registered(q), NEW e, NEW n, Register(q, e, n)
  PROVE  Promise!Open(q)
<1> DEFINE D == Disk
<1>1. Becomes(D, Added(q, Handle(e, n, TRUE)), cwd) /\ Answers("open", q, "OK")
  BY DEF Register
<1>2. Typed(D) /\ q \in Path /\ Exists(D, q)
  BY RootIsThere DEF IInv, SoundAt, Good
<1>3. SameTree(Disk, D)
  BY <1>2, BoundAssumption DEF SameTree, Typed
<1>4. /\ Tree' = Tree /\ cwd'.path = cwd.path
      /\ IsOpen' = IsOpen \cup {q} /\ (DOMAIN handles)' = DOMAIN handles \cup {q}
  <2> HIDE DEF D
  <2> QED BY ONLY IInv, IInv', ~Registered(q), <1>1, <1>2, <1>3, AddedOpen
<1> QED BY <1>1, <1>2, <1>4, NowOpen

(* The step Open keeps the promise.                                        *)
LEMMA OpenKeeps ==
  ASSUME ~Mixed, IInv, NEW raw \in Raw, Open(raw)
  PROVE  Promise!Nameless \/ \E x \in Path : Promise!Open(x)
<1> DEFINE type == Get_Filename_Type(raw)
           q == FilePath(raw)
           at == Located(Disk, raw)
<1>1. SoundAt(Disk, handles, cwd) /\ Counted(handles, cwd) /\ cwd.path \in Path /\ IInv'
  BY OpenStep DEF IInv, SoundAt, Stands
<1>2. /\ q \in Path
      /\ type = "CURRENT" => q = cwd.path
  BY <1>1, FilePathIs
<1>3. /\ MayUse(raw)
      /\ \/ Refuses("open", Nothing, "INVALID_FILENAME")
         \/ Registered(q) /\ Reopen(q)
         \/ type = "CURRENT" /\ ~Registered(q) /\ Register(q, cwd.element, 1)
         \/ /\ type \notin {"INVALID", "CURRENT"} /\ ~Registered(q)
            /\ \/ q = <<>> /\ Register(q, RootElement, 0)
               \/ q # <<>> /\ at.valid /\ OpenIn(at)
               \/ q # <<>> /\ ~at.valid /\ Refuses("open", q, "FILE_NOT_FOUND")
  BY Zenon DEF Open
<1> HIDE DEF q, type, at
<1>4. CASE Refuses("open", Nothing, "INVALID_FILENAME")
  BY <1>4, NothingNamed DEF Refuses
<1>5. CASE Registered(q) /\ Reopen(q)
  BY <1>1, <1>2, <1>5, ReopenKeeps
<1>6. CASE type = "CURRENT" /\ ~Registered(q) /\ Register(q, cwd.element, 1)
  <2>1. q = cwd.path /\ cwd.path = <<>>
    BY <1>1, <1>2, <1>6 DEF Counted, Registered
  <2> QED BY <1>1, <1>2, <1>6, <2>1, RootOpened
<1>7. CASE ~Registered(q) /\ q = <<>> /\ Register(q, RootElement, 0)
  BY <1>1, <1>2, <1>7, RootOpened
<1>8. CASE /\ type \notin {"INVALID", "CURRENT"} /\ ~Registered(q)
           /\ q # <<>> /\ at.valid /\ OpenIn(at)
  <2>1. Begun(Disk, at, q)
    BY <1>1, <1>3, <1>8, BeginsIs DEF at, q, type
  <2> QED BY <1>1, <1>2, <1>8, <2>1, OpenInKeeps
<1>9. CASE ~Registered(q) /\ q # <<>> /\ ~at.valid /\ Refuses("open", q, "FILE_NOT_FOUND")
  <2>1. ~IsDirectory(Disk, ParentPath(q))
    BY <1>9 DEF Located, at, q
  <2>2. ~Exists(Disk, q)
    BY <1>1, <1>2, <1>9, <2>1, LastIs, ParentIs DEF SoundAt
  <2> QED BY <1>2, <1>9, <2>2, NotThere
<1> QED BY <1>3, <1>4, <1>5, <1>6, <1>7, <1>8, <1>9

(* The step Close keeps the promise.                                       *)
LEMMA CloseKeeps ==
  ASSUME IInv, NEW path, Close(path)
  PROVE  path \in Path /\ Promise!Close(path)
<1> DEFINE b == FALSE
           table == [handles EXCEPT ![path].is_open = b]
           other == Settled(table, path)
           D == Disk
<1>1. IInv' /\ path \in DOMAIN handles /\ handles[path].is_open /\ Becomes(D, other, cwd)
      /\ Answers("close", path, "OK")
  BY CloseStep DEF Close, Registered
<1>2. Typed(D) /\ path \in Path
  BY <1>1 DEF IInv, SoundAt, Good, Stands
<1>3. DOMAIN table = DOMAIN handles /\ \A x \in DOMAIN handles : x # path => table[x] = handles[x]
  OBVIOUS
<1>4. ~table[path].is_open
  <2>1. handles[path] \in Kind
    BY <1>1 DEF IInv, Counted
  <2>2. table[path].is_open = b
    BY <1>1, <2>1 DEF Kind
  <2> QED BY <2>2
<1> HIDE DEF table
<1>5. other = table \/ other = [x \in DOMAIN table \ {path} |-> table[x]]
  BY DEF Settled
<1>6. /\ DOMAIN other \in {DOMAIN handles, DOMAIN handles \ {path}}
      /\ {x \in DOMAIN other : other[x].is_open} = IsOpen \ {path}
  <2>1. CASE other = table
    <3>1. {x \in DOMAIN other : other[x].is_open} = IsOpen \ {path}
      BY <1>3, <1>4, <2>1 DEF IsOpen
    <3>2. DOMAIN other = DOMAIN handles
      BY <1>3, <2>1
    <3> QED BY <3>1, <3>2
  <2>2. CASE other = [x \in DOMAIN table \ {path} |-> table[x]]
    <3> HIDE DEF other
    <3>1. DOMAIN other = DOMAIN handles \ {path}
      BY <1>3, <2>2
    <3>2. \A x \in DOMAIN other : other[x] = handles[x]
      BY <1>3, <2>2, <3>1
    <3>3. {x \in DOMAIN other : other[x].is_open} = IsOpen \ {path}
      BY <3>1, <3>2 DEF IsOpen
    <3> QED BY <3>1, <3>3
  <2> QED BY <1>5, <2>1, <2>2
<1> HIDE DEF other, D
<1>7. /\ Tree' = TreeOf(D) /\ cwd' = cwd
      /\ (DOMAIN handles)' = DOMAIN other
      /\ IsOpen' = {x \in DOMAIN other : other[x].is_open}
  BY ONLY <1>1, <1>2, BecomesTree
<1>8. Tree' = Tree
  BY <1>7, TreeIs DEF D
<1>9. answer'.call = "close" /\ answer'.path = path /\ answer'.result = "OK" /\ path \in IsOpen
  BY <1>1 DEF Answers, Says, IsOpen
<1>10. IsOpen' = IsOpen \ {path} /\ (DOMAIN handles)' \in {DOMAIN handles, DOMAIN handles \ {path}}
  BY <1>6, <1>7
<1> QED BY <1>2, <1>7, <1>8, <1>9, <1>10
        DEF Promise!Close, Promise!Answers, Promise!Result

(* A directory that is written anew: one path goes, or one path comes.     *)
Pruned(T, q) == [y \in DOMAIN T \ {q} |-> T[y]]
Planted(T, q, attributes) == [y \in DOMAIN T \cup {q} |-> IF y = q THEN attributes ELSE T[y]]

(* What the entry of the name says is what there is.                       *)
LEMMA TreeRewritten ==
  ASSUME NEW D, Good(D), NEW E, NEW p, NEW m, NEW c, NEW n, Rewritten(D, E, p, m, c, n)
  PROVE  /\ c.file_attributes = "INVALID" => TreeOf(E) = Pruned(TreeOf(D), Append(p, m))
         /\ c.file_attributes # "INVALID" =>
              TreeOf(E) = Planted(TreeOf(D), Append(p, m), c.file_attributes)
<1> DEFINE q == Append(p, m)
           R(G) == {r \in Path : r # <<>> /\ Exists(G, r)}
<1>1. p \in Path /\ m \in Name /\ q \in Path /\ Walk(E, q) = c
  BY AfterIs
<1>2. q # <<>>
  BY <1>1, Appends
<1>3. \A r \in Path : r # q =>
        /\ Exists(E, r) <=> Exists(D, r)
        /\ Walk(E, r).file_attributes = Walk(D, r).file_attributes
  BY AfterIs
<1> HIDE DEF q
<1>4. DOMAIN TreeOf(D) = R(D)
  BY DEF TreeOf
<1>5. CASE c.file_attributes = "INVALID"
  <2>1. R(E) = R(D) \ {q}
    BY <1>1, <1>3, <1>5 DEF Exists
  <2>2. \A r \in R(D) \ {q} : Walk(E, r).file_attributes = TreeOf(D)[r]
    BY <1>3 DEF TreeOf
  <2>3. TreeOf(E) = [r \in R(D) \ {q} |-> TreeOf(D)[r]]
    BY <2>1, <2>2 DEF TreeOf
  <2> QED BY <1>4, <1>5, <2>3 DEF q, Pruned
<1>6. CASE c.file_attributes # "INVALID"
  <2>1. R(E) = R(D) \cup {q}
    BY <1>1, <1>2, <1>3, <1>6 DEF Exists
  <2>2. \A r \in R(D) \cup {q} : Walk(E, r).file_attributes =
          IF r = q THEN c.file_attributes ELSE TreeOf(D)[r]
    BY <1>1, <1>3 DEF TreeOf
  <2>3. TreeOf(E) = [r \in R(D) \cup {q} |-> IF r = q THEN c.file_attributes ELSE TreeOf(D)[r]]
    BY <2>1, <2>2 DEF TreeOf
  <2> QED BY <1>4, <1>6, <2>3 DEF q, Planted
<1> QED BY <1>5, <1>6

(* What stands in the way of removing a path, said of the disk.            *)
LEMMA ObstaclesAre ==
  ASSUME IInv, NEW q \in Path
  PROVE  /\ "CANT_REMOVE" \in Promise!Obstacles(q) <=> q = <<>> \/ q = cwd.path
         /\ "FILE_OPENED" \in Promise!Obstacles(q) <=> Registered(q)
         /\ "NOT_EMPTY" \in Promise!Obstacles(q) <=> \E x \in Name : Exists(Disk, Append(q, x))
         /\ Promise!Obstacles(q) \subseteq {"CANT_REMOVE", "FILE_OPENED", "NOT_EMPTY"}
<1>1. Promise!Children(q) # {} <=> \E x \in Name : Exists(Disk, Append(q, x))
  <2>1. Promise!Children(q) = {Append(q, m) : m \in {y \in Name : Exists(Disk, Append(q, y))}}
    BY ChildrenAre
  <2> QED BY <2>1
<1> QED BY <1>1 DEF Promise!Obstacles, Promise!Root, Registered

(* Nothing is in the way of a path with no entry and nothing below.        *)
LEMMA NoObstacle ==
  ASSUME IInv, NEW q \in Path, q # <<>>, ~Registered(q),
         \A x \in Name : ~Exists(Disk, Append(q, x))
  PROVE  Promise!Obstacles(q) = {}
<1>1. q # cwd.path
  BY DEF IInv, Counted, Registered
<1> QED BY <1>1, ObstaclesAre

(* An element with entries has a child, one without has none.              *)
LEMMA EmptyIs ==
  ASSUME NEW D, Good(D), NEW q \in Path, Exists(D, q)
  PROVE  Childless(Walk(D, q)) <=> \A x \in Name : ~Exists(D, Append(q, x))
<1>1. CASE ~IsDirectory(D, q)
  <2>1. \A x \in Name : ~Exists(D, Append(q, x))
    BY <1>1, ChildIs
  <2> QED BY <1>1, <2>1 DEF Childless, IsDirectory
<1>2. CASE IsDirectory(D, q) /\ Size(D, q) = 0
  <2>1. \A x \in Name : ~Exists(D, Append(q, x))
    BY <1>2, ChildIs
  <2> QED BY <1>2, <2>1 DEF Childless, Size
<1>3. CASE IsDirectory(D, q) /\ Size(D, q) # 0
  <2> DEFINE i == 1
  <2>1. i \in 1 .. Size(D, q)
    BY <1>3, StartsAreNumbers
  <2> HIDE DEF i
  <2>2. \E x \in Name : Exists(D, Append(q, x))
    BY <1>3, <2>1, EntryIsChild
  <2>3. ~Childless(Walk(D, q))
    BY <1>3 DEF Childless, IsDirectory, Size
  <2> QED BY <2>2, <2>3
<1> QED BY <1>1, <1>2, <1>3

(* What is left of the tree when a path that is not there is removed.      *)
LEMMA NothingRemoved ==
  ASSUME IInv, NEW q \in Path, q # <<>>, ~Exists(Disk, q)
  PROVE  Promise!Without(q) = Tree /\ Promise!Obstacles(q) = {} /\ ~Promise!There(q)
<1>1. q \notin DOMAIN Tree /\ ~Promise!There(q) /\ ~IsDirectory(Disk, q)
  BY AbstractIs, Nodes DEF IInv, SoundAt
<1>2. Promise!Without(q) = Tree
  BY <1>1, TreeIs DEF Promise!Without, TreeOf
<1>3. ~Registered(q)
  BY DEF IInv, SoundAt, Stands, Registered
<1>4. \A x \in Name : ~Exists(Disk, Append(q, x))
  BY <1>1, NothingBelow
<1> QED BY <1>1, <1>2, <1>3, <1>4, NoObstacle

(* How a path is removed: something is in the way and nothing changes, or  *)
(* nothing is and the path is gone.                                        *)
Removed(after, q) ==
  \/ /\ after.result \in DOMAIN Refusal /\ after.result \in Promise!Obstacles(q)
     /\ after.disk = Disk
  \/ /\ after.result \in {"OK", "FILE_NOT_EXISTING"} /\ after.result \notin DOMAIN Refusal
     /\ q # <<>> /\ Promise!Obstacles(q) = {}
     /\ after.result = "OK" <=> Exists(Disk, q)
     /\ TreeOf(after.disk) = Promise!Without(q)
     /\ IsDirectory(after.disk, Front(q)) <=> IsDirectory(Disk, Front(q))

(* What try_delete stops at.                                               *)
LEMMA NoRefusal == DOMAIN Refusal = {"CANT_REMOVE", "FILE_OPENED", "NOT_EMPTY"}
BY DEF Refusal

(* A path that leads nowhere is as good as removed.                        *)
LEMMA RemovedNothing ==
  ASSUME IInv, NEW q \in Path, q # <<>>, ~Exists(Disk, q), NEW after,
         after.disk = Disk, after.result = "FILE_NOT_EXISTING"
  PROVE  Removed(after, q)
<1>1. Promise!Without(q) = Tree /\ Promise!Obstacles(q) = {}
  BY NothingRemoved
<1>2. after.result \in {"OK", "FILE_NOT_EXISTING"} /\ after.result # "OK"
      /\ after.result \notin DOMAIN Refusal
  BY NoRefusal
<1>3. TreeOf(after.disk) = Promise!Without(q)
  BY <1>1, TreeIs
<1> QED BY <1>1, <1>2, <1>3 DEF Removed

(* delete_file_using_parent removes the path, or says what is in the way.  *)
LEMMA DeletedInTree ==
  ASSUME ~Mixed, IInv, NEW at, NEW q, at.path = q, q \in Path,
         q # <<>> /\ ~Registered(q) => Begun(Disk, at, q)
  PROVE  Removed(DeletedIn(at), q)
<1> DEFINE after == DeletedIn(at)
           F == at.disk
           d == at.directory
           m == Get_Filename(at.path)
           list == Read_All_Entries(F, d.self)
           p == Front(q)
           D == Disk
<1>1. CASE q = <<>> \/ (q # <<>> /\ Registered(q))
  <2>1. after.disk = Disk /\ after.result = IF q = <<>> THEN "CANT_REMOVE" ELSE "FILE_OPENED"
    BY <1>1 DEF DeletedIn
  <2>2. after.result \in Promise!Obstacles(q)
    BY <1>1, <2>1, ObstaclesAre
  <2>3. after.result \in DOMAIN Refusal
    BY <2>1, NoRefusal
  <2> QED BY <2>1, <2>2, <2>3 DEF Removed
<1>2. CASE q # <<>> /\ ~Registered(q)
  <2>1. Begun(Disk, at, q) /\ Good(Disk)
    BY <1>2 DEF IInv, SoundAt
  <2>2. /\ Good(F) /\ SameTree(Disk, F) /\ p \in Path /\ Last(q) \in Name /\ q = Append(p, Last(q))
        /\ Stands(F, p, d) /\ IsDirectory(F, p)
    BY <2>1 DEF Begun, SoundAt
  <2>3. /\ m = Last(q) /\ Walk(F, q) = Walk(Disk, q)
        /\ Found(list, m) <=> Exists(F, q)
        /\ Found(list, m) <=> Exists(Disk, q)
        /\ Found(list, m) => list[Index(list, m)] = Walk(F, q) /\ Walk(F, q) \in Entry
    BY ONLY <2>1, FoundIs
  <2>4. CASE ~Found(list, m)
    <3>1. after = [disk |-> Disk, result |-> "FILE_NOT_EXISTING"]
      BY <1>2, <2>4 DEF DeletedIn
    <3>2. after.disk = Disk /\ after.result = "FILE_NOT_EXISTING" /\ ~Exists(Disk, q)
      BY <2>3, <2>4, <3>1
    <3> HIDE DEF after
    <3>3. Removed(after, q)
      BY <1>2, <3>2, RemovedNothing
    <3> QED BY <3>3 DEF after
  <2>5. CASE Found(list, m) /\ ~MayRemove(list[Index(list, m)])
    <3>1. after.disk = Disk /\ after.result = "NOT_EMPTY"
      BY <1>2, <2>5 DEF DeletedIn
    <3>2. ~Childless(Walk(Disk, q)) /\ Exists(Disk, q)
      <4> HIDE DEF list, F, m
      <4> QED BY <2>3, <2>5 DEF MayRemove, Childless
    <3>3. after.result \in Promise!Obstacles(q)
      BY <2>1, <3>1, <3>2, EmptyIs, ObstaclesAre
    <3> QED BY <3>1, <3>3, NoRefusal DEF Removed
  <2>6. CASE Found(list, m) /\ MayRemove(list[Index(list, m)])
    <3> DEFINE E == Remove_Entry(F, d, m)
    <3>1. after.disk = E /\ after.result = "OK"
      BY <1>2, <2>6 DEF DeletedIn
    <3>2. Exists(F, Append(p, m)) /\ Childless(Walk(F, Append(p, m))) /\ Exists(Disk, q)
          /\ Childless(Walk(Disk, q)) /\ m \in Name /\ q = Append(p, m)
      <4>1. m \in Name /\ q = Append(p, m)
        BY <2>2, <2>3
      <4> HIDE DEF list, m, F, p
      <4> QED BY <2>3, <2>6, <4>1 DEF MayRemove, Childless
    <3> HIDE DEF p, d, E, F, D, after
    <3>3. Changes(F, E, p, d, m, NoEntry, Size(F, p) - 1)
      BY ONLY <2>2, <3>2, RemoveIs DEF E
    <3> DEFINE none == NoEntry
               k == Size(F, p) - 1
    <3>4. Rewritten(F, E, p, m, none, k) /\ none.file_attributes = "INVALID"
      BY <3>3, NoEntryIsNone DEF Changes
    <3> HIDE DEF none, k
    <3> HIDE DEF m, list
    <3>5. TreeOf(E) = Pruned(TreeOf(F), Append(p, m))
      BY ONLY <2>2, <3>4, TreeRewritten
    <3>6. TreeOf(E) = Promise!Without(q)
      <4>1. TreeOf(F) = Tree
        BY <2>2, TreeSame, TreeIs
      <4> QED BY <3>2, <3>5, <4>1 DEF Promise!Without, Pruned
    <3>7. IsDirectory(E, p) <=> IsDirectory(Disk, p)
      <4>1. Append(p, m) # p
        BY <2>2, <3>2, Appends
      <4>2. IsDirectory(E, p) <=> IsDirectory(F, p)
        BY ONLY <2>2, <3>4, <4>1, AfterIs
      <4>3. Walk(F, p) = Walk(Disk, p)
        BY <2>2, WalkSame
      <4> QED BY <4>2, <4>3 DEF IsDirectory
    <3>8. Promise!Obstacles(q) = {}
      <4>1. \A x \in Name : ~Exists(Disk, Append(q, x))
        BY <2>1, <3>2, EmptyIs
      <4> QED BY <1>2, <4>1, NoObstacle
    <3>9. after.result \notin DOMAIN Refusal
      BY <3>1, NoRefusal
    <3>10. Removed(after, q)
      BY <1>2, <3>1, <3>2, <3>6, <3>7, <3>8, <3>9 DEF Removed, p
    <3> QED BY <3>10 DEF after
  <2> QED BY <2>4, <2>5, <2>6
<1> QED BY <1>1, <1>2

(* delete_file does so, however the path is written.                       *)
LEMMA DeletedTree ==
  ASSUME ~Mixed, IInv, NEW raw \in Raw, MayUse(raw), raw # <<>>
  PROVE  FilePath(raw) \in Path /\ Removed(Deleted(raw), FilePath(raw))
<1> DEFINE q == FilePath(raw)
           at == Located(Disk, raw)
           type == Get_Filename_Type(raw)
           after == Deleted(raw)
<1>1. /\ SoundAt(Disk, handles, cwd) /\ Counted(handles, cwd) /\ cwd.path \in Path
  BY DEF IInv, SoundAt, Stands
<1>2. q \in Path /\ type # "INVALID" /\ (type = "CURRENT" => q = cwd.path)
  BY <1>1, FilePathIs
<1> HIDE DEF q, at, type
<1>3. CASE type = "CURRENT"
  <2>1. after.disk = Disk /\ after.result = "CANT_REMOVE"
    BY <1>3 DEF Deleted, type
  <2>2. after.result \in Promise!Obstacles(q) /\ after.result \in DOMAIN Refusal
    BY <1>2, <1>3, <2>1, ObstaclesAre, NoRefusal
  <2> QED BY <1>2, <2>1, <2>2 DEF Removed, q
<1>4. CASE type # "CURRENT" /\ ~at.valid
  <2>1. after = [disk |-> Disk, result |-> "FILE_NOT_EXISTING"]
    BY <1>4 DEF Deleted, type, at
  <2>2. ~IsDirectory(Disk, ParentPath(q))
    BY <1>4 DEF Located, at, q
  <2>3. q # <<>> /\ ~Exists(Disk, q)
    <3>1. q # <<>>
      BY <1>1, <2>2, ParentIs, RootIsThere DEF SoundAt, Good
    <3> QED BY <1>1, <1>2, <2>2, <3>1, LastIs, ParentIs DEF SoundAt
  <2>4. after.disk = Disk /\ after.result = "FILE_NOT_EXISTING"
    BY <2>1
  <2> HIDE DEF after
  <2>5. Removed(after, q)
    BY <1>2, <2>3, <2>4, RemovedNothing
  <2> QED BY <1>2, <2>5 DEF q, after
<1>5. CASE type # "CURRENT" /\ at.valid
  <2>1. after = DeletedIn(at)
    BY <1>2, <1>5 DEF Deleted, type, at
  <2>2. at.path = q
    BY DEF Located, at, q
  <2>3. q # <<>> /\ ~Registered(q) => Begun(Disk, at, q)
    BY <1>1, <1>2, <1>5, BeginsIs DEF at, q, type
  <2>4. Removed(DeletedIn(at), q)
    BY <1>2, <2>2, <2>3, DeletedInTree
  <2> QED BY <1>2, <2>1, <2>4 DEF q
<1> QED BY <1>3, <1>4, <1>5

(* The entries of paths stay as they are.                                  *)
LEMMA SameEntries ==
  ASSUME IInv', NEW D, Typed(D), Becomes(D, handles, cwd)
  PROVE  /\ Tree' = TreeOf(D) /\ cwd'.path = cwd.path
         /\ IsOpen' = IsOpen /\ (DOMAIN handles)' = DOMAIN handles
<1>1. /\ Tree' = TreeOf(D) /\ cwd' = cwd /\ (DOMAIN handles)' = DOMAIN handles
      /\ IsOpen' = {path \in DOMAIN handles : handles[path].is_open}
  BY BecomesTree
<1> QED BY <1>1 DEF IsOpen

(* The empty string removes nothing.                                       *)
LEMMA DeleteNothing ==
  ASSUME NEW raw, raw = <<>>
  PROVE  Deleted(raw).disk = Disk /\ Deleted(raw).result = "FILE_NOT_EXISTING"
<1>1. Get_Filename_Type(raw) = "INVALID"
  BY DEF Get_Filename_Type
<1> QED BY <1>1 DEF Deleted

(* The step Delete keeps the promise.                                      *)
LEMMA DeleteKeeps ==
  ASSUME ~Mixed, IInv, NEW raw \in Raw, Delete(raw)
  PROVE  Promise!Nameless \/ \E x \in Path : Promise!Delete(x)
<1> DEFINE after == Deleted(raw)
           q == FilePath(raw)
           D == after.disk
<1>1. MayUse(raw) /\ Becomes(D, handles, cwd) /\ Answers("delete", Subject(raw), after.result)
  BY DEF Delete
<1>2. IInv' /\ Typed(D)
  BY <1>1, DeleteStep, DeletedIs DEF SoundAt, Good
<1> HIDE DEF D
<1>3. /\ Tree' = TreeOf(D) /\ cwd'.path = cwd.path
      /\ IsOpen' = IsOpen /\ (DOMAIN handles)' = DOMAIN handles
  BY <1>1, <1>2, SameEntries
<1>4. /\ answer'.call = "delete" /\ answer'.path = Subject(raw) /\ answer'.result = after.result
  BY <1>1 DEF Answers, Says
<1>5. CASE raw = <<>>
  <2>1. answer'.path = Nothing /\ answer'.result = "FILE_NOT_EXISTING" /\ D = Disk
    BY <1>4, <1>5, DeleteNothing DEF Subject, D
  <2>2. Tree' = Tree
    BY <1>3, <2>1, TreeIs
  <2> QED BY <1>3, <2>1, <2>2 DEF Promise!Nameless, Promise!Result
<1>6. CASE raw # <<>>
  <2>1. answer'.path = q
    BY <1>4, <1>6 DEF Subject
  <2>2. q \in Path /\ Removed(after, q)
    BY <1>1, <1>6, DeletedTree
  <2> HIDE DEF after, q
  <2>3. CASE Promise!Obstacles(q) # {}
    <3>1. after.result \in Promise!Obstacles(q) /\ D = Disk
      BY <2>2, <2>3 DEF Removed, D
    <3>2. Tree' = Tree
      BY <1>3, <3>1, TreeIs
    <3>3. Promise!Delete(q)
      BY <1>3, <1>4, <2>1, <2>3, <3>1, <3>2 DEF Promise!Delete, Promise!Answers, Promise!Result
    <3> QED BY <2>2, <3>3
  <2>4. CASE Promise!Obstacles(q) = {}
    <3>1. /\ after.result \in {"OK", "FILE_NOT_EXISTING"} /\ q # <<>>
          /\ after.result = "OK" <=> Exists(Disk, q)
          /\ TreeOf(D) = Promise!Without(q)
      BY <2>2, <2>4 DEF Removed, D
    <3>2. Promise!There(q) <=> Exists(Disk, q)
      BY <2>2, AbstractIs
    <3>3. ~Exists(Disk, q) => Promise!Without(q) = Tree
      BY <2>2, <3>1, NothingRemoved
    <3>4. Promise!Delete(q)
      BY <1>3, <1>4, <2>1, <2>4, <3>1, <3>2, <3>3
         DEF Promise!Delete, Promise!Answers, Promise!Result
    <3> QED BY <2>2, <3>4
  <2> QED BY <2>3, <2>4
<1> QED BY <1>5, <1>6

(* create_file_using_parent, after what had the name was removed.          *)
LEMMA CreateInKeeps ==
  ASSUME ~Mixed, IInv, IInv', NEW D, SoundAt(D, handles, cwd), NEW at, NEW q,
         Begun(D, at, q), ~Registered(q), ~Exists(D, q), NEW attributes \in Attributes,
         TreeOf(D) = Promise!Without(q), IsDirectory(Disk, Front(q)), Promise!Obstacles(q) = {},
         attributes = "INVALID" => Promise!Without(q) = Tree, CreateIn(at, attributes)
  PROVE  q \in Path /\ Promise!Create(q)
<1>1. q \in Path /\ q # <<>>
  <2>1. q \in Path /\ q # <<>>
    BY ONLY Begun(D, at, q), FoundIs
  <2> QED BY <2>1
<1>2. Promise!IsDirectory(Promise!Above(q))
  <2>1. Front(q) \in Path /\ Promise!Above(q) = Front(q)
    BY <1>1, FrontIs, AbstractIs
  <2> QED BY <2>1, AbstractIs
<1>3. Counted(handles, cwd)
  BY DEF IInv
<1>4. CASE attributes = "INVALID"
  <2>1. Becomes(at.disk, handles, cwd) /\ Says("create", q, attributes, "INVALID_FILE_TYPE")
    BY <1>3, <1>4, CreateInIs
  <2>2. Typed(at.disk) /\ SameTree(D, at.disk)
    BY DEF Begun, SoundAt, Good
  <2>3. TreeOf(at.disk) = Promise!Without(q)
    BY <2>2, TreeSame
  <2>4. /\ Tree' = Promise!Without(q) /\ cwd'.path = cwd.path
        /\ IsOpen' = IsOpen /\ (DOMAIN handles)' = DOMAIN handles
    <3> DEFINE F == at.disk
    <3> HIDE DEF F
    <3>1. Typed(F) /\ Becomes(F, handles, cwd) /\ TreeOf(F) = Promise!Without(q)
      BY <2>1, <2>2, <2>3 DEF F
    <3> QED BY <3>1, SameEntries
  <2>5. /\ answer'.call = "create" /\ answer'.path = q /\ answer'.result = "INVALID_FILE_TYPE"
        /\ answer'.attributes = "INVALID"
    BY <1>4, <2>1 DEF Says
  <2>6. Promise!AskedFor \notin Valid /\ Tree' = Tree
    BY <1>4, <2>4, <2>5 DEF Promise!AskedFor, Valid
  <2> QED BY <1>1, <1>2, <2>4, <2>5, <2>6 DEF Promise!Create, Promise!Answers, Promise!Result
<1>5. CASE attributes # "INVALID"
  <2>1. Says("create", q, attributes, "OK")
        /\ \E E, e : /\ Becomes(E, Added(q, Handle(e, 0, TRUE)), cwd)
                     /\ SoundAt(E, Added(q, Handle(e, 0, TRUE)), cwd)
                     /\ Gains(D, E, q, attributes)
    BY <1>3, <1>5, CreateInIs
  <2>2. PICK E, e : /\ Becomes(E, Added(q, Handle(e, 0, TRUE)), cwd)
                    /\ SoundAt(E, Added(q, Handle(e, 0, TRUE)), cwd)
                    /\ Gains(D, E, q, attributes)
    BY <2>1
  <2>3. PICK F, c, n : /\ Good(F) /\ SameTree(D, F) /\ Rewritten(F, E, Front(q), Last(q), c, n)
                       /\ c.file_attributes = attributes
    BY <2>2 DEF Gains
  <2>4. TreeOf(E) = Planted(Promise!Without(q), q, attributes)
    <3>1. q = Append(Front(q), Last(q))
      BY <1>1, FrontIs
    <3> DEFINE p == Front(q)
               m == Last(q)
    <3>2. Rewritten(F, E, p, m, c, n)
      BY <2>3
    <3> HIDE DEF p, m
    <3>3. TreeOf(E) = Planted(TreeOf(F), Append(p, m), c.file_attributes)
      BY <1>5, <2>3, <3>2, TreeRewritten
    <3>4. TreeOf(F) = TreeOf(D)
      BY <2>3, TreeSame
    <3> QED BY <2>3, <3>1, <3>3, <3>4 DEF p, m
  <2>5. Planted(Promise!Without(q), q, attributes) = Promise!With(q, attributes)
    BY DEF Planted, Promise!Without, Promise!With
  <2>6. /\ Tree' = TreeOf(E) /\ cwd'.path = cwd.path
        /\ IsOpen' = IsOpen \cup {q} /\ (DOMAIN handles)' = DOMAIN handles \cup {q}
    <3>1. Typed(E)
      BY <2>2 DEF SoundAt, Good
    <3> QED BY <2>2, <3>1, AddedTree
  <2>7. /\ answer'.call = "create" /\ answer'.path = q /\ answer'.result = "OK"
        /\ Promise!AskedFor = attributes
    BY <2>1 DEF Says, Promise!AskedFor
  <2>8. attributes \in Valid
    BY <1>5 DEF Valid
  <2>9. Promise!AskedFor \in Valid /\ Tree' = Promise!With(q, Promise!AskedFor)
    BY <2>4, <2>5, <2>6, <2>7, <2>8
  <2> QED BY <1>1, <1>2, <2>6, <2>7, <2>9 DEF Promise!Create, Promise!Answers, Promise!Result
<1> QED BY <1>4, <1>5

(* The step Create keeps the promise.                                      *)
LEMMA CreateKeeps ==
  ASSUME ~Mixed, ~Unkept, IInv, NEW raw \in Raw, NEW attributes \in Asked, Create(raw, attributes)
  PROVE  Promise!Nameless \/ \E x \in Path : Promise!Create(x)
<1> DEFINE after == Deleted(raw)
           D == after.disk
           at == Located(D, raw)
           q == FilePath(raw)
<1>1. MayUse(raw) /\ MayCreate(raw, attributes) /\
      IF after.result \in DOMAIN Refusal
      THEN Rejects("create", q, attributes, Refusal[after.result])
      ELSE IF raw = <<>> THEN Rejects("create", Nothing, attributes, "INVALID_FILENAME")
      ELSE IF at.valid THEN CreateIn(at, attributes)
      ELSE Rejects("create", at.path, attributes, "FILE_NOT_FOUND")
  BY DEF Create
<1>2. SoundAt(D, handles, cwd) /\ Counted(handles, cwd) /\ IInv'
  BY <1>1, CreateStep, DeletedIs DEF IInv
<1>3. CASE raw = <<>>
  <2>1. after.result = "FILE_NOT_EXISTING"
    BY <1>3, DeleteNothing
  <2>2. Rejects("create", Nothing, attributes, "INVALID_FILENAME")
    BY <1>1, <1>3, <2>1, NoRefusal
  <2> QED BY <2>2, NothingNamed
<1>4. CASE raw # <<>>
  <2>1. q \in Path /\ Removed(after, q)
    BY <1>1, <1>4, DeletedTree
  <2>2. CASE after.result \in DOMAIN Refusal
    <3> DEFINE result == Refusal[after.result]
    <3>1. Rejects("create", q, attributes, result)
      BY <1>1, <2>2
    <3>2. after.result \in Promise!Obstacles(q)
      BY <2>1, <2>2 DEF Removed
    <3>3. /\ Promise!Obstacles(q) # {}
          /\ result \in {Promise!Refusal[reason] : reason \in Promise!Obstacles(q)}
      <4> HIDE DEF after, q
      <4> QED BY <3>2 DEF Refusal, Promise!Refusal
    <3> HIDE DEF result, q
    <3>4. answer'.call = "create" /\ answer'.path = q /\ answer'.result = result
      BY <3>1 DEF Rejects, Says
    <3>5. Tree' = Tree /\ IsOpen' = IsOpen /\ (DOMAIN handles)' = DOMAIN handles
          /\ cwd'.path = cwd.path
      BY <3>1, RefusesTree DEF Refuses, Rejects
    <3>6. Promise!Create(q)
      BY <3>3, <3>4, <3>5 DEF Promise!Create, Promise!Answers, Promise!Result
    <3> QED BY <2>1, <3>6
  <2>3. CASE after.result \notin DOMAIN Refusal
    <3>1. /\ q # <<>> /\ Promise!Obstacles(q) = {} /\ TreeOf(D) = Promise!Without(q)
          /\ IsDirectory(D, Front(q)) <=> IsDirectory(Disk, Front(q))
      BY <2>1, <2>3 DEF Removed
    <3>2. CASE at.valid
      <4>1. /\ ~Registered(q) /\ ~Exists(D, q)
            /\ Get_Filename_Type(raw) \notin {"INVALID", "CURRENT"}
        BY <1>1, <1>4, <2>3, <3>2, DeletedIs
      <4>2. CreateIn(at, attributes) /\ attributes \in Attributes
        BY <1>1, <1>4, <2>3, <3>2, AskedAssumption
      <4> HIDE DEF D
      <4>6. ASSUME attributes = "INVALID"  PROVE Promise!Without(q) = Tree
        <5>1. after.result # "OK"
          BY <1>1, <4>6 DEF MayCreate, Valid
        <5> HIDE DEF after
        <5>2. ~Exists(Disk, q)
          BY <2>1, <2>3, <5>1 DEF Removed
        <5> QED BY <2>1, <3>1, <5>2, NothingRemoved
      <4> HIDE DEF after
      <4>3. Begun(D, at, q)
        BY <1>1, <1>2, <3>1, <3>2, <4>1, BeginsIs
      <4> HIDE DEF at, q
      <4>4. IsDirectory(D, Front(q))
        <5>1. SameTree(D, at.disk) /\ Front(q) \in Path /\ IsDirectory(at.disk, Front(q))
          BY <4>3 DEF Begun
        <5> QED BY <5>1, WalkSame DEF IsDirectory
      <4>5. q \in Path /\ Promise!Create(q)
        BY <1>2, <3>1, <4>1, <4>2, <4>3, <4>4, <4>6, CreateInKeeps
      <4> QED BY <4>5
    <3>3. CASE ~at.valid
      <4>1. Rejects("create", q, attributes, "FILE_NOT_FOUND")
        <5>1. at.path = q
          BY DEF Located
        <5> QED BY <1>1, <1>4, <2>3, <3>3, <5>1
      <4>2. ~IsDirectory(D, ParentPath(q))
        BY <3>3 DEF Located
      <4> HIDE DEF D, q, at, after
      <4>3. ~Promise!IsDirectory(Promise!Above(q))
        <5>1. ~IsDirectory(Disk, Front(q)) /\ Front(q) \in Path /\ Promise!Above(q) = Front(q)
          BY <2>1, <3>1, <4>2, FrontIs, ParentIs, AbstractIs
        <5> QED BY <5>1, AbstractIs
      <4>4. answer'.call = "create" /\ answer'.path = q /\ answer'.result = "FILE_NOT_FOUND"
        BY <4>1 DEF Refuses, Rejects, Says
      <4>5. Tree' = Tree /\ IsOpen' = IsOpen /\ (DOMAIN handles)' = DOMAIN handles
            /\ cwd'.path = cwd.path
        BY <4>1, RefusesTree DEF Refuses, Rejects
      <4>6. Promise!Create(q)
        BY <3>1, <4>3, <4>4, <4>5 DEF Promise!Create, Promise!Answers, Promise!Result
      <4> QED BY <2>1, <4>6
    <3> QED BY <3>2, <3>3
  <2> QED BY <2>2, <2>3
<1> QED BY <1>3, <1>4

(* How an entry is counted says nothing of whether it is open.             *)
LEMMA CountedOpen ==
  ASSUME NEW table, table \in [DOMAIN table -> Kind], NEW path \in DOMAIN table, NEW n
  PROVE  LET other == [table EXCEPT ![path].cwd_count = n] IN
         /\ DOMAIN other = DOMAIN table
         /\ \A x \in DOMAIN table : other[x].is_open = table[x].is_open
<1> DEFINE other == [table EXCEPT ![path].cwd_count = n]
<1>1. ASSUME NEW x \in DOMAIN table  PROVE other[x].is_open = table[x].is_open
  <2>1. table[x] \in Kind
    OBVIOUS
  <2>2. other[x] = table[x] \/ other[x] = [table[x] EXCEPT !.cwd_count = n]
    OBVIOUS
  <2> QED BY <2>1, <2>2 DEF Kind
<1> QED BY <1>1

OpenOnes(table) == {x \in DOMAIN table : table[x].is_open}

(* Try_Remove removes nothing that is open.                                *)
LEMMA SettledOpen ==
  ASSUME NEW table, NEW path
  PROVE  /\ DOMAIN Settled(table, path) \in {DOMAIN table, DOMAIN table \ {path}}
         /\ OpenOnes(Settled(table, path)) = OpenOnes(table)
<1>1. CASE table[path].cwd_count <= 0 /\ ~table[path].is_open
  <2> DEFINE other == [x \in DOMAIN table \ {path} |-> table[x]]
  <2>1. Settled(table, path) = other
    BY <1>1 DEF Settled
  <2>2. DOMAIN other = DOMAIN table \ {path} /\ \A x \in DOMAIN other : other[x] = table[x]
    OBVIOUS
  <2> HIDE DEF other
  <2>3. OpenOnes(other) = OpenOnes(table)
    BY <1>1, <2>2 DEF OpenOnes
  <2> QED BY <2>1, <2>2, <2>3
<1>2. CASE ~(table[path].cwd_count <= 0 /\ ~table[path].is_open)
  BY <1>2 DEF Settled
<1> QED BY <1>1, <1>2

(* The directory that is left keeps what is open.                          *)
LEMMA LeftOpen ==
  ASSUME NEW table, table \in [DOMAIN table -> Kind]
  PROVE  /\ DOMAIN Left(table) \in {DOMAIN table, DOMAIN table \ {cwd.path}}
         /\ OpenOnes(Left(table)) = OpenOnes(table)
<1>1. CASE cwd.path \in DOMAIN table
  <2> DEFINE c == cwd.path
             n == table[c].cwd_count - 1
             other == [table EXCEPT ![c].cwd_count = n]
  <2>1. Left(table) = Settled(other, c)
    BY <1>1 DEF Left
  <2>2. c \in DOMAIN table
    BY <1>1
  <2> HIDE DEF c, n
  <2>3. /\ DOMAIN other = DOMAIN table
        /\ \A x \in DOMAIN table : other[x].is_open = table[x].is_open
    BY ONLY table \in [DOMAIN table -> Kind], <2>2, CountedOpen
  <2> HIDE DEF other
  <2>4. OpenOnes(other) = OpenOnes(table)
    BY <2>3 DEF OpenOnes
  <2>5. /\ DOMAIN Settled(other, c) \in {DOMAIN other, DOMAIN other \ {c}}
        /\ OpenOnes(Settled(other, c)) = OpenOnes(other)
    BY SettledOpen
  <2> QED BY <2>1, <2>3, <2>4, <2>5 DEF c
<1>2. CASE cwd.path \notin DOMAIN table
  BY <1>2 DEF Left
<1> QED BY <1>1, <1>2

(* A directory is entered: it is in use, and only the one that was left    *)
(* may no longer be.                                                       *)
LEMMA EnterKeeps ==
  ASSUME IInv, IInv', NEW D, Typed(D), SameTree(Disk, D), NEW table, table \in [DOMAIN table -> Kind],
         NEW q \in Path, IsDirectory(Disk, q), NEW e, Enter(D, table, q, e),
         DOMAIN table = DOMAIN handles \cup {q}, OpenOnes(table) = IsOpen
  PROVE  Promise!Set_CWD(q)
<1> DEFINE place == [path |-> q, element |-> e]
           other == Left(table)
<1>1. Becomes(D, other, place) /\ Answers("set_cwd", q, "OK")
  BY DEF Enter
<1>2. place.path = q
  OBVIOUS
<1> HIDE DEF place
<1>3. /\ DOMAIN other \in {DOMAIN table, DOMAIN table \ {cwd.path}}
      /\ OpenOnes(other) = OpenOnes(table)
  BY LeftOpen
<1> HIDE DEF other
<1>4. /\ Tree' = TreeOf(D) /\ cwd' = place /\ handles' = other
      /\ (DOMAIN handles)' = DOMAIN other
      /\ IsOpen' = {path \in DOMAIN other : other[path].is_open}
  BY <1>1, BecomesTree
<1>5. Tree' = Tree
  BY <1>4, TreeSame, TreeIs
<1>6. IsOpen' = IsOpen
  BY <1>3, <1>4 DEF OpenOnes
<1>7. cwd'.path = q
  BY <1>2, <1>4
<1>8. q # <<>> => q \in (DOMAIN handles)'
  BY <1>7 DEF IInv, Counted
<1>9. (DOMAIN handles)' \cup {cwd.path} = DOMAIN handles \cup {cwd.path, q}
  BY <1>3, <1>4
<1>10. answer'.call = "set_cwd" /\ answer'.path = q /\ answer'.result = "OK"
  BY <1>1 DEF Answers, Says
<1>11. Promise!IsDirectory(q)
  BY AbstractIs
<1> QED BY <1>5, <1>6, <1>7, <1>8, <1>9, <1>10, <1>11
        DEF Promise!Set_CWD, Promise!Answers, Promise!Result, Promise!Root

(* What is no directory is not entered.                                    *)
LEMMA NotEntered ==
  ASSUME IInv, NEW q \in Path, ~IsDirectory(Disk, q), Tree' = Tree, IsOpen' = IsOpen,
         (DOMAIN handles)' = DOMAIN handles, cwd'.path = cwd.path,
         NEW result, result = IF Exists(Disk, q) THEN "NOT_A_DIRECTORY" ELSE "PATH_NOT_FOUND",
         Answers("set_cwd", q, result)
  PROVE  Promise!Set_CWD(q)
<1>1. answer'.call = "set_cwd" /\ answer'.path = q /\ answer'.result = result
  BY DEF Answers, Says
<1>2. ~Promise!IsDirectory(q) /\ (Promise!There(q) <=> Exists(Disk, q))
  BY AbstractIs
<1> QED BY <1>1, <1>2 DEF Promise!Set_CWD, Promise!Answers, Promise!Result

(* Entering a path that has an entry keeps the promise.                    *)
LEMMA EnterRegisteredKeeps ==
  ASSUME IInv, NEW q, Registered(q), Enter_Registered(q)
  PROVE  q \in Path /\ Promise!Set_CWD(q)
<1> DEFINE n == handles[q].cwd_count + 1
           table == [handles EXCEPT ![q].cwd_count = n]
           e == handles[q].element
           D == Disk
<1>1. /\ IInv' /\ Good(D) /\ Typed(D) /\ Stands(D, q, e) /\ q \in Path
      /\ handles \in [DOMAIN handles -> Kind] /\ q \in DOMAIN handles
  <2>1. q \in DOMAIN handles
    BY DEF Registered
  <2>2. Good(D) /\ Typed(D) /\ Stands(D, q, e) /\ handles \in [DOMAIN handles -> Kind]
    BY <2>1 DEF IInv, SoundAt, Counted, Good
  <2> QED BY <2>1, <2>2, EnterRegisteredStep DEF Stands
<1>2. \/ e.file_attributes = "DIRECTORY" /\ Enter(D, table, q, e)
      \/ /\ e.file_attributes # "DIRECTORY" /\ Becomes(D, table, cwd)
         /\ Answers("set_cwd", q, "NOT_A_DIRECTORY")
  BY DEF Enter_Registered
<1>3. e.file_attributes = "DIRECTORY" <=> IsDirectory(D, q)
  BY <1>1 DEF Stands, IsDirectory
<1> HIDE DEF n, D
<1>4. /\ DOMAIN table = DOMAIN handles
      /\ \A x \in DOMAIN handles : table[x].is_open = handles[x].is_open
  BY ONLY <1>1, CountedOpen
<1>5. table \in [DOMAIN table -> Kind]
  <2> DEFINE k == 1
             one == [handles EXCEPT ![q].cwd_count = @ + k]
  <2>1. k \in Int /\ table = one
    BY DEF n
  <2> HIDE DEF k
  <2>2. one \in [DOMAIN one -> Kind]
    BY ONLY <1>1, <2>1, CountIs
  <2> HIDE DEF one, table
  <2> QED BY <2>1, <2>2
<1> HIDE DEF table, e
<1>6. OpenOnes(table) = IsOpen
  BY <1>4 DEF OpenOnes, IsOpen
<1>7. CASE e.file_attributes = "DIRECTORY" /\ Enter(D, table, q, e)
  <2>1. SameTree(Disk, D)
    BY <1>1, BoundAssumption DEF SameTree, Typed, D
  <2>2. DOMAIN table = DOMAIN handles \cup {q} /\ IsDirectory(Disk, q)
    BY <1>1, <1>3, <1>4, <1>7 DEF D
  <2>3. Promise!Set_CWD(q)
    BY <1>1, <1>5, <1>6, <1>7, <2>1, <2>2, EnterKeeps
  <2> QED BY <1>1, <2>3
<1>8. CASE /\ e.file_attributes # "DIRECTORY" /\ Becomes(D, table, cwd)
           /\ Answers("set_cwd", q, "NOT_A_DIRECTORY")
  <2>1. /\ Tree' = TreeOf(D) /\ cwd' = cwd
        /\ (DOMAIN handles)' = DOMAIN table
        /\ IsOpen' = {path \in DOMAIN table : table[path].is_open}
    BY <1>1, <1>8, BecomesTree
  <2>2. Tree' = Tree
    BY <2>1, TreeIs DEF D
  <2>3. IsOpen' = IsOpen
    BY <1>6, <2>1 DEF OpenOnes
  <2>5. Exists(Disk, q)
    BY <1>1 DEF D, Stands
  <2>4. Promise!Set_CWD(q)
    BY <1>1, <1>3, <1>4, <1>8, <2>1, <2>2, <2>3, <2>5, NotEntered DEF D
  <2> QED BY <1>1, <2>4
<1> QED BY <1>2, <1>7, <1>8

(* Entering a path that has none keeps the promise.                        *)
LEMMA EnterOpenedKeeps ==
  ASSUME IInv, NEW q \in Path, ~Registered(q), Enter_Opened(q)
  PROVE  Promise!Set_CWD(q)
<1> DEFINE opened == Opened_Directory(Disk, q)
           E == opened.disk
           e == opened.directory
           n == 1
           b == FALSE
           table == Added(q, Handle(e, n, b))
<1>1. SoundAt(Disk, handles, cwd) /\ Counted(handles, cwd) /\ IInv'
  BY EnterOpenedStep DEF IInv
<1>2. CASE IsDirectory(Disk, q)
  <2>1. Enter(E, table, q, e)
    BY <1>2, Zenon DEF Enter_Opened
  <2>2. n \in Int /\ b \in BOOLEAN /\ ~b
    OBVIOUS
  <2>3. Keeps(Disk, E) /\ Stands(E, q, e)
    BY <1>1, <1>2, OpenedIs DEF SoundAt
  <2>4. SoundAt(E, handles, cwd) /\ SameTree(Disk, E) /\ Typed(E)
    BY <1>1, <2>3 DEF SoundAt, Keeps, Good
  <2> HIDE DEF E, e, n, b
  <2>5. table \in [DOMAIN table -> Kind]
    BY ONLY <2>2, <2>3, <2>4, <1>1, ~Registered(q), AddedIs
  <2>6. DOMAIN table = DOMAIN handles \cup {q}
    BY DEF Added
  <2>7. table[q].is_open = b
    BY DEF Added, Handle
  <2>8. \A x \in DOMAIN handles : table[x] = handles[x]
    BY DEF Added, Registered
  <2> HIDE DEF table
  <2>9. OpenOnes(table) = IsOpen
    <3>1. ~table[q].is_open
      BY <2>2, <2>7
    <3> QED BY <2>6, <2>8, <3>1 DEF OpenOnes, IsOpen
  <2> QED BY <1>1, <1>2, <2>1, <2>4, <2>5, <2>6, <2>9, EnterKeeps
<1>3. CASE ~IsDirectory(Disk, q)
  <2> DEFINE result == IF Exists(Disk, q) THEN "NOT_A_DIRECTORY" ELSE "PATH_NOT_FOUND"
  <2>1. Exists(Disk, q) <=> IsDirectory(Disk, ParentPath(q)) /\ Walk(Disk, q) # NoEntry
    <3>1. Good(Disk)
      BY <1>1 DEF SoundAt
    <3>2. Exists(Disk, q) <=> Walk(Disk, q) # NoEntry
      BY <3>1, Nodes, NoEntryIsNone DEF Exists
    <3>3. Exists(Disk, q) => IsDirectory(Disk, ParentPath(q))
      BY <1>3, <3>1, LastIs, ParentIs, RootIsThere DEF Good
    <3> QED BY <3>2, <3>3
  <2>2. Refuses("set_cwd", q, result)
    BY <1>3, <2>1 DEF Enter_Opened
  <2> HIDE DEF result
  <2>3. Answers("set_cwd", q, result)
    BY <2>2 DEF Refuses, Rejects, Answers
  <2>4. Tree' = Tree /\ IsOpen' = IsOpen /\ (DOMAIN handles)' = DOMAIN handles
        /\ cwd'.path = cwd.path
    BY <2>2, RefusesTree DEF Refuses, Rejects
  <2> QED BY <1>3, <2>3, <2>4, NotEntered DEF result
<1> QED BY <1>2, <1>3

(* The step Set_CWD keeps the promise.                                     *)
LEMMA SetCwdKeeps ==
  ASSUME IInv, NEW raw \in Raw, Set_CWD(raw)
  PROVE  Promise!Nameless \/ \E x \in Path : Promise!Set_CWD(x)
<1>1. cwd.path \in Path
  BY DEF IInv, SoundAt, Stands
<1>2. FilePath(raw) \in Path
  BY <1>1, FilePathIs
<1>3. CASE Get_Path_Type(raw) = "INVALID"
  <2>1. Refuses("set_cwd", Nothing, "INVALID_PATH")
    BY <1>3 DEF Set_CWD
  <2> QED BY <2>1, NothingNamed DEF Refuses
<1>4. CASE Get_Path_Type(raw) # "INVALID" /\ Registered(FilePath(raw))
  <2>1. Enter_Registered(FilePath(raw))
    BY <1>4 DEF Set_CWD
  <2> QED BY <1>2, <1>4, <2>1, EnterRegisteredKeeps
<1>5. CASE Get_Path_Type(raw) # "INVALID" /\ ~Registered(FilePath(raw))
  <2>1. Enter_Opened(FilePath(raw))
    BY <1>5 DEF Set_CWD
  <2> QED BY <1>2, <1>5, <2>1, EnterOpenedKeeps
<1> QED BY <1>3, <1>4, <1>5

(* The position in an object is nothing of the tree.                       *)
LEMMA MovedTree ==
  ASSUME IInv, IInv', NEW o \in DOMAIN objects, NEW n,
         objects' = [objects EXCEPT ![o].file_position = n],
         UNCHANGED <<clusters, created, handles, cwd>>
  PROVE  /\ Tree' = Tree /\ cwd'.path = cwd.path
         /\ IsOpen' = IsOpen /\ (DOMAIN handles)' = DOMAIN handles
<1>1. objects[RootObject] \in Object /\ RootObject \in DOMAIN objects /\ created \in Nat
  BY BoundAssumption DEF IInv, SoundAt, Good, Typed, Disk
<1>2. objects'[RootObject].file_size = objects[RootObject].file_size
  <2>1. objects'[RootObject] = objects[RootObject]
        \/ objects'[RootObject] = [objects[RootObject] EXCEPT !.file_position = n]
    BY <1>1
  <2> QED BY <1>1, <2>1 DEF Object
<1>3. SameTree(Disk, Disk')
  BY <1>1, <1>2 DEF SameTree, Disk
<1>4. TreeOf(Disk') = TreeOf(Disk)
  BY <1>3, TreeSame
<1>5. Tree' = Tree
  BY <1>4, TreeIs, TreeNext
<1> QED BY <1>5 DEF IsOpen

(* The object of an element is there, and has a position.                  *)
LEMMA ObjectIs ==
  ASSUME IInv, NEW path \in DOMAIN handles
  PROVE  /\ Stands(Disk, path, handles[path].element) /\ path \in Path
         /\ handles[path].element.self \in DOMAIN objects
         /\ objects[handles[path].element.self].file_position \in Nat
<1>1. Stands(Disk, path, handles[path].element) /\ Disk.objects = objects /\ Typed(Disk)
  BY DEF IInv, SoundAt, Good, Disk
<1> QED BY <1>1 DEF Stands, Typed, Object

(* What is read is the name of a path below.                               *)
LEMMA NameIsChild ==
  ASSUME IInv, NEW path \in Path, NEW d, Stands(Disk, path, d), IsDirectory(Disk, path),
         NEW i \in 1 .. Len(Read_All_Entries(Disk, d.self))
  PROVE  Read_All_Entries(Disk, d.self)[i].file_name \in
           {y[Len(y)] : y \in Promise!Children(path)}
<1> DEFINE D == Disk
           list == Read_All_Entries(D, d.self)
           x == list[i].file_name
<1>1. Good(D) /\ Stands(D, path, d) /\ IsDirectory(D, path)
  BY DEF IInv, SoundAt
<1> HIDE DEF D
<1>2. /\ Len(list) = Size(D, path)
      /\ \A j \in 1 .. Size(D, path) : list[j] = Cluster(D, path)[j]
  BY ONLY <1>1, path \in Path, OwnList
<1>3. i \in 1 .. Size(D, path) /\ x = Cluster(D, path)[i].file_name
  BY <1>2 DEF D
<1> HIDE DEF x
<1>4. x \in Name /\ Exists(D, Append(path, x))
  BY <1>1, <1>3, EntryIsChild
<1>5. Append(path, x) \in Promise!Children(path)
  <2>1. Promise!Children(path) = {Append(path, m) : m \in {y \in Name : Exists(Disk, Append(path, y))}}
    BY ChildrenAre
  <2> QED BY <1>4, <2>1 DEF D
<1>6. Append(path, x)[Len(Append(path, x))] = x
  <2>1. Last(Append(path, x)) = x
    BY <1>4, Longer
  <2> QED BY <2>1 DEF Last
<1>7. x \in {y[Len(y)] : y \in Promise!Children(path)}
  BY <1>5, <1>6
<1> QED BY <1>7 DEF x, D

(* The step Read keeps the promise.                                        *)
LEMMA ReadKeeps ==
  ASSUME IInv, NEW path, Read(path)
  PROVE  path \in Path /\ Promise!Read(path)
<1> DEFINE d == handles[path].element
           o == d.self
           position == objects[o].file_position
           list == Read_All_Entries(Disk, o)
           n == position + 1
<1>1. IInv' /\ path \in DOMAIN handles /\ handles[path].is_open /\ d.file_attributes = "DIRECTORY"
      /\ IF position >= Len(list) THEN Refuses("read", path, "EOF")
         ELSE /\ objects' = [objects EXCEPT ![o].file_position = n]
              /\ Answers("read", path, list[n].file_name)
              /\ UNCHANGED <<clusters, created, handles, cwd>>
  BY ReadStep DEF Read, Registered
<1>2. Stands(Disk, path, d) /\ path \in Path /\ o \in DOMAIN objects /\ position \in Nat
  BY <1>1, ObjectIs
<1>3. IsDirectory(Disk, path)
  BY <1>1, <1>2 DEF Stands, IsDirectory
<1>4. path \in IsOpen /\ Promise!IsDirectory(path)
  BY <1>1, <1>2, <1>3, AbstractIs DEF IsOpen
<1>5. CASE position >= Len(list)
  <2>1. Refuses("read", path, "EOF")
    BY <1>1, <1>5
  <2>2. answer'.call = "read" /\ answer'.path = path /\ answer'.result = "EOF"
    BY <2>1 DEF Refuses, Rejects, Says
  <2>3. Tree' = Tree /\ IsOpen' = IsOpen /\ (DOMAIN handles)' = DOMAIN handles
        /\ cwd'.path = cwd.path
    BY <2>1, RefusesTree DEF Refuses, Rejects
  <2>4. Promise!Read(path)
    BY <1>4, <2>2, <2>3 DEF Promise!Read, Promise!Answers, Promise!Result
  <2> QED BY <1>2, <2>4
<1>6. CASE ~(position >= Len(list))
  <2>1. Len(list) \in Nat
    <3> DEFINE D == Disk
    <3>1. Good(D) /\ Stands(D, path, d) /\ IsDirectory(D, path)
      BY <1>2, <1>3 DEF IInv, SoundAt
    <3> HIDE DEF D, d
    <3>2. Read_All_Entries(D, d.self) \in Seq(Entry)
      BY ONLY <1>2, <3>1, OwnList
    <3> QED BY <3>2 DEF D
  <2>2. n \in 1 .. Len(list)
    BY <1>2, <1>6, <2>1
  <2>3. answer'.call = "read" /\ answer'.path = path /\ answer'.result = list[n].file_name
    BY <1>1, <1>6 DEF Answers, Says
  <2>4. list[n].file_name \in {y[Len(y)] : y \in Promise!Children(path)}
    <3> HIDE DEF d, n
    <3> QED BY <1>2, <1>3, <2>2, NameIsChild
  <2>5. objects' = [objects EXCEPT ![o].file_position = n]
        /\ UNCHANGED <<clusters, created, handles, cwd>>
    BY <1>1, <1>6
  <2> HIDE DEF n, list, o
  <2>6. /\ Tree' = Tree /\ cwd'.path = cwd.path
        /\ IsOpen' = IsOpen /\ (DOMAIN handles)' = DOMAIN handles
    BY <1>1, <1>2, <2>5, MovedTree
  <2>7. Promise!Read(path)
    BY <1>4, <2>3, <2>4, <2>6 DEF Promise!Read, Promise!Answers, Promise!Result
  <2> QED BY <1>2, <2>7
<1> QED BY <1>5, <1>6

(* The step Seek changes nothing that the promise is about.                *)
LEMMA SeekKeeps ==
  ASSUME IInv, NEW path, Seek(path)
  PROVE  UNCHANGED Promise!vars
<1> DEFINE o == handles[path].element.self
           n == 0
<1>1. /\ IInv' /\ path \in DOMAIN handles /\ objects' = [objects EXCEPT ![o].file_position = n]
      /\ UNCHANGED <<clusters, created, handles, cwd>> /\ answer' = answer
  BY SeekStep DEF Seek, Registered
<1>2. o \in DOMAIN objects
  BY <1>1, ObjectIs
<1> HIDE DEF n, o
<1>3. /\ Tree' = Tree /\ cwd'.path = cwd.path
      /\ IsOpen' = IsOpen /\ (DOMAIN handles)' = DOMAIN handles
  BY <1>1, <1>2, MovedTree
<1> QED BY <1>1, <1>3 DEF Promise!vars

(* The step Write changes nothing that the promise is about: the entry     *)
(* has another size, but the same attributes.                              *)
LEMMA WriteKeeps ==
  ASSUME IInv, NEW path, Write(path)
  PROVE  UNCHANGED Promise!vars
<1> DEFINE e == handles[path].element
           D == Disk
           grown == [D EXCEPT !.objects[e.self].file_size = 1]
           E == Tell_Directory(grown, e)
           c == Sized(Walk(D, path), 1)
           n == Size(D, Front(path))
           p == Front(path)
           m == Last(path)
<1>1. /\ IInv' /\ path \in DOMAIN handles /\ e.file_attributes = "FILE" /\ Becomes(E, handles, cwd)
      /\ answer' = answer
  BY WriteStep DEF Write, Registered
<1>2. Good(D) /\ Stands(D, path, e) /\ path \in Path
  BY <1>1, ObjectIs DEF IInv, SoundAt
<1> HIDE DEF e, D
<1>3. Good(E) /\ path # <<>> /\ Rewritten(D, E, p, m, c, n)
  BY ONLY <1>1, <1>2, WriteIs
<1>4. c.file_attributes = Walk(D, path).file_attributes /\ path = Append(p, m)
  BY <1>2, <1>3, FrontIs DEF Sized
<1>5. Walk(D, path).file_attributes # "INVALID" /\ Exists(D, path)
  BY <1>2 DEF Stands, Exists
<1> HIDE DEF E, c, n, p, m
<1>6. TreeOf(E) = Planted(TreeOf(D), Append(p, m), c.file_attributes)
  BY <1>2, <1>3, <1>4, <1>5, TreeRewritten
<1>7. path \in DOMAIN TreeOf(D) /\ TreeOf(D)[path] = Walk(D, path).file_attributes
  BY <1>2, <1>3, <1>5 DEF TreeOf
<1>8. TreeOf(D) = [y \in DOMAIN TreeOf(D) |-> TreeOf(D)[y]]
  BY DEF TreeOf
<1>9. TreeOf(E) = TreeOf(D)
  <2>1. DOMAIN TreeOf(D) \cup {path} = DOMAIN TreeOf(D)
    BY <1>7
  <2>2. TreeOf(E) = [y \in DOMAIN TreeOf(D) |->
                       IF y = path THEN TreeOf(D)[path] ELSE TreeOf(D)[y]]
    BY <1>4, <1>6, <1>7, <2>1 DEF Planted
  <2> QED BY <1>8, <2>2
<1>10. /\ Tree' = TreeOf(E) /\ cwd'.path = cwd.path
       /\ IsOpen' = IsOpen /\ (DOMAIN handles)' = DOMAIN handles
  BY <1>1, <1>3, SameEntries DEF Good
<1>11. Tree' = Tree
  BY <1>9, <1>10, TreeIs DEF D
<1> QED BY <1>1, <1>10, <1>11 DEF Promise!vars

(* get_file_attr finds a name in the working directory, or nothing.        *)
LEMMA FoundHere ==
  ASSUME IInv, NEW raw \in Raw, Len(raw) = 1,
         Found(Read_All_Entries(Disk, cwd.element.self), raw[1])
  PROVE  LET list == Read_All_Entries(Disk, cwd.element.self)
             q == FilePath(raw)
         IN /\ q \in Path /\ q # <<>> /\ Exists(Disk, q)
            /\ list[Index(list, raw[1])].file_attributes = Walk(Disk, q).file_attributes
<1> DEFINE D == Disk
           d == cwd.element
           p == cwd.path
           list == Read_All_Entries(D, d.self)
           x == raw[1]
<1>1. Good(D) /\ Stands(D, p, d) /\ p \in Path
  BY DEF IInv, SoundAt, Stands
<1>2. IsDirectory(D, p)
  BY <1>1 DEF IInv, Counted, Stands, IsDirectory
<1> HIDE DEF D, d, p
<1>3. /\ list \in Seq(Entry)
      /\ \A y \in Name : /\ Found(list, y) <=> Exists(D, Append(p, y))
                         /\ Found(list, y) => list[Index(list, y)] = Walk(D, Append(p, y))
  BY ONLY <1>1, <1>2, OwnList
<1> HIDE DEF list
<1>4. x \in Name
  <2>1. Index(list, x) \in 1 .. Len(list) /\ list[Index(list, x)].file_name = x
    BY <1>3, IndexFinds DEF list, D, d
  <2>2. list[Index(list, x)] \in Entry
    BY <1>3, <2>1
  <2>3. list[Index(list, x)].file_name \in Name
    BY <2>2, EntriesAreNodes
  <2> QED BY <2>1, <2>3
<1>5. raw = <<x>> /\ x \notin {Here, Above, Separator}
  <2>1. raw \in Seq(Token)
    BY RawAssumption DEF IsRaw
  <2> QED BY <1>4, <2>1, OneOnly, SpecialNames
<1>6. FilePath(raw) = Append(p, x)
  <2>1. ~Contains(raw, Separator)
    BY <1>5 DEF Contains
  <2>2. raw # <<>> /\ raw # <<Here>> /\ raw # <<Above>>
    BY <1>5
  <2>3. Get_Filename_Type(raw) = "FILENAME"
    BY <2>1, <2>2 DEF Get_Filename_Type
  <2>4. FilePath(raw) = Appended(p, <<x>>)
    BY <1>5, <2>3 DEF FilePath, p
  <2>5. Appended(p, <<x>>) = Step(p, x)
    BY <1>1, <1>4, OneElement DEF Part
  <2> QED BY <1>5, <2>4, <2>5 DEF Step
<1>7. Append(p, x) \in Path /\ Append(p, x) # <<>>
  BY <1>1, <1>4, Longer
<1>8. Exists(D, Append(p, x)) /\ list[Index(list, x)] = Walk(D, Append(p, x))
  <2>1. Found(list, x)
    BY DEF list, D, d
  <2> QED BY <1>3, <1>4, <2>1
<1> QED BY <1>6, <1>7, <1>8 DEF list, D, d

(* And it finds the name if it is there.                                   *)
LEMMA FoundIfThere ==
  ASSUME IInv, NEW raw \in Raw, Get_Filename_Type(raw) = "FILENAME", Exists(Disk, FilePath(raw))
  PROVE  Len(raw) = 1 /\ Found(Read_All_Entries(Disk, cwd.element.self), raw[1])
<1> DEFINE D == Disk
           d == cwd.element
           p == cwd.path
           x == raw[1]
<1>1. Good(D) /\ Stands(D, p, d) /\ p \in Path
  BY DEF IInv, SoundAt, Stands
<1>2. IsDirectory(D, p)
  BY <1>1 DEF IInv, Counted, Stands, IsDirectory
<1>3. Len(raw) = 1 /\ x \in Name /\ Exists(D, Append(p, x))
  BY <1>1, FilePathIs
<1>4. Found(Read_All_Entries(D, d.self), x)
  <2> HIDE DEF D, d, p, x
  <2> QED BY ONLY <1>1, <1>2, <1>3, OwnList
<1> QED BY <1>3, <1>4

(* The step Get_File_Attribute keeps the promise.                          *)
LEMMA GetAttributesKeeps ==
  ASSUME ~Unkept, IInv, NEW raw \in Raw, Get_File_Attribute(raw)
  PROVE  Promise!Nameless \/ \E x \in Path : Promise!Get_Attributes(x)
<1> DEFINE list == Read_All_Entries(Disk, cwd.element.self)
           found == Len(raw) = 1 /\ Found(list, raw[1])
           q == FilePath(raw)
           result == IF found THEN list[Index(list, raw[1])].file_attributes ELSE "FILE_NOT_FOUND"
<1>1. q \in Path /\ (Get_Filename_Type(raw) = "INVALID" <=> raw = <<>>)
  BY FilePathIs DEF IInv, SoundAt, Stands
<1>2. MayGet(raw) /\ Refuses("get_attributes", Subject(raw), result)
  BY DEF Get_File_Attribute
<1>3. CASE raw = <<>>
  <2>1. result = "FILE_NOT_FOUND" /\ Subject(raw) = Nothing
    BY <1>3 DEF Subject
  <2> HIDE DEF result
  <2> QED BY <1>2, <2>1, NothingNamed DEF Refuses
<1>4. CASE raw # <<>>
  <2>1. found => /\ q # <<>> /\ Exists(Disk, q)
                 /\ list[Index(list, raw[1])].file_attributes = Walk(Disk, q).file_attributes
    BY FoundHere
  <2>2. Exists(Disk, q) => found
    <3>1. CASE Get_Filename_Type(raw) = "FILENAME"
      BY <3>1, FoundIfThere
    <3>2. CASE Get_Filename_Type(raw) # "FILENAME"
      BY <1>1, <1>2, <1>4, <3>2, NoEntryIsNone DEF MayGet, Exists
    <3> QED BY <3>1, <3>2
  <2>3. result = IF Exists(Disk, q) THEN Walk(Disk, q).file_attributes ELSE "FILE_NOT_FOUND"
    BY <2>1, <2>2
  <2>4. /\ q \in DOMAIN Tree <=> q # <<>> /\ Exists(Disk, q)
        /\ q \in DOMAIN Tree => Tree[q] = Walk(Disk, q).file_attributes
        /\ Promise!There(q) <=> Exists(Disk, q)
        /\ Exists(Disk, q) => q # <<>>
    BY <1>1, <2>1, <2>2, AbstractIs
  <2>5. answer'.call = "get_attributes" /\ answer'.path = q /\ answer'.result = result
    BY <1>2, <1>4 DEF Refuses, Rejects, Says, Subject
  <2>6. Tree' = Tree /\ IsOpen' = IsOpen /\ (DOMAIN handles)' = DOMAIN handles
        /\ cwd'.path = cwd.path
    BY <1>2, RefusesTree DEF Refuses, Rejects
  <2> HIDE DEF q, result
  <2>7. Promise!Get_Attributes(q)
    BY <2>3, <2>4, <2>5, <2>6
       DEF Promise!Get_Attributes, Promise!Answers, Promise!Result, Promise!AttributesOf,
           Promise!Root
  <2> QED BY <1>1, <2>7 DEF q
<1> QED BY <1>3, <1>4

(* What set_file_attrs says of a path is one of the objections, or the     *)
(* path has the attributes already.                                        *)
Said(x, attributes, result) ==
  \/ result \in Promise!Objections(x)
  \/ result = "OK" /\ Promise!Objections(x) = {} /\ Promise!With(x, attributes) = Tree

(* Such an answer keeps the promise.                                       *)
LEMMA SaidKeeps ==
  ASSUME IInv, NEW x \in Path, NEW attributes, NEW result,
         Rejects("set_attributes", x, attributes, result),
         Promise!AskedFor = attributes => Said(x, attributes, result)
  PROVE  Promise!Set_Attributes(x)
<1>1. answer'.call = "set_attributes" /\ answer'.path = x /\ answer'.result = result
      /\ Promise!AskedFor = attributes
  BY DEF Rejects, Says, Promise!AskedFor
<1>2. Tree' = Tree /\ IsOpen' = IsOpen /\ (DOMAIN handles)' = DOMAIN handles
      /\ cwd'.path = cwd.path
  BY RefusesTree DEF Rejects
<1>3. CASE result \in Promise!Objections(x)
  BY <1>1, <1>2, <1>3 DEF Promise!Set_Attributes, Promise!Answers, Promise!Result
<1>4. CASE result = "OK" /\ Promise!Objections(x) = {} /\ Promise!With(x, attributes) = Tree
  BY <1>1, <1>2, <1>4 DEF Promise!Set_Attributes, Promise!Answers, Promise!Result
<1> QED BY <1>1, <1>3, <1>4 DEF Said

(* Attributes that are given a second time change nothing.                 *)
LEMMA GivenAgain ==
  ASSUME IInv, NEW q \in DOMAIN Tree
  PROVE  Promise!With(q, Tree[q]) = Tree
<1>1. Tree = [y \in DOMAIN Tree |-> Tree[y]]
  BY DEF Tree
<1>2. DOMAIN Tree \cup {q} = DOMAIN Tree
  OBVIOUS
<1> QED BY <1>1, <1>2 DEF Promise!With

(* The step Set_File_Attribute keeps the promise.                          *)
LEMMA SetAttributesKeeps ==
  ASSUME ~Mixed, ~Unkept, IInv, NEW raw \in Raw, NEW attributes \in Valid,
         Set_File_Attribute(raw, attributes)
  PROVE  Promise!Nameless \/ \E x \in Path : Promise!Set_Attributes(x)
<1> DEFINE q == FilePath(raw)
           at == Located(Disk, raw)
           type == Get_Filename_Type(raw)
           list == Read_All_Entries(at.disk, at.directory.self)
           name == Get_Filename(at.path)
           result == IF type = "CURRENT" THEN "CANT_CHANGE"
                     ELSE IF raw = <<>> \/ ~at.valid THEN "FILE_NOT_EXISTING"
                     ELSE IF Registered(at.path) THEN "FILE_OPENED"
                     ELSE IF ~Found(list, name) THEN "FILE_NOT_EXISTING"
                     ELSE IF Is_Convertable(list[Index(list, name)].file_attributes, attributes)
                     THEN "OK" ELSE "CANT_CHANGE"
<1>1. /\ MayUse(raw) /\ MaySet(raw, attributes)
      /\ Rejects("set_attributes", Subject(raw), attributes, result)
  BY Zenon DEF Set_File_Attribute
<1>2. /\ SoundAt(Disk, handles, cwd) /\ Counted(handles, cwd) /\ cwd.path \in Path
      /\ Good(Disk) /\ Exists(Disk, cwd.path)
  BY DEF IInv, SoundAt, Stands
<1>3. /\ q \in Path /\ (type = "INVALID" <=> raw = <<>>)
      /\ type = "CURRENT" => q = cwd.path
  BY <1>2, FilePathIs
<1>4. at.path = q
  BY DEF Located
<1>5. CASE raw = <<>>
  <2>1. type # "CURRENT" /\ Subject(raw) = Nothing
    BY <1>3, <1>5 DEF Subject
  <2>2. result = "FILE_NOT_EXISTING"
    BY <1>5, <2>1
  <2> HIDE DEF result
  <2> QED BY <1>1, <2>1, <2>2, NothingNamed
<1>6. CASE raw # <<>>
  <2> DEFINE old == Walk(Disk, q).file_attributes
  <2>1. Subject(raw) = q
    BY <1>6 DEF Subject
  <2>2. /\ q \in DOMAIN Tree <=> q # <<>> /\ Exists(Disk, q)
        /\ q \in DOMAIN Tree => Tree[q] = old
        /\ Promise!There(q) <=> Exists(Disk, q)
    BY <1>3, AbstractIs
  <2>3. Promise!AskedFor = attributes
    BY <1>1 DEF Rejects, Says, Promise!AskedFor
  <2>4. CASE type = "CURRENT"
    <3>1. result = "CANT_CHANGE" /\ q = cwd.path
      BY <1>3, <2>4
    <3> HIDE DEF result, q
    <3> QED BY <1>3, <1>1, <2>1, <3>1, SaidKeeps DEF Said, Promise!Objections
  <2>5. CASE type # "CURRENT" /\ ~at.valid
    <3>1. result = "FILE_NOT_EXISTING" /\ ~IsDirectory(Disk, ParentPath(q))
      BY <2>5 DEF Located
    <3> HIDE DEF result, q
    <3>2. q # <<>>
      BY <1>2, <3>1, ParentIs, RootIsThere DEF Good
    <3>3. ~Exists(Disk, q)
      BY <1>2, <1>3, <3>1, <3>2, LastIs, ParentIs
    <3> QED BY <1>3, <1>1, <2>1, <2>2, <3>1, <3>3, SaidKeeps DEF Said, Promise!Objections
  <2>6. CASE type # "CURRENT" /\ at.valid /\ Registered(q)
    <3>1. result = "FILE_OPENED" /\ q \in DOMAIN handles
      BY <1>4, <1>6, <2>6 DEF Registered
    <3> HIDE DEF result, q
    <3> QED BY <1>3, <1>1, <2>1, <3>1, SaidKeeps DEF Said, Promise!Objections
  <2>7. CASE type # "CURRENT" /\ at.valid /\ ~Registered(q)
    <3>1. q # <<>> /\ (old = attributes \/ ~Is_Convertable(old, attributes))
      BY <1>1, <1>3, <1>6, <2>7 DEF MaySet
    <3>2. Begun(Disk, at, q)
      BY <1>1, <1>2, <1>3, <1>6, <2>7, <3>1, BeginsIs
    <3>3. /\ Found(list, name) <=> Exists(Disk, q)
          /\ Found(list, name) => list[Index(list, name)].file_attributes = old
      <4> HIDE DEF at, q
      <4> QED BY ONLY <3>2, FoundIs
    <3>4. result = IF ~Exists(Disk, q) THEN "FILE_NOT_EXISTING"
                   ELSE IF Is_Convertable(old, attributes) THEN "OK" ELSE "CANT_CHANGE"
      BY <1>4, <1>6, <2>7, <3>3
    <3>5. Exists(Disk, q) => old \in Valid
      BY <1>2, <1>3, <3>1, LastIs, EntriesAreNodes
    <3>6. q \notin DOMAIN handles /\ q # cwd.path
      BY <1>2, <2>7, <3>1 DEF Counted, Registered
    <3> HIDE DEF result, q, old, at, list, name, type
    <3>7. CASE ~Exists(Disk, q)
      BY <1>3, <1>1, <2>1, <2>2, <3>4, <3>7, SaidKeeps DEF Said, Promise!Objections
    <3>8. CASE Exists(Disk, q) /\ ~Is_Convertable(old, attributes)
      <4>1. (old = "DIRECTORY") # (attributes = "DIRECTORY")
        BY <3>5, <3>8 DEF Is_Convertable, Valid, Attributes
      <4>2. "CANT_CHANGE" \in Promise!Objections(q)
        BY <2>2, <2>3, <3>1, <3>8, <4>1
           DEF Promise!Objections, Promise!AttributesOf, Promise!Root
      <4> QED BY <1>3, <1>1, <2>1, <3>4, <3>8, <4>2, SaidKeeps DEF Said
    <3>9. CASE Exists(Disk, q) /\ Is_Convertable(old, attributes)
      <4>1. Tree[q] = attributes /\ q \in DOMAIN Tree /\ Promise!AttributesOf(q) = attributes
        BY <2>2, <3>1, <3>9 DEF Promise!AttributesOf, Promise!Root
      <4>2. Promise!Objections(q) = {}
        BY <2>2, <2>3, <3>1, <3>6, <3>9, <4>1 DEF Promise!Objections, Promise!Root
      <4>3. Promise!With(q, attributes) = Tree
        BY <4>1, GivenAgain
      <4> QED BY <1>3, <1>1, <2>1, <3>4, <3>9, <4>2, <4>3, SaidKeeps DEF Said
    <3> QED BY <3>7, <3>8, <3>9
  <2> QED BY <2>4, <2>5, <2>6, <2>7
<1> QED BY <1>5, <1>6

(* The step Get_Working_Dir keeps the promise.                             *)
LEMMA GetCwdKeeps ==
  ASSUME IInv, NEW size, Get_Working_Dir(size)
  PROVE  Promise!Get_CWD
<1>1. /\ answer'.call = "get_cwd" /\ answer'.path = cwd.path /\ answer'.result \in {"OK", "TOO_SMALL"}
      /\ UNCHANGED <<clusters, created, objects, handles, cwd>>
  BY DEF Get_Working_Dir, Refuses, Rejects, Answers, Says
<1>2. Tree' = Tree /\ IsOpen' = IsOpen /\ (DOMAIN handles)' = DOMAIN handles
      /\ cwd'.path = cwd.path
  BY <1>1, RefusesTree
<1> QED BY <1>1, <1>2 DEF Promise!Get_CWD, Promise!Answers, Promise!Result

(* Every step of the calls is one the promise allows, or changes nothing   *)
(* of the tree.                                                            *)
LEMMA NextKeeps ==
  ASSUME ~Mixed, ~Unkept, IInv, Next
  PROVE  Promise!Next \/ UNCHANGED Promise!vars
<1> DEFINE Does(x) == \/ Promise!Open(x) \/ Promise!Close(x) \/ Promise!Delete(x)
                      \/ Promise!Create(x) \/ Promise!Set_CWD(x) \/ Promise!Read(x)
                      \/ Promise!Get_Attributes(x) \/ Promise!Set_Attributes(x)
<1>1. ASSUME NEW x \in Path, Does(x)  PROVE Promise!Next
  <2>1. answer'.path = x
    BY <1>1 DEF Promise!Open, Promise!Close, Promise!Delete, Promise!Create, Promise!Set_CWD,
                Promise!Read, Promise!Get_Attributes, Promise!Set_Attributes, Promise!Answers
  <2>2. x \in {answer'.path} \cap Seq(Name)
    BY <2>1 DEF Path
  <2> QED BY <1>1, <2>2 DEF Promise!Next
<1>2. Promise!Nameless \/ Promise!Get_CWD => Promise!Next
  BY DEF Promise!Next
<1>3. CASE \E raw \in Raw : Open(raw)
  BY <1>1, <1>2, <1>3, OpenKeeps
<1>4. CASE \E raw \in Raw : Delete(raw)
  BY <1>1, <1>2, <1>4, DeleteKeeps
<1>5. CASE \E raw \in Raw : Set_CWD(raw)
  BY <1>1, <1>2, <1>5, SetCwdKeeps
<1>6. CASE \E raw \in Raw : Get_File_Attribute(raw)
  BY <1>1, <1>2, <1>6, GetAttributesKeeps
<1>7. CASE \E raw \in Raw, attributes \in Asked : Create(raw, attributes)
  BY <1>1, <1>2, <1>7, CreateKeeps
<1>8. CASE \E raw \in Raw, attributes \in Asked \cap Valid : Set_File_Attribute(raw, attributes)
  BY <1>1, <1>2, <1>8, SetAttributesKeeps
<1>9. CASE \E path \in DOMAIN handles : Close(path)
  BY <1>1, <1>9, CloseKeeps
<1>10. CASE \E path \in DOMAIN handles : Write(path)
  BY <1>10, WriteKeeps
<1>11. CASE \E path \in DOMAIN handles : Read(path)
  BY <1>1, <1>11, ReadKeeps
<1>12. CASE \E path \in DOMAIN handles : Seek(path)
  BY <1>12, SeekKeeps
<1>13. CASE \E buffer_size \in BufferSizes : Get_Working_Dir(buffer_size)
  BY <1>2, <1>13, GetCwdKeeps
<1> QED BY <1>3, <1>4, <1>5, <1>6, <1>7, <1>8, <1>9, <1>10, <1>11, <1>12, <1>13 DEF Next

(* The calls keep what is promised of a tree (api.h, and                   *)
(* src/kernel/filesystem): a call changes at most the path it is about and *)
(* does to it what it says, and what is refused is refused for a reason;   *)
(* as long as no object of a directory is in use beside another, and       *)
(* without the three kinds of calls of which MCDirectoriesFound,           *)
(* MCDirectoriesSet and MCDirectoriesReplaced show the opposite.           *)
THEOREM PromiseIsKept == ASSUME ~Mixed, ~Unkept PROVE Spec => KeepsPromise
<1>1. IInv /\ [Next]_vars => [Promise!Next]_(Promise!vars)
  <2>1. ASSUME IInv, UNCHANGED vars  PROVE UNCHANGED Promise!vars
    <3>1. UNCHANGED <<clusters, created, objects, handles, cwd>> /\ answer' = answer
      BY <2>1 DEF vars
    <3>2. Tree' = Tree /\ IsOpen' = IsOpen /\ (DOMAIN handles)' = DOMAIN handles
          /\ cwd'.path = cwd.path
      BY <2>1, <3>1, RefusesTree
    <3> QED BY <3>1, <3>2 DEF Promise!vars
  <2> QED BY <2>1, NextKeeps
<1> QED BY <1>1, Inductive, InitPromise, PTL DEF Spec, Promise!Spec, KeepsPromise
=============================================================================
