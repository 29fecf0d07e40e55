-------------------------- MODULE Fat_FilesProofs --------------------------
(***************************************************************************)
(* Proofs about Fat_Files, for a disk of any size, any number of files and *)
(* any sequence of calls that does not shrink a file and keep it           *)
(* (~Shrinking: with Deallocate_Last_N_Clusters as it is the properties    *)
(* fail).  That no two files share a cluster follows from what each change *)
(* of the table does to a partition of it into chains: a chain starts      *)
(* (Take), gets a new end (Link and Take) or is freed whole.  The calls    *)
(* that combine these pass a disk on, and so does the argument: Sound says *)
(* of a disk, a root, a list of entries and the open files what has to     *)
(* hold between any two of their steps.                                    *)
(*                                                                         *)
(* Get_File_Clusters and Allocate_Clusters are recursive functions.  What  *)
(* they return is proved by induction, which is taken from the least       *)
(* number principle (Least) so that it is about sets; that the functions   *)
(* exist comes first.                                                      *)
(***************************************************************************)
EXTENDS Fat_Files, TLAPS, WellFoundedInduction, FiniteSetTheorems, SequenceTheorems

USE SizeAssumption, MarkAssumption

(* Every set of numbers that is not empty has a least one. *)
LEMMA Least ==
  ASSUME NEW T, T \subseteq Nat, T # {}
  PROVE  \E m \in T : \A n \in T : m <= n
<1>1. PICK x \in T : \A y \in T : ~(<<y, x>> \in OpToRel(<, Nat))
  BY NatLessThanWellFounded, WFMin
<1>2. \A y \in T : ~(y < x)
  BY <1>1 DEF OpToRel
<1>3. \A y \in T : x <= y
  BY <1>2
<1> QED BY <1>3

(* Induction over the numbers, for a set. *)
LEMMA NatInd ==
  ASSUME NEW T, 0 \in T, \A n \in Nat : n \in T => n + 1 \in T
  PROVE  Nat \subseteq T
<1>1. SUFFICES ASSUME Nat \ T # {} PROVE FALSE
  OBVIOUS
<1>2. PICK m \in Nat \ T : \A n \in Nat \ T : m <= n
  BY <1>1, Least
<1>3. m # 0 /\ m - 1 \in Nat
  BY <1>2
<1>4. m - 1 \in T
  BY <1>2, <1>3
<1> QED BY <1>2, <1>3, <1>4

-----------------------------------------------------------------------------
(* Chains.                                                                 *)

(* A table: each entry leads to a cluster or is a mark. *)
Table == [Cluster -> Cluster \cup {FAT_EOF, FAT_FREE}]

(* A step of Get_File_Clusters, and a walk of n steps.                     *)
Extended(table, before) ==
  LET next == table[Last(before)]
  IN IF next \in Cluster THEN Append(before, next) ELSE before

IsWalk(g, table, s, n) ==
  g = [k \in 0 .. n |-> IF k = 0 THEN <<s>> ELSE Extended(table, g[k - 1])]

(* There is a walk of every length: what is defined by recursion is a      *)
(* function.                                                               *)
LEMMA WalkExists ==
  ASSUME NEW table, NEW s, NEW n \in Nat
  PROVE  \E g : IsWalk(g, table, s, n)
<1> DEFINE T == {m \in Nat : \E g : IsWalk(g, table, s, m)}
<1>1. 0 \in T
  <2> DEFINE g == [k \in 0 .. 0 |-> <<s>>]
  <2>1. IsWalk(g, table, s, 0)
    BY DEF IsWalk
  <2> QED BY <2>1
<1>2. ASSUME NEW m \in Nat, m \in T PROVE m + 1 \in T
  <2>1. PICK g : IsWalk(g, table, s, m)
    BY <1>2
  <2> DEFINE h == [k \in 0 .. (m + 1) |-> IF k <= m THEN g[k] ELSE Extended(table, g[m])]
  <2>2. ASSUME NEW k \in 0 .. (m + 1)
        PROVE  h[k] = IF k = 0 THEN <<s>> ELSE Extended(table, h[k - 1])
    <3>1. CASE k = m + 1
      BY <3>1
    <3>2. CASE k <= m
      BY <2>1, <3>2 DEF IsWalk
    <3> QED BY <3>1, <3>2
  <2>3. IsWalk(h, table, s, m + 1)
    BY <2>2 DEF IsWalk
  <2> QED BY <2>3
<1>3. n \in T
  BY <1>1, <1>2, NatInd
<1> QED BY <1>3

(* Get_File_Clusters is the end of a walk. *)
LEMMA Walk ==
  ASSUME NEW table, NEW s
  PROVE  \E g : IsWalk(g, table, s, ClusterCount) /\ Get_File_Clusters(table, s) = g[ClusterCount]
<1> DEFINE D(u) == u = [k \in 0 .. ClusterCount |->
                        IF k = 0 THEN <<s>>
                        ELSE LET before == u[k - 1]
                                 next == table[Last(before)]
                             IN IF next \in Cluster THEN Append(before, next) ELSE before]
<1>1. \A u : D(u) <=> IsWalk(u, table, s, ClusterCount)
  BY DEF IsWalk, Extended
<1>2. Get_File_Clusters(table, s) = (CHOOSE u : D(u))[ClusterCount]
  BY Zenon DEF Get_File_Clusters
<1> HIDE DEF D
<1>3. D(CHOOSE u : D(u))
  BY <1>1, WalkExists
<1> QED BY <1>1, <1>2, <1>3

(* A sequence of clusters of which each leads to the next. *)
Leads(table, s, ch) ==
  /\ ch \in Seq(Cluster) /\ Len(ch) >= 1 /\ ch[1] = s
  /\ \A i \in 1 .. (Len(ch) - 1) : table[ch[i]] = ch[i + 1]

(* No cluster occurs twice. *)
Distinct(ch) == \A i, j \in 1 .. Len(ch) : ch[i] = ch[j] => i = j

(* The chain of the file that starts at s. *)
IsChain(table, s, ch) == Leads(table, s, ch) /\ table[Last(ch)] = FAT_EOF /\ Distinct(ch)

(* What the proofs use of the constants. *)
LEMMA ClusterFacts ==
  /\ ClusterCount \in Nat \ {0} /\ ClusterSize \in Nat \ {0} /\ EntrySize \in Nat \ {0}
  /\ EntrySize <= ClusterSize
  /\ FAT_EOF \notin Cluster /\ FAT_FREE \notin Cluster /\ FAT_EOF # FAT_FREE
  /\ \A c \in Cluster : c \in Nat /\ c < ClusterCount
  /\ 0 \in Cluster
BY DEF Cluster

(* A step of the walk goes where the table leads, or stays. *)
LEMMA ExtendedLeads ==
  ASSUME NEW table \in Table, NEW s \in Cluster, NEW ch, Leads(table, s, ch)
  PROVE  /\ Leads(table, s, Extended(table, ch))
         /\ \/ table[Last(ch)] \notin Cluster /\ Extended(table, ch) = ch
            \/ Len(Extended(table, ch)) = Len(ch) + 1
<1> DEFINE next == table[Last(ch)]
<1>1. CASE next \notin Cluster
  BY <1>1 DEF Extended
<1>2. CASE next \in Cluster
  <2>1. Extended(table, ch) = Append(ch, next)
    BY <1>2 DEF Extended
  <2>2. ch \in Seq(Cluster) /\ Len(ch) \in Nat /\ Len(ch) >= 1
    BY DEF Leads
  <2> DEFINE d == Append(ch, next)
  <2>3. /\ d \in Seq(Cluster) /\ Len(d) = Len(ch) + 1
        /\ \A i \in 1 .. Len(ch) : d[i] = ch[i]
        /\ d[Len(ch) + 1] = next
    BY <1>2, <2>2
  <2> HIDE DEF d
  <2>4. ASSUME NEW i \in 1 .. (Len(d) - 1) PROVE table[d[i]] = d[i + 1]
    BY <2>2, <2>3 DEF Leads, Last
  <2>5. Leads(table, s, d)
    BY <2>2, <2>3, <2>4 DEF Leads
  <2> QED BY <2>1, <2>3, <2>5 DEF d
<1> QED BY <1>1, <1>2

(* What Get_File_Clusters returns starts at the file's start, and each     *)
(* cluster leads to the next; it ends where the table does not lead on, or *)
(* is too long for a chain.                                                *)
LEMMA ChainLeads ==
  ASSUME NEW table \in Table, NEW s \in Cluster
  PROVE  LET ch == Get_File_Clusters(table, s)
         IN /\ Leads(table, s, ch)
            /\ Len(ch) >= ClusterCount + 1 \/ table[Last(ch)] \notin Cluster
<1>1. PICK g : IsWalk(g, table, s, ClusterCount) /\ Get_File_Clusters(table, s) = g[ClusterCount]
  BY Walk
<1> DEFINE P(k) == /\ Leads(table, s, g[k])
                   /\ Len(g[k]) >= k + 1 \/ table[Last(g[k])] \notin Cluster
           T == {k \in Nat : k <= ClusterCount => P(k)}
<1>2. 0 \in T
  <2>1. g[0] = <<s>>
    BY <1>1, ClusterFacts DEF IsWalk
  <2>2. Leads(table, s, <<s>>)
    BY DEF Leads
  <2> QED BY <2>1, <2>2
<1>3. ASSUME NEW k \in Nat, k \in T PROVE k + 1 \in T
  <2> SUFFICES ASSUME k + 1 <= ClusterCount PROVE P(k + 1)
    OBVIOUS
  <2>1. P(k)
    BY <1>3, ClusterFacts
  <2>2. g[k + 1] = Extended(table, g[k])
    BY <1>1, ClusterFacts DEF IsWalk
  <2>3. /\ Leads(table, s, g[k + 1])
        /\ \/ table[Last(g[k])] \notin Cluster /\ g[k + 1] = g[k]
           \/ Len(g[k + 1]) = Len(g[k]) + 1
    BY <2>1, <2>2, ExtendedLeads
  <2>4. Len(g[k]) \in Nat /\ Len(g[k + 1]) \in Nat
    BY <2>1, <2>3 DEF Leads
  <2>5. CASE table[Last(g[k])] \notin Cluster /\ g[k + 1] = g[k]
    BY <2>3, <2>5
  <2>6. CASE Len(g[k + 1]) = Len(g[k]) + 1 /\ table[Last(g[k])] \in Cluster
    BY <2>1, <2>3, <2>4, <2>6
  <2>7. CASE Len(g[k + 1]) = Len(g[k]) + 1 /\ table[Last(g[k])] \notin Cluster
    <3>1. g[k + 1] = g[k]
      BY <2>2, <2>7 DEF Extended
    <3> QED BY <2>4, <2>7, <3>1
  <2> QED BY <2>3, <2>5, <2>6, <2>7
<1>4. ClusterCount \in T
  BY <1>2, <1>3, NatInd, ClusterFacts
<1>5. P(ClusterCount)
  BY <1>4, ClusterFacts
<1> QED BY <1>1, <1>5

(* Two sequences that the table leads along agree as far as both go. *)
LEMMA LeadsAgree ==
  ASSUME NEW table, NEW s, NEW a, NEW b, Leads(table, s, a), Leads(table, s, b)
  PROVE  \A i \in 1 .. Len(a) : i <= Len(b) => a[i] = b[i]
<1> DEFINE T == {k \in Nat : k + 1 <= Len(a) /\ k + 1 <= Len(b) => a[k + 1] = b[k + 1]}
<1>1. Len(a) \in Nat /\ Len(b) \in Nat
  BY DEF Leads
<1>2. 0 \in T
  BY DEF Leads
<1>3. ASSUME NEW k \in Nat, k \in T PROVE k + 1 \in T
  BY <1>1, <1>3 DEF Leads
<1>4. ASSUME NEW i \in 1 .. Len(a), i <= Len(b) PROVE a[i] = b[i]
  <2>1. Nat \subseteq T
    BY <1>2, <1>3, NatInd
  <2>2. i - 1 \in T
    BY <1>1, <2>1
  <2> QED BY <1>1, <1>4, <2>2
<1> QED BY <1>4

(* A sequence without repetition is no longer than there are clusters. *)
LEMMA DistinctFit ==
  ASSUME NEW ch \in Seq(Cluster), Distinct(ch)
  PROVE  Len(ch) <= ClusterCount
<1>1. Len(ch) \in Nat /\ ch \in [1 .. Len(ch) -> Cluster]
  OBVIOUS
<1>2. IsFiniteSet(1 .. Len(ch)) /\ Cardinality(1 .. Len(ch)) = Len(ch)
  <2>1. /\ IsFiniteSet(1 .. Len(ch))
        /\ Cardinality(1 .. Len(ch)) = IF 1 > Len(ch) THEN 0 ELSE Len(ch) - 1 + 1
    BY <1>1, FS_Interval
  <2> QED BY <1>1, <2>1
<1>3. IsFiniteSet(Cluster) /\ Cardinality(Cluster) = ClusterCount
  BY ClusterFacts, FS_Interval DEF Cluster
<1>4. ~(ClusterCount < Len(ch))
  BY <1>1, <1>2, <1>3, FS_PigeonHole DEF Distinct
<1> QED BY <1>1, <1>4, ClusterFacts

(* A chain is what Get_File_Clusters returns: there is only one from a     *)
(* start, and the walk is long enough to reach its end.                    *)
LEMMA ChainIs ==
  ASSUME NEW table \in Table, NEW s \in Cluster, NEW ch, IsChain(table, s, ch)
  PROVE  Get_File_Clusters(table, s) = ch
<1> DEFINE g == Get_File_Clusters(table, s)
<1>1. /\ Leads(table, s, g)
      /\ Len(g) >= ClusterCount + 1 \/ table[Last(g)] \notin Cluster
  BY ChainLeads
<1> HIDE DEF g
<1>2. /\ g \in Seq(Cluster) /\ Len(g) \in Nat /\ Len(g) >= 1
      /\ ch \in Seq(Cluster) /\ Len(ch) \in Nat /\ Len(ch) >= 1
  BY <1>1 DEF IsChain, Leads
<1>3. Len(ch) <= ClusterCount
  BY <1>2, DistinctFit DEF IsChain
<1>4. /\ \A i \in 1 .. Len(g) : i <= Len(ch) => g[i] = ch[i]
      /\ \A i \in 1 .. Len(ch) : i <= Len(g) => g[i] = ch[i]
  BY <1>1, LeadsAgree DEF IsChain
<1>5. ~(Len(g) < Len(ch))
  <2> SUFFICES ASSUME Len(g) < Len(ch) PROVE FALSE
    OBVIOUS
  <2>1. table[g[Len(g)]] \notin Cluster
    BY <1>1, <1>2, <1>3, ClusterFacts DEF Last
  <2>2. table[ch[Len(g)]] = ch[Len(g) + 1] /\ g[Len(g)] = ch[Len(g)]
    BY <1>2, <1>4 DEF IsChain, Leads
  <2>3. ch[Len(g) + 1] \in Cluster
    BY <1>2
  <2> QED BY <2>1, <2>2, <2>3
<1>6. ~(Len(ch) < Len(g))
  <2> SUFFICES ASSUME Len(ch) < Len(g) PROVE FALSE
    OBVIOUS
  <2>1. table[g[Len(ch)]] = g[Len(ch) + 1] /\ g[Len(ch)] = ch[Len(ch)]
    BY <1>1, <1>2, <1>4 DEF Leads
  <2>2. g[Len(ch) + 1] \in Cluster
    BY <1>2
  <2> QED BY <2>1, <2>2, ClusterFacts DEF IsChain, Last
<1>7. Len(g) = Len(ch)
  BY <1>2, <1>5, <1>6
<1> QED BY <1>2, <1>4, <1>7, SeqEqual DEF g

(* The files that start in S have chains, which have no cluster in common, *)
(* and every cluster in use is in one of them.                             *)
Partition(table, S) ==
  /\ table \in Table /\ S \subseteq Cluster
  /\ \A s \in S : IsChain(table, s, Get_File_Clusters(table, s))
  /\ \A s, t \in S : s # t =>
       ToSet(Get_File_Clusters(table, s)) \cap ToSet(Get_File_Clusters(table, t)) = {}
  /\ \A c \in Cluster : table[c] # FAT_FREE =>
       \E s \in S : c \in ToSet(Get_File_Clusters(table, s))

(* What no call may do to a cluster in use but to the end of a chain. *)
Grows(table, new) ==
  \A c \in Cluster : table[c] # FAT_FREE =>
    new[c] = table[c] \/ (table[c] = FAT_EOF /\ new[c] # FAT_FREE)

(* The clusters of a sequence. *)
LEMMA Members ==
  ASSUME NEW ch \in Seq(Cluster)
  PROVE  /\ ToSet(ch) \subseteq Cluster
         /\ \A c : c \in ToSet(ch) <=> \E i \in 1 .. Len(ch) : c = ch[i]
<1>1. DOMAIN ch = 1 .. Len(ch) /\ \A i \in 1 .. Len(ch) : ch[i] \in Cluster
  OBVIOUS
<1> QED BY <1>1 DEF ToSet

(* No cluster of a chain is free, and all but the last lead to a cluster.  *)
LEMMA InUse ==
  ASSUME NEW table \in Table, NEW s, NEW ch, IsChain(table, s, ch), NEW c \in ToSet(ch)
  PROVE  c \in Cluster /\ table[c] # FAT_FREE /\ (c = Last(ch) \/ table[c] \in Cluster)
<1>1. ch \in Seq(Cluster) /\ Len(ch) \in Nat /\ Len(ch) >= 1
  BY DEF IsChain, Leads
<1>2. PICK i \in 1 .. Len(ch) : c = ch[i]
  BY <1>1, Members
<1>3. CASE i = Len(ch)
  BY <1>1, <1>2, <1>3, ClusterFacts DEF IsChain, Last
<1>4. CASE i # Len(ch)
  <2>1. table[ch[i]] = ch[i + 1] /\ ch[i + 1] \in Cluster
    BY <1>1, <1>4 DEF IsChain, Leads
  <2> QED BY <1>1, <1>2, <2>1, ClusterFacts
<1> QED BY <1>3, <1>4

(* A chain stays a chain of a table that is the same on it. *)
LEMMA ChainStays ==
  ASSUME NEW table \in Table, NEW new \in Table, NEW s \in Cluster, NEW ch, IsChain(table, s, ch),
         \A c \in ToSet(ch) : new[c] = table[c]
  PROVE  IsChain(new, s, ch) /\ Get_File_Clusters(new, s) = ch
<1>1. ch \in Seq(Cluster) /\ Len(ch) \in Nat /\ Len(ch) >= 1
  BY DEF IsChain, Leads
<1>2. \A i \in 1 .. Len(ch) : new[ch[i]] = table[ch[i]]
  BY <1>1, Members
<1>3. IsChain(new, s, ch)
  BY <1>1, <1>2 DEF IsChain, Leads, Last
<1> QED BY <1>3, ChainIs

(* A file's first and last clusters are its own. *)
LEMMA StartOwn ==
  ASSUME NEW table, NEW S, Partition(table, S), NEW s \in S
  PROVE  /\ IsChain(table, s, Get_File_Clusters(table, s))
         /\ s \in ToSet(Get_File_Clusters(table, s))
         /\ Last(Get_File_Clusters(table, s)) \in ToSet(Get_File_Clusters(table, s))
<1> DEFINE ch == Get_File_Clusters(table, s)
<1>1. IsChain(table, s, ch)
  BY DEF Partition
<1> HIDE DEF ch
<1>2. ch \in Seq(Cluster) /\ Len(ch) \in Nat /\ Len(ch) >= 1 /\ ch[1] = s
  BY <1>1 DEF IsChain, Leads
<1>3. s \in ToSet(ch) /\ Last(ch) \in ToSet(ch)
  BY <1>2, Members DEF Last
<1> QED BY <1>1, <1>3 DEF ch

(* A free cluster that is marked as an end starts a new chain (Take), and  *)
(* the other chains stay.                                                  *)
LEMMA StartChain ==
  ASSUME NEW table, NEW S, Partition(table, S), NEW c \in Cluster, table[c] = FAT_FREE,
         NEW new \in Table, new[c] = FAT_EOF,
         \A x \in Cluster : x # c => new[x] = table[x]
  PROVE  /\ Partition(new, S \cup {c}) /\ c \notin S
         /\ Get_File_Clusters(new, c) = <<c>>
         /\ \A s \in S : Get_File_Clusters(new, s) = Get_File_Clusters(table, s)
         /\ Grows(table, new)
<1>1. table \in Table /\ new \in Table /\ S \subseteq Cluster /\ new[c] = FAT_EOF
      /\ \A x \in Cluster : x # c => new[x] = table[x]
  BY DEF Partition, Table
<1>2. IsChain(new, c, <<c>>) /\ Get_File_Clusters(new, c) = <<c>> /\ ToSet(<<c>>) = {c}
  <2>1. IsChain(new, c, <<c>>)
    BY <1>1 DEF IsChain, Leads, Last, Distinct
  <2>2. ToSet(<<c>>) = {c}
    BY DEF ToSet
  <2> QED BY <1>1, <2>1, <2>2, ChainIs
<1>3. ASSUME NEW s \in S
      PROVE  /\ c \notin ToSet(Get_File_Clusters(table, s))
             /\ IsChain(new, s, Get_File_Clusters(table, s))
             /\ Get_File_Clusters(new, s) = Get_File_Clusters(table, s)
  <2>1. IsChain(table, s, Get_File_Clusters(table, s))
    BY StartOwn
  <2>2. c \notin ToSet(Get_File_Clusters(table, s))
    BY <1>1, <2>1, InUse
  <2>3. \A x \in ToSet(Get_File_Clusters(table, s)) : new[x] = table[x]
    BY <1>1, <2>1, <2>2, InUse
  <2>4. s \in Cluster /\ table \in Table /\ new \in Table
    BY <1>1
  <2>5. /\ IsChain(new, s, Get_File_Clusters(table, s))
        /\ Get_File_Clusters(new, s) = Get_File_Clusters(table, s)
    BY ONLY <2>1, <2>3, <2>4, ChainStays
  <2> QED BY <2>2, <2>5
<1>4. c \notin S
  BY <1>3, StartOwn
<1>5. ASSUME NEW x \in Cluster, new[x] # FAT_FREE
      PROVE  \E s \in S \cup {c} : x \in ToSet(Get_File_Clusters(new, s))
  <2>1. CASE x = c
    BY <1>2, <2>1
  <2>2. CASE x # c
    BY <1>1, <1>3, <1>5, <2>2 DEF Partition
  <2> QED BY <2>1, <2>2
<1>6. ASSUME NEW s \in S \cup {c}, NEW t \in S \cup {c}, s # t
      PROVE  ToSet(Get_File_Clusters(new, s)) \cap ToSet(Get_File_Clusters(new, t)) = {}
  <2>1. CASE s = c
    BY <1>2, <1>3, <1>6, <2>1
  <2>2. CASE t = c
    BY <1>2, <1>3, <1>6, <2>2
  <2>3. CASE s # c /\ t # c
    BY <1>3, <1>6, <2>3 DEF Partition
  <2> QED BY <2>1, <2>2, <2>3
<1>7. Partition(new, S \cup {c})
  <2>1. \A s \in S \cup {c} : IsChain(new, s, Get_File_Clusters(new, s))
    BY <1>2, <1>3
  <2>2. S \cup {c} \subseteq Cluster
    BY <1>1
  <2> QED BY <1>1, <1>5, <1>6, <2>1, <2>2 DEF Partition
<1>8. Grows(table, new)
  BY <1>1 DEF Grows
<1> QED BY <1>2, <1>3, <1>4, <1>7, <1>8

(* A free cluster that the end of a file's chain leads to becomes its new  *)
(* end (Link, then Take), and the other chains stay.                       *)
LEMMA ExtendChain ==
  ASSUME NEW table, NEW S, Partition(table, S), NEW f \in S, NEW c \in Cluster, table[c] = FAT_FREE,
         NEW new \in Table, new[Last(Get_File_Clusters(table, f))] = c, new[c] = FAT_EOF,
         \A x \in Cluster :
           x # c /\ x # Last(Get_File_Clusters(table, f)) => new[x] = table[x]
  PROVE  /\ Partition(new, S)
         /\ Get_File_Clusters(new, f) = Append(Get_File_Clusters(table, f), c)
         /\ \A s \in S : s # f => Get_File_Clusters(new, s) = Get_File_Clusters(table, s)
         /\ Grows(table, new)
<1> DEFINE ch == Get_File_Clusters(table, f)
           d == Append(ch, c)
<1>1. /\ IsChain(table, f, ch) /\ Last(ch) \in ToSet(ch)
      /\ table \in Table /\ S \subseteq Cluster
  BY StartOwn DEF Partition
<1>2. /\ new[Last(ch)] = c
      /\ \A x \in Cluster : x # c /\ x # Last(ch) => new[x] = table[x]
  OBVIOUS
<1> HIDE DEF ch
<1>3. /\ ch \in Seq(Cluster) /\ Len(ch) \in Nat /\ Len(ch) >= 1 /\ ch[1] = f
      /\ \A i \in 1 .. (Len(ch) - 1) : table[ch[i]] = ch[i + 1]
      /\ table[Last(ch)] = FAT_EOF
  BY <1>1 DEF IsChain, Leads
<1>4. /\ Last(ch) \in Cluster /\ Last(ch) # c
      /\ c \notin ToSet(ch)
  BY <1>1, InUse
<1>5. /\ new \in Table /\ new[c] = FAT_EOF /\ new[Last(ch)] = c
      /\ \A x \in Cluster : x # c /\ x # Last(ch) => new[x] = table[x]
  BY <1>2
<1>6. /\ d \in Seq(Cluster) /\ Len(d) = Len(ch) + 1
      /\ \A i \in 1 .. Len(ch) : d[i] = ch[i]
      /\ d[Len(ch) + 1] = c
  BY <1>3
<1> HIDE DEF d
<1>7. ToSet(d) = ToSet(ch) \cup {c}
  <2>1. \A x : x \in ToSet(d) <=> \E i \in 1 .. Len(d) : x = d[i]
    BY <1>6, Members
  <2>2. \A x : x \in ToSet(ch) <=> \E i \in 1 .. Len(ch) : x = ch[i]
    BY <1>3, Members
  <2>3. \A x \in ToSet(d) : x \in ToSet(ch) \cup {c}
    BY <1>3, <1>6, <2>1, <2>2
  <2>4. \A x \in ToSet(ch) : x \in ToSet(d)
    BY <1>3, <1>6, <2>1, <2>2
  <2>5. c \in ToSet(d)
    BY <1>3, <1>6, <2>1
  <2> QED BY <2>3, <2>4, <2>5
<1>8. IsChain(new, f, d)
  <2>1. Distinct(d)
    <3>1. \A i \in 1 .. Len(ch) : ch[i] # c
      BY <1>3, <1>4, Members
    <3> QED BY <1>1, <1>3, <1>6, <3>1 DEF IsChain, Distinct
  <2>2. ASSUME NEW i \in 1 .. (Len(d) - 1) PROVE new[d[i]] = d[i + 1]
    <3>1. CASE i = Len(ch)
      BY <1>3, <1>5, <1>6, <3>1 DEF Last
    <3>2. CASE i # Len(ch)
      <4>1. i \in 1 .. (Len(ch) - 1) /\ ch[i] # Last(ch) /\ ch[i] \in Cluster
        BY <1>1, <1>3, <1>6, <3>2 DEF IsChain, Distinct, Last
      <4>2. ch[i] # c
        BY <1>3, <1>4, <4>1, Members
      <4>3. d[i] = ch[i] /\ d[i + 1] = ch[i + 1]
        BY <1>3, <1>6, <4>1
      <4>4. new[ch[i]] = table[ch[i]]
        BY <1>5, <4>1, <4>2
      <4> QED BY <1>3, <4>1, <4>3, <4>4
    <3> QED BY <3>1, <3>2
  <2>3. Leads(new, f, d)
    <3>1. Len(d) >= 1 /\ d[1] = f
      BY <1>3, <1>6
    <3> QED BY <1>6, <2>2, <3>1 DEF Leads
  <2>4. new[Last(d)] = FAT_EOF
    BY <1>3, <1>5, <1>6 DEF Last
  <2> QED BY <2>1, <2>3, <2>4 DEF IsChain
<1>9. Get_File_Clusters(new, f) = d
  BY <1>1, <1>5, <1>8, ChainIs
<1>10. ASSUME NEW s \in S, s # f
       PROVE  /\ c \notin ToSet(Get_File_Clusters(table, s))
              /\ IsChain(new, s, Get_File_Clusters(table, s))
              /\ Get_File_Clusters(new, s) = Get_File_Clusters(table, s)
  <2>1. IsChain(table, s, Get_File_Clusters(table, s))
    BY StartOwn
  <2>2. c \notin ToSet(Get_File_Clusters(table, s))
    BY <1>1, <2>1, InUse
  <2>3. Last(ch) \notin ToSet(Get_File_Clusters(table, s))
    BY <1>1, <1>10 DEF Partition, ch
  <2>4. \A x \in ToSet(Get_File_Clusters(table, s)) : new[x] = table[x]
    BY <1>1, <1>5, <2>1, <2>2, <2>3, InUse
  <2>5. s \in Cluster /\ table \in Table /\ new \in Table
    BY <1>1, <1>5
  <2>6. /\ IsChain(new, s, Get_File_Clusters(table, s))
        /\ Get_File_Clusters(new, s) = Get_File_Clusters(table, s)
    BY ONLY <2>1, <2>4, <2>5, ChainStays
  <2> QED BY <2>2, <2>6
<1>11. ASSUME NEW x \in Cluster, new[x] # FAT_FREE
       PROVE  \E s \in S : x \in ToSet(Get_File_Clusters(new, s))
  <2>1. CASE x = c \/ x = Last(ch)
    BY <1>1, <1>7, <1>9, <2>1
  <2>2. CASE x # c /\ x # Last(ch)
    <3>1. PICK s \in S : x \in ToSet(Get_File_Clusters(table, s))
      BY <1>5, <1>11, <2>2 DEF Partition
    <3>2. CASE s = f
      BY <1>7, <1>9, <3>1, <3>2 DEF ch
    <3>3. CASE s # f
      BY <1>10, <3>1, <3>3
    <3> QED BY <3>2, <3>3
  <2> QED BY <2>1, <2>2
<1>12. ASSUME NEW s \in S, NEW t \in S, s # t
       PROVE  ToSet(Get_File_Clusters(new, s)) \cap ToSet(Get_File_Clusters(new, t)) = {}
  <2>1. ToSet(Get_File_Clusters(table, s)) \cap ToSet(Get_File_Clusters(table, t)) = {}
    BY <1>12 DEF Partition
  <2>2. CASE s = f
    BY <1>7, <1>9, <1>10, <1>12, <2>1, <2>2 DEF ch
  <2>3. CASE t = f
    BY <1>7, <1>9, <1>10, <1>12, <2>1, <2>3 DEF ch
  <2>4. CASE s # f /\ t # f
    BY <1>10, <2>1, <2>4
  <2> QED BY <2>2, <2>3, <2>4
<1>13. Partition(new, S)
  <2>1. \A s \in S : IsChain(new, s, Get_File_Clusters(new, s))
    BY <1>8, <1>9, <1>10
  <2> QED BY <1>1, <1>5, <1>11, <1>12, <2>1 DEF Partition
<1>14. Grows(table, new)
  BY <1>3, <1>5, ClusterFacts DEF Grows
<1> QED BY <1>9, <1>10, <1>13, <1>14 DEF ch, d

(* Freeing every cluster of one file (Deallocate_File) leaves the other    *)
(* chains.                                                                 *)
LEMMA FreeChain ==
  ASSUME NEW table, NEW S, Partition(table, S), NEW f \in S,
         NEW new, new = [c \in Cluster |-> IF c \in ToSet(Get_File_Clusters(table, f))
                                           THEN FAT_FREE ELSE table[c]]
  PROVE  /\ Partition(new, S \ {f})
         /\ \A s \in S \ {f} : Get_File_Clusters(new, s) = Get_File_Clusters(table, s)
<1>1. table \in Table /\ new \in Table /\ S \subseteq Cluster
  BY DEF Partition, Table
<1>2. ASSUME NEW s \in S, s # f
      PROVE  /\ IsChain(new, s, Get_File_Clusters(table, s))
             /\ Get_File_Clusters(new, s) = Get_File_Clusters(table, s)
  <2>1. IsChain(table, s, Get_File_Clusters(table, s))
    BY StartOwn
  <2>2. \A x \in ToSet(Get_File_Clusters(table, s)) : new[x] = table[x]
    <3>1. ToSet(Get_File_Clusters(table, s)) \cap ToSet(Get_File_Clusters(table, f)) = {}
      BY <1>2 DEF Partition
    <3>2. \A x \in ToSet(Get_File_Clusters(table, s)) : x \in Cluster
      BY <1>1, <2>1, InUse
    <3> QED BY <3>1, <3>2
  <2>3. s \in Cluster
    BY <1>1
  <2> QED BY <1>1, <2>1, <2>2, <2>3, ChainStays
<1>3. ASSUME NEW x \in Cluster, new[x] # FAT_FREE
      PROVE  \E s \in S \ {f} : x \in ToSet(Get_File_Clusters(new, s))
  <2>1. table[x] # FAT_FREE /\ x \notin ToSet(Get_File_Clusters(table, f))
    BY <1>3
  <2>2. PICK s \in S : x \in ToSet(Get_File_Clusters(table, s))
    BY <2>1 DEF Partition
  <2> QED BY <1>2, <2>1, <2>2
<1>4. \A s, t \in S \ {f} : s # t =>
        ToSet(Get_File_Clusters(new, s)) \cap ToSet(Get_File_Clusters(new, t)) = {}
  BY <1>2 DEF Partition
<1>5. Partition(new, S \ {f})
  BY <1>1, <1>2, <1>3, <1>4 DEF Partition
<1> QED BY <1>2, <1>5

-----------------------------------------------------------------------------
(* Fat12.                                                                  *)

(* What the calls pass on. *)
DiskType == [fat : Table, last_allocated : Cluster]

(* The search from last_allocated on stays in the table and reaches every  *)
(* cluster.                                                                *)
LEMMA Wrapping ==
  ASSUME NEW a \in Cluster, NEW b \in Cluster
  PROVE  /\ (a + b) % ClusterCount \in Cluster
         /\ \E i \in Cluster : (a + i) % ClusterCount = b
<1>1. /\ a \in Nat /\ a < ClusterCount /\ b \in Nat /\ b < ClusterCount
      /\ ClusterCount \in Nat \ {0}
  BY ClusterFacts
<1>2. (a + b) % ClusterCount \in 0 .. (ClusterCount - 1)
  BY <1>1
<1>3. CASE a <= b
  <2>1. b - a \in Cluster /\ a + (b - a) = b /\ b % ClusterCount = b
    BY <1>1, <1>3 DEF Cluster
  <2>2. (a + (b - a)) % ClusterCount = b
    BY <2>1
  <2> QED BY <1>2, <2>1, <2>2 DEF Cluster
<1>4. CASE b < a
  <2>1. b + ClusterCount - a \in Cluster /\ a + (b + ClusterCount - a) = b + ClusterCount
    BY <1>1, <1>4 DEF Cluster
  <2>2. (b + ClusterCount) % ClusterCount = b
    BY <1>1
  <2>3. (a + (b + ClusterCount - a)) % ClusterCount = b
    BY <2>1, <2>2
  <2> QED BY <1>2, <2>1, <2>3 DEF Cluster
<1> QED BY <1>1, <1>3, <1>4

(* FreeCluster finds a free cluster where there is one. *)
LEMMA FreeClusterIsFree ==
  ASSUME NEW d \in DiskType, ~Full(d)
  PROVE  FreeCluster(d) \in Cluster /\ d.fat[FreeCluster(d)] = FAT_FREE
<1> DEFINE position(i) == (d.last_allocated + i) % ClusterCount
           T == {i \in Cluster : d.fat[position(i)] = FAT_FREE}
           First(i) == /\ d.fat[position(i)] = FAT_FREE
                       /\ \A j \in 0 .. (i - 1) : d.fat[position(j)] # FAT_FREE
<1>1. PICK c \in Cluster : d.fat[c] = FAT_FREE
  BY DEF Full
<1>2. PICK k \in Cluster : position(k) = c
  BY <1>1, Wrapping DEF DiskType
<1>3. T # {} /\ T \subseteq Nat
  BY <1>1, <1>2, ClusterFacts
<1>4. PICK m \in T : \A n \in T : m <= n
  BY <1>3, Least
<1>5. First(m)
  <2>1. ASSUME NEW j \in 0 .. (m - 1) PROVE j \notin T /\ j \in Cluster
    BY <1>4, ClusterFacts DEF Cluster
  <2> QED BY <1>4, <2>1
<1>6. FreeCluster(d) = position(CHOOSE i \in Cluster : First(i))
  BY Zenon DEF FreeCluster
<1> HIDE DEF First
<1>7. (CHOOSE i \in Cluster : First(i)) \in Cluster /\ First(CHOOSE i \in Cluster : First(i))
  BY <1>4, <1>5
<1> DEFINE n == CHOOSE i \in Cluster : First(i)
<1> HIDE DEF n
<1>8. n \in Cluster /\ First(n) /\ FreeCluster(d) = position(n)
  BY <1>6, <1>7 DEF n
<1>9. position(n) \in Cluster
  BY <1>8, Wrapping DEF DiskType
<1> QED BY <1>8, <1>9 DEF First

(* What lengthening the chain of "f" by "n" clusters does to a table. *)
Lengthened(table, new, S, f, n) ==
  /\ Partition(new, S)
  /\ Len(Get_File_Clusters(new, f)) = Len(Get_File_Clusters(table, f)) + n
  /\ \A s \in S : s # f => Get_File_Clusters(new, s) = Get_File_Clusters(table, s)
  /\ Grows(table, new)

(* A chain has at least one cluster, and no more than there are. *)
LEMMA ChainLength ==
  ASSUME NEW table, NEW S, Partition(table, S), NEW s \in S
  PROVE  Len(Get_File_Clusters(table, s)) \in 1 .. ClusterCount
<1> DEFINE ch == Get_File_Clusters(table, s)
<1>1. IsChain(table, s, ch)
  BY DEF Partition
<1> HIDE DEF ch
<1>2. ch \in Seq(Cluster) /\ Len(ch) >= 1 /\ Distinct(ch) /\ Len(ch) \in Nat
  BY <1>1 DEF IsChain, Leads
<1> QED BY <1>2, DistinctFit, ClusterFacts DEF ch

(* Lengthening adds up. *)
LEMMA LengthenedTwice ==
  ASSUME NEW t, NEW u, NEW v, NEW S, NEW f \in S, NEW m \in Nat, NEW n \in Nat,
         Partition(t, S), Lengthened(t, u, S, f, m), Lengthened(u, v, S, f, n)
  PROVE  Lengthened(t, v, S, f, m + n)
<1>1. Partition(v, S) /\ \A s \in S : s # f => Get_File_Clusters(v, s) = Get_File_Clusters(t, s)
  BY DEF Lengthened
<1>2. Len(Get_File_Clusters(t, f)) \in Nat
  BY ChainLength, ClusterFacts
<1>3. Len(Get_File_Clusters(v, f)) = Len(Get_File_Clusters(t, f)) + (m + n)
  BY <1>2 DEF Lengthened
<1>4. Grows(t, v)
  BY ClusterFacts DEF Lengthened, Grows
<1> QED BY <1>1, <1>3, <1>4 DEF Lengthened

(* A round of Allocate_Clusters lengthens the chain by the cluster it      *)
(* counts.                                                                 *)
LEMMA OneMoreLengthens ==
  ASSUME NEW b \in [disk : DiskType, count : Nat], NEW S, NEW f \in S, Partition(b.disk.fat, S)
  PROVE  LET a == OneMore(b, f)
         IN /\ a \in [disk : DiskType, count : Nat]
            /\ a.count \in {b.count, b.count + 1}
            /\ Lengthened(b.disk.fat, a.disk.fat, S, f, a.count - b.count)
<1> DEFINE old == b.disk.fat
           ch == Get_File_Clusters(old, f)
           l == Last(ch)
<1>1. /\ b.disk \in DiskType /\ old \in Table /\ b.count \in Nat
      /\ Len(ch) \in 1 .. ClusterCount
  BY ChainLength DEF DiskType
<1>2. CASE Full(b.disk)
  <2>1. OneMore(b, f) = b
    BY <1>2 DEF OneMore
  <2>2. Lengthened(old, old, S, f, 0)
    BY <1>1, ClusterFacts DEF Lengthened, Grows
  <2> QED BY <1>1, <2>1, <2>2
<1>3. CASE ~Full(b.disk)
  <2> DEFINE c == FreeCluster(b.disk)
             new == [[old EXCEPT ![l] = c] EXCEPT ![c] = FAT_EOF]
             d == [fat |-> new, last_allocated |-> c]
  <2>1. c \in Cluster /\ old[c] = FAT_FREE
    BY <1>1, <1>3, FreeClusterIsFree
  <2>2. OneMore(b, f) = [disk |-> d, count |-> b.count + 1]
    BY <1>1, <1>3 DEF OneMore, Take, Link, DiskType
  <2>3. IsChain(old, f, ch) /\ l \in ToSet(ch)
    BY StartOwn
  <2>4. l \in Cluster /\ l # c
    BY <1>1, <2>1, <2>3, InUse
  <2> HIDE DEF c, l, ch
  <2>5. /\ new \in Table /\ new[l] = c /\ new[c] = FAT_EOF
        /\ \A x \in Cluster : x # c /\ x # l => new[x] = old[x]
    BY <1>1, <2>1, <2>4 DEF Table
  <2> HIDE DEF new
  <2>6. /\ Partition(new, S)
        /\ Get_File_Clusters(new, f) = Append(ch, c)
        /\ \A s \in S : s # f => Get_File_Clusters(new, s) = Get_File_Clusters(old, s)
        /\ Grows(old, new)
    BY <2>1, <2>5, ExtendChain DEF l, ch
  <2>7. Len(Append(ch, c)) = Len(ch) + 1
    BY <2>1, <2>3 DEF IsChain, Leads
  <2>8. Lengthened(old, new, S, f, 1)
    BY <2>6, <2>7 DEF Lengthened, ch
  <2>9. d \in DiskType /\ d.fat = new
    BY <2>1, <2>5 DEF DiskType
  <2> QED BY <1>1, <2>2, <2>8, <2>9
<1> QED BY <1>2, <1>3

(* The rounds of Allocate_Clusters. *)
IsAllocation(g, d, f, n) ==
  g = [k \in 0 .. n |-> IF k = 0 THEN [disk |-> d, count |-> 0] ELSE OneMore(g[k - 1], f)]

(* There is an allocation of every length. *)
LEMMA AllocationExists ==
  ASSUME NEW d, NEW f, NEW n \in Nat
  PROVE  \E g : IsAllocation(g, d, f, n)
<1> DEFINE T == {m \in Nat : \E g : IsAllocation(g, d, f, m)}
<1>1. 0 \in T
  <2> DEFINE g == [k \in 0 .. 0 |-> [disk |-> d, count |-> 0]]
  <2>1. IsAllocation(g, d, f, 0)
    BY DEF IsAllocation
  <2> QED BY <2>1
<1>2. ASSUME NEW m \in Nat, m \in T PROVE m + 1 \in T
  <2>1. PICK g : IsAllocation(g, d, f, m)
    BY <1>2
  <2> DEFINE h == [k \in 0 .. (m + 1) |-> IF k <= m THEN g[k] ELSE OneMore(g[m], f)]
  <2>2. ASSUME NEW k \in 0 .. (m + 1)
        PROVE  h[k] = IF k = 0 THEN [disk |-> d, count |-> 0] ELSE OneMore(h[k - 1], f)
    <3>1. CASE k = m + 1
      BY <3>1
    <3>2. CASE k <= m
      BY <2>1, <3>2 DEF IsAllocation
    <3> QED BY <3>1, <3>2
  <2>3. IsAllocation(h, d, f, m + 1)
    BY <2>2 DEF IsAllocation
  <2> QED BY <2>3
<1>3. n \in T
  BY <1>1, <1>2, NatInd
<1> QED BY <1>3

(* Allocate_Clusters is the end of an allocation. *)
LEMMA Allocation ==
  ASSUME NEW d, NEW f, NEW n \in Nat
  PROVE  \E g : IsAllocation(g, d, f, n) /\ Allocate_Clusters(d, f, n) = g[n]
<1> DEFINE D(u) == u = [k \in 0 .. n |-> IF k = 0 THEN [disk |-> d, count |-> 0]
                                         ELSE OneMore(u[k - 1], f)]
<1>1. \A u : D(u) <=> IsAllocation(u, d, f, n)
  BY DEF IsAllocation
<1>2. Allocate_Clusters(d, f, n) = (CHOOSE u : D(u))[n]
  BY Zenon DEF Allocate_Clusters
<1> HIDE DEF D
<1>3. D(CHOOSE u : D(u))
  BY <1>1, AllocationExists
<1> QED BY <1>1, <1>2, <1>3

(* Allocate_Clusters lengthens the file's chain by the clusters it says it *)
(* got, and no other chain, on a full disk too.                            *)
LEMMA AllocateLengthens ==
  ASSUME NEW d \in DiskType, NEW S, NEW f \in S, Partition(d.fat, S), NEW n \in Nat
  PROVE  LET a == Allocate_Clusters(d, f, n)
         IN /\ a \in [disk : DiskType, count : Nat] /\ a.count <= n
            /\ Lengthened(d.fat, a.disk.fat, S, f, a.count)
<1>1. PICK g : IsAllocation(g, d, f, n) /\ Allocate_Clusters(d, f, n) = g[n]
  BY Allocation
<1> DEFINE P(k) == /\ g[k] \in [disk : DiskType, count : Nat] /\ g[k].count <= k
                   /\ Lengthened(d.fat, g[k].disk.fat, S, f, g[k].count)
           T == {k \in Nat : k <= n => P(k)}
<1>2. 0 \in T
  <2>1. g[0] = [disk |-> d, count |-> 0]
    BY <1>1 DEF IsAllocation
  <2>2. Len(Get_File_Clusters(d.fat, f)) \in Nat
    BY ChainLength, ClusterFacts
  <2>3. Lengthened(d.fat, d.fat, S, f, 0)
    BY <2>2, ClusterFacts DEF Lengthened, Grows
  <2> QED BY <2>1, <2>3
<1>3. ASSUME NEW k \in Nat, k \in T PROVE k + 1 \in T
  <2> SUFFICES ASSUME k + 1 <= n PROVE P(k + 1)
    OBVIOUS
  <2>1. P(k)
    BY <1>3
  <2>2. g[k + 1] = OneMore(g[k], f)
    BY <1>1 DEF IsAllocation
  <2> DEFINE b == g[k]
             a == g[k + 1]
  <2>3. Partition(b.disk.fat, S)
    BY <2>1 DEF Lengthened
  <2>4. /\ a \in [disk : DiskType, count : Nat]
        /\ a.count \in {b.count, b.count + 1}
        /\ Lengthened(b.disk.fat, a.disk.fat, S, f, a.count - b.count)
    BY <2>1, <2>2, <2>3, OneMoreLengthens
  <2> HIDE DEF a, b
  <2>5. b.count \in Nat /\ a.count - b.count \in Nat /\ b.count + (a.count - b.count) = a.count
        /\ a.count <= k + 1 /\ Lengthened(d.fat, b.disk.fat, S, f, b.count)
    BY <2>1, <2>4 DEF b
  <2>6. Lengthened(d.fat, a.disk.fat, S, f, b.count + (a.count - b.count))
    BY <2>4, <2>5, LengthenedTwice
  <2> QED BY <2>4, <2>5, <2>6 DEF a
<1>4. n \in T
  BY <1>2, <1>3, NatInd
<1>5. P(n)
  BY <1>4
<1> QED BY <1>1, <1>5

(* Deallocate_File takes one file off the disk and leaves the others. *)
LEMMA DeallocateFrees ==
  ASSUME NEW d \in DiskType, NEW S, NEW f \in S, Partition(d.fat, S)
  PROVE  LET a == Deallocate_File(d, f)
         IN /\ a \in DiskType
            /\ Partition(a.fat, S \ {f})
            /\ \A s \in S \ {f} : Get_File_Clusters(a.fat, s) = Get_File_Clusters(d.fat, s)
            /\ \A c \in Cluster : c \notin ToSet(Get_File_Clusters(d.fat, f)) => a.fat[c] = d.fat[c]
<1> DEFINE new == [c \in Cluster |-> IF c \in ToSet(Get_File_Clusters(d.fat, f))
                                     THEN FAT_FREE ELSE d.fat[c]]
<1>1. Deallocate_File(d, f) = [fat |-> new, last_allocated |-> d.last_allocated]
  BY DEF Deallocate_File, DiskType
<1>2. /\ Partition(new, S \ {f})
      /\ \A s \in S \ {f} : Get_File_Clusters(new, s) = Get_File_Clusters(d.fat, s)
  BY FreeChain
<1>3. \A c \in Cluster : c \notin ToSet(Get_File_Clusters(d.fat, f)) => new[c] = d.fat[c]
  OBVIOUS
<1> HIDE DEF new
<1>4. new \in Table
  BY <1>2 DEF Partition
<1> QED BY <1>1, <1>2, <1>3, <1>4 DEF DiskType

-----------------------------------------------------------------------------
(* Fat_File.                                                               *)

(* Quotient and remainder. *)
LEMMA Division ==
  ASSUME NEW a \in Nat, NEW d \in Nat \ {0}
  PROVE  a \div d \in Nat /\ a % d \in 0 .. (d - 1) /\ a = d * (a \div d) + (a % d)
<1>1. a \div d \in Nat /\ a % d \in 0 .. (d - 1)
  BY SMT
<1>2. a = d * (a \div d) + (a % d)
  BY SMT
<1> QED BY <1>1, <1>2

(* A size needs no more clusters than hold it, and at least one. *)
LEMMA Need ==
  ASSUME NEW size \in Nat
  PROVE  /\ Calculate_Cluster_Need(size) \in Nat \ {0}
         /\ \A n \in Nat \ {0} : Calculate_Cluster_Need(size) <= n <=> size <= n * ClusterSize
<1> DEFINE q == (size + ClusterSize - 1) \div ClusterSize
           r == (size + ClusterSize - 1) % ClusterSize
<1>1. CASE size = 0
  <2>1. Calculate_Cluster_Need(size) = 1
    BY <1>1 DEF Calculate_Cluster_Need
  <2>2. \A n \in Nat \ {0} : 0 <= n * ClusterSize
    BY ClusterFacts
  <2> QED BY <1>1, <2>1, <2>2
<1>2. CASE size # 0
  <2>1. Calculate_Cluster_Need(size) = q
    BY <1>2 DEF Calculate_Cluster_Need
  <2>2. size + ClusterSize - 1 \in Nat /\ ClusterSize \in Nat \ {0}
    BY ClusterFacts
  <2>3. q \in Nat /\ r \in 0 .. (ClusterSize - 1) /\ size + ClusterSize - 1 = ClusterSize * q + r
    BY <2>2, Division
  <2> HIDE DEF q, r
  <2>4. q # 0
    BY <1>2, <2>2, <2>3
  <2>5. ASSUME NEW n \in Nat \ {0} PROVE q <= n <=> size <= n * ClusterSize
    <3>1. CASE q <= n
      <4>1. ClusterSize * q <= n * ClusterSize
        BY <2>2, <2>3, <3>1
      <4>2. ClusterSize * q \in Int /\ n * ClusterSize \in Int
        BY <2>2, <2>3
      <4> QED BY <2>2, <2>3, <3>1, <4>1, <4>2
    <3>2. CASE n + 1 <= q
      <4>1. ClusterSize * (n + 1) <= ClusterSize * q
        BY <2>2, <2>3, <3>2
      <4>2. ClusterSize * (n + 1) = n * ClusterSize + ClusterSize
        BY <2>2
      <4>3. ClusterSize * q \in Int /\ n * ClusterSize \in Int
        BY <2>2, <2>3
      <4> QED BY <2>2, <2>3, <3>2, <4>1, <4>2, <4>3
    <3> QED BY <2>3, <3>1, <3>2
  <2> QED BY <2>1, <2>3, <2>4, <2>5
<1> QED BY <1>1, <1>2

(* A file that has only the clusters of its chain, and what the calls make *)
(* of it that lengthen the chain.                                          *)
Fits(table, file) ==
  file.allocated_clusters <= Len(Get_File_Clusters(table, file.file_start))

LengthensFile(d, S, file, r) ==
  /\ r \in [disk : DiskType, file : Fat_File \cup Element]
  /\ file \in Fat_File => r.file \in Fat_File
  /\ file \in Element => r.file \in Element
  /\ r.file.file_start = file.file_start
  /\ r.file.allocated_clusters - file.allocated_clusters \in Nat
  /\ Lengthened(d.fat, r.disk.fat, S, file.file_start,
                r.file.allocated_clusters - file.allocated_clusters)
  /\ Fits(r.disk.fat, r.file)

(* A file that counts n clusters more. *)
Enlarged(file, n) == [file EXCEPT !.allocated_clusters = file.allocated_clusters + n]

(* A file with more clusters is a file. *)
LEMMA EnlargedFile ==
  ASSUME NEW file \in Fat_File \cup Element, NEW n \in Nat,
         file.allocated_clusters + n <= ClusterCount
  PROVE  LET f == Enlarged(file, n)
         IN /\ f \in Fat_File \cup Element
            /\ file \in Fat_File => f \in Fat_File
            /\ file \in Element => f \in Element
            /\ f.file_start = file.file_start /\ f.file_size = file.file_size
            /\ f.allocated_clusters = file.allocated_clusters + n
<1>0. ClusterCount \in Nat
  BY ClusterFacts
<1>1. CASE file \in Fat_File
  <2>1. file \notin Element
    BY <1>1 DEF Fat_File, Element
  <2> QED BY <1>0, <1>1, <2>1 DEF Fat_File, Enlarged
<1>2. CASE file \in Element
  <2>1. file \notin Fat_File
    BY <1>2 DEF Fat_File, Element
  <2> QED BY <1>0, <1>2, <2>1 DEF Element, Enlarged
<1> QED BY <1>1, <1>2

(* The components of a file that the proofs use. *)
LEMMA FileFields ==
  ASSUME NEW file \in Fat_File \cup Element
  PROVE  /\ file.file_start \in Cluster /\ file.file_size \in Nat
         /\ file.allocated_clusters \in Nat \ {0} /\ file.allocated_clusters <= ClusterCount
BY ClusterFacts DEF Fat_File, Element

(* A file that counts the clusters it got still fits its chain. *)
LEMMA GrownLengthens ==
  ASSUME NEW d \in DiskType, NEW S, NEW file \in Fat_File \cup Element, file.file_start \in S,
         Fits(d.fat, file), NEW a \in [disk : DiskType, count : Nat],
         Lengthened(d.fat, a.disk.fat, S, file.file_start, a.count)
  PROVE  /\ LengthensFile(d, S, file, Grown(file, a))
         /\ Grown(file, a).file.allocated_clusters = file.allocated_clusters + a.count
         /\ Grown(file, a).file.file_size = file.file_size
<1> DEFINE s == file.file_start
           f == Enlarged(file, a.count)
<1>1. Partition(a.disk.fat, S)
  BY DEF Lengthened
<1>2. Len(Get_File_Clusters(a.disk.fat, s)) \in 1 .. ClusterCount
  BY <1>1, ChainLength
<1>3. file.allocated_clusters + a.count <= Len(Get_File_Clusters(a.disk.fat, s))
  <2>1. Len(Get_File_Clusters(a.disk.fat, s)) = Len(Get_File_Clusters(d.fat, s)) + a.count
    BY DEF Lengthened
  <2>2. file.allocated_clusters <= Len(Get_File_Clusters(d.fat, s))
    BY DEF Fits
  <2>3. /\ file.allocated_clusters \in Nat /\ a.count \in Nat
        /\ Len(Get_File_Clusters(d.fat, s)) \in Nat
    <3>1. /\ Get_File_Clusters(d.fat, s) \in Seq(Cluster)
      BY FileFields, ChainLeads DEF DiskType, Leads
    <3> QED BY <3>1, FileFields
  <2> QED BY ONLY <2>1, <2>2, <2>3
<1>4. file.allocated_clusters + a.count <= ClusterCount
  BY ONLY <1>2, <1>3, FileFields, ClusterFacts, file \in Fat_File \cup Element,
          a \in [disk : DiskType, count : Nat]
<1>5. /\ f \in Fat_File \cup Element
      /\ file \in Fat_File => f \in Fat_File
      /\ file \in Element => f \in Element
      /\ f.file_start = file.file_start /\ f.file_size = file.file_size
      /\ f.allocated_clusters = file.allocated_clusters + a.count
  BY <1>4, EnlargedFile
<1>6. Grown(file, a) = [disk |-> a.disk, file |-> f]
  BY DEF Grown, Enlarged
<1> HIDE DEF f
<1>7. f.allocated_clusters - file.allocated_clusters = a.count
  BY <1>5, FileFields
<1>8. Fits(a.disk.fat, f)
  BY <1>3, <1>5 DEF Fits
<1> QED BY <1>5, <1>6, <1>7, <1>8 DEF LengthensFile

(* A file that is resized but not shrunk gets at most the clusters it      *)
(* needs.                                                                  *)
LEMMA ResizeLengthens ==
  ASSUME NEW d \in DiskType, NEW S, NEW file \in Fat_File \cup Element, file.file_start \in S,
         Fits(d.fat, file), Partition(d.fat, S), NEW size \in Nat, NEW shrink \in BOOLEAN,
         shrink => Calculate_Cluster_Need(size) >= file.allocated_clusters
  PROVE  LET r == Resize(d, file, size, shrink)
         IN /\ LengthensFile(d, S, file, r) /\ r.file.file_size = file.file_size
            /\ \/ r.file.allocated_clusters = file.allocated_clusters
               \/ r.file.allocated_clusters <= Calculate_Cluster_Need(size)
<1> DEFINE need == Calculate_Cluster_Need(size)
           s == file.file_start
           k == need - file.allocated_clusters
           r == Resize(d, file, size, shrink)
<1>1. need \in Nat /\ file.allocated_clusters \in Nat
  BY Need, FileFields
<1> HIDE DEF need
<1>2. CASE k <= 0
  <2>1. r = Grown(file, [disk |-> d, count |-> 0])
    <3>1. r = [disk |-> d, file |-> file]
      BY <1>1, <1>2 DEF Resize, need
    <3>2. CASE file \in Fat_File
      BY <3>1, <3>2, <1>1 DEF Grown, Fat_File
    <3>3. CASE file \in Element
      BY <3>1, <3>3, <1>1 DEF Grown, Element
    <3> QED BY <3>2, <3>3
  <2>3. Len(Get_File_Clusters(d.fat, s)) \in Nat
    BY ChainLength, ClusterFacts
  <2>4. Lengthened(d.fat, d.fat, S, s, 0)
    BY <2>3, ClusterFacts DEF Lengthened, Grows
  <2> DEFINE a == [disk |-> d, count |-> 0]
  <2>5. a \in [disk : DiskType, count : Nat] /\ a.disk = d /\ a.count = 0
    OBVIOUS
  <2> HIDE DEF a
  <2>6. /\ LengthensFile(d, S, file, Grown(file, a))
        /\ Grown(file, a).file.allocated_clusters = file.allocated_clusters + 0
        /\ Grown(file, a).file.file_size = file.file_size
    BY <2>4, <2>5, GrownLengthens
  <2>7. r = Grown(file, a)
    BY <2>1 DEF a
  <2> HIDE DEF r
  <2> QED BY <1>1, <2>6, <2>7 DEF r
<1>3. CASE k > 0
  <2> DEFINE a == Allocate_Clusters(d, s, k)
  <2>1. r = Grown(file, a)
    BY <1>1, <1>3 DEF Resize, need
  <2>2. k \in Nat
    BY <1>1, <1>3
  <2>3. /\ a \in [disk : DiskType, count : Nat] /\ a.count <= k
        /\ Lengthened(d.fat, a.disk.fat, S, s, a.count)
    BY <2>2, AllocateLengthens
  <2> HIDE DEF a
  <2>4. /\ LengthensFile(d, S, file, Grown(file, a))
        /\ Grown(file, a).file.allocated_clusters = file.allocated_clusters + a.count
        /\ Grown(file, a).file.file_size = file.file_size
    BY <2>3, GrownLengthens
  <2>5. file.allocated_clusters + a.count <= need
    BY <1>1, <2>3
  <2> HIDE DEF r
  <2> QED BY <2>1, <2>4, <2>5 DEF need, r
<1> QED BY <1>1, <1>2, <1>3

(* Setting the size changes the size only, to what fits the clusters. *)
LEMMA SizedLengthens ==
  ASSUME NEW d \in DiskType, NEW S, NEW file \in Fat_File \cup Element, NEW r,
         LengthensFile(d, S, file, r), NEW size \in Nat
  PROVE  LET z == Sized(r, size)
         IN /\ LengthensFile(d, S, file, z)
            /\ z.disk = r.disk
            /\ z.file.allocated_clusters = r.file.allocated_clusters
            /\ z.file.file_size = Smaller(r.file.allocated_clusters * ClusterSize, size)
<1> DEFINE x == Smaller(r.file.allocated_clusters * ClusterSize, size)
           f == [r.file EXCEPT !.file_size = x]
<1>1. r \in [disk : DiskType, file : Fat_File \cup Element]
  BY DEF LengthensFile
<1>2. Sized(r, size) = [disk |-> r.disk, file |-> f]
  BY <1>1 DEF Sized, Capped
<1>3. x \in Nat
  <2>1. r.file.allocated_clusters \in Nat /\ ClusterSize \in Nat
    BY <1>1, FileFields, ClusterFacts
  <2>2. r.file.allocated_clusters * ClusterSize \in Nat
    BY <2>1
  <2> QED BY <2>2 DEF Smaller
<1> HIDE DEF x
<1>4. /\ f \in Fat_File \cup Element /\ f.file_start = r.file.file_start
      /\ f.allocated_clusters = r.file.allocated_clusters /\ f.file_size = x
      /\ r.file \in Fat_File => f \in Fat_File
      /\ r.file \in Element => f \in Element
  <2>1. CASE r.file \in Fat_File
    <3>1. r.file \notin Element
      BY <2>1 DEF Fat_File, Element
    <3> QED BY <1>3, <2>1, <3>1 DEF Fat_File
  <2>2. CASE r.file \in Element
    <3>1. r.file \notin Fat_File
      BY <2>2 DEF Fat_File, Element
    <3> QED BY <1>3, <2>2, <3>1 DEF Element
  <2> QED BY <1>1, <2>1, <2>2
<1> HIDE DEF f
<1>5. LengthensFile(d, S, file, [disk |-> r.disk, file |-> f])
  BY <1>1, <1>4 DEF LengthensFile, Fits
<1> QED BY <1>2, <1>4, <1>5 DEF x

(* Change_File_Size, where it does not shrink the file. *)
LEMMA ChangeLengthens ==
  ASSUME NEW d \in DiskType, NEW S, NEW file \in Fat_File \cup Element, file.file_start \in S,
         Fits(d.fat, file), Partition(d.fat, S), NEW size \in Nat,
         Calculate_Cluster_Need(size) >= file.allocated_clusters
  PROVE  LET r == Change_File_Size(d, file, size)
         IN /\ LengthensFile(d, S, file, r)
            /\ r.file.file_size = Smaller(r.file.allocated_clusters * ClusterSize, size)
            /\ \/ r.file.allocated_clusters = file.allocated_clusters
               \/ r.file.allocated_clusters <= Calculate_Cluster_Need(size)
<1> DEFINE r == Resize(d, file, size, TRUE)
<1>1. TRUE \in BOOLEAN
  OBVIOUS
<1>2. /\ LengthensFile(d, S, file, r)
      /\ \/ r.file.allocated_clusters = file.allocated_clusters
         \/ r.file.allocated_clusters <= Calculate_Cluster_Need(size)
  BY <1>1, ResizeLengthens
<1>3. Change_File_Size(d, file, size) = Sized(r, size)
  BY DEF Change_File_Size
<1> HIDE DEF r
<1> QED BY <1>2, <1>3, SizedLengthens

(* Expand_File never shrinks a file. *)
LEMMA ExpandLengthens ==
  ASSUME NEW d \in DiskType, NEW S, NEW file \in Fat_File \cup Element, file.file_start \in S,
         Fits(d.fat, file), Partition(d.fat, S), NEW size \in Nat
  PROVE  LET r == Expand_File(d, file, size)
         IN /\ LengthensFile(d, S, file, r)
            /\ r.file.file_size = IF file.file_size < size
                                  THEN Smaller(r.file.allocated_clusters * ClusterSize, size)
                                  ELSE file.file_size
<1> DEFINE r == Resize(d, file, size, FALSE)
<1> DEFINE shrink == FALSE
<1>1. shrink \in BOOLEAN /\ ~shrink
  OBVIOUS
<1> HIDE DEF shrink
<1>2. LengthensFile(d, S, file, r) /\ r.file.file_size = file.file_size
  <2>1. LET q == Resize(d, file, size, shrink)
        IN LengthensFile(d, S, file, q) /\ q.file.file_size = file.file_size
    BY <1>1, ResizeLengthens
  <2> QED BY <2>1 DEF shrink
<1>3. Expand_File(d, file, size) = IF file.file_size < size THEN Sized(r, size) ELSE r
  BY DEF Expand_File
<1> HIDE DEF r
<1>4. CASE file.file_size < size
  <2> DEFINE z == Sized(r, size)
  <2>1. /\ LengthensFile(d, S, file, z)
        /\ z.file.allocated_clusters = r.file.allocated_clusters
        /\ z.file.file_size = Smaller(r.file.allocated_clusters * ClusterSize, size)
    BY <1>2, SizedLengthens
  <2>2. Expand_File(d, file, size) = z
    BY <1>3, <1>4
  <2> HIDE DEF z
  <2> QED BY <1>4, <2>1, <2>2
<1>5. CASE ~(file.file_size < size)
  BY <1>2, <1>3, <1>5
<1> QED BY <1>4, <1>5
-----------------------------------------------------------------------------
(* The directory of a disk, as the calls pass it on.                       *)

StartsOf(file, list) == {file.file_start} \cup {list[i].file_start : i \in DOMAIN list}

(* No two entries are of one file or of one name, and none is the root's.  *)
Apart(file, list) ==
  /\ \A i \in DOMAIN list : list[i].file_start # file.file_start
  /\ \A i, j \in DOMAIN list :
       list[i].file_start = list[j].file_start \/ list[i].file_name = list[j].file_name => i = j

(* An open file and its entry. *)
OpenFits(table, list, file, n) ==
  /\ Fits(table, file)
  /\ file.file_size <= file.allocated_clusters * ClusterSize
  /\ \E i \in DOMAIN list : list[i].file_name = n /\ list[i].file_start = file.file_start

(* A disk with a root "file", its entries and the open files. *)
Sound(d, file, list, open) ==
  /\ d \in DiskType /\ file \in Fat_File /\ list \in Seq(Dir_Entry)
  /\ open \in [Name -> Element \cup {Closed}]
  /\ Partition(d.fat, StartsOf(file, list))
  /\ Apart(file, list)
  /\ Fits(d.fat, file)
  /\ \A i \in DOMAIN list :
       list[i].file_size <= Len(Get_File_Clusters(d.fat, list[i].file_start)) * ClusterSize
  /\ \A n \in Name : open[n] # Closed => OpenFits(d.fat, list, open[n], n)

(* The root has just the clusters that its entries need, and a size that   *)
(* says how many they are. *)
Counts(file, n) ==
  /\ n * EntrySize <= file.file_size /\ file.file_size < n * EntrySize + EntrySize
  /\ file.file_size <= file.allocated_clusters * ClusterSize
  /\ file.allocated_clusters = Calculate_Cluster_Need(n * EntrySize)

(* The inductive invariant. *)
IInv == Sound(Disk, root, entries, opened) /\ Counts(root, Len(entries))

(* Multiplication keeps the order. *)
LEMMA Times ==
  ASSUME NEW a \in Nat, NEW b \in Nat, NEW c \in Nat, a <= b
  PROVE  a * c <= b * c /\ a * c \in Nat /\ b * c \in Nat
OBVIOUS

(* No chain becomes shorter when one is lengthened. *)
LEMMA ChainLengths ==
  ASSUME NEW t, NEW u, NEW S, NEW f \in S, NEW n \in Nat, Partition(t, S), Lengthened(t, u, S, f, n)
  PROVE  \A s \in S : /\ Len(Get_File_Clusters(t, s)) \in Nat
                      /\ Len(Get_File_Clusters(u, s)) \in Nat
                      /\ Len(Get_File_Clusters(t, s)) <= Len(Get_File_Clusters(u, s))
<1> TAKE s \in S
<1>1. Len(Get_File_Clusters(t, s)) \in Nat /\ Len(Get_File_Clusters(u, s)) \in Nat
  BY ChainLength, ClusterFacts DEF Lengthened
<1>2. CASE s = f
  BY <1>1, <1>2 DEF Lengthened
<1>3. CASE s # f
  BY <1>1, <1>3 DEF Lengthened
<1> QED BY <1>1, <1>2, <1>3

(* Lengthening the chain of any file keeps the directory sound. *)
LEMMA SoundLengthens ==
  ASSUME NEW d, NEW file, NEW list, NEW open, Sound(d, file, list, open),
         NEW e \in DiskType, NEW f \in StartsOf(file, list), NEW n \in Nat,
         Lengthened(d.fat, e.fat, StartsOf(file, list), f, n)
  PROVE  Sound(e, file, list, open)
<1> DEFINE S == StartsOf(file, list)
<1>1. Partition(d.fat, S) /\ Partition(e.fat, S)
  BY DEF Sound, Lengthened
<1>2. \A s \in S : /\ Len(Get_File_Clusters(d.fat, s)) \in Nat
                   /\ Len(Get_File_Clusters(e.fat, s)) \in Nat
                   /\ Len(Get_File_Clusters(d.fat, s)) <= Len(Get_File_Clusters(e.fat, s))
  BY <1>1, ChainLengths
<1>3. /\ file \in Fat_File /\ list \in Seq(Dir_Entry)
      /\ open \in [Name -> Element \cup {Closed}] /\ Apart(file, list) /\ Fits(d.fat, file)
      /\ \A i \in DOMAIN list :
           list[i].file_size <= Len(Get_File_Clusters(d.fat, list[i].file_start)) * ClusterSize
      /\ \A m \in Name : open[m] # Closed => OpenFits(d.fat, list, open[m], m)
  BY DEF Sound
<1>4. file.file_start \in S /\ \A i \in DOMAIN list : list[i].file_start \in S
  BY DEF StartsOf
<1>5. ASSUME NEW x \in Fat_File \cup Element, x.file_start \in S, Fits(d.fat, x)
      PROVE  Fits(e.fat, x)
  BY <1>2, <1>5, FileFields DEF Fits
<1>6. ASSUME NEW i \in DOMAIN list
      PROVE  list[i].file_size <= Len(Get_File_Clusters(e.fat, list[i].file_start)) * ClusterSize
  <2>1. list[i].file_size \in Nat
    <3>1. list[i] \in Dir_Entry
      BY <1>3
    <3> QED BY ONLY <3>1 DEF Dir_Entry
  <2>2. /\ Len(Get_File_Clusters(d.fat, list[i].file_start)) \in Nat
        /\ Len(Get_File_Clusters(e.fat, list[i].file_start)) \in Nat
        /\ Len(Get_File_Clusters(d.fat, list[i].file_start))
             <= Len(Get_File_Clusters(e.fat, list[i].file_start))
    BY <1>2, <1>4
  <2>3. /\ Len(Get_File_Clusters(d.fat, list[i].file_start)) * ClusterSize
             <= Len(Get_File_Clusters(e.fat, list[i].file_start)) * ClusterSize
        /\ Len(Get_File_Clusters(d.fat, list[i].file_start)) * ClusterSize \in Nat
        /\ Len(Get_File_Clusters(e.fat, list[i].file_start)) * ClusterSize \in Nat
    BY ONLY <2>2, Times, ClusterFacts
  <2>4. list[i].file_size <= Len(Get_File_Clusters(d.fat, list[i].file_start)) * ClusterSize
    BY <1>3
  <2> QED BY ONLY <2>1, <2>3, <2>4
<1>7. ASSUME NEW m \in Name, open[m] # Closed
      PROVE  OpenFits(e.fat, list, open[m], m)
  <2>1. OpenFits(d.fat, list, open[m], m) /\ open[m] \in Element
    BY <1>3, <1>7
  <2>2. open[m].file_start \in S
    BY <1>4, <2>1 DEF OpenFits
  <2>3. Fits(e.fat, open[m])
    BY <1>5, <2>1, <2>2 DEF OpenFits
  <2> QED BY <2>1, <2>3 DEF OpenFits
<1>8. Fits(e.fat, file)
  BY <1>3, <1>4, <1>5
<1> QED BY <1>1, <1>3, <1>6, <1>7, <1>8 DEF Sound

(* More bytes need no fewer clusters, and an entry more needs at most one. *)
LEMMA NeedGrows ==
  ASSUME NEW a \in Nat, NEW b \in Nat
  PROVE  /\ a <= b => Calculate_Cluster_Need(a) <= Calculate_Cluster_Need(b)
         /\ b <= a + ClusterSize => Calculate_Cluster_Need(b) <= Calculate_Cluster_Need(a) + 1
         /\ a <= Calculate_Cluster_Need(a) * ClusterSize
<1> DEFINE m == Calculate_Cluster_Need(a)
           n == Calculate_Cluster_Need(b)
<1>1. /\ m \in Nat \ {0} /\ \A k \in Nat \ {0} : m <= k <=> a <= k * ClusterSize
      /\ n \in Nat \ {0} /\ \A k \in Nat \ {0} : n <= k <=> b <= k * ClusterSize
  BY Need
<1> HIDE DEF m, n
<1>2. a <= m * ClusterSize /\ b <= n * ClusterSize
  BY <1>1
<1>3. /\ m * ClusterSize \in Nat /\ n * ClusterSize \in Nat
      /\ (m + 1) * ClusterSize = m * ClusterSize + ClusterSize
  BY <1>1, ClusterFacts
<1>4. a <= b => a <= n * ClusterSize
  BY <1>2, <1>3
<1>5. b <= a + ClusterSize => b <= (m + 1) * ClusterSize
  BY <1>2, <1>3, ClusterFacts
<1>6. m + 1 \in Nat \ {0}
  BY <1>1
<1> QED BY <1>1, <1>2, <1>4, <1>5, <1>6 DEF m, n

(* Writing entries into a sound directory of m entries, of which "list"    *)
(* is at most one longer: all of them are written, or the new one has no   *)
(* room.                                                                   *)
LEMMA WriteStaysSound ==
  ASSUME NEW d, NEW file, NEW list, NEW open, Sound(d, file, list, open),
         NEW m \in Nat, Counts(file, m), NEW old, Len(list) <= m + 1,
         Calculate_Cluster_Need(Len(list) * EntrySize) >= file.allocated_clusters
  PROVE  LET r == Write_Entries(d, file, old, list)
         IN /\ Sound(r.disk, r.root, list, open)
            /\ r.root.file_start = file.file_start
            /\ Grows(d.fat, r.disk.fat)
            /\ \A s \in StartsOf(file, list) : s # file.file_start =>
                 Get_File_Clusters(r.disk.fat, s) = Get_File_Clusters(d.fat, s)
            /\ r.written => Counts(r.root, Len(list)) /\ r.entries = list
            /\ ~r.written => Counts(r.root, m) /\ r.entries = old
            /\ Len(list) <= m => r.written
<1> DEFINE n == Len(list)
           size == n * EntrySize
           need == Calculate_Cluster_Need(size)
           c == Change_File_Size(d, file, size)
           S == StartsOf(file, list)
<1>1. /\ d \in DiskType /\ file \in Fat_File /\ file.file_start \in S
      /\ Fits(d.fat, file) /\ Partition(d.fat, S) /\ n \in Nat
  BY DEF Sound, StartsOf
<1>2. size \in Nat /\ m * EntrySize \in Nat /\ n <= m + 1
  BY <1>1, ClusterFacts
<1>3. need >= file.allocated_clusters /\ need \in Nat
  BY <1>2, Need
<1>4. /\ LengthensFile(d, S, file, c)
      /\ c.file.file_size = Smaller(c.file.allocated_clusters * ClusterSize, size)
      /\ \/ c.file.allocated_clusters = file.allocated_clusters
         \/ c.file.allocated_clusters <= need
  BY <1>1, <1>2, <1>3, ChangeLengthens
<1> DEFINE r == Write_Entries(d, file, old, list)
<1>5. /\ r.disk = c.disk /\ r.root = c.file
      /\ r.written <=> c.file.file_size = size
      /\ r.entries = IF c.file.file_size = size THEN list ELSE old
  BY DEF Write_Entries, Stored
<1> HIDE DEF c, r
<1>6. /\ c.disk \in DiskType /\ c.file \in Fat_File /\ c.file.file_start = file.file_start
      /\ Lengthened(d.fat, c.disk.fat, S, file.file_start,
                    c.file.allocated_clusters - file.allocated_clusters)
      /\ Fits(c.disk.fat, c.file)
      /\ c.file.allocated_clusters - file.allocated_clusters \in Nat
  BY <1>1, <1>4 DEF LengthensFile
<1>7. Sound(c.disk, c.file, list, open)
  <2>1. Sound(c.disk, file, list, open)
    BY <1>1, <1>6, SoundLengthens
  <2>2. Apart(c.file, list) /\ StartsOf(c.file, list) = S
    BY <1>6, <2>1 DEF Sound, Apart, StartsOf
  <2> QED BY <1>6, <2>1, <2>2 DEF Sound
<1>8. /\ Grows(d.fat, c.disk.fat)
      /\ \A s \in S : s # file.file_start =>
           Get_File_Clusters(c.disk.fat, s) = Get_File_Clusters(d.fat, s)
  BY <1>6 DEF Lengthened
<1> DEFINE x == c.file.allocated_clusters
           y == file.allocated_clusters
<1>9. /\ x \in Nat \ {0} /\ y \in Nat \ {0} /\ y <= x /\ c.file.file_size \in Nat
      /\ x * ClusterSize \in Nat /\ y * ClusterSize \in Nat
  BY <1>1, <1>6, FileFields, ClusterFacts
<1>10. /\ y = Calculate_Cluster_Need(m * EntrySize)
       /\ m * EntrySize <= y * ClusterSize
  BY <1>2, NeedGrows DEF Counts
<1>11. need <= x <=> size <= x * ClusterSize
  BY <1>2, <1>9, Need
<1>12. x <= need
  BY <1>3, <1>4
<1>13. need <= y + 1
  <2>1. size <= m * EntrySize + EntrySize
    <3>1. size <= (m + 1) * EntrySize
      BY <1>1, <1>2, Times, ClusterFacts
    <3>2. (m + 1) * EntrySize = m * EntrySize + EntrySize
      BY ClusterFacts
    <3> QED BY <3>1, <3>2
  <2>2. size <= m * EntrySize + ClusterSize
    BY <1>2, <2>1, ClusterFacts
  <2> QED BY <1>2, <1>10, <2>2, NeedGrows
<1>14. n <= m => need = y
  <2> SUFFICES ASSUME n <= m PROVE need = y
    OBVIOUS
  <2>1. size <= m * EntrySize
    BY <1>1, Times, ClusterFacts
  <2> QED BY <1>2, <1>3, <1>9, <1>10, <2>1, NeedGrows
<1> HIDE DEF need
<1>15. CASE x = need
  <2>1. c.file.file_size = size /\ size <= x * ClusterSize
    BY <1>2, <1>4, <1>9, <1>11, <1>15 DEF Smaller
  <2>2. Counts(c.file, n)
    BY <1>2, <1>15, <2>1, ClusterFacts DEF Counts, need
  <2> QED BY <1>5, <1>6, <1>7, <1>8, <2>1, <2>2 DEF r
<1>16. CASE x # need
  <2>1. x < need /\ x = y
    BY ONLY <1>3, <1>9, <1>12, <1>13, <1>16
  <2>2. c.file.file_size = x * ClusterSize /\ x * ClusterSize < size
    BY <1>2, <1>3, <1>4, <1>9, <1>11, <2>1 DEF Smaller
  <2>3. n = m + 1 /\ size = m * EntrySize + EntrySize
    <3>1. n = m + 1
      <4>1. ~(n <= m)
        BY ONLY <1>3, <1>9, <1>14, <2>1
      <4>2. n \in Nat /\ m \in Nat /\ n <= m + 1
        BY <1>1
      <4> HIDE DEF n
      <4> QED BY ONLY <4>1, <4>2
    <3> QED BY <3>1, ClusterFacts
  <2>4. Counts(c.file, m)
    BY <1>2, <1>9, <1>10, <2>1, <2>2, <2>3 DEF Counts
  <2>5. c.file.file_size # size
    BY <1>2, <1>9, <2>2
  <2>6. ~(n <= m)
    BY <1>1, <2>3
  <2>7. ~r.written /\ r.entries = old
    BY ONLY <1>5, <2>5
  <2>8. Counts(r.root, m)
    BY ONLY <1>5, <2>4
  <2>9. /\ Sound(r.disk, r.root, list, open) /\ r.root.file_start = file.file_start
        /\ Grows(d.fat, r.disk.fat)
        /\ \A s \in S : s # file.file_start =>
             Get_File_Clusters(r.disk.fat, s) = Get_File_Clusters(d.fat, s)
    BY ONLY <1>5, <1>6, <1>7, <1>8
  <2> QED BY ONLY <2>6, <2>7, <2>8, <2>9 DEF r
<1> QED BY <1>15, <1>16

(* Index is the entry of the name: there is one at most. *)
LEMMA Indices ==
  ASSUME NEW file, NEW list \in Seq(Dir_Entry), Apart(file, list), NEW n
  PROVE  Index(list, n) = {i \in DOMAIN list : list[i].file_name = n}
<1>1. /\ DOMAIN list \subseteq Nat
      /\ \A i \in DOMAIN list : \A j \in 1 .. (i - 1) : j \in DOMAIN list /\ j # i
  OBVIOUS
<1>2. \A i, j \in DOMAIN list : list[i].file_name = list[j].file_name => i = j
  BY DEF Apart
<1> QED BY <1>1, <1>2 DEF Index

(* An entry is removed and the last one takes its place. *)
LEMMA LastTakesPlace ==
  ASSUME NEW list \in Seq(Dir_Entry), NEW i \in DOMAIN list
  PROVE  LET new == SetLastTo(list, i)
         IN /\ new \in Seq(Dir_Entry) /\ Len(new) = Len(list) - 1
            /\ DOMAIN new = 1 .. (Len(list) - 1)
            /\ \A j \in DOMAIN new : new[j] = IF j = i THEN list[Len(list)] ELSE list[j]
<1> DEFINE put == [list EXCEPT ![i] = list[Len(list)]]
<1>1. Len(list) \in Nat /\ DOMAIN list = 1 .. Len(list) /\ Len(list) >= 1
  OBVIOUS
<1>2. list[Len(list)] \in Dir_Entry
  BY <1>1
<1>3. put \in Seq(Dir_Entry) /\ Len(put) = Len(list)
  BY <1>1, <1>2
<1>4. \A j \in 1 .. Len(list) : put[j] = IF j = i THEN list[Len(list)] ELSE list[j]
  BY <1>1
<1>5. SetLastTo(list, i) = SubSeq(put, 1, Len(put) - 1)
  BY DEF SetLastTo, Front, Last
<1> HIDE DEF put
<1>6. SubSeq(put, 1, Len(put) - 1) \in Seq(Dir_Entry)
  BY <1>1, <1>3
<1> QED BY <1>1, <1>3, <1>4, <1>5, <1>6

(* Fewer entries, all of them of files whose chains are still there. *)
LEMMA SoundFewer ==
  ASSUME NEW d, NEW file, NEW list, NEW open, Sound(d, file, list, open),
         NEW a \in DiskType, NEW new \in Seq(Dir_Entry), Apart(file, new),
         Partition(a.fat, StartsOf(file, new)),
         \A s \in StartsOf(file, new) : Get_File_Clusters(a.fat, s) = Get_File_Clusters(d.fat, s),
         \A j \in DOMAIN new : \E k \in DOMAIN list : new[j] = list[k],
         \A k \in DOMAIN list : open[list[k].file_name] # Closed =>
           \E j \in DOMAIN new : new[j] = list[k]
  PROVE  Sound(a, file, new, open)
<1>1. /\ file \in Fat_File /\ list \in Seq(Dir_Entry)
      /\ open \in [Name -> Element \cup {Closed}] /\ Fits(d.fat, file)
      /\ \A i \in DOMAIN list :
           list[i].file_size <= Len(Get_File_Clusters(d.fat, list[i].file_start)) * ClusterSize
      /\ \A m \in Name : open[m] # Closed => OpenFits(d.fat, list, open[m], m)
  BY DEF Sound
<1>2. file.file_start \in StartsOf(file, new)
      /\ \A j \in DOMAIN new : new[j].file_start \in StartsOf(file, new)
  BY DEF StartsOf
<1>3. Fits(a.fat, file)
  BY <1>1, <1>2 DEF Fits
<1>4. ASSUME NEW j \in DOMAIN new
      PROVE  new[j].file_size <= Len(Get_File_Clusters(a.fat, new[j].file_start)) * ClusterSize
  <2>1. PICK k \in DOMAIN list : new[j] = list[k]
    OBVIOUS
  <2>2. Get_File_Clusters(a.fat, new[j].file_start) = Get_File_Clusters(d.fat, new[j].file_start)
    BY <1>2
  <2> QED BY <1>1, <2>1, <2>2
<1>5. ASSUME NEW m \in Name, open[m] # Closed PROVE OpenFits(a.fat, new, open[m], m)
  <2>1. OpenFits(d.fat, list, open[m], m)
    BY <1>1, <1>5
  <2>2. PICK k \in DOMAIN list : list[k].file_name = m /\ list[k].file_start = open[m].file_start
    BY <2>1 DEF OpenFits
  <2>3. PICK j \in DOMAIN new : new[j] = list[k]
    BY <1>5, <2>2
  <2>4. Get_File_Clusters(a.fat, open[m].file_start) = Get_File_Clusters(d.fat, open[m].file_start)
    BY <1>2, <2>2, <2>3
  <2> QED BY <2>1, <2>2, <2>3, <2>4 DEF OpenFits, Fits
<1> QED BY <1>1, <1>3, <1>4, <1>5 DEF Sound

(* A file that is not open is freed and its entry removed. *)
LEMMA RemoveSound ==
  ASSUME NEW d, NEW file, NEW list, NEW open, Sound(d, file, list, open),
         NEW i \in DOMAIN list, open[list[i].file_name] = Closed
  PROVE  /\ Sound(Deallocate_File(d, list[i].file_start), file, SetLastTo(list, i), open)
         /\ \A j \in DOMAIN SetLastTo(list, i) : SetLastTo(list, i)[j].file_name # list[i].file_name
         /\ Len(SetLastTo(list, i)) = Len(list) - 1
         /\ \A c \in Cluster : c \notin ToSet(Get_File_Clusters(d.fat, list[i].file_start)) =>
              Deallocate_File(d, list[i].file_start).fat[c] = d.fat[c]
<1> DEFINE s == list[i].file_start
           S == StartsOf(file, list)
           a == Deallocate_File(d, s)
           new == SetLastTo(list, i)
           n == Len(list)
<1>1. /\ d \in DiskType /\ file \in Fat_File /\ list \in Seq(Dir_Entry)
      /\ Partition(d.fat, S) /\ s \in S
  BY DEF Sound, StartsOf
<1>2. /\ \A k \in DOMAIN list : list[k].file_start # file.file_start
      /\ \A k, l \in DOMAIN list : list[k].file_start = list[l].file_start => k = l
      /\ \A k, l \in DOMAIN list : list[k].file_name = list[l].file_name => k = l
  BY DEF Sound, Apart
<1>3. /\ a \in DiskType /\ Partition(a.fat, S \ {s})
      /\ \A t \in S \ {s} : Get_File_Clusters(a.fat, t) = Get_File_Clusters(d.fat, t)
      /\ \A c \in Cluster : c \notin ToSet(Get_File_Clusters(d.fat, s)) => a.fat[c] = d.fat[c]
  <2> HIDE DEF S, s
  <2>1. d \in DiskType /\ s \in S /\ Partition(d.fat, S)
    BY <1>1
  <2> QED BY ONLY <2>1, DeallocateFrees
<1>4. /\ new \in Seq(Dir_Entry) /\ Len(new) = n - 1 /\ DOMAIN new = 1 .. (n - 1)
      /\ \A j \in DOMAIN new : new[j] = IF j = i THEN list[n] ELSE list[j]
  BY <1>1, LastTakesPlace
<1>5. n \in Nat /\ DOMAIN list = 1 .. n /\ i \in 1 .. n
  BY <1>1
<1> HIDE DEF a, new
<1> DEFINE P(j) == IF j = i THEN n ELSE j
<1>6. /\ \A j \in DOMAIN new : P(j) \in DOMAIN list /\ P(j) # i /\ new[j] = list[P(j)]
      /\ \A j, k \in DOMAIN new : P(j) = P(k) => j = k
      /\ \A k \in DOMAIN list : k # i => \E j \in DOMAIN new : P(j) = k
  <2>1. ASSUME NEW k \in DOMAIN list, k # i PROVE \E j \in DOMAIN new : P(j) = k
    <3>1. CASE k = n
      <4>1. i \in DOMAIN new /\ P(i) = k
        BY <1>4, <1>5, <2>1, <3>1
      <4> QED BY <4>1
    <3>2. CASE k # n
      <4>1. k \in DOMAIN new /\ P(k) = k
        BY <1>4, <1>5, <2>1, <3>2
      <4> QED BY <4>1
    <3> QED BY <3>1, <3>2
  <2>2. ASSUME NEW j \in DOMAIN new PROVE P(j) \in DOMAIN list /\ P(j) # i /\ new[j] = list[P(j)]
    BY <1>4, <1>5
  <2>3. ASSUME NEW j \in DOMAIN new, NEW k \in DOMAIN new, P(j) = P(k) PROVE j = k
    BY <1>4, <1>5, <2>3
  <2> QED BY <2>1, <2>2, <2>3
<1> HIDE DEF P
<1>7. StartsOf(file, new) = S \ {s}
  <2>1. \A j \in DOMAIN new : new[j].file_start \in S \ {s}
    BY <1>2, <1>6 DEF StartsOf
  <2>2. file.file_start \in S \ {s}
    BY <1>2 DEF StartsOf
  <2>3. ASSUME NEW t \in S \ {s} PROVE t \in StartsOf(file, new)
    <3>1. CASE t = file.file_start
      BY <3>1 DEF StartsOf
    <3>2. CASE t # file.file_start
      <4>1. PICK k \in DOMAIN list : t = list[k].file_start
        BY <3>2 DEF StartsOf
      <4>2. PICK j \in DOMAIN new : P(j) = k
        BY <1>6, <4>1
      <4> QED BY <1>6, <4>1, <4>2 DEF StartsOf
    <3> QED BY <3>1, <3>2
  <2> QED BY <2>1, <2>2, <2>3 DEF StartsOf
<1>8. Apart(file, new)
  BY <1>2, <1>6 DEF Apart
<1>9. \A k \in DOMAIN list : open[list[k].file_name] # Closed =>
        \E j \in DOMAIN new : new[j] = list[k]
  BY <1>6
<1>10. Sound(a, file, new, open)
  <2>1. \A j \in DOMAIN new : \E k \in DOMAIN list : new[j] = list[k]
    BY <1>6
  <2>2. Partition(a.fat, StartsOf(file, new))
    BY <1>3, <1>7
  <2>3. \A t \in StartsOf(file, new) : Get_File_Clusters(a.fat, t) = Get_File_Clusters(d.fat, t)
    BY <1>3, <1>7
  <2>4. a \in DiskType /\ new \in Seq(Dir_Entry) /\ Sound(d, file, list, open)
    BY <1>3, <1>4
  <2> QED BY ONLY <1>8, <1>9, <2>1, <2>2, <2>3, <2>4, SoundFewer
<1>11. \A j \in DOMAIN new : new[j].file_name # list[i].file_name
  BY <1>2, <1>6
<1> QED BY <1>3, <1>4, <1>10, <1>11 DEF a, new

(* A sequence with an element more. *)
LEMMA Appending ==
  ASSUME NEW list \in Seq(Dir_Entry), NEW e \in Dir_Entry
  PROVE  LET new == Append(list, e)
         IN /\ new \in Seq(Dir_Entry) /\ Len(new) = Len(list) + 1
            /\ DOMAIN new = DOMAIN list \cup {Len(list) + 1}
            /\ Len(list) + 1 \notin DOMAIN list
            /\ \A i \in DOMAIN list : new[i] = list[i]
            /\ new[Len(list) + 1] = e
OBVIOUS

(* A file of a new name gets a free cluster, and its entry comes last. *)
LEMMA AddSound ==
  ASSUME NEW d, NEW file, NEW list, NEW open, Sound(d, file, list, open), ~Full(d),
         NEW n \in Name, \A i \in DOMAIN list : list[i].file_name # n
  PROVE  LET c == FreeCluster(d)
             e == Take(d, c)
             new == Append(list, [file_name |-> n, file_start |-> c, file_size |-> 0])
         IN /\ c \in Cluster /\ d.fat[c] = FAT_FREE /\ c # file.file_start
            /\ Sound(e, file, new, open)
            /\ Get_File_Clusters(e.fat, c) = <<c>>
            /\ Grows(d.fat, e.fat)
            /\ c \in StartsOf(file, new) /\ Len(new) = Len(list) + 1
            /\ StartsOf(file, list) = StartsOf(file, new) \ {c}
<1> DEFINE c == FreeCluster(d)
           e == Take(d, c)
           entry == [file_name |-> n, file_start |-> c, file_size |-> 0]
           new == Append(list, entry)
           S == StartsOf(file, list)
           l == Len(list) + 1
<1>1. /\ d \in DiskType /\ d.fat \in Table /\ list \in Seq(Dir_Entry) /\ Partition(d.fat, S)
      /\ file \in Fat_File /\ open \in [Name -> Element \cup {Closed}]
      /\ Apart(file, list) /\ Fits(d.fat, file)
      /\ \A i \in DOMAIN list :
           list[i].file_size <= Len(Get_File_Clusters(d.fat, list[i].file_start)) * ClusterSize
      /\ \A m \in Name : open[m] # Closed => OpenFits(d.fat, list, open[m], m)
  BY DEF Sound, DiskType
<1>2. c \in Cluster /\ d.fat[c] = FAT_FREE
  BY <1>1, FreeClusterIsFree
<1> HIDE DEF c
<1>3. e.fat = [d.fat EXCEPT ![c] = FAT_EOF] /\ e.last_allocated = c /\ e \in DiskType
  BY <1>1, <1>2 DEF Take, DiskType, Table
<1>4. e.fat \in Table /\ e.fat[c] = FAT_EOF /\ \A x \in Cluster : x # c => e.fat[x] = d.fat[x]
  BY <1>1, <1>2, <1>3 DEF Table
<1>5. /\ Partition(e.fat, S \cup {c}) /\ c \notin S /\ Get_File_Clusters(e.fat, c) = <<c>>
      /\ \A s \in S : Get_File_Clusters(e.fat, s) = Get_File_Clusters(d.fat, s)
      /\ Grows(d.fat, e.fat)
  <2> DEFINE t == d.fat
             u == e.fat
  <2>1. /\ Partition(t, S) /\ c \in Cluster /\ t[c] = FAT_FREE /\ u \in Table /\ u[c] = FAT_EOF
        /\ \A x \in Cluster : x # c => u[x] = t[x]
    BY <1>1, <1>2, <1>4
  <2> HIDE DEF S, t, u
  <2>2. /\ Partition(u, S \cup {c}) /\ c \notin S /\ Get_File_Clusters(u, c) = <<c>>
        /\ \A s \in S : Get_File_Clusters(u, s) = Get_File_Clusters(t, s)
        /\ Grows(t, u)
    BY ONLY <2>1, StartChain
  <2> QED BY <2>2 DEF t, u
<1>6. entry \in Dir_Entry /\ entry.file_name = n /\ entry.file_start = c /\ entry.file_size = 0
  BY <1>2 DEF Dir_Entry
<1> HIDE DEF entry
<1>7. /\ new \in Seq(Dir_Entry) /\ Len(new) = Len(list) + 1
      /\ DOMAIN new = DOMAIN list \cup {l} /\ l \notin DOMAIN list
      /\ \A i \in DOMAIN list : new[i] = list[i]
      /\ new[l] = entry
  BY <1>1, <1>6, Appending
<1> HIDE DEF new, l, e
<1>8. StartsOf(file, new) = S \cup {c}
  <2>1. {new[i].file_start : i \in DOMAIN new} = {list[i].file_start : i \in DOMAIN list} \cup {c}
    BY <1>6, <1>7
  <2> QED BY <2>1 DEF StartsOf
<1>9. /\ file.file_start \in S /\ \A i \in DOMAIN list : list[i].file_start \in S
  BY DEF StartsOf
<1>10. Apart(file, new)
  BY <1>1, <1>5, <1>6, <1>7, <1>9 DEF Apart
<1>11. ASSUME NEW i \in DOMAIN new
       PROVE  new[i].file_size <= Len(Get_File_Clusters(e.fat, new[i].file_start)) * ClusterSize
  <2>1. CASE i \in DOMAIN list
    BY <1>1, <1>5, <1>7, <1>9, <2>1
  <2>2. CASE i = l
    <3>1. Len(Get_File_Clusters(e.fat, c)) = 1
      BY <1>5
    <3> QED BY <1>6, <1>7, <2>2, <3>1, ClusterFacts
  <2> QED BY <1>7, <2>1, <2>2
<1>12. ASSUME NEW m \in Name, open[m] # Closed PROVE OpenFits(e.fat, new, open[m], m)
  <2>1. OpenFits(d.fat, list, open[m], m)
    BY <1>1, <1>12
  <2>2. PICK i \in DOMAIN list : list[i].file_name = m /\ list[i].file_start = open[m].file_start
    BY <2>1 DEF OpenFits
  <2>3. Get_File_Clusters(e.fat, open[m].file_start) = Get_File_Clusters(d.fat, open[m].file_start)
    BY <1>5, <1>9, <2>2
  <2> QED BY <1>7, <2>1, <2>2, <2>3 DEF OpenFits, Fits
<1>13. Fits(e.fat, file)
  BY <1>1, <1>5, <1>9 DEF Fits
<1>14. Sound(e, file, new, open)
  BY <1>1, <1>3, <1>5, <1>7, <1>8, <1>10, <1>11, <1>12, <1>13 DEF Sound
<1> QED BY <1>2, <1>5, <1>7, <1>8, <1>9, <1>14 DEF c, e, new, entry

(* The entry that had no room is forgotten, and its file freed. *)
LEMMA UndoSound ==
  ASSUME NEW d, NEW file, NEW list \in Seq(Dir_Entry), NEW e \in Dir_Entry, NEW open,
         Sound(d, file, Append(list, e), open), open[e.file_name] = Closed
  PROVE  /\ Sound(Undo(d, e.file_start), file, list, open)
         /\ \A x \in Cluster : x \notin ToSet(Get_File_Clusters(d.fat, e.file_start)) =>
              Undo(d, e.file_start).fat[x] = d.fat[x]
<1> DEFINE new == Append(list, e)
           S == StartsOf(file, new)
           c == e.file_start
           a == Undo(d, c)
           l == Len(list) + 1
<1>1. /\ DOMAIN new = DOMAIN list \cup {l} /\ l \notin DOMAIN list
      /\ \A i \in DOMAIN list : new[i] = list[i]
      /\ new[l] = e
  BY Appending
<1> HIDE DEF l, new
<1>2. d \in DiskType /\ Partition(d.fat, S) /\ Apart(file, new)
  BY DEF Sound, new
<1>3. c \in S
  BY <1>1 DEF StartsOf
<1>4. /\ a \in DiskType /\ Partition(a.fat, S \ {c})
      /\ \A s \in S \ {c} : Get_File_Clusters(a.fat, s) = Get_File_Clusters(d.fat, s)
      /\ \A x \in Cluster : x \notin ToSet(Get_File_Clusters(d.fat, c)) => a.fat[x] = d.fat[x]
  <2> HIDE DEF S, c
  <2> QED BY ONLY <1>2, <1>3, DeallocateFrees DEF Undo
<1>5. StartsOf(file, list) = S \ {c}
  <2>1. {new[i].file_start : i \in DOMAIN new} = {list[i].file_start : i \in DOMAIN list} \cup {c}
    BY <1>1
  <2>2. c # file.file_start /\ \A i \in DOMAIN list : list[i].file_start # c
    BY <1>1, <1>2 DEF Apart
  <2> QED BY <2>1, <2>2 DEF StartsOf
<1>6. Apart(file, list)
  BY <1>1, <1>2 DEF Apart
<1>7. Sound(a, file, list, open)
  <2>1. Sound(d, file, new, open)
    BY DEF new
  <2>2. Partition(a.fat, StartsOf(file, list))
        /\ \A s \in StartsOf(file, list) : Get_File_Clusters(a.fat, s) = Get_File_Clusters(d.fat, s)
    BY <1>4, <1>5
  <2>3. \A j \in DOMAIN list : \E k \in DOMAIN new : list[j] = new[k]
    BY <1>1
  <2>4. \A k \in DOMAIN new : open[new[k].file_name] # Closed =>
          \E j \in DOMAIN list : list[j] = new[k]
    BY <1>1
  <2> HIDE DEF a
  <2> QED BY ONLY <1>4, <1>6, <2>1, <2>2, <2>3, <2>4, SoundFewer, list \in Seq(Dir_Entry)
<1> QED BY <1>4, <1>7

(* A file is opened, closed or moved in, or has been lengthened. *)
LEMMA OpenSound ==
  ASSUME NEW d, NEW file, NEW list, NEW open, Sound(d, file, list, open), NEW n \in Name,
         NEW f \in Element \cup {Closed}, f # Closed => OpenFits(d.fat, list, f, n)
  PROVE  Sound(d, file, list, [open EXCEPT ![n] = f])
<1> DEFINE new == [open EXCEPT ![n] = f]
<1>1. /\ open \in [Name -> Element \cup {Closed}]
      /\ \A m \in Name : open[m] # Closed => OpenFits(d.fat, list, open[m], m)
  BY DEF Sound
<1>2. /\ new \in [Name -> Element \cup {Closed}]
      /\ \A m \in Name : new[m] = IF m = n THEN f ELSE open[m]
  BY <1>1
<1> HIDE DEF new
<1>3. \A m \in Name : new[m] # Closed => OpenFits(d.fat, list, new[m], m)
  BY <1>1, <1>2
<1>4. Sound(d, file, list, new)
  BY <1>2, <1>3 DEF Sound
<1> QED BY <1>4 DEF new

(* The entry of a file gets its size. *)
LEMMA RenewSound ==
  ASSUME NEW d, NEW file, NEW list, NEW open, Sound(d, file, list, open), NEW n \in Name,
         NEW f \in Element, OpenFits(d.fat, list, f, n)
  PROVE  Sound(d, file, Renewed(list, n, f), open) /\ Len(Renewed(list, n, f)) = Len(list)
<1> DEFINE new == Renewed(list, n, f)
<1>1. /\ list \in Seq(Dir_Entry) /\ Apart(file, list)
      /\ open \in [Name -> Element \cup {Closed}] /\ file \in Fat_File
      /\ \A i \in DOMAIN list :
           list[i].file_size <= Len(Get_File_Clusters(d.fat, list[i].file_start)) * ClusterSize
      /\ \A m \in Name : open[m] # Closed => OpenFits(d.fat, list, open[m], m)
      /\ Partition(d.fat, StartsOf(file, list))
  BY DEF Sound
<1>2. PICK k \in DOMAIN list : list[k].file_name = n /\ list[k].file_start = f.file_start
  BY DEF OpenFits
<1>3. Index(list, n) = {k}
  <2>1. \A i, j \in DOMAIN list : list[i].file_name = list[j].file_name => i = j
    BY <1>1 DEF Apart
  <2>2. Index(list, n) = {i \in DOMAIN list : list[i].file_name = n}
    BY <1>1, Indices
  <2> QED BY <1>2, <2>1, <2>2
<1> DEFINE entry == [list[k] EXCEPT !.file_start = f.file_start, !.file_size = f.file_size]
<1>4. list[k] \in Dir_Entry /\ f.file_start \in Cluster /\ f.file_size \in Nat
  BY <1>1, FileFields
<1>5. /\ entry \in Dir_Entry /\ entry.file_name = n /\ entry.file_start = list[k].file_start
      /\ entry.file_size = f.file_size
  BY <1>2, <1>4 DEF Dir_Entry
<1>6. new = [i \in DOMAIN list |-> IF i \in {k}
                THEN [list[i] EXCEPT !.file_start = f.file_start, !.file_size = f.file_size]
                ELSE list[i]]
  BY <1>3 DEF Renewed
<1>7. \A i \in DOMAIN list : new[i] = IF i = k THEN entry ELSE list[i]
  BY <1>6
<1>8. DOMAIN new = DOMAIN list /\ new \in Seq(Dir_Entry) /\ Len(new) = Len(list)
  <2>1. /\ Len(list) \in Nat /\ DOMAIN list = 1 .. Len(list)
        /\ \A i \in DOMAIN list : list[i] \in Dir_Entry
    BY <1>1
  <2>2. new \in [1 .. Len(list) -> Dir_Entry]
    <3> HIDE DEF entry
    <3> QED BY <1>5, <1>6, <1>7, <2>1
  <2> QED BY <2>1, <2>2
<1> HIDE DEF new, entry
<1>9. \A i \in DOMAIN list :
        new[i].file_start = list[i].file_start /\ new[i].file_name = list[i].file_name
  BY <1>2, <1>5, <1>7
<1>10. StartsOf(file, new) = StartsOf(file, list) /\ Apart(file, new)
  <2>1. {new[i].file_start : i \in DOMAIN new} = {list[i].file_start : i \in DOMAIN list}
    BY <1>8, <1>9
  <2>2. Apart(file, new)
    BY ONLY <1>1, <1>8, <1>9 DEF Apart
  <2> QED BY <2>1, <2>2 DEF StartsOf
<1>11. ASSUME NEW i \in DOMAIN new
       PROVE  new[i].file_size <= Len(Get_File_Clusters(d.fat, new[i].file_start)) * ClusterSize
  <2>1. CASE i # k
    BY <1>1, <1>7, <1>8, <2>1
  <2>2. CASE i = k
    <3> DEFINE len == Len(Get_File_Clusters(d.fat, f.file_start))
    <3>1. f.allocated_clusters <= len /\ f.file_size <= f.allocated_clusters * ClusterSize
      BY DEF OpenFits, Fits
    <3>2. f.allocated_clusters \in Nat /\ f.file_size \in Nat
      BY FileFields
    <3>3. len \in Nat
      <4>1. f.file_start \in StartsOf(file, list)
        BY <1>2 DEF StartsOf
      <4> QED BY <1>1, <4>1, ChainLength, ClusterFacts
    <3> HIDE DEF len
    <3>4. f.allocated_clusters * ClusterSize <= len * ClusterSize
          /\ f.allocated_clusters * ClusterSize \in Nat /\ len * ClusterSize \in Nat
      BY ONLY <3>1, <3>2, <3>3, Times, ClusterFacts
    <3>5. f.file_size <= len * ClusterSize
      BY ONLY <3>1, <3>2, <3>4
    <3> QED BY <1>2, <1>5, <1>7, <1>8, <2>2, <3>5 DEF len
  <2> QED BY <2>1, <2>2
<1>12. \A m \in Name : open[m] # Closed => OpenFits(d.fat, new, open[m], m)
  <2> SUFFICES ASSUME NEW m \in Name, open[m] # Closed PROVE OpenFits(d.fat, new, open[m], m)
    OBVIOUS
  <2>1. OpenFits(d.fat, list, open[m], m)
    BY <1>1
  <2>2. PICK i \in DOMAIN list : list[i].file_name = m /\ list[i].file_start = open[m].file_start
    BY <2>1 DEF OpenFits
  <2>3. new[i].file_name = m /\ new[i].file_start = open[m].file_start
    BY <1>9, <2>2
  <2> QED BY <1>8, <2>1, <2>3 DEF OpenFits
<1> QED BY <1>8, <1>10, <1>11, <1>12 DEF Sound, new

(* Read_All_Entries reads all of them when the root's size counts them. *)
LEMMA AllRead ==
  ASSUME NEW list \in Seq(Dir_Entry), NEW file \in Fat_File, Counts(file, Len(list))
  PROVE  SubSeq(list, 1, file.file_size \div EntrySize) = list
<1> DEFINE n == Len(list)
           size == file.file_size
           q == size \div EntrySize
           r == size % EntrySize
<1>1. n \in Nat /\ size \in Nat /\ EntrySize \in Nat \ {0}
  BY FileFields, ClusterFacts
<1>2. n * EntrySize <= size /\ size < n * EntrySize + EntrySize
  BY DEF Counts
<1>3. q \in Nat /\ r \in 0 .. (EntrySize - 1) /\ size = EntrySize * q + r
  <2> HIDE DEF size
  <2> QED BY ONLY <1>1, Division
<1> HIDE DEF n, q, r, size
<1>4. ~(q + 1 <= n)
  <2> SUFFICES ASSUME q + 1 <= n PROVE FALSE
    OBVIOUS
  <2>1. (q + 1) * EntrySize <= n * EntrySize
    BY <1>1, <1>3, Times
  <2>2. (q + 1) * EntrySize = EntrySize * q + EntrySize
    BY ONLY <1>1, <1>3
  <2>3. n * EntrySize \in Nat /\ EntrySize * q \in Nat
    BY ONLY <1>1, <1>3
  <2> QED BY ONLY <1>1, <1>2, <1>3, <2>1, <2>2, <2>3
<1>5. ~(n + 1 <= q)
  <2> SUFFICES ASSUME n + 1 <= q PROVE FALSE
    OBVIOUS
  <2>1. (n + 1) * EntrySize <= q * EntrySize
    BY <1>1, <1>3, Times
  <2>2. (n + 1) * EntrySize = n * EntrySize + EntrySize /\ q * EntrySize = EntrySize * q
    BY ONLY <1>1, <1>3
  <2>3. n * EntrySize \in Nat /\ EntrySize * q \in Nat
    BY ONLY <1>1, <1>3
  <2> QED BY ONLY <1>1, <1>2, <1>3, <2>1, <2>2, <2>3
<1>6. q = n
  BY ONLY <1>1, <1>3, <1>4, <1>5
<1>7. SubSeq(list, 1, Len(list)) = list
  OBVIOUS
<1> QED BY <1>6, <1>7 DEF n, q, size

(* The clusters of the files other than n stay as they are, but for the    *)
(* end of a chain, which may get a follower.                               *)
OthersKeep(list, table, new, n) ==
  \A c \in Cluster :
    (/\ table[c] # FAT_FREE
     /\ \A i \in DOMAIN list : list[i].file_name = n =>
          c \notin ToSet(Get_File_Clusters(table, list[i].file_start)))
    => new[c] = table[c] \/ (table[c] = FAT_EOF /\ new[c] # FAT_FREE)

(* What follows OthersKeep and only lets chains grow keeps it. *)
LEMMA GrowsOn ==
  ASSUME NEW list, NEW n, NEW t, NEW u, NEW v, OthersKeep(list, t, u, n), Grows(u, v)
  PROVE  OthersKeep(list, t, v, n)
BY ClusterFacts DEF OthersKeep, Grows

(* Growing adds up. *)
LEMMA GrowsTwice ==
  ASSUME NEW t, NEW u, NEW v, Grows(t, u), Grows(u, v)
  PROVE  Grows(t, v)
BY ClusterFacts DEF Grows

(* What the invariant says of the variables. *)
LEMMA IInvFacts ==
  ASSUME IInv
  PROVE  /\ Disk \in DiskType /\ Disk.fat = fat /\ Disk.last_allocated = last_allocated
         /\ root \in Fat_File /\ entries \in Seq(Dir_Entry)
         /\ opened \in [Name -> Element \cup {Closed}]
         /\ Sound(Disk, root, entries, opened) /\ Counts(root, Len(entries))
         /\ Read_All_Entries = entries
<1>1. /\ Disk \in DiskType /\ Disk.fat = fat /\ Disk.last_allocated = last_allocated
      /\ root \in Fat_File /\ entries \in Seq(Dir_Entry)
      /\ opened \in [Name -> Element \cup {Closed}]
      /\ Sound(Disk, root, entries, opened) /\ Counts(root, Len(entries))
  BY DEF IInv, Sound, Disk
<1>2. Read_All_Entries = entries
  BY <1>1, AllRead DEF Read_All_Entries
<1> QED BY <1>1, <1>2

(* Removing whatever has the name keeps the directory sound, takes the     *)
(* name out of it and leaves the other files alone.                        *)
LEMMA RemovedSound ==
  ASSUME ~Shrinking, IInv, NEW n \in Name, opened[n] = Closed, MayRemove(n)
  PROVE  LET r == Removed(n)
         IN /\ Sound(r.disk, r.root, r.entries, opened) /\ Counts(r.root, Len(r.entries))
            /\ \A i \in DOMAIN r.entries : r.entries[i].file_name # n
            /\ OthersKeep(entries, fat, r.disk.fat, n)
            /\ r.root.file_start = root.file_start
<1> DEFINE r == Removed(n)
<1>1. /\ Disk \in DiskType /\ Disk.fat = fat /\ root \in Fat_File /\ entries \in Seq(Dir_Entry)
      /\ Sound(Disk, root, entries, opened) /\ Counts(root, Len(entries))
      /\ Read_All_Entries = entries
  BY IInvFacts
<1>2. Index(entries, n) = {i \in DOMAIN entries : entries[i].file_name = n}
  BY <1>1, Indices DEF Sound
<1>3. CASE Index(entries, n) = {}
  <2>1. /\ r.disk = Disk /\ r.root = root /\ r.entries = entries
    BY <1>1, <1>3 DEF Removed
  <2>2. OthersKeep(entries, fat, fat, n)
    BY DEF OthersKeep
  <2> HIDE DEF r
  <2> QED BY <1>1, <1>2, <1>3, <2>1, <2>2 DEF r
<1>4. CASE Index(entries, n) # {}
  <2> DEFINE i == CHOOSE i \in Index(entries, n) : TRUE
             d == Deallocate_File(Disk, entries[i].file_start)
             list == SetLastTo(entries, i)
  <2>1. i \in DOMAIN entries /\ entries[i].file_name = n
    BY <1>2, <1>4
  <2>2. r = Write_Entries(d, root, entries, list)
    BY <1>1, <1>4 DEF Removed
  <2> HIDE DEF i
  <2>3. /\ Sound(d, root, list, opened)
        /\ \A j \in DOMAIN list : list[j].file_name # n
        /\ Len(list) = Len(entries) - 1
        /\ \A c \in Cluster : c \notin ToSet(Get_File_Clusters(fat, entries[i].file_start)) =>
             d.fat[c] = fat[c]
    BY <1>1, <2>1, RemoveSound
  <2>4. Calculate_Cluster_Need(Len(list) * EntrySize) >= root.allocated_clusters
    BY <1>1, <1>4, <2>3 DEF MayRemove, MayBecome
  <2>5. OthersKeep(entries, fat, d.fat, n)
    BY <2>1, <2>3 DEF OthersKeep
  <2>6. Len(entries) \in Nat /\ Len(list) <= Len(entries) + 1 /\ Len(list) <= Len(entries)
    BY <1>1, <2>3
  <2> HIDE DEF d, list, r
  <2>7. /\ Sound(r.disk, r.root, list, opened)
        /\ Grows(d.fat, r.disk.fat)
        /\ r.root.file_start = root.file_start
        /\ Counts(r.root, Len(list)) /\ r.entries = list
    <3> DEFINE m == Len(entries)
    <3>1. m \in Nat /\ Counts(root, m) /\ Len(list) <= m + 1 /\ Len(list) <= m
      BY <1>1, <2>6
    <3> HIDE DEF m
    <3> QED BY ONLY <3>1, <2>2, <2>3, <2>4, WriteStaysSound
  <2>8. OthersKeep(entries, fat, r.disk.fat, n)
    BY <2>5, <2>7, GrowsOn
  <2> QED BY <2>3, <2>7, <2>8 DEF r
<1> QED BY <1>3, <1>4

(* Adding a file keeps the directory sound, whether its entry has room or  *)
(* the file is given up again.                                             *)
LEMMA AddedSound ==
  ASSUME NEW b, Sound(b.disk, b.root, b.entries, opened), Counts(b.root, Len(b.entries)),
         ~Full(b.disk), NEW n \in Name, opened[n] = Closed,
         \A i \in DOMAIN b.entries : b.entries[i].file_name # n
  PROVE  LET c == FreeCluster(b.disk)
             r == Added(b, n, c)
             f == [file_start |-> c, file_size |-> 0, allocated_clusters |-> 1, file_position |-> 0]
         IN /\ r.written =>
                 /\ Sound(r.disk, r.root, r.entries, [opened EXCEPT ![n] = f])
                 /\ Grows(b.disk.fat, r.disk.fat)
            /\ ~r.written =>
                 /\ Sound(Undo(r.disk, c), r.root, r.entries, opened)
                 /\ Grows(b.disk.fat, Undo(r.disk, c).fat)
            /\ Counts(r.root, Len(r.entries))
            /\ r.root.file_start = b.root.file_start
<1> DEFINE c == FreeCluster(b.disk)
           e == [file_name |-> n, file_start |-> c, file_size |-> 0]
           list == Append(b.entries, e)
           d == Take(b.disk, c)
           r == Added(b, n, c)
           f == [file_start |-> c, file_size |-> 0, allocated_clusters |-> 1, file_position |-> 0]
           m == Len(b.entries)
<1>1. /\ b.disk \in DiskType /\ b.root \in Fat_File /\ b.entries \in Seq(Dir_Entry)
  BY DEF Sound
<1>2. /\ c \in Cluster /\ b.disk.fat[c] = FAT_FREE /\ c # b.root.file_start
      /\ Sound(d, b.root, list, opened)
      /\ Get_File_Clusters(d.fat, c) = <<c>>
      /\ Grows(b.disk.fat, d.fat)
      /\ c \in StartsOf(b.root, list) /\ Len(list) = m + 1
  BY AddSound
<1>3. SubSeq(b.entries, 1, b.root.file_size \div EntrySize) = b.entries
  BY <1>1, AllRead
<1>4. r = Write_Entries(d, b.root, b.entries, list)
  BY <1>3 DEF Added
<1>5. m \in Nat /\ Counts(b.root, m) /\ Len(list) <= m + 1
  BY <1>1, <1>2
<1>6. Calculate_Cluster_Need(Len(list) * EntrySize) >= b.root.allocated_clusters
  <2>1. b.root.allocated_clusters = Calculate_Cluster_Need(m * EntrySize)
    BY <1>5 DEF Counts
  <2>2. /\ m * EntrySize <= Len(list) * EntrySize
        /\ m * EntrySize \in Nat /\ Len(list) * EntrySize \in Nat
    BY <1>2, <1>5, Times, ClusterFacts
  <2>3. /\ Calculate_Cluster_Need(m * EntrySize) <= Calculate_Cluster_Need(Len(list) * EntrySize)
        /\ Calculate_Cluster_Need(m * EntrySize) \in Nat
        /\ Calculate_Cluster_Need(Len(list) * EntrySize) \in Nat
    BY <2>2, NeedGrows, Need
  <2> QED BY <2>1, <2>3
<1>7. e \in Dir_Entry /\ e.file_name = n /\ e.file_start = c
  BY <1>2 DEF Dir_Entry
<1> HIDE DEF c, e, d, list, r
<1>8. /\ Sound(r.disk, r.root, list, opened)
      /\ r.root.file_start = b.root.file_start
      /\ Grows(d.fat, r.disk.fat)
      /\ \A s \in StartsOf(b.root, list) : s # b.root.file_start =>
           Get_File_Clusters(r.disk.fat, s) = Get_File_Clusters(d.fat, s)
      /\ r.written => Counts(r.root, Len(list)) /\ r.entries = list
      /\ ~r.written => Counts(r.root, m) /\ r.entries = b.entries
  <2> DEFINE file == b.root
             old == b.entries
  <2> HIDE DEF m, file, old
  <2>1. /\ Sound(d, file, list, opened) /\ m \in Nat /\ Counts(file, m) /\ Len(list) <= m + 1
        /\ Calculate_Cluster_Need(Len(list) * EntrySize) >= file.allocated_clusters
        /\ r = Write_Entries(d, file, old, list)
    BY ONLY <1>2, <1>4, <1>5, <1>6 DEF file, old
  <2>2. /\ Sound(r.disk, r.root, list, opened)
        /\ r.root.file_start = file.file_start
        /\ Grows(d.fat, r.disk.fat)
        /\ \A s \in StartsOf(file, list) : s # file.file_start =>
             Get_File_Clusters(r.disk.fat, s) = Get_File_Clusters(d.fat, s)
        /\ r.written => Counts(r.root, Len(list)) /\ r.entries = list
        /\ ~r.written => Counts(r.root, m) /\ r.entries = old
    BY ONLY <2>1, WriteStaysSound
  <2> QED BY <2>2 DEF file, old
<1>9. Get_File_Clusters(r.disk.fat, c) = <<c>>
  BY <1>2, <1>8
<1>10. Grows(b.disk.fat, r.disk.fat)
  BY <1>2, <1>8, GrowsTwice
<1>11. CASE r.written
  <2>1. f \in Element /\ f.file_start = c /\ f.file_size = 0 /\ f.allocated_clusters = 1
    BY <1>2, ClusterFacts DEF Element
  <2> HIDE DEF f
  <2>2. OpenFits(r.disk.fat, list, f, n)
    <3>1. Len(Get_File_Clusters(r.disk.fat, c)) = 1
      BY <1>9
    <3>2. m + 1 \in DOMAIN list /\ list[m + 1] = e
      BY <1>1, <1>7, Appending DEF list
    <3> QED BY <1>7, <2>1, <3>1, <3>2, ClusterFacts DEF OpenFits, Fits
  <2>3. Sound(r.disk, r.root, list, [opened EXCEPT ![n] = f])
    BY <1>8, <2>1, <2>2, OpenSound
  <2> QED BY <1>8, <1>10, <1>11, <2>3 DEF r, c, f
<1>12. CASE ~r.written
  <2> DEFINE u == Undo(r.disk, c)
  <2>1. /\ Sound(u, r.root, b.entries, opened)
        /\ \A x \in Cluster :
             x \notin ToSet(Get_File_Clusters(r.disk.fat, c)) => u.fat[x] = r.disk.fat[x]
    <3> DEFINE new == r.disk
               file == r.root
               old == b.entries
    <3>1. /\ old \in Seq(Dir_Entry) /\ e \in Dir_Entry /\ opened[e.file_name] = Closed
          /\ Sound(new, file, Append(old, e), opened)
      BY <1>1, <1>7, <1>8 DEF list
    <3> HIDE DEF new, file, old
    <3>2. /\ Sound(Undo(new, e.file_start), file, old, opened)
          /\ \A x \in Cluster : x \notin ToSet(Get_File_Clusters(new.fat, e.file_start)) =>
               Undo(new, e.file_start).fat[x] = new.fat[x]
      BY ONLY <3>1, UndoSound
    <3> QED BY <1>7, <3>2 DEF new, file, old
  <2>2. ToSet(<<c>>) = {c}
    BY DEF ToSet
  <2>3. \A x \in Cluster : x # c => u.fat[x] = r.disk.fat[x]
    BY <1>9, <2>1, <2>2
  <2> HIDE DEF u
  <2>4. Grows(b.disk.fat, u.fat)
    BY <1>2, <1>10, <2>3 DEF Grows
  <2> QED BY <1>8, <1>12, <2>1, <2>4 DEF r, c, u
<1> QED BY <1>11, <1>12

-----------------------------------------------------------------------------
(* The calls.                                                              *)

(* The disk a call returns is the disk of the next state. *)
LEMMA Became ==
  ASSUME NEW d \in DiskType, Becomes(d)
  PROVE  Disk' = d /\ fat' = d.fat
BY DEF Becomes, Disk, DiskType

(* What OpenFilesOnlyGrow says of a step. *)
OpenFilesKeep ==
  \A n \in Name : opened[n] # Closed /\ opened'[n] # Closed =>
    /\ opened'[n].file_start = opened[n].file_start
    /\ \A c \in ToSet(Chain(opened[n].file_start)) :
         fat'[c] = fat[c] \/ (fat[c] = FAT_EOF /\ fat'[c] # FAT_FREE)

(* What the invariant says of an open file. *)
LEMMA OpenFacts ==
  ASSUME IInv, NEW n \in Name, opened[n] # Closed
  PROVE  /\ opened[n] \in Element /\ OpenFits(fat, entries, opened[n], n)
         /\ opened[n].file_start \in StartsOf(root, entries)
         /\ \A c \in ToSet(Chain(opened[n].file_start)) : c \in Cluster /\ fat[c] # FAT_FREE
<1>1. /\ Sound(Disk, root, entries, opened) /\ Disk.fat = fat
  BY IInvFacts
<1>2. opened[n] \in Element /\ OpenFits(fat, entries, opened[n], n)
  BY <1>1 DEF Sound
<1>3. opened[n].file_start \in StartsOf(root, entries)
  BY <1>2 DEF OpenFits, StartsOf
<1>4. Partition(fat, StartsOf(root, entries))
  BY <1>1 DEF Sound
<1>5. /\ IsChain(fat, opened[n].file_start, Chain(opened[n].file_start))
      /\ fat \in Table
  BY <1>3, <1>4 DEF Partition, Chain
<1>6. \A c \in ToSet(Chain(opened[n].file_start)) : c \in Cluster /\ fat[c] # FAT_FREE
  BY ONLY <1>5, InUse
<1> QED BY <1>2, <1>3, <1>6

(* A call that frees at most the clusters of a file that is not open keeps *)
(* those of the open files.                                                *)
LEMMA OthersStayOpen ==
  ASSUME IInv, NEW n \in Name, opened[n] = Closed, OthersKeep(entries, fat, fat', n),
         \A m \in Name : m # n => opened'[m] = opened[m]
  PROVE  OpenFilesKeep
<1> SUFFICES ASSUME NEW m \in Name, opened[m] # Closed, opened'[m] # Closed
             PROVE  /\ opened'[m].file_start = opened[m].file_start
                    /\ \A c \in ToSet(Chain(opened[m].file_start)) :
                         fat'[c] = fat[c] \/ (fat[c] = FAT_EOF /\ fat'[c] # FAT_FREE)
  BY DEF OpenFilesKeep
<1>1. /\ m # n /\ opened'[m] = opened[m]
  OBVIOUS
<1>2. /\ OpenFits(fat, entries, opened[m], m)
      /\ opened[m].file_start \in StartsOf(root, entries)
      /\ \A c \in ToSet(Chain(opened[m].file_start)) : c \in Cluster /\ fat[c] # FAT_FREE
  BY OpenFacts
<1>3. Partition(fat, StartsOf(root, entries)) /\ Apart(root, entries)
  BY IInvFacts DEF Sound
<1>4. ASSUME NEW i \in DOMAIN entries, entries[i].file_name = n,
             NEW c \in ToSet(Chain(opened[m].file_start))
      PROVE  c \notin ToSet(Get_File_Clusters(fat, entries[i].file_start))
  <2>1. PICK k \in DOMAIN entries :
          entries[k].file_name = m /\ entries[k].file_start = opened[m].file_start
    BY <1>2 DEF OpenFits
  <2>2. entries[i].file_start # opened[m].file_start
    BY <1>1, <1>3, <1>4, <2>1 DEF Apart
  <2>3. entries[i].file_start \in StartsOf(root, entries)
    BY DEF StartsOf
  <2> QED BY <1>2, <1>3, <1>4, <2>2, <2>3 DEF Partition, Chain
<1>5. \A c \in ToSet(Chain(opened[m].file_start)) :
        fat'[c] = fat[c] \/ (fat[c] = FAT_EOF /\ fat'[c] # FAT_FREE)
  BY <1>2, <1>4 DEF OthersKeep
<1> QED BY <1>1, <1>5

(* A call that only lets chains grow keeps the clusters of the open files. *)
LEMMA AllStayOpen ==
  ASSUME IInv, Grows(fat, fat'),
         \A m \in Name : opened[m] # Closed /\ opened'[m] # Closed =>
           opened'[m].file_start = opened[m].file_start
  PROVE  OpenFilesKeep
BY OpenFacts DEF OpenFilesKeep, Grows

(* The formatted disk. *)
LEMMA InitIInv == Init => IInv
<1> SUFFICES ASSUME Init PROVE IInv
  OBVIOUS
<1>1. /\ fat = [c \in Cluster |-> IF c = 0 THEN FAT_EOF ELSE FAT_FREE]
      /\ last_allocated = 0 /\ entries = <<>> /\ opened = [n \in Name |-> Closed]
      /\ root = [file_start |-> 0, file_size |-> 0, allocated_clusters |-> 1]
  BY DEF Init
<1>2. 0 \in Cluster
  BY ClusterFacts
<1>3. fat \in Table /\ fat[0] = FAT_EOF /\ \A c \in Cluster : c # 0 => fat[c] = FAT_FREE
  BY <1>1, <1>2 DEF Table
<1>4. IsChain(fat, 0, <<0>>)
  BY <1>2, <1>3 DEF IsChain, Leads, Last, Distinct
<1>5. Get_File_Clusters(fat, 0) = <<0>> /\ ToSet(<<0>>) = {0}
  <2>1. ToSet(<<0>>) = {0}
    BY DEF ToSet
  <2> QED BY <1>2, <1>3, <1>4, <2>1, ChainIs
<1>6. Partition(fat, {0})
  BY <1>2, <1>3, <1>4, <1>5 DEF Partition
<1>7. root \in Fat_File /\ root.file_start = 0 /\ root.file_size = 0 /\ root.allocated_clusters = 1
  BY <1>1, <1>2, ClusterFacts DEF Fat_File
<1>8. StartsOf(root, entries) = {0} /\ Apart(root, entries) /\ DOMAIN entries = {}
      /\ entries \in Seq(Dir_Entry) /\ Len(entries) = 0
  BY <1>1, <1>7 DEF StartsOf, Apart
<1>9. Disk \in DiskType /\ Disk.fat = fat
  BY <1>1, <1>2, <1>3 DEF Disk, DiskType
<1>10. Fits(fat, root)
  <2>1. Len(Get_File_Clusters(fat, 0)) = 1
    BY ONLY <1>5
  <2>2. Get_File_Clusters(fat, root.file_start) = Get_File_Clusters(fat, 0)
    BY ONLY <1>7, Zenon
  <2> DEFINE len == Len(Get_File_Clusters(fat, root.file_start))
  <2>3. len = 1
    BY ONLY <2>1, <2>2
  <2> HIDE DEF len
  <2>4. root.allocated_clusters <= len
    BY ONLY <1>7, <2>3
  <2> QED BY ONLY <2>4 DEF Fits, len
<1>11. opened \in [Name -> Element \cup {Closed}] /\ \A n \in Name : opened[n] = Closed
  BY <1>1
<1>12. Sound(Disk, root, entries, opened)
  BY <1>6, <1>7, <1>8, <1>9, <1>10, <1>11 DEF Sound
<1>13. Counts(root, 0)
  <2>1. 0 * EntrySize = 0 /\ Calculate_Cluster_Need(0) = 1
    BY ClusterFacts DEF Calculate_Cluster_Need
  <2> QED BY <1>7, <2>1, ClusterFacts DEF Counts
<1> QED BY <1>8, <1>12, <1>13 DEF IInv

(* delete_file. *)
LEMMA DeleteStep ==
  ASSUME ~Shrinking, IInv, NEW n \in Name, Delete(n)
  PROVE  IInv' /\ OpenFilesKeep
<1> DEFINE r == Removed(n)
<1>1. opened[n] = Closed /\ MayRemove(n) /\ DirectoryBecomes(r) /\ opened' = opened
  BY DEF Delete
<1>2. /\ Sound(r.disk, r.root, r.entries, opened) /\ Counts(r.root, Len(r.entries))
      /\ OthersKeep(entries, fat, r.disk.fat, n)
  BY <1>1, RemovedSound
<1> HIDE DEF r
<1>3. Disk' = r.disk /\ fat' = r.disk.fat /\ root' = r.root /\ entries' = r.entries
  <2>1. r.disk \in DiskType
    BY <1>2 DEF Sound
  <2> QED BY <1>1, <2>1, Became DEF DirectoryBecomes
<1>4. IInv'
  BY <1>1, <1>2, <1>3 DEF IInv
<1>5. OpenFilesKeep
  BY <1>1, <1>2, <1>3, OthersStayOpen
<1> QED BY <1>4, <1>5

(* create_file, with each of its outcomes: nothing is made, the file is    *)
(* made, its entry has no room.                                            *)
LEMMA CreateStep ==
  ASSUME ~Shrinking, IInv, NEW n \in Name, Create(n)
  PROVE  IInv' /\ OpenFilesKeep
<1> DEFINE b == Removed(n)
           c == FreeCluster(b.disk)
           r == Added(b, n, c)
           f == [file_start |-> c, file_size |-> 0, allocated_clusters |-> 1, file_position |-> 0]
<1>1. /\ opened[n] = Closed /\ MayRemove(n)
      /\ \/ DirectoryBecomes(b) /\ opened' = opened
         \/ /\ ~Full(b.disk) /\ root' = r.root /\ entries' = r.entries
            /\ IF r.written THEN Becomes(r.disk) /\ opened' = [opened EXCEPT ![n] = f]
               ELSE Becomes(Undo(r.disk, c)) /\ opened' = opened
  BY DEF Create
<1>2. /\ Sound(b.disk, b.root, b.entries, opened) /\ Counts(b.root, Len(b.entries))
      /\ \A i \in DOMAIN b.entries : b.entries[i].file_name # n
      /\ OthersKeep(entries, fat, b.disk.fat, n)
  BY <1>1, RemovedSound
<1> HIDE DEF b
<1>3. CASE DirectoryBecomes(b) /\ opened' = opened
  <2>1. Disk' = b.disk /\ fat' = b.disk.fat /\ root' = b.root /\ entries' = b.entries
    <3>1. b.disk \in DiskType
      BY <1>2 DEF Sound
    <3> QED BY <1>3, <3>1, Became DEF DirectoryBecomes
  <2>2. IInv'
    BY <1>2, <1>3, <2>1 DEF IInv
  <2>3. OpenFilesKeep
    BY <1>1, <1>2, <1>3, <2>1, OthersStayOpen
  <2> QED BY <2>2, <2>3
<1>4. CASE /\ ~Full(b.disk) /\ root' = r.root /\ entries' = r.entries
           /\ IF r.written THEN Becomes(r.disk) /\ opened' = [opened EXCEPT ![n] = f]
              ELSE Becomes(Undo(r.disk, c)) /\ opened' = opened
  <2>1. /\ r.written =>
             /\ Sound(r.disk, r.root, r.entries, [opened EXCEPT ![n] = f])
             /\ Grows(b.disk.fat, r.disk.fat)
        /\ ~r.written =>
             /\ Sound(Undo(r.disk, c), r.root, r.entries, opened)
             /\ Grows(b.disk.fat, Undo(r.disk, c).fat)
        /\ Counts(r.root, Len(r.entries))
    BY <1>1, <1>2, <1>4, AddedSound
  <2> DEFINE u == Undo(r.disk, c)
  <2> HIDE DEF r, c, f, u
  <2>2. CASE r.written
    <3>1. r.disk \in DiskType
      BY <2>1, <2>2 DEF Sound
    <3>2. Disk' = r.disk /\ fat' = r.disk.fat /\ opened' = [opened EXCEPT ![n] = f]
      BY <1>4, <2>2, <3>1, Became
    <3>3. IInv'
      BY <1>4, <2>1, <2>2, <3>2 DEF IInv
    <3>4. OthersKeep(entries, fat, fat', n)
      BY <1>2, <2>1, <2>2, <3>2, GrowsOn
    <3>5. \A m \in Name : m # n => opened'[m] = opened[m]
      BY <3>2, IInvFacts
    <3> QED BY <1>1, <3>3, <3>4, <3>5, OthersStayOpen
  <2>3. CASE ~r.written
    <3>1. u \in DiskType
      BY <2>1, <2>3 DEF Sound, u
    <3>2. Disk' = u /\ fat' = u.fat /\ opened' = opened
      BY <1>4, <2>3, <3>1, Became DEF u
    <3>3. IInv'
      BY <1>4, <2>1, <2>3, <3>2 DEF IInv, u
    <3>4. OthersKeep(entries, fat, fat', n)
      BY <1>2, <2>1, <2>3, <3>2, GrowsOn DEF u
    <3> QED BY <1>1, <3>2, <3>3, <3>4, OthersStayOpen
  <2> QED BY <2>2, <2>3
<1> QED BY <1>1, <1>3, <1>4

(* The calls that leave the disk and the directory alone. *)
LEMMA OpenedStep ==
  ASSUME IInv, UNCHANGED <<fat, last_allocated, root, entries>>, NEW n \in Name,
         NEW f \in Element \cup {Closed}, f # Closed => OpenFits(fat, entries, f, n),
         opened' = [opened EXCEPT ![n] = f],
         opened[n] # Closed /\ f # Closed => f.file_start = opened[n].file_start
  PROVE  IInv' /\ OpenFilesKeep
<1>1. Sound(Disk, root, entries, opened) /\ Counts(root, Len(entries)) /\ Disk.fat = fat
      /\ opened \in [Name -> Element \cup {Closed}]
  BY IInvFacts
<1>2. Sound(Disk, root, entries, opened')
  BY <1>1, OpenSound
<1>3. Disk' = Disk /\ fat' = fat
  BY DEF Disk
<1>4. IInv'
  BY <1>1, <1>2, <1>3 DEF IInv
<1>5. \A m \in Name : opened'[m] = IF m = n THEN f ELSE opened[m]
  BY <1>1
<1>6. OpenFilesKeep
  BY <1>3, <1>5 DEF OpenFilesKeep
<1> QED BY <1>4, <1>6

(* open_file: the clusters counted from the size in the entry are in the   *)
(* chain.                                                                  *)
LEMMA OpenStep ==
  ASSUME IInv, NEW n \in Name, Open(n)
  PROVE  IInv' /\ OpenFilesKeep
<1>1. /\ entries \in Seq(Dir_Entry) /\ Sound(Disk, root, entries, opened) /\ Disk.fat = fat
      /\ Read_All_Entries = entries
  BY IInvFacts
<1>2. PICK i \in Index(entries, n) :
        opened' = [opened EXCEPT ![n] =
          [file_start |-> entries[i].file_start, file_size |-> entries[i].file_size,
           allocated_clusters |-> Calculate_Cluster_Need(entries[i].file_size),
           file_position |-> 0]]
  BY <1>1 DEF Open
<1>3. i \in DOMAIN entries /\ entries[i].file_name = n
  BY <1>1, <1>2, Indices DEF Sound
<1> DEFINE s == entries[i].file_start
           size == entries[i].file_size
           need == Calculate_Cluster_Need(size)
           len == Len(Get_File_Clusters(fat, s))
           f == [file_start |-> s, file_size |-> size, allocated_clusters |-> need,
                 file_position |-> 0]
<1>4. s \in Cluster /\ size \in Nat
  <2>1. entries[i] \in Dir_Entry
    BY <1>1, <1>3
  <2> QED BY ONLY <2>1 DEF Dir_Entry
<1>5. size <= len * ClusterSize
  BY <1>1, <1>3 DEF Sound
<1>6. len \in 1 .. ClusterCount
  <2>1. s \in StartsOf(root, entries) /\ Partition(fat, StartsOf(root, entries))
    BY <1>1, <1>3 DEF StartsOf, Sound
  <2> HIDE DEF s
  <2> QED BY ONLY <2>1, ChainLength
<1>7. need \in Nat \ {0} /\ need <= len /\ size <= need * ClusterSize
  <2>1. len \in Nat \ {0}
    BY <1>6, ClusterFacts
  <2> HIDE DEF s, size, len
  <2> QED BY ONLY <1>4, <1>5, <2>1, Need, NeedGrows
<1>8. /\ f \in Element /\ f.file_start = s /\ f.file_size = size /\ f.allocated_clusters = need
  <2>1. need \in 1 .. ClusterCount
    BY <1>6, <1>7, ClusterFacts
  <2> HIDE DEF s, size, need
  <2> QED BY <1>4, <2>1 DEF Element
<1>9. OpenFits(fat, entries, f, n)
  <2> HIDE DEF f, need
  <2> QED BY <1>3, <1>7, <1>8 DEF OpenFits, Fits
<1>10. opened[n] = Closed /\ UNCHANGED <<fat, last_allocated, root, entries>>
  BY DEF Open
<1>11. opened' = [opened EXCEPT ![n] = f]
  BY <1>2
<1> HIDE DEF f
<1> QED BY <1>8, <1>9, <1>10, <1>11, OpenedStep

(* Closing a file. *)
LEMMA CloseStep ==
  ASSUME IInv, NEW n \in Name, Close(n)
  PROVE  IInv' /\ OpenFilesKeep
<1> DEFINE f == Closed
<1>1. f \in Element \cup {Closed} /\ f = Closed /\ opened' = [opened EXCEPT ![n] = f]
      /\ UNCHANGED <<fat, last_allocated, root, entries>>
  BY DEF Close
<1> HIDE DEF f
<1> QED BY <1>1, OpenedStep

(* An element whose position changes is as sound as it was. *)
LEMMA Moved ==
  ASSUME NEW table, NEW list, NEW n, NEW f \in Element, OpenFits(table, list, f, n), NEW p \in Nat
  PROVE  LET g == [f EXCEPT !.file_position = p]
         IN g \in Element /\ OpenFits(table, list, g, n) /\ g.file_start = f.file_start
            /\ g.file_size = f.file_size
<1> DEFINE g == [f EXCEPT !.file_position = p]
<1>1. /\ g \in Element /\ g.file_start = f.file_start /\ g.file_size = f.file_size
      /\ g.allocated_clusters = f.allocated_clusters
  BY DEF Element
<1> HIDE DEF g
<1>2. OpenFits(table, list, g, n)
  BY <1>1 DEF OpenFits, Fits
<1> QED BY <1>1, <1>2 DEF g

(* A call that only moves the position. *)
LEMMA MovedStep ==
  ASSUME IInv, UNCHANGED <<fat, last_allocated, root, entries>>, NEW n \in Name,
         opened[n] # Closed, NEW p \in Nat, opened' = [opened EXCEPT ![n].file_position = p]
  PROVE  IInv' /\ OpenFilesKeep
<1> DEFINE f == [opened[n] EXCEPT !.file_position = p]
<1>1. opened[n] \in Element /\ OpenFits(fat, entries, opened[n], n)
  BY OpenFacts
<1>2. f \in Element /\ OpenFits(fat, entries, f, n) /\ f.file_start = opened[n].file_start
  BY <1>1, Moved
<1>3. opened' = [opened EXCEPT ![n] = f]
  BY IInvFacts
<1> HIDE DEF f
<1> QED BY <1>2, <1>3, OpenedStep

(* Positions are numbers. *)
LEMMA Positions ==
  ASSUME IInv, NEW n \in Name, opened[n] # Closed
  PROVE  SeekPositions(n) \subseteq Nat /\ opened[n].file_position \in Nat
<1>1. opened[n] \in Element
  BY OpenFacts
<1>2. opened[n].file_position \in Nat /\ opened[n].file_size \in Nat
  BY <1>1 DEF Element
<1>3. ASSUME NEW p \in SeekPositions(n) PROVE p \in Nat
  <2>1. \/ p \in Offsets \/ p = opened[n].file_size
        \/ \E x \in Offsets : p = opened[n].file_position + x
    BY <1>3 DEF SeekPositions
  <2>2. CASE p \in Offsets
    BY <2>2
  <2>3. CASE \E x \in Offsets : p = opened[n].file_position + x
    <3>1. PICK x \in Offsets : p = opened[n].file_position + x
      BY <2>3
    <3>2. x \in Nat
      OBVIOUS
    <3> QED BY ONLY <1>2, <3>1, <3>2
  <2> QED BY <1>2, <2>1, <2>2, <2>3
<1> QED BY <1>2, <1>3

(* Seek with Set_Position. *)
LEMMA SetPositionStep ==
  ASSUME IInv, NEW n \in Name, SetPosition(n)
  PROVE  IInv' /\ OpenFilesKeep
<1>1. PICK p \in SeekPositions(n) : opened' = [opened EXCEPT ![n].file_position = p]
  BY DEF SetPosition
<1>2. opened[n] # Closed /\ UNCHANGED <<fat, last_allocated, root, entries>>
  BY DEF SetPosition
<1>3. p \in Nat
  BY <1>2, Positions
<1> QED BY <1>1, <1>2, <1>3, MovedStep

(* Read. *)
LEMMA ReadStep ==
  ASSUME IInv, NEW n \in Name, NEW k \in HowMany, Read(n, k)
  PROVE  IInv' /\ OpenFilesKeep
<1> DEFINE position == opened[n].file_position
           size == opened[n].file_size
           read == IF position <= size THEN Smaller(size - position, k) ELSE k
           p == position + read
<1>1. opened[n] # Closed /\ opened' = [opened EXCEPT ![n].file_position = p]
      /\ UNCHANGED <<fat, last_allocated, root, entries>>
  BY DEF Read
<1>2. position \in Nat /\ size \in Nat /\ k \in Nat
  BY <1>1, OpenFacts, FileFields, Positions
<1>3. p \in Nat
  BY <1>2 DEF Smaller
<1> HIDE DEF p
<1> QED BY <1>1, <1>3, MovedStep

(* A file's chain has become longer. *)
LEMMA LengthenedStep ==
  ASSUME IInv, NEW n \in Name, opened[n] # Closed,
         NEW r, LengthensFile(Disk, StartsOf(root, entries), opened[n], r),
         r.file.file_size <= r.file.allocated_clusters * ClusterSize, NEW p \in Nat
  PROVE  LET f == [r.file EXCEPT !.file_position = p]
         IN /\ Sound(r.disk, root, entries, [opened EXCEPT ![n] = f])
            /\ f \in Element /\ OpenFits(r.disk.fat, entries, f, n)
            /\ f.file_start = opened[n].file_start /\ Grows(fat, r.disk.fat)
            /\ r.disk \in DiskType /\ r.file \in Element /\ OpenFits(r.disk.fat, entries, r.file, n)
<1> DEFINE S == StartsOf(root, entries)
           o == opened[n]
           k == r.file.allocated_clusters - o.allocated_clusters
           f == [r.file EXCEPT !.file_position = p]
<1>1. Sound(Disk, root, entries, opened) /\ Disk.fat = fat
  BY IInvFacts
<1>2. o \in Element /\ OpenFits(fat, entries, o, n) /\ o.file_start \in S
  BY OpenFacts
<1>3. /\ r.disk \in DiskType /\ r.file \in Element /\ r.file.file_start = o.file_start
      /\ k \in Nat /\ Lengthened(fat, r.disk.fat, S, o.file_start, k)
      /\ Fits(r.disk.fat, r.file)
  BY <1>1, <1>2 DEF LengthensFile
<1> HIDE DEF k
<1>4. Sound(r.disk, root, entries, opened)
  <2> DEFINE e == r.disk
             s == o.file_start
  <2>1. Lengthened(Disk.fat, e.fat, S, s, k) /\ s \in S /\ e \in DiskType
    BY <1>1, <1>2, <1>3
  <2> HIDE DEF e, s
  <2>2. Sound(e, root, entries, opened)
    BY <1>1, <1>3, <2>1, SoundLengthens
  <2> QED BY <2>2 DEF e
<1>5. OpenFits(r.disk.fat, entries, r.file, n)
  BY <1>2, <1>3 DEF OpenFits
<1>6. f \in Element /\ OpenFits(r.disk.fat, entries, f, n) /\ f.file_start = r.file.file_start
  BY <1>3, <1>5, Moved
<1> HIDE DEF f
<1>7. Sound(r.disk, root, entries, [opened EXCEPT ![n] = f])
  BY <1>4, <1>6, OpenSound
<1>8. Grows(fat, r.disk.fat)
  BY <1>3 DEF Lengthened
<1> QED BY <1>3, <1>5, <1>6, <1>7, <1>8 DEF f

(* Seek with Set_Size, where it does not shrink the file. *)
LEMMA SetSizeStep ==
  ASSUME ~Shrinking, IInv, NEW n \in Name, SetSize(n)
  PROVE  IInv' /\ OpenFilesKeep
<1> DEFINE S == StartsOf(root, entries)
<1>1. opened[n] # Closed /\ UNCHANGED <<root, entries>>
  BY DEF SetSize
<1>2. PICK p \in SeekPositions(n) :
        /\ MayBecome(opened[n], p)
        /\ Becomes(Change_File_Size(Disk, opened[n], p).disk)
        /\ opened' = [opened EXCEPT ![n] =
             [Change_File_Size(Disk, opened[n], p).file EXCEPT !.file_position = p]]
  BY DEF SetSize
<1> DEFINE r == Change_File_Size(Disk, opened[n], p)
           f == [r.file EXCEPT !.file_position = p]
<1>3. p \in Nat
  BY <1>1, Positions
<1>4. /\ opened[n] \in Element /\ OpenFits(fat, entries, opened[n], n)
      /\ opened[n].file_start \in S
  BY <1>1, OpenFacts
<1>5. /\ Disk \in DiskType /\ Disk.fat = fat /\ Partition(Disk.fat, S) /\ Fits(Disk.fat, opened[n])
  BY <1>4, IInvFacts DEF Sound, OpenFits
<1>6. Calculate_Cluster_Need(p) >= opened[n].allocated_clusters
  BY <1>2 DEF MayBecome
<1>7. /\ LengthensFile(Disk, S, opened[n], r)
      /\ r.file.file_size = Smaller(r.file.allocated_clusters * ClusterSize, p)
  <2> DEFINE o == opened[n]
  <2>1. o \in Fat_File \cup Element /\ o.file_start \in S /\ Fits(Disk.fat, o)
        /\ Calculate_Cluster_Need(p) >= o.allocated_clusters
    BY <1>4, <1>5, <1>6
  <2> HIDE DEF o, S
  <2>2. LET q == Change_File_Size(Disk, o, p)
        IN /\ LengthensFile(Disk, S, o, q)
           /\ q.file.file_size = Smaller(q.file.allocated_clusters * ClusterSize, p)
    BY <1>3, <1>5, <2>1, ChangeLengthens
  <2> QED BY <2>2 DEF o
<1>8. Becomes(r.disk) /\ opened' = [opened EXCEPT ![n] = f]
  BY <1>2
<1> HIDE DEF r
<1>9. r.file.file_size <= r.file.allocated_clusters * ClusterSize
  <2>1. r.file \in Element
    BY <1>4, <1>7 DEF LengthensFile
  <2>2. r.file.allocated_clusters * ClusterSize \in Nat
    BY <2>1, FileFields, ClusterFacts
  <2> QED BY <1>3, <1>7, <2>2 DEF Smaller
<1>10. /\ Sound(r.disk, root, entries, [opened EXCEPT ![n] = f])
       /\ f.file_start = opened[n].file_start /\ Grows(fat, r.disk.fat) /\ r.disk \in DiskType
  BY <1>1, <1>3, <1>7, <1>9, LengthenedStep
<1> HIDE DEF f
<1>11. Disk' = r.disk /\ fat' = r.disk.fat
  BY <1>8, <1>10, Became
<1>12. IInv'
  BY <1>1, <1>8, <1>10, <1>11, IInvFacts DEF IInv
<1>13. \A m \in Name : opened'[m] = IF m = n THEN f ELSE opened[m]
  BY <1>8, IInvFacts
<1>14. OpenFilesKeep
  BY <1>10, <1>11, <1>13, AllStayOpen
<1> QED BY <1>12, <1>14

(* Write: the file grows, its entry gets its size, and the root never      *)
(* shrinks for it.                                                         *)
LEMMA WriteStep ==
  ASSUME IInv, NEW n \in Name, NEW how_many \in HowMany, Write(n, how_many)
  PROVE  IInv' /\ OpenFilesKeep
<1> DEFINE S == StartsOf(root, entries)
           o == opened[n]
           position == o.file_position
           size == position + how_many
           g == Expand_File(Disk, o, size)
           after == position + Written(g.file, position, how_many)
           list == Renewed(entries, n, g.file)
           r == Write_Entries(g.disk, root, entries, list)
           f == [g.file EXCEPT !.file_position = after]
<1>1. /\ opened[n] # Closed /\ opened' = [opened EXCEPT ![n] = f] /\ after <= MaxPosition
      /\ IF Index(Read_All_Entries, n) # {}
         THEN DirectoryBecomes(Write_Entries(g.disk, root, entries,
                                             Renewed(Read_All_Entries, n, g.file)))
         ELSE Becomes(g.disk) /\ UNCHANGED <<root, entries>>
  BY DEF Write
<1>2. /\ o \in Element /\ OpenFits(fat, entries, o, n)
      /\ o.file_start \in S /\ position \in Nat
  BY <1>1, OpenFacts, Positions
<1>3. /\ Disk \in DiskType /\ Disk.fat = fat /\ Partition(Disk.fat, S) /\ Fits(Disk.fat, o)
      /\ Sound(Disk, root, entries, opened) /\ Counts(root, Len(entries))
      /\ Read_All_Entries = entries /\ entries \in Seq(Dir_Entry) /\ root \in Fat_File
      /\ opened \in [Name -> Element \cup {Closed}]
  BY <1>2, IInvFacts DEF Sound, OpenFits
<1>4. size \in Nat /\ how_many \in Nat
  <2>1. how_many \in Nat
    OBVIOUS
  <2> HIDE DEF position
  <2> QED BY <1>2, <2>1
<1>5. /\ LengthensFile(Disk, S, o, g)
      /\ g.file.file_size = IF o.file_size < size
                            THEN Smaller(g.file.allocated_clusters * ClusterSize, size)
                            ELSE o.file_size
  <2> HIDE DEF o, S, size
  <2> QED BY <1>2, <1>3, <1>4, ExpandLengthens
<1> HIDE DEF g
<1>6. g.file \in Element /\ g.file.allocated_clusters - o.allocated_clusters \in Nat
  BY <1>2, <1>5 DEF LengthensFile
<1>7. g.file.file_size <= g.file.allocated_clusters * ClusterSize
  <2> DEFINE x == g.file.allocated_clusters
             y == o.allocated_clusters
  <2>1. x \in Nat /\ y \in Nat /\ y <= x
    BY <1>2, <1>6, FileFields
  <2>2. o.file_size <= y * ClusterSize /\ o.file_size \in Nat
    BY <1>2, FileFields DEF OpenFits
  <2> HIDE DEF x, y
  <2>3. y * ClusterSize <= x * ClusterSize /\ y * ClusterSize \in Nat /\ x * ClusterSize \in Nat
    BY ONLY <2>1, Times, ClusterFacts
  <2>4. g.file.file_size = IF o.file_size < size THEN Smaller(x * ClusterSize, size)
                            ELSE o.file_size
    BY <1>5 DEF x
  <2>5. g.file.file_size <= x * ClusterSize
    BY ONLY <1>4, <2>2, <2>3, <2>4 DEF Smaller
  <2> QED BY <2>5 DEF x
<1>8. after \in Nat
  <2>1. g.file.file_size \in Nat
    BY <1>6, FileFields
  <2> QED BY <1>2, <1>4, <2>1 DEF Written
<1> HIDE DEF after
<1>9. /\ Sound(g.disk, root, entries, [opened EXCEPT ![n] = f])
      /\ f.file_start = opened[n].file_start /\ Grows(fat, g.disk.fat)
      /\ OpenFits(g.disk.fat, entries, g.file, n)
  BY <1>1, <1>5, <1>7, <1>8, LengthenedStep
<1>10. Index(entries, n) # {}
  <2>1. Index(entries, n) = {i \in DOMAIN entries : entries[i].file_name = n}
    BY ONLY <1>3, Indices DEF Sound
  <2>2. \E i \in DOMAIN entries : entries[i].file_name = n
    BY <1>2 DEF OpenFits
  <2> QED BY ONLY <2>1, <2>2
<1>11. DirectoryBecomes(r)
  BY <1>1, <1>3, <1>10
<1>12. opened' = [opened EXCEPT ![n] = f]
  BY <1>1
<1> HIDE DEF f
<1>13. Sound(g.disk, root, list, opened') /\ Len(list) = Len(entries)
  <2> DEFINE d == g.disk
             x == g.file
  <2>1. Sound(d, root, entries, opened') /\ OpenFits(d.fat, entries, x, n) /\ x \in Element
    BY <1>6, <1>9, <1>12
  <2> HIDE DEF d, x
  <2>2. /\ Sound(d, root, Renewed(entries, n, x), opened')
        /\ Len(Renewed(entries, n, x)) = Len(entries)
    BY <2>1, RenewSound
  <2> QED BY <2>2 DEF d, x
<1> DEFINE m == Len(entries)
<1>14. m \in Nat /\ Counts(root, m) /\ Len(list) = m
  BY <1>3, <1>13
<1>15. /\ Calculate_Cluster_Need(Len(list) * EntrySize) >= root.allocated_clusters
       /\ Len(list) <= m + 1
  <2>1. /\ root.allocated_clusters = Calculate_Cluster_Need(m * EntrySize)
        /\ root.allocated_clusters \in Nat
    BY <1>3, <1>14, FileFields DEF Counts
  <2> HIDE DEF m
  <2> QED BY <1>14, <2>1
<1>16. /\ Sound(r.disk, r.root, list, opened') /\ Grows(g.disk.fat, r.disk.fat)
       /\ Counts(r.root, Len(list)) /\ r.entries = list
  <2> DEFINE d == g.disk
             open == opened'
             old == entries
             file == root
  <2>1. /\ Sound(d, file, list, open) /\ Len(list) <= m /\ Len(list) <= m + 1
        /\ r = Write_Entries(d, file, old, list)
        /\ m \in Nat /\ Counts(file, m)
        /\ Calculate_Cluster_Need(Len(list) * EntrySize) >= file.allocated_clusters
    BY <1>13, <1>14, <1>15
  <2> HIDE DEF d, list, m, r, open, old, file
  <2>2. /\ Sound(r.disk, r.root, list, open) /\ Grows(d.fat, r.disk.fat)
        /\ r.written /\ (r.written => Counts(r.root, Len(list)) /\ r.entries = list)
    BY ONLY <2>1, WriteStaysSound
  <2> QED BY <2>2 DEF d, open
<1> HIDE DEF r
<1>17. Disk' = r.disk /\ fat' = r.disk.fat /\ root' = r.root /\ entries' = r.entries
  <2>1. r.disk \in DiskType
    BY <1>16 DEF Sound
  <2> QED BY <1>11, <2>1, Became DEF DirectoryBecomes
<1>18. IInv'
  BY <1>16, <1>17 DEF IInv
<1>19. Grows(fat, fat')
  BY <1>9, <1>16, <1>17, GrowsTwice
<1>20. \A x \in Name : opened'[x] = IF x = n THEN f ELSE opened[x]
  BY <1>3, <1>12
<1>21. OpenFilesKeep
  BY <1>9, <1>19, <1>20, AllStayOpen
<1> QED BY <1>18, <1>21

-----------------------------------------------------------------------------
(* Every step keeps the invariant and the open files' clusters. *)
LEMMA StepIInv ==
  ASSUME ~Shrinking, IInv, [Next]_vars
  PROVE  IInv' /\ (fat' # fat => OpenFilesKeep)
<1>1. CASE UNCHANGED vars
  <2>1. fat' = fat
    BY <1>1 DEF vars
  <2>2. IInv'
    BY <1>1 DEF IInv, vars, Disk
  <2> QED BY <2>1, <2>2
<1>2. ASSUME NEW n \in Name,
             \/ Create(n) \/ Open(n) \/ Close(n) \/ Delete(n) \/ SetPosition(n) \/ SetSize(n)
             \/ \E k \in HowMany : Write(n, k) \/ Read(n, k)
      PROVE  IInv' /\ OpenFilesKeep
  <2>1. CASE Create(n)
    BY <2>1, CreateStep
  <2>2. CASE Open(n)
    BY <2>2, OpenStep
  <2>3. CASE Close(n)
    BY <2>3, CloseStep
  <2>4. CASE Delete(n)
    BY <2>4, DeleteStep
  <2>5. CASE SetPosition(n)
    BY <2>5, SetPositionStep
  <2>6. CASE SetSize(n)
    BY <2>6, SetSizeStep
  <2>7. ASSUME NEW k \in HowMany, Write(n, k) PROVE IInv' /\ OpenFilesKeep
    BY <2>7, WriteStep
  <2>8. ASSUME NEW k \in HowMany, Read(n, k) PROVE IInv' /\ OpenFilesKeep
    BY <2>8, ReadStep
  <2> QED BY <1>2, <2>1, <2>2, <2>3, <2>4, <2>5, <2>6, <2>7, <2>8
<1> QED BY <1>1, <1>2 DEF Next

(* A sound directory stays sound, with a root that has just the clusters   *)
(* its entries need.                                                       *)
THEOREM Invariance == ASSUME ~Shrinking PROVE Spec => []IInv
<1>1. IInv /\ [Next]_vars => IInv'
  BY StepIInv
<1> QED BY <1>1, InitIInv, PTL DEF Spec

(* The invariant implies the types. *)
LEMMA IInvType == IInv => TypeOK
<1> SUFFICES ASSUME IInv PROVE TypeOK
  OBVIOUS
<1>1. /\ Disk \in DiskType /\ Disk.fat = fat /\ Disk.last_allocated = last_allocated
      /\ root \in Fat_File /\ entries \in Seq(Dir_Entry)
      /\ opened \in [Name -> Element \cup {Closed}]
  BY IInvFacts
<1> QED BY <1>1 DEF TypeOK, DiskType, Table

(* The root and the files in it have as many starts as they are. *)
LEMMA StartsCount ==
  ASSUME IInv
  PROVE  Cardinality(Starts) = 1 + Len(entries)
<1> DEFINE n == Len(entries)
           T == {entries[i].file_start : i \in 1 .. n}
           g == [i \in 1 .. n |-> entries[i].file_start]
<1>1. /\ entries \in Seq(Dir_Entry) /\ Apart(root, entries)
  BY IInvFacts DEF Sound
<1>2. n \in Nat /\ DOMAIN entries = 1 .. n
  BY <1>1
<1>3. g \in Bijection(1 .. n, T)
  <2>1. g \in [1 .. n -> T] /\ \A t \in T : \E i \in 1 .. n : g[i] = t
    OBVIOUS
  <2>2. \A i, j \in 1 .. n : g[i] = g[j] => i = j
    BY <1>1, <1>2 DEF Apart
  <2> HIDE DEF g, T
  <2> QED BY <2>1, <2>2 DEF Bijection, Injection, Surjection, IsInjective
<1> HIDE DEF g, T
<1>4. Cardinality(T) = n /\ IsFiniteSet(T)
  <2>1. IsFiniteSet(1 .. n) /\ Cardinality(1 .. n) = n
    <3>1. IsFiniteSet(1 .. n) /\ Cardinality(1 .. n) = IF 1 > n THEN 0 ELSE n - 1 + 1
      BY <1>2, FS_Interval
    <3> QED BY <1>2, <3>1
  <2>2. ExistsBijection(1 .. n, T)
    BY <1>3 DEF ExistsBijection
  <2> HIDE DEF n
  <2> QED BY <2>1, <2>2, FS_Bijection
<1>5. root.file_start \notin T
  BY <1>1, <1>2 DEF Apart, T
<1>6. Starts = T \cup {root.file_start}
  BY <1>2 DEF Starts, T
<1>7. Cardinality(T \cup {root.file_start}) = n + 1
  BY <1>4, <1>5, FS_AddElement
<1> QED BY <1>2, <1>6, <1>7

(* The chains of the starts partition what is in use. *)
LEMMA IInvPartition ==
  ASSUME IInv
  PROVE  Partition(fat, Starts) /\ Starts = StartsOf(root, entries)
<1>1. Starts = StartsOf(root, entries)
  BY DEF Starts, StartsOf
<1> QED BY <1>1, IInvFacts DEF Sound

(* The invariant implies ChainsPartitionTheDisk. *)
LEMMA IInvChains == IInv => ChainsPartitionTheDisk
<1> SUFFICES ASSUME IInv PROVE ChainsPartitionTheDisk
  OBVIOUS
<1>1. Partition(fat, Starts)
  BY IInvPartition
<1>2. ASSUME NEW c \in Starts PROVE EndsWell(Chain(c))
  <2> DEFINE ch == Chain(c)
  <2>1. IsChain(fat, c, ch)
    BY <1>1 DEF Partition, Chain
  <2> HIDE DEF ch
  <2>2. ch \in Seq(Cluster) /\ DOMAIN ch = 1 .. Len(ch) /\ fat[Last(ch)] = FAT_EOF /\ Distinct(ch)
    BY <2>1 DEF IsChain, Leads
  <2>3. EndsWell(ch)
    BY <2>2 DEF EndsWell, IsInjective, Distinct
  <2> QED BY <2>3 DEF ch
<1>3. \A c, d \in Starts : c # d => ToSet(Chain(c)) \cap ToSet(Chain(d)) = {}
  BY <1>1 DEF Partition, Chain
<1> QED BY <1>2, <1>3, StartsCount DEF ChainsPartitionTheDisk

(* The invariant implies NoClusterIsLost. *)
LEMMA IInvLost == IInv => NoClusterIsLost
BY IInvPartition DEF Partition, NoClusterIsLost, Chain

(* The invariant implies SizesFit. *)
LEMMA IInvSizes == IInv => SizesFit
<1> SUFFICES ASSUME IInv PROVE SizesFit
  OBVIOUS
<1>1. Sound(Disk, root, entries, opened) /\ Disk.fat = fat
  BY IInvFacts
<1>2. root.allocated_clusters <= Len(Chain(root.file_start))
  BY <1>1 DEF Sound, Fits, Chain
<1>3. \A i \in DOMAIN entries :
        entries[i].file_size <= Len(Chain(entries[i].file_start)) * ClusterSize
  BY <1>1 DEF Sound, Chain
<1>4. \A n \in Name : opened[n] # Closed =>
        /\ opened[n].allocated_clusters <= Len(Chain(opened[n].file_start))
        /\ opened[n].file_size <= opened[n].allocated_clusters * ClusterSize
  BY <1>1 DEF Sound, OpenFits, Fits, Chain
<1> QED BY <1>2, <1>3, <1>4 DEF SizesFit

(* The invariant implies EntriesAreTrue. *)
LEMMA IInvEntries == IInv => EntriesAreTrue
<1> SUFFICES ASSUME IInv PROVE EntriesAreTrue
  OBVIOUS
<1>1. Read_All_Entries = entries
  BY IInvFacts
<1>2. \A n \in Name : opened[n] # Closed =>
        \E i \in DOMAIN entries :
          entries[i].file_name = n /\ entries[i].file_start = opened[n].file_start
  BY OpenFacts DEF OpenFits
<1> QED BY <1>1, <1>2 DEF EntriesAreTrue

(* Each variable keeps its type: every allocated_clusters stays within the *)
(* disk, every start in the table.                                         *)
THEOREM TypeCorrect == ASSUME ~Shrinking PROVE Spec => []TypeOK
BY Invariance, IInvType, PTL

(* On a disk of any size and for any number of files every chain comes to  *)
(* an end, and no two files share a cluster or a start, whatever was       *)
(* created, grown, deleted and created again before, in whatever order.    *)
THEOREM ChainsPartition == ASSUME ~Shrinking PROVE Spec => []ChainsPartitionTheDisk
BY Invariance, IInvChains, PTL

(* No cluster is lost: what is not free belongs to the root or to a file   *)
(* in it, after a creation that failed for want of space too.              *)
THEOREM NoClusterLost == ASSUME ~Shrinking PROVE Spec => []NoClusterIsLost
BY Invariance, IInvLost, PTL

(* The size of every entry and of every open file is within the clusters   *)
(* of its chain, so that reading and writing within it stays in the file.  *)
THEOREM SizesStayFit == ASSUME ~Shrinking PROVE Spec => []SizesFit
BY Invariance, IInvSizes, PTL

(* The root's size always counts its entries, and every open file has one  *)
(* which leads to it.                                                      *)
THEOREM EntriesStayTrue == ASSUME ~Shrinking PROVE Spec => []EntriesAreTrue
BY Invariance, IInvEntries, PTL

(* No call takes a cluster from a file that stays open through it, or      *)
(* changes their order.                                                    *)
THEOREM OpenFilesGrow == ASSUME ~Shrinking PROVE Spec => OpenFilesOnlyGrow
<1>1. IInv /\ [Next]_vars =>
        [fat' # fat =>
           \A n \in Name : opened[n] # Closed /\ opened'[n] # Closed =>
             /\ opened'[n].file_start = opened[n].file_start
             /\ \A c \in ToSet(Chain(opened[n].file_start)) :
                  fat'[c] = fat[c] \/ (fat[c] = FAT_EOF /\ fat'[c] # FAT_FREE)]_vars
  BY StepIInv DEF OpenFilesKeep
<1> QED BY <1>1, Invariance, PTL DEF Spec, OpenFilesOnlyGrow
=============================================================================
