----------------------------- MODULE DiskProofs -----------------------------
(***************************************************************************)
(* The geometry of the disk, the packing of the table's entries and the    *)
(* input and output of clusters, for every size of the disk, its sectors,  *)
(* clusters and entries: the table has room, an entry does not touch its   *)
(* neighbours, what changed is marked for saving, and the disk does what   *)
(* Contents promises.                                                      *)
(*                                                                         *)
(* The model's loops are folds and recursive functions.  A loop of n steps *)
(* is put as a run, a function g with g[0] the start and g[k] the result   *)
(* of step k on g[k - 1]; what holds at the start and is kept by each step *)
(* holds of g[n] by NatInd, which is induction for a set of numbers.       *)
(***************************************************************************)
EXTENDS Disk, WellFoundedInduction, FiniteSetTheorems, SequenceTheorems, TLAPS

(* A quotient times its divisor is the dividend but for the remainder.     *)
LEMMA Division ==
  ASSUME NEW a \in Nat, NEW d \in Nat \ {0}
  PROVE  /\ a \div d \in Nat /\ a % d \in 0 .. (d - 1)
         /\ a = d * (a \div d) + (a % d)
<1>1. a \div d \in Nat /\ a % d \in 0 .. (d - 1)
  BY SMT
<1>2. a = d * (a \div d) + (a % d)
  BY SMT
<1> QED BY <1>1, <1>2

(* A multiple divided by its divisor.                                      *)
LEMMA Exact ==
  ASSUME NEW q \in Nat, NEW d \in Nat \ {0}
  PROVE  (d * q) \div d = q
  BY SMT

(* Products keep the order of their factors, and show it.                  *)
LEMMA Times ==
  ASSUME NEW a \in Int, NEW b \in Int, NEW c \in Nat \ {0}
  PROVE  c * a <= c * b <=> a <= b
  BY SMT

(* The smallest number of times d that makes a or more.                    *)
LEMMA Ceiling ==
  ASSUME NEW a \in Nat, NEW d \in Nat \ {0}
  PROVE  /\ (a + d - 1) \div d \in Nat
         /\ a <= d * ((a + d - 1) \div d)
         /\ d * ((a + d - 1) \div d) < a + d
<1> DEFINE q == (a + d - 1) \div d
           r == (a + d - 1) % d
<1>1. a + d - 1 \in Nat
  BY SMT
<1>2. q \in Nat /\ r \in 0 .. (d - 1) /\ a + d - 1 = d * q + r
  BY <1>1, Division
<1>3. d * q \in Nat
  BY <1>2, SMT
<1> HIDE DEF q, r
<1>4. a <= d * q /\ d * q < a + d
  BY <1>2, <1>3, SMT
<1> QED BY <1>2, <1>4 DEF q

(* Rounder::Round_Up gives the next multiple.                              *)
LEMMA RoundingUp ==
  ASSUME NEW n \in Nat, NEW d \in Nat \ {0}
  PROVE  \E q \in Nat : Round_Up(n, d) = d * q /\ n <= d * q /\ d * q < n + d
<1> DEFINE q == n \div d
           r == n % d
<1>1. q \in Nat /\ r \in 0 .. (d - 1) /\ n = d * q + r
  BY Division
<1>2. d * q \in Nat /\ d * (q + 1) = d * q + d /\ (q + 1) * d = d * (q + 1)
  BY <1>1, SMT
<1>3. Round_Up(n, d) = IF r = 0 THEN n ELSE (q + 1) * d
  BY DEF Round_Up
<1> HIDE DEF q, r
<1>4. CASE r = 0
  <2>1. n = d * q
    BY <1>1, <1>2, <1>4, SMT
  <2> QED BY <1>1, <1>2, <1>3, <1>4, <2>1, SMT
<1>5. CASE r # 0
  <2>1. n <= d * (q + 1) /\ d * (q + 1) < n + d
    BY <1>1, <1>2, <1>5, SMT
  <2>2. q + 1 \in Nat /\ Round_Up(n, d) = d * (q + 1)
    BY <1>1, <1>2, <1>3, <1>5
  <2> QED BY <2>1, <2>2
<1> QED BY <1>4, <1>5

(* The table takes whole sectors, enough for the entries, and leaves the   *)
(* rest of the disk to the clusters.                                       *)
LEMMA Geometry ==
  /\ ClusterSize \in Nat \ {0} /\ DiskSize \in Nat \ {0}
  /\ FirstDataSector \in Nat /\ TableSize = SectorSize * FirstDataSector
  /\ FirstDataSector <= SectorCount
  /\ DiskSize * FatType <= (FatType + 8 * ClusterSize) * TableSize
  /\ Get_Cluster_Count \in Nat
  /\ ClusterSize * Get_Cluster_Count <= DiskSize - TableSize
<1> DEFINE W == FatType + 8 * ClusterSize
           E == DiskSize * FatType
           R == Raw_Size
           q == FirstDataSector
<1> USE InfoAssumption
<1>1. ClusterSize \in Nat \ {0} /\ DiskSize \in Nat \ {0}
  BY SMT DEF ClusterSize, DiskSize
<1>2. W \in Nat \ {0} /\ E \in Nat
  BY <1>1, SMT
<1>3. R = (E + W - 1) \div W
  <2>1. E + W - 1 = DiskSize * FatType + FatType + 8 * ClusterSize - 1
    BY <1>1, <1>2, SMT
  <2> QED BY <2>1 DEF Raw_Size
<1> HIDE DEF W, E, R
<1>4. R \in Nat /\ E <= W * R /\ W * R < E + W
  BY <1>2, <1>3, Ceiling
<1>5. PICK t \in Nat : TableSize = SectorSize * t /\ R <= SectorSize * t /\ SectorSize * t < R + SectorSize
  BY <1>4, RoundingUp DEF TableSize, R
<1>6. q = t
  BY <1>5, Exact DEF FirstDataSector
<1>7. R <= DiskSize
  <2>1. E + W <= W * DiskSize + W
    <3>1. DiskSize * FatType <= DiskSize * W
      <4>1. FatType <= W
        BY <1>1, SMT DEF W
      <4> QED BY <1>1, <1>2, <4>1, Times
    <3>2. DiskSize * W = W * DiskSize
      BY <1>1, <1>2, SMT
    <3> QED BY <1>1, <1>2, <3>1, <3>2, SMT DEF E
  <2>2. W * R < W * (DiskSize + 1)
    BY <1>1, <1>2, <1>4, <2>1, SMT
  <2>3. ~(DiskSize + 1 <= R)
    BY <1>1, <1>2, <1>4, <2>2, Times, SMT
  <2> QED BY <1>1, <1>4, <2>3, SMT
<1>8. t <= SectorCount
  <2>1. DiskSize = SectorSize * SectorCount
    BY SMT DEF DiskSize
  <2>2. SectorSize * t < SectorSize * SectorCount + SectorSize
    BY <1>1, <1>4, <1>5, <1>7, <2>1, SMT
  <2>3. SectorSize * t < SectorSize * (SectorCount + 1)
    BY <1>5, <2>2, SMT
  <2>4. ~(SectorCount + 1 <= t)
    BY <1>5, <2>3, Times, SMT
  <2> QED BY <1>5, <2>4, SMT
<1>9. E <= W * TableSize
  <2>1. TableSize \in Int /\ R <= TableSize
    BY <1>4, <1>5, SMT
  <2>2. W * R <= W * TableSize
    BY <1>2, <1>4, <2>1, Times
  <2>3. W * R \in Int /\ W * TableSize \in Int
    BY <1>2, <1>4, <2>1, SMT
  <2> QED BY <1>2, <1>4, <2>2, <2>3, SMT
<1>10. /\ Get_Cluster_Count \in Nat
       /\ ClusterSize * Get_Cluster_Count <= DiskSize - TableSize
  <2> DEFINE rest == DiskSize - TableSize
             k == rest \div ClusterSize
  <2>1. rest \in Nat
    <3>1. SectorSize * t <= SectorSize * SectorCount
      BY <1>5, <1>8, Times
    <3>2. DiskSize = SectorSize * SectorCount
      BY SMT DEF DiskSize
    <3> QED BY <1>1, <1>5, <3>1, <3>2, SMT
  <2>2. Get_Cluster_Count = k
    <3>1. q * SectorSize = TableSize
      BY <1>5, <1>6, SMT
    <3> QED BY <3>1 DEF Get_Cluster_Count
  <2> HIDE DEF rest
  <2>3. /\ k \in Nat /\ rest % ClusterSize \in 0 .. (ClusterSize - 1)
        /\ rest = ClusterSize * k + (rest % ClusterSize)
    BY <1>1, <2>1, Division
  <2> HIDE DEF k
  <2>4. ClusterSize * k \in Nat
    BY <1>1, <2>3, SMT
  <2>5. ClusterSize * k <= rest
    BY <1>1, <2>1, <2>3, <2>4, SMT
  <2> QED BY <2>2, <2>3, <2>5 DEF rest
<1> QED BY <1>1, <1>5, <1>6, <1>8, <1>9, <1>10 DEF W, E

(* The table has an entry for every cluster: no cluster number that        *)
(* Get_Cluster_Count admits leads beyond the table in memory.              *)
THEOREM TableHasRoom == Get_Cluster_Count * FatType <= 8 * TableSize
<1> DEFINE C == ClusterSize
           D == DiskSize
           T == FatType
           K == Get_Cluster_Count
           X == TableSize
<1>1. C \in Nat \ {0} /\ D \in Nat /\ T \in Nat \ {0} /\ K \in Nat /\ X \in Nat
  BY InfoAssumption, Geometry, SMT
<1>2. C * K <= D - X /\ D * T <= (T + 8 * C) * X
  BY Geometry
<1> HIDE DEF C, D, T, K, X
<1>3. T * (C * K) <= T * (D - X)
  <2>1. C * K \in Int /\ D - X \in Int
    BY <1>1, SMT
  <2> QED BY <1>1, <1>2, <2>1, Times
<1>4. /\ T * (C * K) = C * (K * T) /\ T * (D - X) = D * T - T * X
      /\ (T + 8 * C) * X = T * X + C * (8 * X)
  BY <1>1, SMT
<1>5. C * (K * T) <= C * (8 * X)
  <2>1. C * (K * T) \in Int /\ C * (8 * X) \in Int /\ D * T \in Int /\ T * X \in Int
    BY <1>1, SMT
  <2> HIDE DEF C, D, T, K, X
  <2> QED BY <1>2, <1>3, <1>4, <2>1, SMT
<1>6. K * T <= 8 * X
  <2>1. K * T \in Int /\ 8 * X \in Int
    BY <1>1, SMT
  <2> QED BY <1>1, <1>5, <2>1, Times
<1> QED BY <1>6 DEF K, T, X

(* A cluster's sectors are on the disk and behind the table, so that no    *)
(* write to a file reaches the table and none is refused by the disk.      *)
THEOREM ClustersAreOnDisk ==
  \A c \in 0 .. (Get_Cluster_Count - 1) :
    /\ TableSize <= FirstSectorOf(c) * SectorSize
    /\ (FirstSectorOf(c) + SectorsPerCluster) * SectorSize <= DiskSize
<1> DEFINE P == SectorsPerCluster
           S == SectorSize
           N == SectorCount
           K == Get_Cluster_Count
           q == FirstDataSector
<1>1. P \in Nat \ {0} /\ S \in Nat \ {0} /\ N \in Nat \ {0} /\ K \in Nat /\ q \in Nat
  BY InfoAssumption, Geometry, SMT
<1>2. P * S * K <= N * S - S * q /\ DiskSize = N * S /\ TableSize = S * q
  BY Geometry DEF ClusterSize, DiskSize
<1> HIDE DEF P, S, N, K, q
<1>3. P * K <= N - q
  <2>1. P * S * K = S * (P * K) /\ N * S - S * q = S * (N - q) /\ P * K \in Int /\ N - q \in Int
    BY <1>1, SMT
  <2> QED BY <1>1, <1>2, <2>1, Times
<1>4. ASSUME NEW c \in 0 .. (K - 1)
      PROVE  S * q <= (q + c * P) * S /\ (q + c * P + P) * S <= N * S
  <2>1. P * (c + 1) <= P * K
    <3>1. c + 1 \in Int /\ c + 1 <= K
      BY <1>1, <1>4, SMT
    <3> QED BY <1>1, <3>1, Times
  <2>2. c * P \in Nat /\ P * (c + 1) = c * P + P /\ P * K \in Int
    BY <1>1, <1>4, SMT
  <2>3. q <= q + c * P /\ q + c * P + P <= N
    BY <1>1, <1>3, <2>1, <2>2, SMT
  <2>4. S * q <= S * (q + c * P) /\ S * (q + c * P + P) <= S * N
    BY <1>1, <2>2, <2>3, Times
  <2>5. S * (q + c * P) = (q + c * P) * S /\ S * (q + c * P + P) = (q + c * P + P) * S /\ S * N = N * S
    BY <1>1, <2>2, SMT
  <2> QED BY <2>4, <2>5
<1> QED BY <1>2, <1>4 DEF FirstSectorOf, P, S, N, K, q

(* Every set of numbers that is not empty has a least one.                 *)
LEMMA Least ==
  ASSUME NEW T, T \subseteq Nat, T # {}
  PROVE  \E m \in T : \A n \in T : m <= n
<1>1. PICK x \in T : \A y \in T : ~(<<y, x>> \in OpToRel(<, Nat))
  BY NatLessThanWellFounded, WFMin
<1>2. \A y \in T : ~(y < x)
  BY <1>1 DEF OpToRel
<1>3. \A y \in T : x <= y
  BY <1>2
<1> QED BY <1>3

(* Induction over the numbers, for a set.                                  *)
LEMMA NatInd ==
  ASSUME NEW T, 0 \in T, \A n \in Nat : n \in T => n + 1 \in T
  PROVE  Nat \subseteq T
<1>1. SUFFICES ASSUME Nat \ T # {} PROVE FALSE
  OBVIOUS
<1>2. PICK m \in Nat \ T : \A n \in Nat \ T : m <= n
  BY <1>1, Least
<1>3. m # 0 /\ m - 1 \in Nat
  BY <1>2
<1>4. m - 1 \in T
  BY <1>2, <1>3
<1> QED BY <1>2, <1>3, <1>4

-----------------------------------------------------------------------------
(* What is defined by recursion.                                           *)

(* One step of each recursive definition and of each fold.                 *)
Step(op, e, k) ==
  CASE op.name = "Power"   -> 2 * e
    [] op.name = "Number"  -> 2 * e + op.bits[k]
    [] op.name = "Clear"   -> Copy_Bits_To_Fat(e, k - 1, FAT_FREE)
    [] op.name = "Save"    -> IF k - 1 \in op.sectors THEN Update_Sector(e, op.table, k - 1) ELSE e
    [] op.name = "Tasks"   -> IF k = Len(op.sectors) \/ op.sectors[k + 1] = op.sectors[k] + 1 THEN e
                              ELSE Append(e, Make_Task(op.sectors, op.start, op.how_many, k,
                                                       Last(e).from + Last(e).bytes))
    [] op.name = "Write"   -> Write_Task(e, op.tasks[k], op.buffer)
    [] op.name = "Read"    -> Read_Task(op.disk, op.tasks[k], e)

(* The results of n steps.                                                 *)
IsRun(g, op, base, n) == g = [k \in 0 .. n |-> IF k = 0 THEN base ELSE Step(op, g[k - 1], k)]

(* Runs exist, as long as one likes.                                       *)
LEMMA RunExists ==
  ASSUME NEW op, NEW base, NEW n \in Nat
  PROVE  \E g : IsRun(g, op, base, n)
<1> DEFINE T == {m \in Nat : \E g : IsRun(g, op, base, m)}
<1>1. 0 \in T
  <2> DEFINE g == [k \in 0 .. 0 |-> base]
  <2>1. IsRun(g, op, base, 0)
    BY DEF IsRun
  <2> QED BY <2>1
<1>2. ASSUME NEW m \in Nat, m \in T PROVE m + 1 \in T
  <2>1. PICK g : IsRun(g, op, base, m)
    BY <1>2
  <2> DEFINE h == [k \in 0 .. (m + 1) |-> IF k <= m THEN g[k] ELSE Step(op, g[m], m + 1)]
  <2>2. ASSUME NEW k \in 0 .. (m + 1)
        PROVE  h[k] = IF k = 0 THEN base ELSE Step(op, h[k - 1], k)
    <3>1. CASE k = m + 1
      BY <3>1
    <3>2. CASE k <= m
      BY <2>1, <3>2 DEF IsRun
    <3> QED BY <3>1, <3>2
  <2>3. IsRun(h, op, base, m + 1)
    BY <2>2 DEF IsRun
  <2> QED BY <2>3
<1>3. n \in T
  BY <1>1, <1>2, NatInd
<1> QED BY <1>3

(* Two runs agree as far as both go.                                       *)
LEMMA RunUnique ==
  ASSUME NEW op, NEW base, NEW m \in Nat, NEW n \in Nat, NEW g, NEW h,
         IsRun(g, op, base, m), IsRun(h, op, base, n)
  PROVE  \A k \in 0 .. m : k <= n => g[k] = h[k]
<1> DEFINE T == {k \in Nat : k <= m /\ k <= n => g[k] = h[k]}
<1>1. 0 \in T
  BY DEF IsRun
<1>2. ASSUME NEW k \in Nat, k \in T PROVE k + 1 \in T
  <2>1. SUFFICES ASSUME k + 1 <= m, k + 1 <= n PROVE g[k + 1] = h[k + 1]
    OBVIOUS
  <2>2. g[k] = h[k]
    BY <1>2, <2>1
  <2>3. g[k + 1] = Step(op, g[k], k + 1)
    BY <2>1 DEF IsRun
  <2>4. h[k + 1] = Step(op, h[k], k + 1)
    BY <2>1 DEF IsRun
  <2> QED BY <2>2, <2>3, <2>4
<1>3. Nat \subseteq T
  BY <1>1, <1>2, NatInd
<1> QED BY <1>3

(* FoldLeft, as the library defines it: it recurs over sets of indices.    *)
IsFold(u, op, base, n) ==
  u = [s \in SUBSET (1 .. n) |->
         IF s = {} THEN base ELSE Step(op, u[s \ {Max(s)}], Max(s))]

(* The greatest of some of the first n numbers, when n is one of them.     *)
LEMMA MaxIsLast ==
  ASSUME NEW n \in Nat, NEW s \in SUBSET (1 .. n), n \in s
  PROVE  Max(s) = n
<1>1. \A y \in s : n >= y
  OBVIOUS
<1>2. \A x \in s : (\A y \in s : x >= y) => x = n
  <2>1. SUFFICES ASSUME NEW x \in s, \A y \in s : x >= y PROVE x = n
    OBVIOUS
  <2>2. x >= n /\ x \in 1 .. n
    BY <2>1
  <2> QED BY <2>2
<1> QED BY <1>1, <1>2 DEF Max

(* The greatest of some numbers is one of them.                            *)
LEMMA MaxIsThere ==
  ASSUME NEW n \in Nat, NEW s \in SUBSET (1 .. n), s # {}
  PROVE  Max(s) \in s
<1> DEFINE T == {n - x : x \in s}
<1>1. T \subseteq Nat /\ T # {}
  <2>1. \A x \in s : n - x \in Nat
    OBVIOUS
  <2>2. PICK x \in s : TRUE
    OBVIOUS
  <2>3. n - x \in T
    OBVIOUS
  <2> QED BY <2>1, <2>3
<1>2. PICK m \in T : \A t \in T : m <= t
  BY <1>1, Least
<1>3. PICK x \in s : m = n - x
  BY <1>2
<1>4. \A y \in s : x >= y
  <2>1. TAKE y \in s
  <2>2. n - x <= n - y
    BY <1>2, <1>3
  <2> QED BY <2>2
<1> QED BY <1>4 DEF Max

(* The function that MapThenFoldSet chooses exists.                        *)
LEMMA FoldExists ==
  ASSUME NEW op, NEW base, NEW n \in Nat
  PROVE  \E u : IsFold(u, op, base, n)
<1> DEFINE T == {m \in Nat : \E u : IsFold(u, op, base, m)}
<1>1. 0 \in T
  <2> DEFINE u == [s \in SUBSET (1 .. 0) |-> base]
  <2>1. \A s \in SUBSET (1 .. 0) : s = {}
    OBVIOUS
  <2>2. IsFold(u, op, base, 0)
    BY <2>1 DEF IsFold
  <2> QED BY <2>2
<1>2. ASSUME NEW m \in Nat, m \in T PROVE m + 1 \in T
  <2>1. PICK u : IsFold(u, op, base, m)
    BY <1>2
  <2> DEFINE h == [s \in SUBSET (1 .. (m + 1)) |->
                     IF m + 1 \in s THEN Step(op, u[s \ {m + 1}], m + 1) ELSE u[s]]
  <2>2. ASSUME NEW s \in SUBSET (1 .. (m + 1))
        PROVE  h[s] = IF s = {} THEN base ELSE Step(op, h[s \ {Max(s)}], Max(s))
    <3>1. CASE m + 1 \in s
      <4>1. Max(s) = m + 1
        BY <3>1, MaxIsLast
      <4>2. s \ {m + 1} \in SUBSET (1 .. (m + 1)) /\ m + 1 \notin s \ {m + 1}
        OBVIOUS
      <4>3. h[s \ {m + 1}] = u[s \ {m + 1}]
        BY <4>2
      <4>4. h[s] = Step(op, u[s \ {m + 1}], m + 1)
        BY <3>1
      <4> HIDE DEF h
      <4> QED BY <3>1, <4>1, <4>3, <4>4
    <3>2. CASE m + 1 \notin s
      <4>1. s \in SUBSET (1 .. m)
        <5>1. \A x \in s : x \in 1 .. m
          BY <3>2
        <5> QED BY <5>1
      <4>2. h[s] = u[s]
        BY <3>2
      <4>3. u[s] = IF s = {} THEN base ELSE Step(op, u[s \ {Max(s)}], Max(s))
        BY <2>1, <4>1 DEF IsFold
      <4>4. h[s \ {Max(s)}] = u[s \ {Max(s)}]
        <5>1. s \ {Max(s)} \in SUBSET (1 .. (m + 1)) /\ m + 1 \notin s \ {Max(s)}
          BY <3>2
        <5> QED BY <5>1
      <4> HIDE DEF h
      <4> QED BY <4>2, <4>3, <4>4
    <3> QED BY <3>1, <3>2
  <2>3. IsFold(h, op, base, m + 1)
    <3>1. h = [s \in SUBSET (1 .. (m + 1)) |-> h[s]]
      OBVIOUS
    <3> HIDE DEF h
    <3> QED BY <2>2, <3>1 DEF IsFold
  <2> QED BY <2>3
<1>3. n \in T
  BY <1>1, <1>2, NatInd
<1> QED BY <1>3

(* The value of a fold is the last of a run.                               *)
LEMMA FoldIsRun ==
  ASSUME NEW op, NEW base, NEW n \in Nat, NEW u, IsFold(u, op, base, n)
  PROVE  \E g : IsRun(g, op, base, n) /\ g[n] = u[1 .. n]
<1> DEFINE g == [k \in 0 .. n |-> u[1 .. k]]
<1>1. ASSUME NEW k \in 0 .. n
      PROVE  g[k] = IF k = 0 THEN base ELSE Step(op, g[k - 1], k)
  <2>1. 1 .. k \in SUBSET (1 .. n)
    OBVIOUS
  <2>2. u[1 .. k] = IF 1 .. k = {} THEN base
                    ELSE Step(op, u[(1 .. k) \ {Max(1 .. k)}], Max(1 .. k))
    BY <2>1 DEF IsFold
  <2>3. CASE k = 0
    <3>1. 1 .. k = {}
      BY <2>3
    <3> QED BY <2>2, <2>3, <3>1
  <2>4. CASE k # 0
    <3>1. k \in 1 .. k /\ k \in Nat
      BY <2>4
    <3>2. Max(1 .. k) = k
      BY <3>1, MaxIsLast
    <3>3. (1 .. k) \ {k} = 1 .. (k - 1) /\ 1 .. k # {}
      BY <3>1
    <3>4. g[k - 1] = u[1 .. (k - 1)] /\ g[k] = u[1 .. k]
      BY <2>4
    <3> HIDE DEF g
    <3> QED BY <2>2, <2>4, <3>2, <3>3, <3>4
  <2> QED BY <2>3, <2>4
<1>2. IsRun(g, op, base, n)
  <2>1. g = [k \in 0 .. n |-> g[k]]
    OBVIOUS
  <2> HIDE DEF g
  <2> QED BY <1>1, <2>1 DEF IsRun
<1>3. g[n] = u[1 .. n]
  OBVIOUS
<1> QED BY <1>2, <1>3

(* Updated is the end of a run over all sectors.                           *)
Saving(table, sectors) == [name |-> "Save", table |-> table, sectors |-> sectors]

(* Updated is a run over the sectors.                                      *)
LEMMA UpdatedRun ==
  ASSUME NEW d, NEW table, NEW sectors
  PROVE  \E g : IsRun(g, Saving(table, sectors), d, SectorCount) /\ Updated(d, table, sectors) = g[SectorCount]
<1> DEFINE op == Saving(table, sectors)
           n == SectorCount
           seq == [i \in 1 .. n |-> i - 1]
           D(u) == u = [s \in SUBSET DOMAIN seq |->
                          IF s = {} THEN d
                          ELSE LET x == Max(s) IN
                               IF seq[x] \in sectors THEN Update_Sector(u[s \ {x}], table, seq[x])
                               ELSE u[s \ {x}]]
<1>1. Updated(d, table, sectors) = (CHOOSE u : D(u))[DOMAIN seq]
  BY Zenon DEF Updated, FoldLeft, MapThenFoldSet
<1>2. n \in Nat /\ DOMAIN seq = 1 .. n
  BY InfoAssumption
<1>3. \A e, k : Step(op, e, k) = IF k - 1 \in sectors THEN Update_Sector(e, table, k - 1) ELSE e
  BY DEF Step, Saving
<1>4. ASSUME NEW u PROVE D(u) <=> IsFold(u, op, d, n)
  <2>1. ASSUME NEW s \in SUBSET (1 .. n), s # {}
        PROVE  seq[Max(s)] = Max(s) - 1
    BY <1>2, <2>1, MaxIsThere
  <2>2. ASSUME NEW s \in SUBSET (1 .. n)
        PROVE  (IF s = {} THEN d ELSE LET x == Max(s) IN
                  IF seq[x] \in sectors THEN Update_Sector(u[s \ {x}], table, seq[x]) ELSE u[s \ {x}])
               = (IF s = {} THEN d ELSE Step(op, u[s \ {Max(s)}], Max(s)))
    <3> HIDE DEF seq, op
    <3> QED BY <1>3, <2>1
  <2> HIDE DEF seq, op, n
  <2> QED BY <1>2, <2>2 DEF IsFold
<1> HIDE DEF D, seq, op, n
<1> DEFINE w == CHOOSE u : D(u)
<1>5. IsFold(w, op, d, n)
  BY <1>2, <1>4, FoldExists
<1> HIDE DEF w
<1>6. \E g : IsRun(g, op, d, n) /\ g[n] = w[1 .. n]
  BY ONLY <1>2, <1>5, FoldIsRun
<1> QED BY <1>1, <1>2, <1>6 DEF op, w, n

(* The table that Fat12 starts with.                                       *)
Clearing == [name |-> "Clear"]
Filled(memory) == [y \in 0 .. (TableSize - 1) |-> memory]
Cleared(memory) ==
  FoldLeft(LAMBDA table, c : Copy_Bits_To_Fat(table, c, FAT_FREE),
           [y \in 0 .. (TableSize - 1) |-> memory], [i \in 1 .. Get_Cluster_Count |-> i - 1])

(* The table at the start is a run over the entries.                       *)
LEMMA ClearedRun ==
  ASSUME NEW memory
  PROVE  \E g : IsRun(g, Clearing, Filled(memory), Get_Cluster_Count) /\ Cleared(memory) = g[Get_Cluster_Count]
<1> DEFINE op == Clearing
           n == Get_Cluster_Count
           seq == [i \in 1 .. n |-> i - 1]
           D(u) == u = [s \in SUBSET DOMAIN seq |->
                          IF s = {} THEN Filled(memory)
                          ELSE LET x == Max(s) IN Copy_Bits_To_Fat(u[s \ {x}], seq[x], FAT_FREE)]
<1>1. Cleared(memory) = (CHOOSE u : D(u))[DOMAIN seq]
  BY Zenon DEF Cleared, Filled, FoldLeft, MapThenFoldSet
<1>2. n \in Nat /\ DOMAIN seq = 1 .. n
  BY Geometry
<1>3. \A e, k : Step(op, e, k) = Copy_Bits_To_Fat(e, k - 1, FAT_FREE)
  BY DEF Step, Clearing
<1>4. ASSUME NEW u PROVE D(u) <=> IsFold(u, op, Filled(memory), n)
  <2>1. ASSUME NEW s \in SUBSET (1 .. n), s # {}
        PROVE  seq[Max(s)] = Max(s) - 1
    BY <1>2, <2>1, MaxIsThere
  <2>2. ASSUME NEW s \in SUBSET (1 .. n)
        PROVE  (IF s = {} THEN Filled(memory) ELSE LET x == Max(s) IN
                  Copy_Bits_To_Fat(u[s \ {x}], seq[x], FAT_FREE))
               = (IF s = {} THEN Filled(memory) ELSE Step(op, u[s \ {Max(s)}], Max(s)))
    <3> HIDE DEF seq, op
    <3> QED BY <1>3, <2>1
  <2> HIDE DEF seq, op, n
  <2> QED BY <1>2, <2>2 DEF IsFold
<1> HIDE DEF D, seq, op, n
<1> DEFINE w == CHOOSE u : D(u)
<1>5. IsFold(w, op, Filled(memory), n)
  BY <1>2, <1>4, FoldExists
<1> HIDE DEF w
<1>6. \E g : IsRun(g, op, Filled(memory), n) /\ g[n] = w[1 .. n]
  BY ONLY <1>2, <1>5, FoldIsRun
<1> QED BY <1>1, <1>2, <1>6 DEF op, n, w

(* The tasks of a write, and of a read, one after the other.               *)
Writing(tasks, buffer) == [name |-> "Write", tasks |-> tasks, buffer |-> buffer]
Reading(disk_, tasks) == [name |-> "Read", tasks |-> tasks, disk |-> disk_]

(* Write_Clusters is a run over the tasks.                                 *)
LEMMA WriteRun ==
  ASSUME NEW d, NEW ch, NEW start, NEW buffer,
         NEW n \in Nat, DOMAIN Tasks_Of_File(ch, start, Len(buffer)) = 1 .. n
  PROVE  \E g : /\ IsRun(g, Writing(Tasks_Of_File(ch, start, Len(buffer)), buffer), d, n)
                /\ Write_Clusters(d, ch, start, buffer) = g[n]
<1> DEFINE seq == Tasks_Of_File(ch, start, Len(buffer))
           op == Writing(seq, buffer)
           D(u) == u = [s \in SUBSET DOMAIN seq |->
                          IF s = {} THEN d
                          ELSE LET x == Max(s) IN Write_Task(u[s \ {x}], seq[x], buffer)]
<1>1. Write_Clusters(d, ch, start, buffer) = (CHOOSE u : D(u))[DOMAIN seq]
  BY Zenon DEF Write_Clusters, FoldLeft, MapThenFoldSet
<1>2. DOMAIN seq = 1 .. n
  OBVIOUS
<1> HIDE DEF seq
<1>3. \A e, k : Step(op, e, k) = Write_Task(e, seq[k], buffer)
  BY DEF Step, Writing
<1>4. ASSUME NEW u PROVE D(u) <=> IsFold(u, op, d, n)
  <2> HIDE DEF op
  <2> QED BY <1>2, <1>3 DEF IsFold
<1> HIDE DEF D, op
<1> DEFINE w == CHOOSE u : D(u)
<1>5. IsFold(w, op, d, n)
  BY <1>2, <1>4, FoldExists
<1> HIDE DEF w
<1>6. \E g : IsRun(g, op, d, n) /\ g[n] = w[1 .. n]
  BY ONLY <1>2, <1>5, FoldIsRun
<1> QED BY <1>1, <1>2, <1>6 DEF op, seq, w

(* So is Read_Clusters.                                                    *)
LEMMA ReadRun ==
  ASSUME NEW d, NEW ch, NEW start, NEW how_many,
         NEW n \in Nat, DOMAIN Tasks_Of_File(ch, start, how_many) = 1 .. n
  PROVE  \E g : /\ IsRun(g, Reading(d, Tasks_Of_File(ch, start, how_many)), [i \in 1 .. how_many |-> Unset], n)
                /\ Read_Clusters(d, ch, start, how_many) = g[n]
<1> DEFINE seq == Tasks_Of_File(ch, start, how_many)
           op == Reading(d, seq)
           base == [i \in 1 .. how_many |-> Unset]
           D(u) == u = [s \in SUBSET DOMAIN seq |->
                          IF s = {} THEN base
                          ELSE LET x == Max(s) IN Read_Task(d, seq[x], u[s \ {x}])]
<1>1. Read_Clusters(d, ch, start, how_many) = (CHOOSE u : D(u))[DOMAIN seq]
  BY Zenon DEF Read_Clusters, FoldLeft, MapThenFoldSet
<1>2. DOMAIN seq = 1 .. n
  OBVIOUS
<1> HIDE DEF seq, base
<1>3. \A e, k : Step(op, e, k) = Read_Task(d, seq[k], e)
  BY DEF Step, Reading
<1>4. ASSUME NEW u PROVE D(u) <=> IsFold(u, op, base, n)
  <2> HIDE DEF op
  <2> QED BY <1>2, <1>3 DEF IsFold
<1> HIDE DEF D, op
<1> DEFINE w == CHOOSE u : D(u)
<1>5. IsFold(w, op, base, n)
  BY <1>2, <1>4, FoldExists
<1> HIDE DEF w
<1>6. \E g : IsRun(g, op, base, n) /\ g[n] = w[1 .. n]
  BY ONLY <1>2, <1>5, FoldIsRun
<1> QED BY <1>1, <1>2, <1>6 DEF op, seq, base, w

(* Tasks, Number and Power are ends of runs as they are.                   *)
Cutting(sectors, start, how_many) ==
  [name |-> "Tasks", sectors |-> sectors, start |-> start, how_many |-> how_many]

(* Tasks is a run over the sectors of the range.                           *)
LEMMA TasksRun ==
  ASSUME NEW sectors, NEW start, NEW how_many, Len(sectors) \in Nat
  PROVE  \E g : /\ IsRun(g, Cutting(sectors, start, how_many), <<Make_Task(sectors, start, how_many, 0, 0)>>,
                         Len(sectors))
                /\ Tasks(sectors, start, how_many) = g[Len(sectors)]
<1> DEFINE op == Cutting(sectors, start, how_many)
           base == <<Make_Task(sectors, start, how_many, 0, 0)>>
           D(u) == u = [index \in 0 .. Len(sectors) |->
             IF index = 0 THEN base
             ELSE LET before == u[index - 1] IN
                  IF index = Len(sectors) \/ sectors[index + 1] = sectors[index] + 1 THEN before
                  ELSE Append(before, Make_Task(sectors, start, how_many, index,
                                                Last(before).from + Last(before).bytes))]
<1>1. Tasks(sectors, start, how_many) = (CHOOSE u : D(u))[Len(sectors)]
  BY Zenon DEF Tasks
<1>2. \A e, k : Step(op, e, k) = IF k = Len(sectors) \/ sectors[k + 1] = sectors[k] + 1 THEN e
                                 ELSE Append(e, Make_Task(sectors, start, how_many, k,
                                                       Last(e).from + Last(e).bytes))
  BY DEF Step, Cutting
<1>3. ASSUME NEW u PROVE D(u) <=> IsRun(u, op, base, Len(sectors))
  <2> HIDE DEF op, base
  <2> QED BY <1>2 DEF IsRun
<1> HIDE DEF D, op, base
<1>4. IsRun(CHOOSE u : D(u), op, base, Len(sectors))
  BY <1>3, RunExists
<1> QED BY <1>1, <1>4 DEF op, base

Summing(bits) == [name |-> "Number", bits |-> bits]

(* Number is a run over the bits.                                          *)
LEMMA NumberRun ==
  ASSUME NEW bits, Len(bits) \in Nat
  PROVE  \E g : IsRun(g, Summing(bits), 0, Len(bits)) /\ Number(bits) = g[Len(bits)]
<1> DEFINE op == Summing(bits)
           D(u) == u = [i \in 0 .. Len(bits) |-> IF i = 0 THEN 0 ELSE 2 * u[i - 1] + bits[i]]
<1>1. Number(bits) = (CHOOSE u : D(u))[Len(bits)]
  BY Zenon DEF Number
<1>2. \A e, k : Step(op, e, k) = 2 * e + bits[k]
  BY DEF Step, Summing
<1>3. ASSUME NEW u PROVE D(u) <=> IsRun(u, op, 0, Len(bits))
  <2> HIDE DEF op
  <2> QED BY <1>2 DEF IsRun
<1> HIDE DEF D, op
<1>4. IsRun(CHOOSE u : D(u), op, 0, Len(bits))
  BY <1>3, RunExists
<1> QED BY <1>1, <1>4 DEF op

Doubling == [name |-> "Power"]

(* The powers of two are what they should be.                              *)
LEMMA PowerStep ==
  /\ Power[0] = 1
  /\ \A n \in Nat : Power[n + 1] = 2 * Power[n] /\ Power[n] \in Nat \ {0}
<1> DEFINE D(u) == u = [n \in Nat |-> IF n = 0 THEN 1 ELSE 2 * u[n - 1]]
           run(n) == CHOOSE g : IsRun(g, Doubling, 1, n)
           p == [n \in Nat |-> run(n)[n]]
<1>1. \A e, k : Step(Doubling, e, k) = 2 * e
  BY DEF Step, Doubling
<1>2. \A n \in Nat : IsRun(run(n), Doubling, 1, n)
  BY RunExists
<1> HIDE DEF run
<1>3. D(p)
  <2>1. ASSUME NEW n \in Nat PROVE p[n] = IF n = 0 THEN 1 ELSE 2 * p[n - 1]
    <3>1. CASE n = 0
      BY <1>2, <3>1 DEF IsRun
    <3>2. CASE n # 0
      <4>1. n - 1 \in Nat
        BY <3>2
      <4>2. run(n)[n] = 2 * run(n)[n - 1]
        <5>1. IsRun(run(n), Doubling, 1, n)
          BY <1>2
        <5>2. run(n)[n] = Step(Doubling, run(n)[n - 1], n)
          BY <3>2, <5>1 DEF IsRun
        <5> QED BY <1>1, <5>2
      <4>3. run(n)[n - 1] = run(n - 1)[n - 1]
        <5>1. IsRun(run(n), Doubling, 1, n) /\ IsRun(run(n - 1), Doubling, 1, n - 1)
          BY <1>2, <4>1
        <5>2. \A k \in 0 .. (n - 1) : k <= n => run(n - 1)[k] = run(n)[k]
          BY <4>1, <5>1, RunUnique
        <5> QED BY <4>1, <5>2
      <4> QED BY <3>2, <4>1, <4>2, <4>3
    <3> QED BY <3>1, <3>2
  <2> QED BY <2>1
<1>4. Power = CHOOSE u : D(u)
  BY Zenon DEF Power
<1> HIDE DEF D, p
<1>5. D(Power)
  BY <1>3, <1>4
<1>6. \A n \in Nat : Power[n] = IF n = 0 THEN 1 ELSE 2 * Power[n - 1]
  BY <1>5 DEF D
<1>7. Power[0] = 1 /\ \A n \in Nat : Power[n + 1] = 2 * Power[n]
  <2>1. ASSUME NEW n \in Nat PROVE Power[n + 1] = 2 * Power[n]
    <3>1. n + 1 \in Nat /\ n + 1 # 0 /\ n + 1 - 1 = n
      OBVIOUS
    <3> QED BY <1>6, <3>1
  <2> QED BY <1>6, <2>1
<1>8. \A n \in Nat : Power[n] \in Nat \ {0}
  <2> DEFINE T == {n \in Nat : Power[n] \in Nat \ {0}}
  <2>1. 0 \in T
    BY <1>7
  <2>2. ASSUME NEW n \in Nat, n \in T PROVE n + 1 \in T
    <3>1. Power[n] \in Nat \ {0} /\ Power[n + 1] = 2 * Power[n]
      BY <1>7, <2>2
    <3> QED BY <3>1
  <2>3. Nat \subseteq T
    BY <2>1, <2>2, NatInd
  <2> QED BY <2>3
<1> QED BY <1>7, <1>8

-----------------------------------------------------------------------------
(* Bits.                                                                   *)

(* The last bit of a quotient.                                             *)
LEMMA BitIsBit ==
  ASSUME NEW x \in Nat, NEW w \in Nat \ {0}
  PROVE  (x \div w) % 2 \in 0 .. 1
<1>1. x \div w \in Nat
  BY SMT
<1> QED BY <1>1

(* The number of eight bits.                                               *)
LEMMA NumberOfEight ==
  ASSUME NEW bits \in [1 .. 8 -> 0 .. 1]
  PROVE  Number(bits) = 128 * bits[1] + 64 * bits[2] + 32 * bits[3] + 16 * bits[4]
                          + 8 * bits[5] + 4 * bits[6] + 2 * bits[7] + bits[8]
<1>1. Len(bits) = 8
  OBVIOUS
<1>2. PICK g : IsRun(g, Summing(bits), 0, 8) /\ Number(bits) = g[8]
  <2>1. Len(bits) \in Nat
    BY <1>1
  <2>2. \E g : IsRun(g, Summing(bits), 0, Len(bits)) /\ Number(bits) = g[Len(bits)]
    BY <2>1, NumberRun
  <2> QED BY ONLY <1>1, <2>2
<1>3. \A e, k : Step(Summing(bits), e, k) = 2 * e + bits[k]
  BY DEF Step, Summing
<1>4. g[0] = 0 /\ \A k \in 1 .. 8 : g[k] = 2 * g[k - 1] + bits[k]
  BY <1>2, <1>3 DEF IsRun
<1>5. \A k \in 1 .. 8 : bits[k] \in Int
  OBVIOUS
<1>6. g[1] = bits[1]
  BY <1>4, <1>5
<1>7. g[2] = 2 * bits[1] + bits[2]
  BY <1>4, <1>5, <1>6
<1>8. g[3] = 4 * bits[1] + 2 * bits[2] + bits[3]
  BY <1>4, <1>5, <1>7
<1>9. g[4] = 8 * bits[1] + 4 * bits[2] + 2 * bits[3] + bits[4]
  BY <1>4, <1>5, <1>8
<1>10. g[5] = 16 * bits[1] + 8 * bits[2] + 4 * bits[3] + 2 * bits[4] + bits[5]
  BY <1>4, <1>5, <1>9
<1>11. g[6] = 32 * bits[1] + 16 * bits[2] + 8 * bits[3] + 4 * bits[4] + 2 * bits[5] + bits[6]
  BY <1>4, <1>5, <1>10
<1>12. g[7] = 64 * bits[1] + 32 * bits[2] + 16 * bits[3] + 8 * bits[4] + 4 * bits[5] + 2 * bits[6] + bits[7]
  BY <1>4, <1>5, <1>11
<1>13. g[8] = 128 * bits[1] + 64 * bits[2] + 32 * bits[3] + 16 * bits[4]
                + 8 * bits[5] + 4 * bits[6] + 2 * bits[7] + bits[8]
  BY <1>4, <1>5, <1>12
<1> QED BY <1>2, <1>13

(* A byte put together from bits has those bits.                           *)
LEMMA BitsOfNumber ==
  ASSUME NEW bits \in [1 .. 8 -> 0 .. 1]
  PROVE  /\ Number(bits) \in 0 .. 255
         /\ \A k \in 1 .. 8 : (Number(bits) \div Weight[k]) % 2 = bits[k]
<1> DEFINE x == Number(bits)
<1>1. /\ bits[1] \in 0 .. 1 /\ bits[2] \in 0 .. 1 /\ bits[3] \in 0 .. 1 /\ bits[4] \in 0 .. 1
      /\ bits[5] \in 0 .. 1 /\ bits[6] \in 0 .. 1 /\ bits[7] \in 0 .. 1 /\ bits[8] \in 0 .. 1
  OBVIOUS
<1>2. x = 128 * bits[1] + 64 * bits[2] + 32 * bits[3] + 16 * bits[4]
            + 8 * bits[5] + 4 * bits[6] + 2 * bits[7] + bits[8]
  BY NumberOfEight
<1> HIDE DEF x
<1>3. x \in 0 .. 255
  BY <1>1, <1>2
<1>4. (x \div 128) % 2 = bits[1]
  BY <1>1, <1>2
<1>5. (x \div 64) % 2 = bits[2]
  BY <1>1, <1>2
<1>6. (x \div 32) % 2 = bits[3]
  BY <1>1, <1>2
<1>7. (x \div 16) % 2 = bits[4]
  BY <1>1, <1>2
<1>8. (x \div 8) % 2 = bits[5]
  BY <1>1, <1>2
<1>9. (x \div 4) % 2 = bits[6]
  BY <1>1, <1>2
<1>10. (x \div 2) % 2 = bits[7]
  BY <1>1, <1>2
<1>11. (x \div 1) % 2 = bits[8]
  BY <1>1, <1>2
<1>12. /\ Weight[1] = 128 /\ Weight[2] = 64 /\ Weight[3] = 32 /\ Weight[4] = 16
       /\ Weight[5] = 8 /\ Weight[6] = 4 /\ Weight[7] = 2 /\ Weight[8] = 1
  BY DEF Weight
<1>13. \A k \in 1 .. 8 : (x \div Weight[k]) % 2 = bits[k]
  <2>1. TAKE k \in 1 .. 8
  <2>2. k = 1 \/ k = 2 \/ k = 3 \/ k = 4 \/ k = 5 \/ k = 6 \/ k = 7 \/ k = 8
    OBVIOUS
  <2> QED BY <1>4, <1>5, <1>6, <1>7, <1>8, <1>9, <1>10, <1>11, <1>12, <2>2
<1> QED BY <1>3, <1>13 DEF x

(* What the bits of a byte stand for is positive.                          *)
LEMMA WeightType == \A k \in 1 .. 8 : Weight[k] \in Nat \ {0}
<1>1. TAKE k \in 1 .. 8
<1>2. k = 1 \/ k = 2 \/ k = 3 \/ k = 4 \/ k = 5 \/ k = 6 \/ k = 7 \/ k = 8
  OBVIOUS
<1> QED BY <1>2 DEF Weight

(* The table in memory.                                                    *)
Bytes == [0 .. (TableSize - 1) -> 0 .. 255]

(* The bits of a value.                                                    *)
LEMMA ValueBitType ==
  ASSUME NEW v \in Nat, NEW i \in 0 .. (FatType - 1)
  PROVE  ValueBit(v, i) \in 0 .. 1
<1>1. FatType - 1 - i \in Nat
  BY InfoAssumption
<1>2. Power[FatType - 1 - i] \in Nat \ {0}
  BY <1>1, PowerStep
<1> QED BY <1>2, BitIsBit DEF ValueBit

(* They stand for it.                                                      *)
LEMMA HalfOfQuotient ==
  ASSUME NEW v \in Nat, NEW a \in Nat \ {0}
  PROVE  v \div a = 2 * (v \div (2 * a)) + ((v \div a) % 2)
<1> DEFINE q == v \div a
           r == v % a
           h == q \div 2
           t == q % 2
<1>1. q \in Nat /\ r \in 0 .. (a - 1) /\ v = a * q + r
  BY Division
<1>2. h \in Nat /\ t \in 0 .. 1 /\ q = 2 * h + t
  BY <1>1, Division
<1>3. v \div (2 * a) = h
  <2>1. v = (2 * a) * h + (a * t + r)
    <3>1. a * q = a * (2 * h) + a * t
      BY <1>2
    <3> HIDE DEF q, r, h, t
    <3>2. a * (2 * h) = (2 * a) * h
      BY <1>2
    <3> QED BY <1>1, <1>2, <3>1, <3>2
  <2>2. a * t + r \in 0 .. (2 * a - 1)
    <3> HIDE DEF q, r, h, t
    <3>1. t = 0 \/ t = 1
      BY <1>2
    <3> QED BY <1>1, <3>1
  <2> HIDE DEF q, r, h, t
  <2> DEFINE m == 2 * a
             s == a * t + r
  <2>3. m \in Nat \ {0} /\ s \in 0 .. (m - 1) /\ v = m * h + s
    BY <2>1, <2>2
  <2> HIDE DEF m, s
  <2>4. v \div m = h
    BY <1>2, <2>3
  <2> QED BY <2>4 DEF m
<1> HIDE DEF h
<1> QED BY <1>2, <1>3

(* A value that fits in FatType bits is the number of its bits.            *)
LEMMA NumberOfBits ==
  ASSUME NEW v \in 0 .. (Power[FatType] - 1)
  PROVE  Number([i \in 1 .. FatType |-> ValueBit(v, i - 1)]) = v
<1> DEFINE n == FatType
           bits == [i \in 1 .. n |-> ValueBit(v, i - 1)]
<1>1. n \in Nat \ {0} /\ Power[n] \in Nat \ {0} /\ v \in Nat /\ v < Power[n]
  BY InfoAssumption, PowerStep
<1>2. Len(bits) = n
  BY <1>1
<1> HIDE DEF n
<1>3. PICK g : IsRun(g, Summing(bits), 0, n) /\ Number(bits) = g[n]
  <2>1. Len(bits) \in Nat
    BY <1>1, <1>2
  <2> HIDE DEF bits
  <2> QED BY <1>2, <2>1, NumberRun
<1>4. \A e, k : Step(Summing(bits), e, k) = 2 * e + bits[k]
  BY DEF Step, Summing
<1>5. g[0] = 0 /\ \A k \in 1 .. n : g[k] = 2 * g[k - 1] + bits[k]
  <2> HIDE DEF bits
  <2> QED BY <1>1, <1>3, <1>4 DEF IsRun
<1> DEFINE T == {k \in Nat : k <= n => g[k] = v \div Power[n - k]}
<1>6. 0 \in T
  <2>1. v \div Power[n] = 0
    BY <1>1
  <2> QED BY <1>1, <1>5, <2>1
<1>7. ASSUME NEW k \in Nat, k \in T PROVE k + 1 \in T
  <2>1. SUFFICES ASSUME k + 1 <= n PROVE g[k + 1] = v \div Power[n - (k + 1)]
    OBVIOUS
  <2>2. g[k] = v \div Power[n - k]
    BY <1>1, <1>7, <2>1
  <2> DEFINE m == n - (k + 1)
             a == Power[m]
  <2>3. m \in Nat /\ m + 1 = n - k /\ k + 1 \in 1 .. n /\ (k + 1) - 1 = k /\ n - 1 - k = m
    BY <1>1, <2>1
  <2>4. Power[n - k] = 2 * a /\ a \in Nat \ {0}
    <3>1. Power[m + 1] = 2 * Power[m] /\ Power[m] \in Nat \ {0}
      BY <2>3, PowerStep
    <3> QED BY <2>3, <3>1
  <2>5. bits[k + 1] = (v \div a) % 2
    <3>1. bits[k + 1] = ValueBit(v, k)
      BY <2>3
    <3> QED BY <2>3, <3>1 DEF ValueBit, n
  <2>6. g[k + 1] = 2 * g[k] + bits[k + 1]
    BY <1>5, <2>3
  <2> HIDE DEF m, a, bits
  <2>7. v \div a = 2 * (v \div (2 * a)) + ((v \div a) % 2)
    BY <1>1, <2>4, HalfOfQuotient
  <2>8. g[k + 1] = 2 * (v \div (2 * a)) + ((v \div a) % 2)
    BY <2>2, <2>4, <2>5, <2>6
  <2> QED BY <2>7, <2>8 DEF a, m
<1>8. n \in T
  BY <1>1, <1>6, <1>7, NatInd
<1>9. g[n] = v \div Power[0]
  BY <1>1, <1>8
<1>10. v \div Power[0] = v
  BY <1>1, PowerStep
<1> QED BY <1>3, <1>9, <1>10 DEF n

(* What Copy_Bits_To_Fat puts at a bit.                                    *)
NewBit(tab, p, v, b) ==
  IF b - Get_First_Bit_Of_Fat_Entry(p) \in 0 .. (FatType - 1)
  THEN ValueBit(v, b - Get_First_Bit_Of_Fat_Entry(p)) ELSE Get_Individual_Bit(tab, b)

(* A bit of the table.                                                     *)
LEMMA IndividualBitType ==
  ASSUME NEW tab \in Bytes, NEW b \in 0 .. (8 * TableSize - 1)
  PROVE  Get_Individual_Bit(tab, b) \in 0 .. 1
<1>1. TableSize \in Nat
  BY InfoAssumption, Geometry, SMT
<1>2. b \div 8 \in 0 .. (TableSize - 1) /\ (b % 8) + 1 \in 1 .. 8
  BY <1>1
<1>3. tab[b \div 8] \in Nat
  <2>1. \A y \in 0 .. (TableSize - 1) : tab[y] \in 0 .. 255
    BY DEF Bytes
  <2>2. tab[b \div 8] \in 0 .. 255
    BY ONLY <1>2, <2>1
  <2> QED BY ONLY <2>2, SMT
<1>4. Weight[(b % 8) + 1] \in Nat \ {0}
  BY <1>2, WeightType
<1> QED BY <1>3, <1>4, BitIsBit DEF Get_Individual_Bit

(* An entry's bits are a part of the table.                                *)
LEMMA EntryBits ==
  ASSUME NEW p \in Cluster
  PROVE  /\ p \in Nat /\ Get_First_Bit_Of_Fat_Entry(p) \in Nat
         /\ Get_First_Bit_Of_Fat_Entry(p) + FatType <= Get_Cluster_Count * FatType
         /\ Get_First_Bit_Of_Fat_Entry(p) + FatType <= 8 * TableSize
         /\ TableSize \in Nat /\ FatType \in Nat \ {0} /\ Get_Cluster_Count \in Nat
<1>1. Get_Cluster_Count \in Nat /\ TableSize \in Nat /\ FatType \in Nat \ {0} /\ p \in Nat /\ p + 1 <= Get_Cluster_Count
  BY InfoAssumption, Geometry, SMT DEF Cluster
<1>2. FatType * (p + 1) <= FatType * Get_Cluster_Count
  BY <1>1, Times
<1>3. FatType * (p + 1) = p * FatType + FatType /\ FatType * Get_Cluster_Count = Get_Cluster_Count * FatType
  BY <1>1, SMT
<1>4. p * FatType \in Nat /\ Get_Cluster_Count * FatType \in Nat
  BY <1>1, SMT
<1> QED BY <1>1, <1>2, <1>3, <1>4, TableHasRoom DEF Get_First_Bit_Of_Fat_Entry

(* Two entries have no bit in common.                                      *)
LEMMA EntriesApart ==
  ASSUME NEW p \in Cluster, NEW c \in Cluster, c # p, NEW i \in 0 .. (FatType - 1)
  PROVE  Get_First_Bit_Of_Fat_Entry(c) + i - Get_First_Bit_Of_Fat_Entry(p) \notin 0 .. (FatType - 1)
<1>1. p \in Nat /\ c \in Nat /\ FatType \in Nat \ {0}
  BY EntryBits
<1>2. p * FatType \in Nat /\ c * FatType \in Nat
  BY <1>1, SMT
<1>3. CASE c < p
  <2>1. FatType * (c + 1) <= FatType * p
    BY <1>1, <1>3, Times
  <2>2. FatType * (c + 1) = c * FatType + FatType /\ FatType * p = p * FatType
    BY <1>1, SMT
  <2> QED BY <1>1, <1>2, <2>1, <2>2 DEF Get_First_Bit_Of_Fat_Entry
<1>4. CASE p < c
  <2>1. FatType * (p + 1) <= FatType * c
    BY <1>1, <1>4, Times
  <2>2. FatType * (p + 1) = p * FatType + FatType /\ FatType * c = c * FatType
    BY <1>1, SMT
  <2> QED BY <1>1, <1>2, <2>1, <2>2 DEF Get_First_Bit_Of_Fat_Entry
<1> QED BY <1>1, <1>3, <1>4

(* Copy_Bits_To_Fat changes the bits of its entry, and no byte that has    *)
(* none of them.                                                           *)
LEMMA CopyBits ==
  ASSUME NEW tab \in Bytes, NEW p \in Cluster, NEW v \in Nat
  PROVE  LET new == Copy_Bits_To_Fat(tab, p, v)
             first == Get_First_Bit_Of_Fat_Entry(p)
         IN  /\ new \in Bytes
             /\ \A y \in 0 .. (TableSize - 1) :
                  y \notin (first \div 8) .. ((first + FatType - 1) \div 8) => new[y] = tab[y]
             /\ \A b \in 0 .. (8 * TableSize - 1) : Get_Individual_Bit(new, b) = NewBit(tab, p, v, b)
<1> DEFINE new == Copy_Bits_To_Fat(tab, p, v)
           f == Get_First_Bit_Of_Fat_Entry(p)
           ys == (f \div 8) .. ((f + FatType - 1) \div 8)
           bits(y) == [k \in 1 .. 8 |-> NewBit(tab, p, v, 8 * y + k - 1)]
<1>1. TableSize \in Nat /\ f \in Nat /\ FatType \in Nat \ {0}
  BY EntryBits
<1>2. new = [y \in 0 .. (TableSize - 1) |-> IF y \in ys THEN Number(bits(y)) ELSE tab[y]]
  <2>1. DOMAIN tab = 0 .. (TableSize - 1)
    BY DEF Bytes
  <2> QED BY <2>1 DEF Copy_Bits_To_Fat, NewBit
<1>3. ASSUME NEW b \in 0 .. (8 * TableSize - 1) PROVE NewBit(tab, p, v, b) \in 0 .. 1
  <2>1. CASE b - f \in 0 .. (FatType - 1)
    BY <2>1, ValueBitType DEF NewBit
  <2>2. CASE b - f \notin 0 .. (FatType - 1)
    BY <2>2, IndividualBitType DEF NewBit
  <2> QED BY <2>1, <2>2
<1>4. ASSUME NEW y \in 0 .. (TableSize - 1)
      PROVE  bits(y) \in [1 .. 8 -> 0 .. 1]
  <2>1. \A k \in 1 .. 8 : 8 * y + k - 1 \in 0 .. (8 * TableSize - 1)
    BY <1>1
  <2> QED BY <1>3, <2>1
<1> HIDE DEF new, ys, bits
<1>5. new \in Bytes
  <2>1. ASSUME NEW y \in 0 .. (TableSize - 1)
        PROVE  (IF y \in ys THEN Number(bits(y)) ELSE tab[y]) \in 0 .. 255
    <3>1. Number(bits(y)) \in 0 .. 255
      BY <1>4, BitsOfNumber
    <3>2. tab[y] \in 0 .. 255
      BY DEF Bytes
    <3> QED BY <3>1, <3>2
  <2> QED BY <1>2, <2>1 DEF Bytes
<1>6. \A y \in 0 .. (TableSize - 1) : y \notin ys => new[y] = tab[y]
  BY <1>2
<1>7. ASSUME NEW b \in 0 .. (8 * TableSize - 1)
      PROVE  Get_Individual_Bit(new, b) = NewBit(tab, p, v, b)
  <2> DEFINE y == b \div 8
             k == (b % 8) + 1
  <2>1. y \in 0 .. (TableSize - 1) /\ k \in 1 .. 8 /\ b = 8 * y + k - 1
    BY <1>1
  <2>2. CASE y \in ys
    <3>1. new[y] = Number(bits(y))
      BY <1>2, <2>1, <2>2
    <3>2. (Number(bits(y)) \div Weight[k]) % 2 = bits(y)[k]
      BY <1>4, <2>1, BitsOfNumber
    <3>3. bits(y)[k] = NewBit(tab, p, v, b)
      BY <2>1 DEF bits
    <3> QED BY <3>1, <3>2, <3>3 DEF Get_Individual_Bit
  <2>3. CASE y \notin ys
    <3>1. b - f \notin 0 .. (FatType - 1)
      BY <1>1, <2>1, <2>3 DEF ys
    <3>2. new[y] = tab[y]
      BY <1>6, <2>1, <2>3
    <3>3. Get_Individual_Bit(new, b) = Get_Individual_Bit(tab, b)
      BY <3>2 DEF Get_Individual_Bit
    <3> QED BY <3>1, <3>3 DEF NewBit
  <2> QED BY <2>2, <2>3
<1> QED BY <1>5, <1>6, <1>7 DEF new, ys

(* An entry is what was set, the others are what they were.                *)
LEMMA SetEntry ==
  ASSUME NEW tab \in Bytes, NEW p \in Cluster, NEW v \in 0 .. (Power[FatType] - 1), NEW c \in Cluster
  PROVE  Get_Entry_Value(Copy_Bits_To_Fat(tab, p, v), c) = IF c = p THEN v ELSE Get_Entry_Value(tab, c)
<1> DEFINE new == Copy_Bits_To_Fat(tab, p, v)
           f == Get_First_Bit_Of_Fat_Entry(c)
<1>1. f \in Nat /\ f + FatType <= 8 * TableSize /\ FatType \in Nat \ {0} /\ TableSize \in Nat
  BY EntryBits
<1>2. v \in Nat
  BY <1>1, PowerStep
<1>3. \A b \in 0 .. (8 * TableSize - 1) : Get_Individual_Bit(new, b) = NewBit(tab, p, v, b)
  BY <1>2, CopyBits
<1>4. Get_Entry_Value(new, c) = Number([i \in 1 .. FatType |-> Get_Individual_Bit(new, f + i - 1)])
  BY DEF Get_Entry_Value
<1>5. Get_Entry_Value(tab, c) = Number([i \in 1 .. FatType |-> Get_Individual_Bit(tab, f + i - 1)])
  BY DEF Get_Entry_Value
<1> HIDE DEF new, f
<1>6. CASE c = p
  <2>1. ASSUME NEW i \in 1 .. FatType PROVE Get_Individual_Bit(new, f + i - 1) = ValueBit(v, i - 1)
    <3>1. f + i - 1 \in 0 .. (8 * TableSize - 1) /\ (f + i - 1) - f = i - 1 /\ i - 1 \in 0 .. (FatType - 1)
      BY <1>1
    <3> HIDE DEF f
    <3>2. Get_Individual_Bit(new, f + i - 1) = NewBit(tab, p, v, f + i - 1)
      BY <1>3, <3>1
    <3>3. NewBit(tab, p, v, f + i - 1) = ValueBit(v, i - 1)
      BY <1>6, <3>1 DEF NewBit, f
    <3> QED BY <3>2, <3>3
  <2>2. [i \in 1 .. FatType |-> Get_Individual_Bit(new, f + i - 1)] = [i \in 1 .. FatType |-> ValueBit(v, i - 1)]
    BY <2>1
  <2>3. Number([i \in 1 .. FatType |-> ValueBit(v, i - 1)]) = v
    BY NumberOfBits
  <2> QED BY <1>4, <1>6, <2>2, <2>3 DEF new
<1>7. CASE c # p
  <2>1. ASSUME NEW i \in 1 .. FatType
        PROVE  Get_Individual_Bit(new, f + i - 1) = Get_Individual_Bit(tab, f + i - 1)
    <3>1. f + i - 1 \in 0 .. (8 * TableSize - 1) /\ i - 1 \in 0 .. (FatType - 1) /\ f + (i - 1) = f + i - 1
      BY <1>1
    <3>2. f + (i - 1) - Get_First_Bit_Of_Fat_Entry(p) \notin 0 .. (FatType - 1)
      BY <1>7, <3>1, EntriesApart DEF f
    <3>3. Get_Individual_Bit(new, f + i - 1) = NewBit(tab, p, v, f + i - 1)
      BY <1>3, <3>1
    <3>4. NewBit(tab, p, v, f + i - 1) = Get_Individual_Bit(tab, f + i - 1)
      <4>1. (f + i - 1) - Get_First_Bit_Of_Fat_Entry(p) \notin 0 .. (FatType - 1)
        BY <1>1, <3>1, <3>2, EntryBits
      <4> QED BY <4>1 DEF NewBit
    <3> QED BY <3>3, <3>4
  <2>2. [i \in 1 .. FatType |-> Get_Individual_Bit(new, f + i - 1)]
          = [i \in 1 .. FatType |-> Get_Individual_Bit(tab, f + i - 1)]
    BY <2>1
  <2> QED BY <1>4, <1>5, <1>7, <2>2 DEF new
<1> QED BY <1>6, <1>7

(* An entry is read from those bytes.                                      *)
LEMMA EntryFromBytes ==
  ASSUME NEW a, NEW b, \A y \in EntryBytes : a[y] = b[y], NEW c \in Cluster
  PROVE  Get_Entry_Value(a, c) = Get_Entry_Value(b, c)
<1> DEFINE f == Get_First_Bit_Of_Fat_Entry(c)
           N == Get_Cluster_Count * FatType
<1>1. f \in Nat /\ f + FatType <= N /\ FatType \in Nat \ {0} /\ N \in Nat
  <2>1. Get_Cluster_Count \in Nat /\ FatType \in Nat \ {0}
    BY EntryBits
  <2>2. N \in Nat
    BY <2>1, SMT
  <2> QED BY <2>2, EntryBits
<1>2. EntryBytes = 0 .. ((N - 1) \div 8)
  BY DEF EntryBytes
<1>3. Get_Entry_Value(a, c) = Number([i \in 1 .. FatType |-> Get_Individual_Bit(a, f + i - 1)])
  BY DEF Get_Entry_Value
<1>4. Get_Entry_Value(b, c) = Number([i \in 1 .. FatType |-> Get_Individual_Bit(b, f + i - 1)])
  BY DEF Get_Entry_Value
<1> HIDE DEF f, N
<1>5. ASSUME NEW i \in 1 .. FatType
      PROVE  Get_Individual_Bit(a, f + i - 1) = Get_Individual_Bit(b, f + i - 1)
  <2>1. (f + i - 1) \div 8 \in 0 .. ((N - 1) \div 8)
    BY <1>1
  <2>2. a[(f + i - 1) \div 8] = b[(f + i - 1) \div 8]
    BY <1>2, <2>1
  <2> QED BY <2>2 DEF Get_Individual_Bit
<1>6. [i \in 1 .. FatType |-> Get_Individual_Bit(a, f + i - 1)]
        = [i \in 1 .. FatType |-> Get_Individual_Bit(b, f + i - 1)]
  BY <1>5
<1> QED BY <1>3, <1>4, <1>6

-----------------------------------------------------------------------------
(* Sectors of the table.                                                   *)

Plain == [0 .. (DiskSize - 1) -> 0 .. 255]

(* Quotients keep the order of their dividends.                            *)
LEMMA DivMono ==
  ASSUME NEW a \in Nat, NEW b \in Nat, a <= b, NEW d \in Nat \ {0}
  PROVE  a \div d <= b \div d
<1> DEFINE p == a \div d
           q == b \div d
<1>1. p \in Nat /\ a % d \in 0 .. (d - 1) /\ a = d * p + (a % d)
  BY Division
<1>2. q \in Nat /\ b % d \in 0 .. (d - 1) /\ b = d * q + (b % d)
  BY Division
<1> HIDE DEF p, q
<1>3. ~(q + 1 <= p)
  <2>1. ASSUME q + 1 <= p PROVE FALSE
    <3>1. d * (q + 1) <= d * p
      BY <1>1, <1>2, <2>1, Times
    <3>2. d * (q + 1) = d * q + d /\ d * q \in Nat /\ d * p \in Nat
      BY <1>1, <1>2, SMT
    <3> QED BY <1>1, <1>2, <3>1, <3>2
  <2> QED BY <2>1
<1>4. p <= q
  BY <1>1, <1>2, <1>3
<1> QED BY <1>4 DEF p, q

(* The quotient is the one number that leaves a remainder.                 *)
LEMMA Quotient ==
  ASSUME NEW a \in Nat, NEW d \in Nat \ {0}, NEW q \in Nat
  PROVE  a - q * d \in 0 .. (d - 1) <=> a \div d = q
<1> DEFINE p == a \div d
           r == a % d
<1>1. p \in Nat /\ r \in 0 .. (d - 1) /\ a = d * p + r
  BY Division
<1> HIDE DEF p, r
<1>2. q * d = d * q /\ d * q \in Nat /\ d * p \in Nat
  BY <1>1, SMT
<1>3. ASSUME p = q PROVE a - q * d \in 0 .. (d - 1)
  BY <1>1, <1>2, <1>3
<1>4. ASSUME a - q * d \in 0 .. (d - 1) PROVE p = q
  <2>1. d * q <= a /\ a < d * q + d
    BY <1>2, <1>4
  <2>2. d * p <= a /\ a < d * p + d
    BY <1>1, <1>2
  <2>3. ~(p + 1 <= q)
    <3>1. ASSUME p + 1 <= q PROVE FALSE
      <4>1. d * (p + 1) <= d * q
        BY <1>1, <3>1, Times
      <4>2. d * (p + 1) = d * p + d
        BY <1>1, SMT
      <4> QED BY <1>2, <2>1, <2>2, <4>1, <4>2
    <3> QED BY <3>1
  <2>4. ~(q + 1 <= p)
    <3>1. ASSUME q + 1 <= p PROVE FALSE
      <4>1. d * (q + 1) <= d * p
        BY <1>1, <3>1, Times
      <4>2. d * (q + 1) = d * q + d
        BY <1>1, SMT
      <4> QED BY <1>2, <2>1, <2>2, <4>1, <4>2
    <3> QED BY <3>1
  <2> QED BY <1>1, <2>3, <2>4
<1> QED BY <1>3, <1>4 DEF p

(* Update_Sector copies a sector of the table to where it belongs.         *)
SectorSaved(e, tab, s) ==
  [b \in 0 .. (DiskSize - 1) |-> IF b \div SectorSize = s THEN tab[b] ELSE e[b]]

(* Update_Sector brings one sector of the table to the disk.               *)
LEMMA OneSector ==
  ASSUME NEW e, DOMAIN e = 0 .. (DiskSize - 1), NEW tab, NEW s \in 0 .. (FirstDataSector - 1)
  PROVE  Update_Sector(e, tab, s) = SectorSaved(e, tab, s)
<1> DEFINE S == SectorSize
           data == [i \in 1 .. S |-> tab[s * S + i - 1]]
<1>1. S \in Nat \ {0} /\ DiskSize \in Nat /\ s \in Nat /\ s + 1 <= FirstDataSector
      /\ FirstDataSector \in Nat /\ FirstDataSector <= SectorCount /\ SectorCount \in Nat
  BY InfoAssumption, Geometry
<1>2. OnDisk(s, 1)
  <2>1. S * (s + 1) <= S * SectorCount
    <3>1. s + 1 <= SectorCount /\ s + 1 \in Int /\ SectorCount \in Int
      BY <1>1
    <3> QED BY <1>1, <3>1, Times
  <2>2. S * (s + 1) = (s + 1) * S /\ S * SectorCount = SectorCount * S
    BY <1>1, SMT
  <2> QED BY <2>1, <2>2 DEF OnDisk, DiskSize
<1>3. FirstTableSector + s = s /\ 1 * S - 1 = S - 1
  BY <1>1 DEF FirstTableSector
<1>4. Update_Sector(e, tab, s)
        = [b \in 0 .. (DiskSize - 1) |-> IF b - s * S \in 0 .. (S - 1) THEN data[b - s * S + 1] ELSE e[b]]
  <2>1. Update_Sector(e, tab, s) = Write_Sectors(e, s, 1, data)
    BY <1>3 DEF Update_Sector
  <2> HIDE DEF data
  <2>2. Write_Sectors(e, s, 1, data)
          = [b \in DOMAIN e |-> IF b - s * S \in 0 .. (1 * S - 1) THEN data[b - s * S + 1] ELSE e[b]]
    BY <1>2 DEF Write_Sectors
  <2> QED BY <1>3, <2>1, <2>2
<1>5. ASSUME NEW b \in 0 .. (DiskSize - 1)
      PROVE  (IF b - s * S \in 0 .. (S - 1) THEN data[b - s * S + 1] ELSE e[b])
               = (IF b \div S = s THEN tab[b] ELSE e[b])
  <2>1. b \in Nat /\ (b - s * S \in 0 .. (S - 1) <=> b \div S = s)
    BY <1>1, Quotient
  <2>2. ASSUME b - s * S \in 0 .. (S - 1) PROVE data[b - s * S + 1] = tab[b]
    <3> DEFINE m == s * S
    <3>1. m \in Nat
      BY <1>1, SMT
    <3> HIDE DEF m
    <3>2. b - m + 1 \in 1 .. S /\ m + (b - m + 1) - 1 = b
      BY <1>1, <2>1, <2>2, <3>1 DEF m
    <3>3. data = [i \in 1 .. S |-> tab[m + i - 1]]
      BY DEF m
    <3> HIDE DEF data, S
    <3>4. data[b - m + 1] = tab[m + (b - m + 1) - 1]
      BY <3>2, <3>3
    <3> QED BY <3>2, <3>4 DEF m
  <2> HIDE DEF data
  <2> QED BY <2>1, <2>2
<1> HIDE DEF data
<1> QED BY <1>4, <1>5 DEF SectorSaved

(* Saving the sectors in the bitmap: their bytes become the table's.       *)
LEMMA UpdatedIs ==
  ASSUME NEW d \in Plain, NEW tab, NEW sectors \in SUBSET (0 .. (FirstDataSector - 1))
  PROVE  Updated(d, tab, sectors)
           = [b \in 0 .. (DiskSize - 1) |-> IF b \div SectorSize \in sectors THEN tab[b] ELSE d[b]]
<1> DEFINE n == SectorCount
           S == SectorSize
           Until(k) == [b \in 0 .. (DiskSize - 1) |->
                          IF b \div S \in sectors /\ b \div S < k THEN tab[b] ELSE d[b]]
<1>1. n \in Nat /\ FirstDataSector \in Nat /\ FirstDataSector <= n /\ S \in Nat \ {0} /\ DiskSize \in Nat
  BY InfoAssumption, Geometry
<1>2. PICK g : IsRun(g, Saving(tab, sectors), d, n) /\ Updated(d, tab, sectors) = g[n]
  BY UpdatedRun
<1>3. \A e, k : Step(Saving(tab, sectors), e, k) = IF k - 1 \in sectors THEN Update_Sector(e, tab, k - 1) ELSE e
  BY DEF Step, Saving
<1>4. g[0] = d /\ \A k \in 1 .. n : g[k] = IF k - 1 \in sectors THEN Update_Sector(g[k - 1], tab, k - 1) ELSE g[k - 1]
  BY <1>1, <1>2, <1>3 DEF IsRun
<1> DEFINE T == {k \in Nat : k <= n => g[k] = Until(k)}
<1>5. \A b \in 0 .. (DiskSize - 1) : b \div S \in Nat
  BY <1>1
<1> HIDE DEF Until
<1>6. 0 \in T
  <2>1. d = [b \in 0 .. (DiskSize - 1) |-> d[b]]
    BY DEF Plain
  <2>2. Until(0) = [b \in 0 .. (DiskSize - 1) |-> d[b]]
    BY <1>5 DEF Until
  <2> QED BY <1>4, <2>1, <2>2
<1>7. ASSUME NEW k \in Nat, k \in T PROVE k + 1 \in T
  <2>1. SUFFICES ASSUME k + 1 <= n PROVE g[k + 1] = Until(k + 1)
    OBVIOUS
  <2>2. g[k] = Until(k) /\ DOMAIN g[k] = 0 .. (DiskSize - 1)
    <3>1. g[k] = Until(k)
      BY <1>1, <1>7, <2>1
    <3> QED BY <3>1 DEF Until
  <2>3. g[k + 1] = IF k \in sectors THEN Update_Sector(g[k], tab, k) ELSE g[k]
    <3>1. k + 1 \in 1 .. n /\ (k + 1) - 1 = k
      BY <1>1, <2>1
    <3> QED BY <1>4, <3>1
  <2>4. CASE k \in sectors
    <3>1. g[k + 1] = [b \in 0 .. (DiskSize - 1) |-> IF b \div S = k THEN tab[b] ELSE g[k][b]]
      <4> DEFINE e == g[k]
      <4>1. DOMAIN e = 0 .. (DiskSize - 1) /\ k \in 0 .. (FirstDataSector - 1)
        BY <2>2, <2>4
      <4> HIDE DEF e
      <4>2. Update_Sector(e, tab, k) = SectorSaved(e, tab, k)
        BY <4>1, OneSector
      <4> QED BY <2>3, <2>4, <4>2 DEF e, SectorSaved
    <3>2. ASSUME NEW b \in 0 .. (DiskSize - 1)
          PROVE  (IF b \div S = k THEN tab[b] ELSE g[k][b])
                   = (IF b \div S \in sectors /\ b \div S < k + 1 THEN tab[b] ELSE d[b])
      <4>1. g[k][b] = IF b \div S \in sectors /\ b \div S < k THEN tab[b] ELSE d[b]
        BY <2>2 DEF Until
      <4> QED BY <1>5, <2>4, <4>1
    <3> HIDE DEF S
    <3> QED BY <3>1, <3>2 DEF Until
  <2>5. CASE k \notin sectors
    <3>1. ASSUME NEW b \in 0 .. (DiskSize - 1)
          PROVE  (b \div S \in sectors /\ b \div S < k) <=> (b \div S \in sectors /\ b \div S < k + 1)
      BY <1>5, <2>5
    <3>2. Until(k) = Until(k + 1)
      <4> HIDE DEF S
      <4> QED BY <3>1 DEF Until
    <3> QED BY <2>2, <2>3, <2>5, <3>2
  <2> QED BY <2>4, <2>5
<1>8. g[n] = Until(n)
  <2>1. n \in T
    BY <1>1, <1>6, <1>7, NatInd
  <2> QED BY <1>1, <2>1
<1>9. \A b \in 0 .. (DiskSize - 1) : (b \div S \in sectors /\ b \div S < n) <=> b \div S \in sectors
  <2>1. \A s \in sectors : s < n
    BY <1>1
  <2> QED BY <2>1
<1> HIDE DEF S
<1>10. Until(n) = [b \in 0 .. (DiskSize - 1) |-> IF b \div S \in sectors THEN tab[b] ELSE d[b]]
  BY <1>9 DEF Until
<1> QED BY <1>2, <1>8, <1>10 DEF S

(* An entry lies in sectors of the table, and the bitmap gets all of them. *)
LEMMA SectorsOfEntry ==
  ASSUME NEW p \in Cluster
  PROVE  LET first == Get_First_Bit_Of_Fat_Entry(p)
         IN  /\ Sectors_Of_Entry(p) \subseteq 0 .. (FirstDataSector - 1)
             /\ \A y \in (first \div 8) .. ((first + FatType - 1) \div 8) :
                  y \div SectorSize \in Sectors_Of_Entry(p)
<1> DEFINE f == Get_First_Bit_Of_Fat_Entry(p)
           S == SectorSize
           a == f \div 8
           z == (f + FatType - 1) \div 8
<1>1. f \in Nat /\ f + FatType <= 8 * TableSize /\ FatType \in Nat \ {0} /\ TableSize \in Nat
      /\ S \in Nat \ {0} /\ FirstDataSector \in Nat /\ TableSize = S * FirstDataSector
  BY EntryBits, InfoAssumption, Geometry
<1>2. a \in Nat /\ z \in Nat /\ z <= TableSize - 1 /\ a <= z
  BY <1>1
<1>3. Sectors_Of_Entry(p) = (a \div S) .. (z \div S)
  BY DEF Sectors_Of_Entry, Get_Sector_From_Bit
<1> HIDE DEF a, z
<1>4. a \div S \in Nat /\ z \div S \in Nat
  BY <1>1, <1>2
<1>5. z \div S < FirstDataSector
  <2>1. z % S \in 0 .. (S - 1) /\ z = S * (z \div S) + (z % S)
    BY <1>1, <1>2, Division
  <2>2. ASSUME FirstDataSector <= z \div S PROVE FALSE
    <3>1. S * FirstDataSector <= S * (z \div S)
      BY <1>1, <1>4, <2>2, Times
    <3>2. S * FirstDataSector \in Nat /\ S * (z \div S) \in Nat
      BY <1>1, <1>4, SMT
    <3> QED BY <1>1, <1>2, <2>1, <3>1, <3>2
  <2> QED BY <1>1, <1>4, <2>2
<1>6. ASSUME NEW y \in a .. z PROVE y \div S \in (a \div S) .. (z \div S)
  <2>1. y \in Nat /\ a <= y /\ y <= z
    BY <1>2
  <2>2. a \div S <= y \div S /\ y \div S <= z \div S /\ y \div S \in Nat
    BY <1>1, <1>2, <2>1, DivMono
  <2> QED BY <1>4, <2>2
<1>7. (a \div S) .. (z \div S) \subseteq 0 .. (FirstDataSector - 1)
  BY <1>1, <1>4, <1>5
<1> QED BY <1>3, <1>6, <1>7 DEF a, z

(* Each of the bytes in which entries lie is a byte of one of them.        *)
LEMMA EntryOfByte ==
  ASSUME NEW y \in EntryBytes, Get_Cluster_Count # 0
  PROVE  /\ y \in 0 .. (TableSize - 1)
         /\ \E c \in Cluster : y \in (Get_First_Bit_Of_Fat_Entry(c) \div 8)
                                 .. ((Get_First_Bit_Of_Fat_Entry(c) + FatType - 1) \div 8)
<1> DEFINE K == Get_Cluster_Count
           F == FatType
           b == 8 * y
           c == b \div F
<1>1. K \in Nat \ {0} /\ F \in Nat \ {0} /\ TableSize \in Nat
  BY InfoAssumption, Geometry, SMT
<1>2. K * F \in Nat \ {0} /\ K * F <= 8 * TableSize
  BY <1>1, TableHasRoom, SMT
<1>3. y \in 0 .. ((K * F - 1) \div 8)
  BY DEF EntryBytes
<1> HIDE DEF K, F
<1>4. b \in Nat /\ b < K * F /\ y \in 0 .. (TableSize - 1)
  <2> DEFINE N == K * F
  <2> HIDE DEF N
  <2>1. N \in Nat \ {0} /\ N <= 8 * TableSize /\ y \in 0 .. ((N - 1) \div 8)
    BY <1>2, <1>3 DEF N
  <2>2. y \in Nat /\ 8 * y <= N - 1 /\ 8 * y <= 8 * TableSize - 1
    BY <1>1, <2>1
  <2> QED BY <1>1, <2>1, <2>2 DEF N
<1> HIDE DEF b
<1>5. c \in Nat /\ b % F \in 0 .. (F - 1) /\ b = F * c + (b % F)
  BY <1>1, <1>4, Division
<1> HIDE DEF c
<1>6. F * c \in Nat /\ c * F = F * c /\ F * K = K * F
  BY <1>1, <1>5, SMT
<1>7. c < K
  <2>1. ASSUME K <= c PROVE FALSE
    <3>1. F * K <= F * c
      BY <1>1, <1>5, <2>1, Times
    <3> QED BY <1>1, <1>2, <1>4, <1>5, <1>6, <3>1
  <2> QED BY <1>1, <1>5, <2>1
<1>8. c \in Cluster
  BY <1>1, <1>5, <1>7 DEF Cluster, K
<1>9. y \in ((c * F) \div 8) .. ((c * F + F - 1) \div 8)
  <2> DEFINE m == c * F
  <2> HIDE DEF m
  <2>1. m \in Nat /\ m <= 8 * y /\ 8 * y <= m + F - 1 /\ y \in Nat
    BY <1>1, <1>4, <1>5, <1>6 DEF m, b
  <2>2. y \in (m \div 8) .. ((m + F - 1) \div 8)
    BY <1>1, <2>1
  <2> QED BY <2>2 DEF m
<1> QED BY <1>4, <1>8, <1>9 DEF Get_First_Bit_Of_Fat_Entry, F

-----------------------------------------------------------------------------
(* Sectors of the file.                                                    *)

FileSectors == ChainLength * SectorsPerCluster
SectorNo(ch, k) == FirstSectorOf(ch[k \div SectorsPerCluster + 1]) + (k % SectorsPerCluster)
OfFile == [1 .. ChainLength -> Cluster]

(* A chain is an injective sequence of clusters.                           *)
LEMMA ChainType ==
  ASSUME NEW ch \in Chains
  PROVE  ch \in OfFile /\ \A i, j \in 1 .. ChainLength : ch[i] = ch[j] => i = j
BY DiskAssumption DEF OfFile, IsInjective

(* The sizes of the disk, the table and the file, in sectors.              *)
LEMMA Sizes ==
  /\ SectorSize \in Nat \ {0} /\ SectorsPerCluster \in Nat \ {0} /\ SectorCount \in Nat \ {0}
  /\ ChainLength \in Nat \ {0} /\ FileSectors \in Nat \ {0} /\ FirstDataSector \in Nat
  /\ DiskSize = SectorSize * SectorCount /\ TableSize = SectorSize * FirstDataSector
  /\ Capacity \in Nat \ {0} /\ Capacity = SectorSize * FileSectors /\ Get_Cluster_Count \in Nat
  /\ DiskSize \in Nat /\ TableSize \in Nat /\ FirstDataSector <= SectorCount /\ TableSize <= DiskSize
<1> DEFINE S == SectorSize
           P == SectorsPerCluster
           N == SectorCount
           L == ChainLength
           q == FirstDataSector
<1>1. S \in Nat \ {0} /\ P \in Nat \ {0} /\ N \in Nat \ {0} /\ L \in Nat \ {0}
  BY InfoAssumption, DiskAssumption
<1>2. q \in Nat /\ TableSize = S * q /\ q <= N /\ Get_Cluster_Count \in Nat
  BY Geometry
<1>3. DiskSize = N * S /\ FileSectors = L * P /\ Capacity = L * (P * S)
  BY DEF DiskSize, FileSectors, Capacity, ClusterSize
<1> HIDE DEF S, P, N, L, q
<1>4. N * S = S * N /\ L * P \in Nat \ {0} /\ L * (P * S) = S * (L * P) /\ S * (L * P) \in Nat \ {0}
      /\ S * N \in Nat /\ S * q \in Nat
  BY <1>1, <1>2, SMT
<1>5. S * q <= S * N
  BY <1>1, <1>2, Times
<1> QED BY <1>1, <1>2, <1>3, <1>4, <1>5 DEF S, P, N, L, q

(* The cluster of the file a sector of the file is in.                     *)
LEMMA ClusterOfSector ==
  ASSUME NEW k \in 0 .. (FileSectors - 1)
  PROVE  /\ k \in Nat /\ k \div SectorsPerCluster \in Nat
         /\ k \div SectorsPerCluster + 1 \in 1 .. ChainLength
         /\ k % SectorsPerCluster \in 0 .. (SectorsPerCluster - 1)
         /\ k = SectorsPerCluster * (k \div SectorsPerCluster) + (k % SectorsPerCluster)
<1> DEFINE P == SectorsPerCluster
           L == ChainLength
           c == k \div P
           d == k % P
<1>1. P \in Nat \ {0} /\ L \in Nat \ {0} /\ k \in Nat /\ k < L * P /\ L * P \in Nat
  BY Sizes DEF FileSectors
<1>2. c \in Nat /\ d \in 0 .. (P - 1) /\ k = P * c + d
  BY <1>1, Division
<1>3. c < L
  <2> HIDE DEF P, L, c, d
  <2>1. ASSUME L <= c PROVE FALSE
    <3>1. P * L <= P * c
      BY <1>1, <1>2, <2>1, Times
    <3>2. P * L = L * P /\ P * c \in Nat
      BY <1>1, <1>2, SMT
    <3> QED BY <1>1, <1>2, <3>1, <3>2
  <2> QED BY <1>1, <1>2, <2>1
<1> QED BY <1>1, <1>2, <1>3

(* And where that cluster begins on the disk.                              *)
LEMMA ClusterInFile ==
  ASSUME NEW ch \in OfFile, NEW k \in 0 .. (FileSectors - 1)
  PROVE  LET c == ch[k \div SectorsPerCluster + 1]
             d == k % SectorsPerCluster
         IN  /\ c \in Cluster /\ c \in Nat /\ d \in 0 .. (SectorsPerCluster - 1)
             /\ c * SectorsPerCluster \in Nat
             /\ SectorNo(ch, k) = FirstSectorOf(c) + d
             /\ FirstSectorOf(c) = FirstDataSector + c * SectorsPerCluster
<1> DEFINE i == k \div SectorsPerCluster + 1
           d == k % SectorsPerCluster
<1>1. i \in 1 .. ChainLength /\ d \in 0 .. (SectorsPerCluster - 1)
  BY ClusterOfSector
<1>2. SectorNo(ch, k) = FirstSectorOf(ch[i]) + d
  BY DEF SectorNo
<1> HIDE DEF i, d
<1>3. ch[i] \in Cluster
  BY <1>1 DEF OfFile
<1>4. ch[i] \in Nat
  BY <1>3, Sizes DEF Cluster
<1>5. ch[i] * SectorsPerCluster \in Nat
  BY <1>4, Sizes, SMT
<1> QED BY <1>1, <1>2, <1>3, <1>4, <1>5 DEF i, d, FirstSectorOf

(* They are on the disk, behind the table.                                 *)
LEMMA SectorIsThere ==
  ASSUME NEW ch \in OfFile, NEW k \in 0 .. (FileSectors - 1)
  PROVE  /\ SectorNo(ch, k) \in Nat
         /\ FirstDataSector <= SectorNo(ch, k)
         /\ SectorNo(ch, k) + 1 <= SectorCount
<1> DEFINE S == SectorSize
           P == SectorsPerCluster
           N == SectorCount
           q == FirstDataSector
           c == ch[k \div P + 1]
           f == FirstSectorOf(c)
           d == k % P
<1>1. S \in Nat \ {0} /\ P \in Nat \ {0} /\ N \in Nat \ {0} /\ q \in Nat
      /\ DiskSize = S * N /\ TableSize = S * q
  BY Sizes
<1>2. c \in Cluster /\ c \in Nat /\ d \in 0 .. (P - 1) /\ SectorNo(ch, k) = f + d
  BY ClusterInFile
<1>3. f = q + c * P /\ c * P \in Nat
  BY ClusterInFile
<1>4. (f + P) * S <= S * N
  BY <1>1, <1>2, ClustersAreOnDisk DEF Cluster
<1> HIDE DEF S, P, N, q, c, f, d
<1>5. f + P <= N
  <2>1. (f + P) * S = S * (f + P) /\ f + P \in Int
    BY <1>1, <1>3, SMT
  <2> QED BY <1>1, <1>4, <2>1, Times
<1>6. f + d \in Nat /\ q <= f + d /\ f + d + 1 <= N
  BY <1>1, <1>2, <1>3, <1>5
<1> QED BY <1>2, <1>6 DEF q, N

(* Each is at one place of the file only.                                  *)
LEMMA SectorsDiffer ==
  ASSUME NEW ch \in Chains, NEW j \in 0 .. (FileSectors - 1), NEW k \in 0 .. (FileSectors - 1),
         SectorNo(ch, j) = SectorNo(ch, k)
  PROVE  j = k
<1> DEFINE P == SectorsPerCluster
           cj == ch[j \div P + 1]
           ck == ch[k \div P + 1]
           dj == j % P
           dk == k % P
<1>1. P \in Nat \ {0} /\ FirstDataSector \in Nat /\ ch \in OfFile
  BY Sizes, ChainType
<1>2. cj \in Nat /\ dj \in 0 .. (P - 1) /\ SectorNo(ch, j) = FirstDataSector + cj * P + dj
  BY <1>1, ClusterInFile
<1>3. ck \in Nat /\ dk \in 0 .. (P - 1) /\ SectorNo(ch, k) = FirstDataSector + ck * P + dk
  BY <1>1, ClusterInFile
<1> HIDE DEF cj, ck, dj, dk
<1>4. cj * P \in Nat /\ ck * P \in Nat
  BY <1>1, <1>2, <1>3, SMT
<1>5. cj * P + dj = ck * P + dk
  <2>1. \A q, a, b, x, y \in Nat : q + a + x = q + b + y => a + x = b + y
    OBVIOUS
  <2>2. dj \in Nat /\ dk \in Nat
    BY <1>1, <1>2, <1>3
  <2>3. FirstDataSector + cj * P + dj = FirstDataSector + ck * P + dk
    BY <1>2, <1>3
  <2> QED BY ONLY <1>1, <1>4, <2>1, <2>2, <2>3
<1>6. cj = ck /\ dj = dk
  <2> DEFINE m == cj * P + dj
  <2>1. m \in Nat /\ m - cj * P \in 0 .. (P - 1) /\ m - ck * P \in 0 .. (P - 1)
    BY <1>1, <1>2, <1>3, <1>4, <1>5
  <2> HIDE DEF m
  <2>2. m \div P = cj /\ m \div P = ck
    BY <1>1, <1>2, <1>3, <2>1, Quotient
  <2> QED BY <1>2, <1>3, <1>4, <1>5, <2>2
<1>7. j \div P = k \div P
  <2>1. j \div P + 1 \in 1 .. ChainLength /\ k \div P + 1 \in 1 .. ChainLength
        /\ j \div P \in Nat /\ k \div P \in Nat
    BY ClusterOfSector
  <2>2. j \div P + 1 = k \div P + 1
    BY <1>6, <2>1, ChainType DEF cj, ck
  <2> QED BY <2>1, <2>2
<1>8. j = P * (j \div P) + dj /\ k = P * (k \div P) + dk
  BY ClusterOfSector DEF dj, dk
<1> QED BY <1>6, <1>7, <1>8

(* The next sector of the file is the next of the disk, except after the   *)
(* end of a cluster that is not followed by its neighbour.                 *)
LEMMA NextSector ==
  ASSUME NEW ch \in OfFile, NEW k \in Nat, k + 1 \in 0 .. (FileSectors - 1),
         \A i \in 1 .. (ChainLength - 1) :
           ch[i + 1] # ch[i] + 1 => i * ClusterSize # (k + 1) * SectorSize
  PROVE  SectorNo(ch, k + 1) = SectorNo(ch, k) + 1
<1> DEFINE P == SectorsPerCluster
           S == SectorSize
           c == k \div P
           d == k % P
<1>1. P \in Nat \ {0} /\ S \in Nat \ {0} /\ k \in 0 .. (FileSectors - 1) /\ FirstDataSector \in Nat
  BY Sizes
<1>2. c \in Nat /\ d \in 0 .. (P - 1) /\ k = P * c + d /\ c + 1 \in 1 .. ChainLength
  BY <1>1, ClusterOfSector
<1>3. ch[c + 1] \in Nat
  BY <1>2, Sizes DEF OfFile, Cluster
<1>4. c * P = P * c /\ P * c \in Nat /\ (c + 1) * P = P * c + P /\ ch[c + 1] * P \in Nat
  BY <1>1, <1>2, <1>3, SMT
<1> HIDE DEF c, d
<1>5. CASE d + 1 < P
  <2>1. (k + 1) - c * P \in 0 .. (P - 1) /\ (k + 1) - c * P = d + 1 /\ k + 1 \in Nat
    BY <1>1, <1>2, <1>4, <1>5
  <2>2. (k + 1) \div P = c
    <3> DEFINE m == k + 1
    <3>1. m \in Nat /\ m - c * P \in 0 .. (P - 1)
      BY <2>1
    <3> HIDE DEF m
    <3>2. m \div P = c
      BY <1>1, <1>2, <3>1, Quotient
    <3> QED BY <3>2 DEF m
  <2>3. (k + 1) % P = d + 1
    <3>1. k + 1 = P * ((k + 1) \div P) + ((k + 1) % P) /\ (k + 1) % P \in 0 .. (P - 1)
      BY <1>1, <2>1, Division
    <3> QED BY <1>1, <1>2, <1>4, <2>1, <2>2, <3>1
  <2>4. SectorNo(ch, k + 1) = FirstSectorOf(ch[c + 1]) + (d + 1)
    BY <2>2, <2>3 DEF SectorNo
  <2>5. SectorNo(ch, k) = FirstSectorOf(ch[c + 1]) + d
    BY DEF SectorNo, c, d
  <2>6. FirstSectorOf(ch[c + 1]) \in Nat
    BY <1>1, <1>4 DEF FirstSectorOf
  <2> QED BY <1>2, <2>4, <2>5, <2>6
<1>6. CASE d + 1 = P
  <2>1. k + 1 = (c + 1) * P /\ k + 1 \in Nat /\ c + 1 \in Nat
    BY <1>1, <1>2, <1>4, <1>6
  <2>2. (k + 1) \div P = c + 1 /\ (k + 1) % P = 0
    <3>1. (k + 1) - (c + 1) * P \in 0 .. (P - 1)
      BY <1>1, <1>4, <2>1
    <3>2. (k + 1) \div P = c + 1
      BY <1>1, <2>1, <3>1, Quotient
    <3>3. k + 1 = P * ((k + 1) \div P) + ((k + 1) % P) /\ (k + 1) % P \in 0 .. (P - 1)
      BY <1>1, <2>1, Division
    <3>4. P * (c + 1) = (c + 1) * P
      BY <1>1, <2>1, SMT
    <3> QED BY <1>1, <1>4, <2>1, <3>2, <3>3, <3>4
  <2>3. (k + 1) \div P + 1 \in 1 .. ChainLength
    BY ClusterOfSector
  <2>4. c + 1 \in 1 .. (ChainLength - 1)
    BY <1>2, <2>2, <2>3, Sizes
  <2>5. (c + 1) * ClusterSize = (k + 1) * S
    <3>1. (c + 1) * (P * S) = ((c + 1) * P) * S
      BY <1>1, <2>1, SMT
    <3> QED BY <2>1, <3>1 DEF ClusterSize
  <2>6. ch[c + 1 + 1] = ch[c + 1] + 1
    BY <2>4, <2>5
  <2>7. SectorNo(ch, k + 1) = FirstSectorOf(ch[c + 1 + 1]) + 0
    BY <2>2 DEF SectorNo
  <2>8. SectorNo(ch, k) = FirstSectorOf(ch[c + 1]) + d
    BY DEF SectorNo, c, d
  <2>9. (ch[c + 1] + 1) * P = ch[c + 1] * P + P
    BY <1>1, <1>3, SMT
  <2>10. /\ FirstSectorOf(ch[c + 1]) = FirstDataSector + ch[c + 1] * P
         /\ FirstSectorOf(ch[c + 1] + 1) = FirstDataSector + (ch[c + 1] + 1) * P
    BY DEF FirstSectorOf
  <2>11. \A q, x \in Nat : q + (x + P) + 0 = q + x + d + 1
    BY <1>1, <1>2, <1>6
  <2> HIDE DEF P
  <2>12. SectorNo(ch, k + 1) = FirstDataSector + (ch[c + 1] * P + P) + 0
    BY <2>6, <2>7, <2>9, <2>10
  <2>13. SectorNo(ch, k) + 1 = FirstDataSector + ch[c + 1] * P + d + 1
    BY <2>8, <2>10
  <2> QED BY <1>1, <1>4, <2>11, <2>12, <2>13
<1> QED BY <1>1, <1>2, <1>5, <1>6

(* A byte of the file is in the sector that its position says.             *)
AddressIn(ch, p) == SectorNo(ch, p \div SectorSize) * SectorSize + (p % SectorSize)

(* A position in the file is in a sector of the file.                      *)
LEMMA PositionInFile ==
  ASSUME NEW p \in 0 .. (Capacity - 1)
  PROVE  /\ p \in Nat /\ p \div SectorSize \in 0 .. (FileSectors - 1)
         /\ p % SectorSize \in 0 .. (SectorSize - 1)
         /\ p = SectorSize * (p \div SectorSize) + (p % SectorSize)
<1> DEFINE S == SectorSize
           M == FileSectors
           k == p \div S
           r == p % S
<1>1. S \in Nat \ {0} /\ M \in Nat \ {0} /\ p \in Nat /\ p < S * M /\ S * M \in Nat
  BY Sizes
<1>2. k \in Nat /\ r \in 0 .. (S - 1) /\ p = S * k + r
  BY <1>1, Division
<1>3. k < M
  <2> HIDE DEF S, M, k, r
  <2>1. ASSUME M <= k PROVE FALSE
    <3>1. S * M <= S * k
      BY <1>1, <1>2, <2>1, Times
    <3>2. S * k \in Nat
      BY <1>1, <1>2, SMT
    <3> QED BY <1>1, <1>2, <3>1, <3>2
  <2> QED BY <1>1, <1>2, <2>1
<1> QED BY <1>1, <1>2, <1>3

(* The address of the position is the one the model's AddressOf gives.     *)
LEMMA AddressOfPosition ==
  ASSUME NEW p \in 0 .. (Capacity - 1), chain \in OfFile
  PROVE  AddressOf(p + 1) = AddressIn(chain, p)
<1> DEFINE S == SectorSize
           P == SectorsPerCluster
           k == p \div S
           r == p % S
           c == k \div P
           d == k % P
           e == chain[c + 1]
<1>1. S \in Nat \ {0} /\ P \in Nat \ {0} /\ FirstDataSector \in Nat
  BY Sizes
<1>2. p \in Nat /\ k \in 0 .. (FileSectors - 1) /\ r \in 0 .. (S - 1) /\ p = S * k + r
  BY PositionInFile
<1> HIDE DEF k, r
<1>3. k \in Nat /\ c \in Nat /\ d \in 0 .. (P - 1) /\ k = P * c + d /\ c + 1 \in 1 .. ChainLength
  BY <1>2, ClusterOfSector
<1> HIDE DEF c, d
<1>4. e \in Nat
  BY <1>3, Sizes DEF OfFile, Cluster
<1> HIDE DEF e
<1>5. ClusterSize = P * S /\ P * S \in Nat \ {0}
  BY <1>1, SMT DEF ClusterSize
<1>6. p \div ClusterSize = c /\ p % ClusterSize = S * d + r
  <2> DEFINE C == P * S
             m == S * d + r
  <2>1. p = c * C + m
    <3>1. S * (P * c + d) = c * (P * S) + S * d
      BY <1>1, <1>3, SMT
    <3>2. c * (P * S) \in Nat /\ S * d \in Nat
      BY <1>1, <1>3, <1>5, SMT
    <3> QED BY <1>2, <1>3, <3>1, <3>2
  <2>2. m \in 0 .. (C - 1)
    <3>1. S * (d + 1) <= S * P
      <4>1. d + 1 <= P
        BY <1>1, <1>3
      <4> QED BY <1>1, <1>3, <4>1, Times
    <3>2. S * (d + 1) = S * d + S /\ S * P = P * S /\ S * d \in Nat
      BY <1>1, <1>3, SMT
    <3> QED BY <1>1, <1>2, <1>5, <3>1, <3>2
  <2> HIDE DEF C, m
  <2>3. C \in Nat \ {0} /\ c * C \in Nat /\ C = ClusterSize
    BY <1>3, <1>5, SMT DEF C
  <2>4. p - c * C \in 0 .. (C - 1)
    BY <2>1, <2>2, <2>3
  <2>5. p \div C = c
    BY <1>2, <1>3, <2>3, <2>4, Quotient
  <2>6. p % C \in 0 .. (C - 1) /\ p = C * c + (p % C) /\ C * c = c * C
    <3>1. C * c = c * C
      BY <1>3, <2>3, SMT
    <3> QED BY <1>2, <2>3, <2>5, <3>1, Division
  <2>7. p % C = m
    BY <2>1, <2>2, <2>3, <2>6
  <2> QED BY <2>3, <2>5, <2>7 DEF m
<1>7. AddressOf(p + 1) = (FirstDataSector * S) + e * (P * S) + (S * d + r)
  BY <1>2, <1>5, <1>6 DEF AddressOf, e
<1>8. AddressIn(chain, p) = (FirstDataSector + e * P + d) * S + r
  BY DEF AddressIn, SectorNo, FirstSectorOf, k, r, c, d, e
<1>9. (FirstDataSector + e * P + d) * S = (FirstDataSector * S) + e * (P * S) + S * d
  <2> DEFINE q == FirstDataSector
  <2> HIDE DEF q, P, S
  <2>0. q \in Nat /\ P \in Nat /\ S \in Nat /\ e \in Nat /\ d \in Nat
    BY <1>1, <1>3, <1>4 DEF q
  <2>1. (q + e * P + d) * S = q * S + (e * P) * S + d * S
    BY <2>0, SMT
  <2>2. (e * P) * S = e * (P * S) /\ d * S = S * d
    BY <2>0, SMT
  <2> QED BY <2>1, <2>2 DEF q
<1>10. FirstDataSector * S \in Nat /\ e * (P * S) \in Nat /\ S * d \in Nat
  BY <1>1, <1>3, <1>4, <1>5, SMT
<1> QED BY <1>2, <1>7, <1>8, <1>9, <1>10

-----------------------------------------------------------------------------
(* Ranges, runs of sectors and tasks.                                      *)

(* Convert_Position_To_Sector_Index stays in the file.                     *)
LEMMA IndexOfPosition ==
  ASSUME NEW p \in 0 .. Capacity
  PROVE  Convert_Position_To_Sector_Index(p) \in 0 .. (FileSectors - 1)
<1>1. CASE p = 0
  BY <1>1, Sizes DEF Convert_Position_To_Sector_Index
<1>2. CASE p # 0
  <2>1. p - 1 \in 0 .. (Capacity - 1)
    BY <1>2, Sizes
  <2>2. (p - 1) \div SectorSize \in 0 .. (FileSectors - 1)
    BY <2>1, PositionInFile
  <2> QED BY <1>2, <2>2 DEF Convert_Position_To_Sector_Index
<1> QED BY <1>1, <1>2

(* A later position is in the same sector or in a later one.               *)
LEMMA IndexMono ==
  ASSUME NEW p \in 0 .. Capacity, NEW r \in 0 .. Capacity, p <= r
  PROVE  Convert_Position_To_Sector_Index(p) <= Convert_Position_To_Sector_Index(r)
<1>1. CASE p = 0
  <2>1. Convert_Position_To_Sector_Index(r) \in Nat /\ Convert_Position_To_Sector_Index(p) = 0
    BY <1>1, Sizes, IndexOfPosition DEF Convert_Position_To_Sector_Index
  <2> QED BY <2>1
<1>2. CASE p # 0
  <2>1. p - 1 \in Nat /\ r - 1 \in Nat /\ p - 1 <= r - 1 /\ r # 0
    BY <1>2, Sizes
  <2>2. (p - 1) \div SectorSize <= (r - 1) \div SectorSize
    BY <2>1, Sizes, DivMono
  <2> QED BY <1>2, <2>1, <2>2 DEF Convert_Position_To_Sector_Index
<1> QED BY <1>1, <1>2

(* Get_Affected_Sectors: neighbours in the file.                           *)
LEMMA AffectedSectors ==
  ASSUME NEW ch \in OfFile, NEW start \in 0 .. (Capacity - 1), NEW h \in Nat, start + h <= Capacity
  PROVE  LET q == Get_Affected_Sectors(ch, start, h)
             a == Convert_Position_To_Sector_Index(start)
             z == Convert_Position_To_Sector_Index(start + h)
         IN  /\ q \in Seq(Nat) /\ Len(q) = z - a + 1 /\ Len(q) \in Nat \ {0}
             /\ a \in Nat /\ z \in a .. (FileSectors - 1)
             /\ \A j \in 1 .. Len(q) : q[j] = SectorNo(ch, a + (j - 1))
<1> DEFINE q == Get_Affected_Sectors(ch, start, h)
           a == Convert_Position_To_Sector_Index(start)
           z == Convert_Position_To_Sector_Index(start + h)
           all == [i \in 1 .. FileSectors |-> SectorNo(ch, i - 1)]
<1>1. a \in 0 .. (FileSectors - 1) /\ z \in 0 .. (FileSectors - 1) /\ a <= z /\ FileSectors \in Nat
  <2>1. start \in 0 .. Capacity /\ start + h \in 0 .. Capacity /\ start <= start + h
    BY Sizes
  <2> QED BY <2>1, IndexOfPosition, IndexMono, Sizes
<1>2. q = SubSeq(all, a + 1, z + 1)
  <2>1. Len(ch) = ChainLength
    BY Sizes DEF OfFile
  <2>2. Convert_Clusters_To_Sectors(ch) = all
    BY <2>1 DEF Convert_Clusters_To_Sectors, FileSectors, SectorNo
  <2> QED BY <2>2 DEF Get_Affected_Sectors
<1> HIDE DEF q, a, z
<1>3. all \in Seq(Nat) /\ Len(all) = FileSectors
  <2>1. \A i \in 1 .. FileSectors : SectorNo(ch, i - 1) \in Nat
    <3>1. TAKE i \in 1 .. FileSectors
    <3>2. i - 1 \in 0 .. (FileSectors - 1)
      BY <1>1
    <3> QED BY <3>2, SectorIsThere
  <2> QED BY <1>1, <2>1
<1>4. \A i \in 1 .. FileSectors : all[i] = SectorNo(ch, i - 1)
  OBVIOUS
<1> HIDE DEF all
<1>5. q = [i \in 1 .. (z - a + 1) |-> all[a + i]]
  <2>1. SubSeq(all, a + 1, z + 1) = [i \in 1 .. (1 + (z + 1) - (a + 1)) |-> all[i + (a + 1) - 1]]
    BY <1>1, <1>3
  <2>2. 1 + (z + 1) - (a + 1) = z - a + 1 /\ \A i \in 1 .. (z - a + 1) : i + (a + 1) - 1 = a + i
    BY <1>1
  <2> QED BY <1>2, <2>1, <2>2
<1>6. \A i \in 1 .. (z - a + 1) : a + i \in 1 .. FileSectors /\ (a + i) - 1 = a + (i - 1)
  BY <1>1
<1>7. z - a + 1 \in Nat \ {0}
  BY <1>1
<1>8. \A i \in 1 .. (z - a + 1) : all[a + i] \in Nat
  BY <1>3, <1>6
<1>9. q \in Seq(Nat) /\ Len(q) = z - a + 1
  BY <1>5, <1>7, <1>8
<1>10. \A j \in 1 .. (z - a + 1) : q[j] = SectorNo(ch, a + (j - 1))
  BY <1>4, <1>5, <1>6
<1>11. a \in Nat /\ z \in a .. (FileSectors - 1)
  BY <1>1
<1> QED BY <1>7, <1>9, <1>10, <1>11 DEF q, a, z

(* A run goes on until the next sector is not a neighbour.                 *)
Ends(q, j, n) == j + n < Len(q) => q[j + n + 1] # q[j + n] + 1

(* ConsecutiveFrom finds the whole run of neighbours.                      *)
LEMMA Consecutive ==
  ASSUME NEW q \in Seq(Nat), NEW j \in 0 .. (Len(q) - 1)
  PROVE  LET n == ConsecutiveFrom(q, j)
         IN  /\ n \in 1 .. (Len(q) - j)
             /\ Ends(q, j, n)
             /\ \A i \in 1 .. n : q[j + i] = q[j + 1] + (i - 1)
<1> DEFINE L == Len(q)
           Stops == {n \in 1 .. (L - j) : Ends(q, j, n)}
           Good(n) == /\ \A i \in 2 .. n : q[j + i] = q[j + i - 1] + 1
                      /\ j + n < L => q[j + n + 1] # q[j + n] + 1
           n == ConsecutiveFrom(q, j)
<1>1. L \in Nat /\ j \in Nat /\ j < L
  OBVIOUS
<1>2. Stops # {}
  <2>1. L - j \in 1 .. (L - j) /\ ~(j + (L - j) < L)
    BY <1>1
  <2>2. L - j \in Stops
    BY <2>1 DEF Ends
  <2> QED BY <2>2
<1>3. PICK m \in Stops : \A k \in Stops : m <= k
  <2>1. Stops \subseteq Nat
    BY <1>1
  <2> QED BY <1>2, <2>1, Least
<1>4. m \in 1 .. (L - j) /\ Good(m)
  <2>1. m \in 1 .. (L - j) /\ Ends(q, j, m)
    OBVIOUS
  <2>2. ASSUME NEW i \in 2 .. m PROVE q[j + i] = q[j + i - 1] + 1
    <3>1. i - 1 \in 1 .. (L - j) /\ ~(m <= i - 1)
      BY <1>1, <2>1
    <3>2. ~Ends(q, j, i - 1)
      BY <1>3, <3>1
    <3>3. q[j + (i - 1) + 1] = q[j + (i - 1)] + 1
      BY <3>2 DEF Ends
    <3>4. j + (i - 1) + 1 = j + i /\ j + (i - 1) = j + i - 1
      BY <1>1, <2>1
    <3> QED BY <3>3, <3>4
  <2> QED BY <2>1, <2>2 DEF Ends
<1>5. n = CHOOSE k \in 1 .. (L - j) : Good(k)
  BY DEF ConsecutiveFrom
<1> HIDE DEF Good, Stops, n
<1>6. n \in 1 .. (L - j) /\ Good(n)
  BY <1>4, <1>5
<1>7. Ends(q, j, n)
  BY <1>6 DEF Good, Ends
<1> DEFINE T == {i \in Nat : i + 1 <= n => q[j + (i + 1)] = q[j + 1] + i}
<1>8. 0 \in T
  <2>1. q[j + 1] \in Nat /\ 0 + 1 = 1
    BY <1>1
  <2> QED BY <2>1
<1>9. ASSUME NEW i \in Nat, i \in T PROVE i + 1 \in T
  <2>1. SUFFICES ASSUME (i + 1) + 1 <= n PROVE q[j + ((i + 1) + 1)] = q[j + 1] + (i + 1)
    OBVIOUS
  <2>2. (i + 1) + 1 \in 2 .. n /\ i + 1 <= n /\ j + ((i + 1) + 1) - 1 = j + (i + 1)
    BY <1>1, <1>6, <2>1
  <2>3. q[j + ((i + 1) + 1)] = q[j + ((i + 1) + 1) - 1] + 1
    BY <1>6, <2>2 DEF Good
  <2>4. q[j + (i + 1)] = q[j + 1] + i
    BY <1>9, <2>2
  <2>5. q[j + 1] \in Nat
    BY <1>1
  <2>6. q[j + ((i + 1) + 1)] = q[j + (i + 1)] + 1
    BY ONLY <2>2, <2>3
  <2>7. q[j + ((i + 1) + 1)] = (q[j + 1] + i) + 1
    BY ONLY <2>4, <2>6
  <2>8. \A x \in Nat : (x + i) + 1 = x + (i + 1)
    OBVIOUS
  <2> QED BY ONLY <2>5, <2>7, <2>8
<1>10. ASSUME NEW i \in 1 .. n PROVE q[j + i] = q[j + 1] + (i - 1)
  <2>1. i - 1 \in Nat /\ (i - 1) + 1 = i /\ (i - 1) + 1 <= n
    BY <1>6
  <2>2. i - 1 \in T
    BY <1>8, <1>9, <2>1, NatInd
  <2> QED BY <2>1, <2>2
<1> QED BY <1>6, <1>7, <1>10 DEF n

(* Sectors of the file, from its k-th on, that are neighbours on the disk. *)
SectorRun(ch, k, first, count) ==
  /\ k \in Nat /\ count \in Nat \ {0} /\ k + count <= FileSectors
  /\ \A i \in 0 .. (count - 1) : SectorNo(ch, k + i) = first + i

(* The tasks that move at most h bytes to or from sectors of the file.     *)
FileTasks(ch, h) ==
  {t \in [first : Nat, count : Nat, start : Nat, from : Nat, bytes : Nat] :
     t.from + t.bytes <= h /\ \E k \in Nat : SectorRun(ch, k, t.first, t.count)}

(* A part of the file's sectors, from the one after the a-th on.           *)
IsRange(ch, q, a) ==
  /\ q \in Seq(Nat) /\ Len(q) \in Nat \ {0} /\ a \in Nat /\ a + Len(q) <= FileSectors
  /\ \A j \in 1 .. Len(q) : q[j] = SectorNo(ch, a + (j - 1))

(* Make_Task makes a task of the file that moves at most what is left.     *)
LEMMA MadeTask ==
  ASSUME NEW ch \in OfFile, NEW q, NEW a, IsRange(ch, q, a),
         NEW s \in Nat, NEW h \in Nat, NEW j \in 0 .. (Len(q) - 1), NEW done \in 0 .. h
  PROVE  Make_Task(q, s, h, j, done) \in FileTasks(ch, h)
<1> DEFINE n == ConsecutiveFrom(q, j)
           p == Calculate_Position(s, j)
           b == Calculate_How_Many(p, n, h - done)
           t == Make_Task(q, s, h, j, done)
<1>1. q \in Seq(Nat) /\ Len(q) \in Nat \ {0} /\ a \in Nat /\ a + Len(q) <= FileSectors /\ FileSectors \in Nat
      /\ j \in Nat /\ j + 1 \in 1 .. Len(q) /\ SectorSize \in Nat \ {0}
  BY Sizes DEF IsRange
<1>2. n \in 1 .. (Len(q) - j) /\ \A i \in 1 .. n : q[j + i] = q[j + 1] + (i - 1)
  BY <1>1, Consecutive
<1>3. p \in Nat
  BY <1>1, SMT DEF Calculate_Position
<1>4. t = [first |-> q[j + 1], count |-> n, start |-> p, from |-> done, bytes |-> b]
  BY DEF Make_Task
<1>5. n * SectorSize \in Nat /\ n \in Nat \ {0}
  BY <1>1, <1>2, SMT
<1> HIDE DEF n, p
<1>6. b \in Nat /\ b <= h - done
  <2> DEFINE x == n * SectorSize
  <2> HIDE DEF x
  <2>1. x \in Nat /\ b = IF 0 <= x - p /\ x - p < h - done THEN x - p ELSE h - done
    BY <1>5 DEF x, Calculate_How_Many
  <2> HIDE DEF b
  <2> QED BY <1>3, <2>1
<1> HIDE DEF b
<1>7. q[j + 1] \in Nat
  BY <1>1
<1>8. SectorRun(ch, a + j, q[j + 1], n)
  <2>1. a + j \in Nat /\ (a + j) + n <= FileSectors
    BY <1>1, <1>2
  <2>2. ASSUME NEW i \in 0 .. (n - 1) PROVE SectorNo(ch, (a + j) + i) = q[j + 1] + i
    <3>1. i + 1 \in 1 .. n /\ (i + 1) - 1 = i /\ j + (i + 1) \in 1 .. Len(q)
          /\ a + ((j + (i + 1)) - 1) = (a + j) + i
      BY <1>1, <1>2, <1>5
    <3>2. q[j + (i + 1)] = q[j + 1] + i
      BY <1>2, <3>1
    <3>3. q[j + (i + 1)] = SectorNo(ch, (a + j) + i)
      <4>1. \A m \in 1 .. Len(q) : q[m] = SectorNo(ch, a + (m - 1))
        BY DEF IsRange
      <4> QED BY <3>1, <4>1
    <3> QED BY <3>2, <3>3
  <2> QED BY <1>5, <2>1, <2>2 DEF SectorRun
<1>9. done + b <= h /\ done \in Nat
  BY <1>6
<1> HIDE DEF t
<1>10. t \in [first : Nat, count : Nat, start : Nat, from : Nat, bytes : Nat]
  BY <1>3, <1>4, <1>5, <1>6, <1>7, <1>9
<1>11. t.from + t.bytes <= h /\ t.first = q[j + 1] /\ t.count = n
  BY <1>4, <1>9
<1>12. a + j \in Nat
  BY <1>1
<1>13. \E k \in Nat : SectorRun(ch, k, t.first, t.count)
  BY <1>8, <1>11, <1>12
<1> QED BY <1>10, <1>11, <1>13 DEF FileTasks, t

(* Sector_IO: all tasks stay in the file and in the caller's buffer.       *)
LEMMA TasksStayInFile ==
  ASSUME NEW ch \in OfFile, NEW q, NEW a, IsRange(ch, q, a), NEW s \in Nat, NEW h \in Nat
  PROVE  Tasks(q, s, h) \in Seq(FileTasks(ch, h))
<1> DEFINE n == Len(q)
           R == FileTasks(ch, h)
           op == Cutting(q, s, h)
           base == <<Make_Task(q, s, h, 0, 0)>>
           NonEmpty == {e \in Seq(R) : Len(e) # 0}
<1>1. n \in Nat \ {0}
  BY DEF IsRange
<1>2. PICK g : IsRun(g, op, base, n) /\ Tasks(q, s, h) = g[n]
  <2>1. Len(q) \in Nat
    BY <1>1
  <2> QED BY <2>1, TasksRun
<1>3. \A e, k : Step(op, e, k) = IF k = Len(q) \/ q[k + 1] = q[k] + 1 THEN e
                                 ELSE Append(e, Make_Task(q, s, h, k, Last(e).from + Last(e).bytes))
  BY DEF Step, Cutting
<1> HIDE DEF op, R, base
<1>4. g[0] = base /\ \A k \in 1 .. n : g[k] = Step(op, g[k - 1], k)
  <2> HIDE DEF n
  <2> QED BY ONLY <1>1, <1>2 DEF IsRun
<1>5. base \in NonEmpty
  <2>1. Make_Task(q, s, h, 0, 0) \in R
    BY <1>1, MadeTask DEF R
  <2> QED BY <2>1 DEF base
<1>6. ASSUME NEW e \in NonEmpty, NEW k \in 1 .. n PROVE Step(op, e, k) \in NonEmpty
  <2>1. CASE k = Len(q) \/ q[k + 1] = q[k] + 1
    BY <1>3, <2>1
  <2>2. CASE ~(k = Len(q) \/ q[k + 1] = q[k] + 1)
    <3> DEFINE l == Last(e)
               d == l.from + l.bytes
               t == Make_Task(q, s, h, k, d)
    <3>1. e \in Seq(R) /\ Len(e) \in Nat \ {0}
      OBVIOUS
    <3>2. l \in R
      BY <3>1 DEF Last
    <3> HIDE DEF l
    <3>3. d \in 0 .. h
      <4>1. l.from \in Nat /\ l.bytes \in Nat /\ l.from + l.bytes <= h
        BY <3>2 DEF R, FileTasks
      <4> QED BY <4>1
    <3>4. k \in 0 .. (n - 1)
      BY <1>1, <2>2
    <3> HIDE DEF d
    <3>5. t \in R
      BY <3>3, <3>4, MadeTask DEF R
    <3>6. Step(op, e, k) = Append(e, t)
      BY <1>3, <2>2 DEF d, l
    <3> HIDE DEF t
    <3>7. Append(e, t) \in Seq(R) /\ Len(Append(e, t)) = Len(e) + 1
      BY <3>1, <3>5
    <3> QED BY <3>1, <3>6, <3>7
  <2> QED BY <2>1, <2>2
<1> HIDE DEF NonEmpty
<1> DEFINE T == {k \in Nat : k <= n => g[k] \in NonEmpty}
<1>7. 0 \in T
  BY <1>4, <1>5
<1>8. ASSUME NEW k \in Nat, k \in T PROVE k + 1 \in T
  <2>1. SUFFICES ASSUME k + 1 <= n PROVE g[k + 1] \in NonEmpty
    OBVIOUS
  <2>2. k + 1 \in 1 .. n /\ (k + 1) - 1 = k /\ k <= n
    BY <1>1, <2>1
  <2>3. g[k] \in NonEmpty
    BY <1>8, <2>2
  <2>4. g[k + 1] = Step(op, g[k], k + 1)
    BY <1>4, <2>2
  <2> QED BY <1>6, <2>2, <2>3, <2>4
<1>9. n \in T
  BY <1>1, <1>7, <1>8, NatInd
<1> QED BY <1>1, <1>2, <1>9 DEF R, NonEmpty

(* Sectors that are neighbours are one task.                               *)
LEMMA OneTask ==
  ASSUME NEW ch \in OfFile, NEW q, NEW a, IsRange(ch, q, a), NEW s \in Nat, NEW h \in Nat,
         \A k \in 1 .. (Len(q) - 1) : q[k + 1] = q[k] + 1
  PROVE  /\ Tasks(q, s, h) = <<Make_Task(q, s, h, 0, 0)>>
         /\ ConsecutiveFrom(q, 0) = Len(q)
<1> DEFINE n == Len(q)
           op == Cutting(q, s, h)
           base == <<Make_Task(q, s, h, 0, 0)>>
<1>1. n \in Nat \ {0} /\ q \in Seq(Nat)
  BY DEF IsRange
<1>2. PICK g : IsRun(g, op, base, n) /\ Tasks(q, s, h) = g[n]
  <2>1. Len(q) \in Nat
    BY <1>1
  <2> QED BY <2>1, TasksRun
<1>3. \A e, k : Step(op, e, k) = IF k = Len(q) \/ q[k + 1] = q[k] + 1 THEN e
                                 ELSE Append(e, Make_Task(q, s, h, k, Last(e).from + Last(e).bytes))
  BY DEF Step, Cutting
<1> HIDE DEF op, base
<1>4. g[0] = base /\ \A k \in 1 .. n : g[k] = Step(op, g[k - 1], k)
  <2> HIDE DEF n
  <2> QED BY ONLY <1>1, <1>2 DEF IsRun
<1>5. \A e : \A k \in 1 .. n : Step(op, e, k) = e
  <2>1. ASSUME NEW e, NEW k \in 1 .. n PROVE Step(op, e, k) = e
    <3>1. k = n \/ k \in 1 .. (n - 1)
      BY <1>1
    <3> QED BY <1>3, <3>1
  <2> QED BY <2>1
<1> DEFINE T == {k \in Nat : k <= n => g[k] = base}
<1>7. 0 \in T
  BY <1>4
<1>8. ASSUME NEW k \in Nat, k \in T PROVE k + 1 \in T
  <2>1. SUFFICES ASSUME k + 1 <= n PROVE g[k + 1] = base
    OBVIOUS
  <2>2. k + 1 \in 1 .. n /\ (k + 1) - 1 = k /\ k <= n
    BY <1>1, <2>1
  <2> QED BY <1>4, <1>5, <1>8, <2>2
<1>9. n \in T
  BY <1>1, <1>7, <1>8, NatInd
<1>10. Tasks(q, s, h) = base
  BY <1>1, <1>2, <1>9
<1>11. ConsecutiveFrom(q, 0) = n
  <2> DEFINE m == ConsecutiveFrom(q, 0)
  <2>1. 0 \in 0 .. (Len(q) - 1)
    BY <1>1
  <2>2. m \in 1 .. (Len(q) - 0) /\ Ends(q, 0, m)
    BY <1>1, <2>1, Consecutive
  <2> HIDE DEF m
  <2>3. ASSUME m < n PROVE FALSE
    <3>1. m \in 1 .. (n - 1) /\ 0 + m = m /\ 0 + m < Len(q)
      BY <1>1, <2>2, <2>3
    <3>2. q[0 + m + 1] # q[0 + m] + 1
      BY <2>2, <3>1 DEF Ends
    <3>3. 0 + m + 1 = m + 1
      BY <3>1
    <3> QED BY <3>1, <3>2, <3>3
  <2> QED BY <1>1, <2>2, <2>3 DEF m
<1> QED BY <1>10, <1>11 DEF base

(* What a task changes on the disk.                                        *)
TaskWritten(d, t, buffer) ==
  [b \in 0 .. (DiskSize - 1) |->
     IF b - (t.first * SectorSize + t.start) \in 0 .. (t.bytes - 1)
     THEN buffer[t.from + ((b - (t.first * SectorSize + t.start)) + 1)] ELSE d[b]]

(* The bytes of the disk that are the file's.                              *)
FileBytes(ch) == {b \in 0 .. (DiskSize - 1) : \E k \in 0 .. (FileSectors - 1) : SectorNo(ch, k) = b \div SectorSize}

(* A run of the file's sectors is on the disk, behind the table.           *)
LEMMA RunOnDisk ==
  ASSUME NEW ch \in OfFile, NEW k, NEW first \in Nat, NEW count, SectorRun(ch, k, first, count)
  PROVE  OnDisk(first, count) /\ FirstDataSector <= first
<1>1. k \in Nat /\ count \in Nat \ {0} /\ k + count <= FileSectors /\ FileSectors \in Nat
      /\ SectorSize \in Nat \ {0} /\ SectorCount \in Nat
  BY Sizes DEF SectorRun
<1>2. SectorNo(ch, k + 0) = first + 0 /\ SectorNo(ch, k + (count - 1)) = first + (count - 1)
  BY <1>1 DEF SectorRun
<1>3. k + 0 \in 0 .. (FileSectors - 1) /\ k + (count - 1) \in 0 .. (FileSectors - 1)
  BY <1>1
<1>4. FirstDataSector <= first + 0 /\ first + (count - 1) + 1 <= SectorCount
  BY <1>2, <1>3, SectorIsThere
<1>5. first + count <= SectorCount /\ FirstDataSector <= first
  BY <1>1, <1>4
<1>6. SectorSize * (first + count) <= SectorSize * SectorCount
  BY <1>1, <1>5, Times
<1>7. SectorSize * (first + count) = (first + count) * SectorSize /\ SectorSize * SectorCount = DiskSize
  <2>1. SectorSize * (first + count) = (first + count) * SectorSize
    BY <1>1, SMT
  <2> QED BY <2>1, Sizes
<1> QED BY <1>5, <1>6, <1>7 DEF OnDisk

(* Fields of a task.                                                       *)
LEMMA TaskFields ==
  ASSUME NEW ch, NEW h \in Nat, NEW t \in FileTasks(ch, h)
  PROVE  /\ t.first \in Nat /\ t.count \in Nat /\ t.start \in Nat /\ t.from \in Nat /\ t.bytes \in Nat
         /\ t.from + t.bytes <= h /\ \E k \in Nat : SectorRun(ch, k, t.first, t.count)
         /\ t.first * SectorSize \in Nat /\ t.count * SectorSize \in Nat
<1>1. /\ t.first \in Nat /\ t.count \in Nat /\ t.start \in Nat /\ t.from \in Nat /\ t.bytes \in Nat
      /\ t.from + t.bytes <= h /\ \E k \in Nat : SectorRun(ch, k, t.first, t.count)
  BY DEF FileTasks
<1>2. t.first * SectorSize \in Nat /\ t.count * SectorSize \in Nat
  BY <1>1, Sizes, SMT
<1> QED BY <1>1, <1>2

(* Write_Task changes just the bytes of its task, directly or via a        *)
(* buffer.                                                                 *)
LEMMA OneTaskWritten ==
  ASSUME NEW ch \in OfFile, NEW d \in Plain, NEW buffer \in Seq(Byte),
         NEW t \in FileTasks(ch, Len(buffer)), ~Overruns(t)
  PROVE  Write_Task(d, t, buffer) = TaskWritten(d, t, buffer)
<1> DEFINE x == t.first * SectorSize
           c == t.count * SectorSize
           start == t.start
           from == t.from
           bytes == t.bytes
           whole == [i \in 1 .. c |-> IF from + i <= Len(buffer) THEN buffer[from + i] ELSE Unset]
           old == [i \in 1 .. c |-> d[x + i - 1]]
           data == IF Are_Old_Sectors_Needed(t) THEN Overlaid(old, start, bytes, buffer, from) ELSE whole
<1>1. x \in Nat /\ c \in Nat /\ start \in Nat /\ from \in Nat /\ bytes \in Nat /\ Len(buffer) \in Nat
      /\ from + bytes <= Len(buffer)
  BY TaskFields
<1>2. OnDisk(t.first, t.count)
  BY TaskFields, RunOnDisk
<1>3. bytes > 0 => start + bytes <= c
  <2>1. start + bytes \in Nat
    BY <1>1
  <2>2. ~(bytes > 0 /\ start + bytes > c)
    BY DEF Overruns
  <2> HIDE DEF start, bytes, c
  <2> QED BY <1>1, <2>1, <2>2
<1>4. Are_Old_Sectors_Needed(t) <=> start # 0 \/ c # bytes
  BY DEF Are_Old_Sectors_Needed
<1>5. Read_Sectors(d, t.first, t.count) = old
  BY <1>2 DEF Read_Sectors
<1>6. Write_Task(d, t, buffer) = Write_Sectors(d, t.first, t.count, data)
  BY <1>5 DEF Write_Task
<1>7. DOMAIN d = 0 .. (DiskSize - 1) /\ DiskSize \in Nat
  BY Sizes DEF Plain
<1>8. Write_Sectors(d, t.first, t.count, data)
        = [b \in 0 .. (DiskSize - 1) |-> IF b - x \in 0 .. (c - 1) THEN data[b - x + 1] ELSE d[b]]
  <2> HIDE DEF data
  <2> QED BY <1>2, <1>7 DEF Write_Sectors
<1>9. data = [i \in 1 .. c |-> IF Are_Old_Sectors_Needed(t)
                               THEN (IF i - start \in 1 .. bytes THEN buffer[from + (i - start)] ELSE d[x + (i - 1)])
                               ELSE (IF from + i <= Len(buffer) THEN buffer[from + i] ELSE Unset)]
  <2> HIDE DEF x, c, start, from, bytes
  <2>1. CASE Are_Old_Sectors_Needed(t)
    <3>1. data = [i \in 1 .. c |-> IF i - start \in 1 .. bytes THEN buffer[from + (i - start)] ELSE d[x + (i - 1)]]
      BY <2>1 DEF Overlaid
    <3> HIDE DEF data
    <3> QED BY <2>1, <3>1
  <2>2. CASE ~Are_Old_Sectors_Needed(t)
    BY <2>2
  <2> QED BY <2>1, <2>2
<1>10. TaskWritten(d, t, buffer)
         = [b \in 0 .. (DiskSize - 1) |->
              IF b - (x + start) \in 0 .. (bytes - 1) THEN buffer[from + ((b - (x + start)) + 1)] ELSE d[b]]
  BY DEF TaskWritten
<1> HIDE DEF x, c, start, from, bytes, data
<1>11. ASSUME NEW b \in 0 .. (DiskSize - 1)
       PROVE  (IF b - x \in 0 .. (c - 1) THEN data[b - x + 1] ELSE d[b])
                = (IF b - (x + start) \in 0 .. (bytes - 1) THEN buffer[from + ((b - (x + start)) + 1)] ELSE d[b])
  <2> DEFINE i == b - x + 1
             m == b - (x + start)
  <2>1. b \in Nat /\ i \in Int /\ m \in Int /\ i - start = m + 1 /\ x + (i - 1) = b
        /\ (b - x \in 0 .. (c - 1) <=> i \in 1 .. c)
    BY <1>1, <1>7
  <2>2. CASE b - x \notin 0 .. (c - 1)
    <3>1. m \notin 0 .. (bytes - 1)
      BY <1>1, <1>3, <2>1, <2>2
    <3> QED BY <2>2, <3>1
  <2>3. CASE b - x \in 0 .. (c - 1) /\ Are_Old_Sectors_Needed(t)
    <3>1. i \in 1 .. c
      BY <2>1, <2>3
    <3> HIDE DEF i, m
    <3>2. data[i] = IF i - start \in 1 .. bytes THEN buffer[from + (i - start)] ELSE d[x + (i - 1)]
      BY <1>9, <2>3, <3>1
    <3>3. i - start \in 1 .. bytes <=> m \in 0 .. (bytes - 1)
      BY <1>1, <2>1
    <3>4. data[i] = IF m \in 0 .. (bytes - 1) THEN buffer[from + (m + 1)] ELSE d[b]
      BY <2>1, <3>2, <3>3
    <3> QED BY <2>3, <3>4 DEF i, m
  <2>4. CASE b - x \in 0 .. (c - 1) /\ ~Are_Old_Sectors_Needed(t)
    <3>1. i \in 1 .. c
      BY <2>1, <2>4
    <3>2. start = 0 /\ c = bytes
      BY <1>4, <2>4
    <3>3. m \in 0 .. (bytes - 1) /\ m + 1 = i /\ from + i <= Len(buffer)
      BY <1>1, <2>1, <3>1, <3>2
    <3> HIDE DEF i, m
    <3>4. data[i] = buffer[from + i]
      BY <1>9, <2>4, <3>1, <3>3
    <3>5. data[i] = IF m \in 0 .. (bytes - 1) THEN buffer[from + (m + 1)] ELSE d[b]
      BY <3>3, <3>4
    <3> QED BY <2>4, <3>5 DEF i, m
  <2> QED BY <2>2, <2>3, <2>4
<1>12. [b \in 0 .. (DiskSize - 1) |-> IF b - x \in 0 .. (c - 1) THEN data[b - x + 1] ELSE d[b]]
         = [b \in 0 .. (DiskSize - 1) |->
              IF b - (x + start) \in 0 .. (bytes - 1) THEN buffer[from + ((b - (x + start)) + 1)] ELSE d[b]]
  BY <1>11
<1> QED BY <1>6, <1>8, <1>10, <1>12

(* The bytes that a task changes are the file's.                           *)
LEMMA TaskStaysInFile ==
  ASSUME NEW ch \in OfFile, NEW h \in Nat, NEW t \in FileTasks(ch, h), ~Overruns(t),
         NEW b \in 0 .. (DiskSize - 1), b - (t.first * SectorSize + t.start) \in 0 .. (t.bytes - 1)
  PROVE  b \in FileBytes(ch)
<1> DEFINE S == SectorSize
           x == t.first * S
           c == t.count * S
           s == b \div S
           first == t.first
           count == t.count
           start == t.start
           bytes == t.bytes
<1>1. x \in Nat /\ c \in Nat /\ start \in Nat /\ bytes \in Nat /\ first \in Nat /\ count \in Nat
      /\ S \in Nat \ {0} /\ b \in Nat
  BY TaskFields, Sizes
<1>2. PICK k \in Nat : SectorRun(ch, k, first, count)
  BY TaskFields
<1>3. k + count <= FileSectors /\ \A i \in 0 .. (count - 1) : SectorNo(ch, k + i) = first + i
  BY <1>2 DEF SectorRun
<1>4. bytes > 0 => start + bytes <= c
  <2>1. start + bytes \in Nat
    BY <1>1
  <2>2. ~(bytes > 0 /\ start + bytes > c)
    BY DEF Overruns
  <2> HIDE DEF start, bytes, c
  <2> QED BY <1>1, <2>1, <2>2
<1>5. x <= b /\ b < x + c
  <2>1. b - (x + start) \in 0 .. (bytes - 1)
    OBVIOUS
  <2> HIDE DEF x, c, start, bytes
  <2> QED BY <1>1, <1>4, <2>1
<1>6. s \in Nat /\ b % S \in 0 .. (S - 1) /\ b = S * s + (b % S)
  BY <1>1, Division
<1> HIDE DEF s
<1>7. first <= s /\ s < first + count
  <2> DEFINE r == b % S
  <2> HIDE DEF r
  <2>1. S * first = first * S /\ S * (first + count) = first * S + count * S /\ S * s \in Nat /\ S * (s + 1) = S * s + S
    BY <1>1, <1>6, SMT
  <2>2. r \in 0 .. (S - 1) /\ b = S * s + r
    BY <1>6 DEF r
  <2>3. S * first < S * (s + 1) /\ S * s < S * (first + count)
    BY <1>1, <1>5, <2>1, <2>2
  <2>4. ~(s + 1 <= first)
    <3>1. ASSUME s + 1 <= first PROVE FALSE
      <4>1. S * (s + 1) <= S * first
        BY <1>1, <1>6, <3>1, Times
      <4> QED BY <1>1, <2>1, <2>3, <4>1
    <3> QED BY <3>1
  <2>5. ~(first + count <= s)
    <3>1. ASSUME first + count <= s PROVE FALSE
      <4>1. S * (first + count) <= S * s
        BY <1>1, <1>6, <3>1, Times
      <4>2. S * (first + count) \in Nat
        BY <1>1, <2>1
      <4> QED BY <1>1, <2>1, <2>3, <4>1, <4>2
    <3> QED BY <3>1
  <2> QED BY <1>1, <1>6, <2>4, <2>5
<1>8. s - first \in 0 .. (count - 1) /\ first + (s - first) = s
  BY <1>1, <1>6, <1>7
<1>9. SectorNo(ch, k + (s - first)) = s /\ k + (s - first) \in 0 .. (FileSectors - 1)
  BY <1>1, <1>3, <1>8, Sizes
<1> QED BY <1>9 DEF FileBytes, s

(* So bytes stay bytes, and those that are not the file's what they are.   *)
LEMMA TaskKeeps ==
  ASSUME NEW ch \in OfFile, NEW d \in Plain, NEW buffer \in Seq(Byte),
         NEW t \in FileTasks(ch, Len(buffer)), ~Overruns(t)
  PROVE  /\ Write_Task(d, t, buffer) \in Plain
         /\ \A b \in (0 .. (DiskSize - 1)) \ FileBytes(ch) : Write_Task(d, t, buffer)[b] = d[b]
<1> DEFINE w == TaskWritten(d, t, buffer)
           m(b) == b - (t.first * SectorSize + t.start)
<1>1. Write_Task(d, t, buffer) = w
  BY OneTaskWritten
<1>2. w = [b \in 0 .. (DiskSize - 1) |-> IF m(b) \in 0 .. (t.bytes - 1) THEN buffer[t.from + (m(b) + 1)] ELSE d[b]]
  BY DEF TaskWritten
<1>3. Len(buffer) \in Nat /\ t.from \in Nat /\ t.bytes \in Nat /\ t.from + t.bytes <= Len(buffer)
  BY TaskFields
<1> HIDE DEF w, m
<1>4. \A b \in 0 .. (DiskSize - 1) : d[b] \in 0 .. 255
  BY DEF Plain
<1>5. ASSUME NEW b \in 0 .. (DiskSize - 1), m(b) \in 0 .. (t.bytes - 1) PROVE buffer[t.from + (m(b) + 1)] \in 0 .. 255
  <2>1. t.from + (m(b) + 1) \in 1 .. Len(buffer)
    BY <1>3, <1>5
  <2>2. buffer[t.from + (m(b) + 1)] \in Byte
    BY <2>1, ElementOfSeq
  <2> QED BY <2>2, DiskAssumption
<1>6. w \in Plain
  BY <1>2, <1>4, <1>5 DEF Plain
<1>7. ASSUME NEW b \in (0 .. (DiskSize - 1)) \ FileBytes(ch) PROVE w[b] = d[b]
  <2>1. m(b) \notin 0 .. (t.bytes - 1)
    BY <1>3, TaskStaysInFile DEF m
  <2> QED BY <1>2, <2>1
<1> QED BY <1>1, <1>6, <1>7

(* The range of sectors a call uses, and its tasks.                        *)
LEMMA FileRange ==
  ASSUME NEW ch \in OfFile, NEW start \in 0 .. (Capacity - 1), NEW h \in Nat, start + h <= Capacity
  PROVE  /\ IsRange(ch, Get_Affected_Sectors(ch, start, h), Convert_Position_To_Sector_Index(start))
         /\ Tasks_Of_File(ch, start, h) \in Seq(FileTasks(ch, h))
<1> DEFINE q == Get_Affected_Sectors(ch, start, h)
           a == Convert_Position_To_Sector_Index(start)
           z == Convert_Position_To_Sector_Index(start + h)
<1>1. /\ q \in Seq(Nat) /\ Len(q) = z - a + 1 /\ Len(q) \in Nat \ {0}
      /\ a \in Nat /\ z \in a .. (FileSectors - 1)
      /\ \A j \in 1 .. Len(q) : q[j] = SectorNo(ch, a + (j - 1))
  BY AffectedSectors
<1>2. start % SectorSize \in Nat
  BY Sizes
<1> HIDE DEF q, a, z
<1>3. a + Len(q) <= FileSectors
  BY <1>1, Sizes
<1>4. IsRange(ch, q, a)
  BY <1>1, <1>3 DEF IsRange
<1>5. Tasks(q, start % SectorSize, h) \in Seq(FileTasks(ch, h))
  BY <1>2, <1>4, TasksStayInFile
<1> QED BY <1>4, <1>5 DEF Tasks_Of_File, q, a

(* A write that does not leave a buffer changes bytes of the file, to      *)
(* bytes.                                                                  *)
LEMMA WriteKeeps ==
  ASSUME NEW ch \in OfFile, NEW d \in Plain, NEW buffer \in Seq(Byte),
         NEW start \in 0 .. (Capacity - 1), start + Len(buffer) <= Capacity,
         \A i \in DOMAIN Tasks_Of_File(ch, start, Len(buffer)) :
           ~Overruns(Tasks_Of_File(ch, start, Len(buffer))[i])
  PROVE  /\ Write_Clusters(d, ch, start, buffer) \in Plain
         /\ \A b \in (0 .. (DiskSize - 1)) \ FileBytes(ch) : Write_Clusters(d, ch, start, buffer)[b] = d[b]
<1> DEFINE tasks == Tasks_Of_File(ch, start, Len(buffer))
           n == Len(tasks)
           op == Writing(tasks, buffer)
           Kept == {e \in Plain : \A b \in (0 .. (DiskSize - 1)) \ FileBytes(ch) : e[b] = d[b]}
<1>1. tasks \in Seq(FileTasks(ch, Len(buffer)))
  <2>1. Len(buffer) \in Nat
    OBVIOUS
  <2> QED BY <2>1, FileRange
<1>2. n \in Nat /\ DOMAIN tasks = 1 .. n
  <2> HIDE DEF tasks
  <2> QED BY <1>1
<1>3. \A i \in 1 .. n : tasks[i] \in FileTasks(ch, Len(buffer)) /\ ~Overruns(tasks[i])
  <2>1. \A i \in 1 .. n : ~Overruns(tasks[i])
    BY <1>2
  <2> HIDE DEF tasks
  <2> QED BY <1>1, <2>1
<1>4. PICK g : IsRun(g, op, d, n) /\ Write_Clusters(d, ch, start, buffer) = g[n]
  <2> DEFINE m == n
  <2>1. m \in Nat /\ DOMAIN Tasks_Of_File(ch, start, Len(buffer)) = 1 .. m
    BY <1>2
  <2> HIDE DEF m
  <2>2. \E g : /\ IsRun(g, Writing(Tasks_Of_File(ch, start, Len(buffer)), buffer), d, m)
               /\ Write_Clusters(d, ch, start, buffer) = g[m]
    BY <2>1, WriteRun
  <2> QED BY <2>2 DEF m
<1>5. \A e, k : Step(op, e, k) = Write_Task(e, tasks[k], buffer)
  BY DEF Step, Writing
<1> HIDE DEF tasks, n, op
<1>6. g[0] = d /\ \A k \in 1 .. n : g[k] = Write_Task(g[k - 1], tasks[k], buffer)
  <2>1. g[0] = d /\ \A k \in 1 .. n : g[k] = Step(op, g[k - 1], k)
    BY ONLY <1>2, <1>4 DEF IsRun
  <2> QED BY ONLY <1>5, <2>1
<1>7. ASSUME NEW e \in Kept, NEW k \in 1 .. n PROVE Write_Task(e, tasks[k], buffer) \in Kept
  <2> DEFINE t == tasks[k]
             w == Write_Task(e, t, buffer)
  <2>1. t \in FileTasks(ch, Len(buffer)) /\ ~Overruns(t) /\ e \in Plain
    BY <1>3
  <2> HIDE DEF t
  <2>2. w \in Plain /\ \A b \in (0 .. (DiskSize - 1)) \ FileBytes(ch) : w[b] = e[b]
    BY <2>1, TaskKeeps
  <2> HIDE DEF w
  <2>3. w \in Kept
    BY <2>2
  <2> QED BY <2>3 DEF w, t
<1>8. d \in Kept
  OBVIOUS
<1> HIDE DEF Kept
<1> DEFINE T == {k \in Nat : k <= n => g[k] \in Kept}
<1>9. 0 \in T
  BY <1>6, <1>8
<1>10. ASSUME NEW k \in Nat, k \in T PROVE k + 1 \in T
  <2>1. SUFFICES ASSUME k + 1 <= n PROVE g[k + 1] \in Kept
    OBVIOUS
  <2>2. k + 1 \in 1 .. n /\ (k + 1) - 1 = k /\ k <= n
    BY <1>2, <2>1
  <2>3. g[k] \in Kept
    BY <1>10, <2>2
  <2>4. g[k + 1] = Write_Task(g[k], tasks[k + 1], buffer)
    BY <1>6, <2>2
  <2> QED BY <1>7, <2>2, <2>3, <2>4
<1>11. n \in T
  BY <1>2, <1>9, <1>10, NatInd
<1>12. Write_Clusters(d, ch, start, buffer) \in Kept
  BY <1>2, <1>4, <1>11
<1> QED BY <1>12 DEF Kept

(* A range in a piece: it does not begin where a sector begins, other than *)
(* the first, and no break of the chain is within it.                      *)
InPiece(ch, start, h) ==
  /\ start = 0 \/ start % SectorSize # 0
  /\ \A i \in 1 .. (ChainLength - 1) :
       ch[i + 1] # ch[i] + 1 => ~(start < i * ClusterSize /\ i * ClusterSize < start + h)

(* It is one task, which moves all of its bytes.                           *)
LEMMA PieceIsOneTask ==
  ASSUME NEW ch \in OfFile, NEW start \in 0 .. (Capacity - 1), NEW h \in Nat, start + h <= Capacity,
         InPiece(ch, start, h)
  PROVE  \E t \in FileTasks(ch, h) :
           /\ Tasks_Of_File(ch, start, h) = <<t>>
           /\ t.start = start % SectorSize /\ t.from = 0 /\ t.bytes = h
           /\ t.start + h <= t.count * SectorSize
           /\ SectorRun(ch, start \div SectorSize, t.first, t.count)
<1> DEFINE S == SectorSize
           q == Get_Affected_Sectors(ch, start, h)
           a == start \div S
           z == Convert_Position_To_Sector_Index(start + h)
           r == start % S
<1>1. S \in Nat \ {0} /\ Capacity \in Nat /\ start \in Nat /\ FileSectors \in Nat
  BY Sizes
<1>2. a \in Nat /\ r \in 0 .. (S - 1) /\ start = S * a + r /\ S * a \in Nat
  <2>1. a \in Nat /\ r \in 0 .. (S - 1) /\ start = S * a + r
    BY <1>1, Division
  <2> HIDE DEF a, r
  <2>2. S * a \in Nat
    BY <1>1, <2>1, SMT
  <2> QED BY <2>1, <2>2
<1>3. Convert_Position_To_Sector_Index(start) = a
  <2>1. CASE start = 0
    <3>1. 0 \div S = 0
      BY <1>1, SMT
    <3> QED BY <2>1, <3>1 DEF Convert_Position_To_Sector_Index
  <2>2. CASE start # 0
    <3>1. r # 0
      BY <2>2 DEF InPiece
    <3>2. start - 1 \in Nat /\ (start - 1) - a * S \in 0 .. (S - 1)
      <4>1. a * S = S * a
        BY <1>1, <1>2, SMT
      <4> HIDE DEF a, r
      <4> QED BY <1>1, <1>2, <2>2, <3>1, <4>1
    <3> DEFINE p == start - 1
    <3> HIDE DEF a, p
    <3>3. p \div S = a
      BY <1>1, <1>2, <3>2, Quotient DEF p
    <3> QED BY <2>2, <3>3 DEF Convert_Position_To_Sector_Index, p
  <2> QED BY <2>1, <2>2
<1>4. /\ q \in Seq(Nat) /\ Len(q) = z - a + 1 /\ Len(q) \in Nat \ {0}
      /\ z \in a .. (FileSectors - 1) /\ z \in Nat
      /\ \A j \in 1 .. Len(q) : q[j] = SectorNo(ch, a + (j - 1))
  <2>1. /\ q \in Seq(Nat) /\ Len(q) = z - a + 1 /\ Len(q) \in Nat \ {0}
        /\ z \in a .. (FileSectors - 1)
        /\ \A j \in 1 .. Len(q) : q[j] = SectorNo(ch, a + (j - 1))
    BY <1>3, AffectedSectors
  <2>2. z \in Nat
    BY <1>1, <1>2, <2>1
  <2> QED BY <2>1, <2>2
<1>5. IsRange(ch, q, a)
  BY <1>3, FileRange
<1>6. S * z \in Nat /\ S * (z + 1) = S * z + S
  BY <1>1, <1>4, SMT
<1>7. start + h <= S * (z + 1) /\ (a < z => S * z < start + h)
  <2>1. CASE start + h = 0
    <3>1. z = 0
      BY <2>1 DEF Convert_Position_To_Sector_Index
    <3> HIDE DEF z, a
    <3>2. start + h <= S * (z + 1)
      BY <1>1, <1>6, <2>1
    <3> QED BY <1>2, <3>1, <3>2
  <2>2. CASE start + h # 0
    <3> DEFINE p == (start + h) - 1
    <3>1. p \in Nat /\ z = p \div S
      BY <1>1, <2>2 DEF Convert_Position_To_Sector_Index
    <3> HIDE DEF p, z
    <3>2. p % S \in 0 .. (S - 1) /\ p = S * z + (p % S)
      BY <1>1, <3>1, Division
    <3> HIDE DEF a
    <3> QED BY <1>1, <1>6, <3>1, <3>2 DEF p
  <2> QED BY <2>1, <2>2
<1>8. ASSUME NEW k \in 1 .. (Len(q) - 1) PROVE q[k + 1] = q[k] + 1
  <2> DEFINE j == a + (k - 1)
  <2>1. j \in Nat /\ j + 1 = a + k /\ j + 1 \in 0 .. (FileSectors - 1) /\ a + k <= z
        /\ k \in 1 .. Len(q) /\ k + 1 \in 1 .. Len(q) /\ a + ((k + 1) - 1) = j + 1
    <3> HIDE DEF a, z, q
    <3> QED BY <1>1, <1>2, <1>4
  <2>2. start < (j + 1) * S /\ (j + 1) * S < start + h
    <3> HIDE DEF a, z, q, r
    <3>1. a + 1 <= a + k /\ a < z /\ a + k \in Nat
      BY <1>2, <1>4, <2>1
    <3>2. S * (a + 1) <= S * (a + k)
      BY <1>1, <1>2, <2>1, <3>1, Times
    <3>3. S * (a + k) <= S * z
      BY <1>1, <1>4, <2>1, <3>1, Times
    <3>4. S * (a + 1) = S * a + S /\ (a + k) * S = S * (a + k) /\ S * (a + k) \in Nat
      BY <1>1, <1>2, <3>1, SMT
    <3>5. start < (a + k) * S /\ (a + k) * S < start + h
      BY <1>1, <1>2, <1>6, <1>7, <3>1, <3>2, <3>3, <3>4
    <3> QED BY <2>1, <3>5
  <2> HIDE DEF j
  <2>3. \A i \in 1 .. (ChainLength - 1) : ch[i + 1] # ch[i] + 1 => i * ClusterSize # (j + 1) * SectorSize
    BY <2>2 DEF InPiece
  <2>4. SectorNo(ch, j + 1) = SectorNo(ch, j) + 1
    BY <2>1, <2>3, NextSector
  <2>5. q[k + 1] = SectorNo(ch, j + 1) /\ q[k] = SectorNo(ch, j)
    <3>1. q[k + 1] = SectorNo(ch, a + ((k + 1) - 1)) /\ q[k] = SectorNo(ch, a + (k - 1))
      BY <1>4, <2>1
    <3>2. a + (k - 1) = j
      BY DEF j
    <3> QED BY <2>1, <3>1, <3>2
  <2> QED BY <2>4, <2>5
<1> DEFINE t == Make_Task(q, r, h, 0, 0)
           n == ConsecutiveFrom(q, 0)
<1>9. Tasks_Of_File(ch, start, h) = <<t>> /\ n = z - a + 1
  <2>1. r \in Nat
    BY <1>1, <1>2
  <2>2. Tasks_Of_File(ch, start, h) = Tasks(q, r, h)
    BY DEF Tasks_Of_File
  <2> HIDE DEF q, a, r
  <2>3. Tasks(q, r, h) = <<t>> /\ n = Len(q)
    BY <1>5, <1>8, <2>1, OneTask
  <2> QED BY <1>4, <2>2, <2>3
<1>10. t \in FileTasks(ch, h)
  <2>1. r \in Nat /\ 0 \in 0 .. (Len(q) - 1) /\ 0 \in 0 .. h
    <3> HIDE DEF q
    <3> QED BY <1>1, <1>2, <1>4
  <2> HIDE DEF q, a, r
  <2> QED BY <1>5, <2>1, MadeTask
<1>11. t.first = q[0 + 1] /\ t.count = n /\ t.start = r /\ t.from = 0 /\ t.bytes = Calculate_How_Many(r, n, h - 0)
  BY DEF Make_Task, Calculate_Position
<1> HIDE DEF t, n, q, z, a, r
<1>12. n * S = S * (z + 1) - S * a /\ n * S \in Int /\ n \in Nat \ {0}
  <2>1. n \in Nat \ {0} /\ n = (z + 1) - a
    BY <1>2, <1>4, <1>9
  <2>2. ((z + 1) - a) * S = S * (z + 1) - S * a
    BY <1>1, <1>2, <1>4, SMT
  <2>3. n * S \in Int
    BY <1>1, <2>1, SMT
  <2> QED BY <2>1, <2>2, <2>3
<1>13. r + h <= n * S
  BY <1>1, <1>2, <1>4, <1>6, <1>7, <1>12
<1>14. t.bytes = h
  <2> DEFINE x == n * S
  <2>1. x \in Int /\ r + h <= x /\ r \in Nat
    BY <1>1, <1>2, <1>12, <1>13
  <2>2. t.bytes = IF 0 <= x - r /\ x - r < h - 0 THEN x - r ELSE h - 0
    BY <1>11 DEF Calculate_How_Many
  <2> HIDE DEF x
  <2> QED BY <2>1, <2>2
<1>15. SectorRun(ch, a, t.first, t.count)
  <2>1. a + n <= FileSectors
    BY <1>1, <1>2, <1>4, <1>9
  <2>2. \A j \in 1 .. n : q[j] = q[1] + (j - 1)
    <3>1. 0 \in 0 .. (Len(q) - 1)
      BY <1>4
    <3>2. \A i \in 1 .. n : q[0 + i] = q[0 + 1] + (i - 1)
      BY <1>4, <3>1, Consecutive DEF n
    <3>3. \A i \in 1 .. n : 0 + i = i
      OBVIOUS
    <3>4. 0 + 1 = 1
      OBVIOUS
    <3> QED BY <3>2, <3>3, <3>4
  <2>3. ASSUME NEW i \in 0 .. (n - 1) PROVE SectorNo(ch, a + i) = t.first + i
    <3>1. i + 1 \in 1 .. n /\ i + 1 \in 1 .. Len(q) /\ (i + 1) - 1 = i /\ 0 + 1 = 1
      BY <1>4, <1>9, <1>12
    <3>2. q[i + 1] = SectorNo(ch, a + i) /\ q[i + 1] = q[1] + i
      BY <1>4, <2>2, <3>1
    <3> QED BY <1>11, <3>1, <3>2
  <2> QED BY <1>2, <1>11, <1>12, <2>1, <2>3 DEF SectorRun
<1> QED BY <1>9, <1>10, <1>11, <1>13, <1>14, <1>15 DEF r, a

(* Where the file's bytes are.                                             *)
LEMMA AddressFacts ==
  ASSUME NEW ch \in OfFile, NEW p \in 0 .. (Capacity - 1)
  PROVE  /\ AddressIn(ch, p) \in 0 .. (DiskSize - 1) /\ TableSize <= AddressIn(ch, p)
         /\ AddressIn(ch, p) \div SectorSize = SectorNo(ch, p \div SectorSize)
<1> DEFINE S == SectorSize
           k == p \div S
           r == p % S
           s == SectorNo(ch, k)
           b == s * S + r
<1>1. S \in Nat \ {0} /\ FirstDataSector \in Nat /\ SectorCount \in Nat
      /\ DiskSize = S * SectorCount /\ TableSize = S * FirstDataSector
  BY Sizes
<1>2. k \in 0 .. (FileSectors - 1) /\ r \in 0 .. (S - 1)
  BY PositionInFile
<1> HIDE DEF k, r
<1>3. s \in Nat /\ FirstDataSector <= s /\ s + 1 <= SectorCount
  BY <1>2, SectorIsThere
<1>4. AddressIn(ch, p) = b
  BY DEF AddressIn, k, r
<1> HIDE DEF s
<1>5. s * S = S * s /\ S * s \in Nat /\ S * (s + 1) = S * s + S
  BY <1>1, <1>3, SMT
<1>6. S * FirstDataSector <= S * s
  BY <1>1, <1>3, Times
<1>7. S * (s + 1) <= S * SectorCount
  <2>1. s + 1 \in Int
    BY <1>3
  <2> QED BY <1>1, <1>3, <2>1, Times
<1>8. S * FirstDataSector \in Nat /\ S * SectorCount \in Nat
  BY <1>1, SMT
<1>9. b \in Nat /\ b < DiskSize /\ TableSize <= b /\ b - s * S \in 0 .. (S - 1)
  BY <1>1, <1>2, <1>5, <1>6, <1>7, <1>8
<1> HIDE DEF b
<1>10. b \div S = s
  BY <1>1, <1>3, <1>9, Quotient
<1>11. b \in 0 .. (DiskSize - 1)
  BY <1>8, <1>9, <1>1
<1> QED BY <1>4, <1>9, <1>10, <1>11 DEF s, k

(* No two bytes of the file are at the same place.                         *)
LEMMA AddressesDiffer ==
  ASSUME NEW ch \in Chains, NEW p \in 0 .. (Capacity - 1), NEW o \in 0 .. (Capacity - 1),
         AddressIn(ch, p) = AddressIn(ch, o)
  PROVE  p = o
<1> DEFINE S == SectorSize
           k == p \div S
           r == p % S
           l == o \div S
           u == o % S
<1>1. S \in Nat \ {0} /\ ch \in OfFile
  BY Sizes, ChainType
<1>2. k \in 0 .. (FileSectors - 1) /\ r \in 0 .. (S - 1) /\ p = S * k + r
  BY PositionInFile
<1>3. l \in 0 .. (FileSectors - 1) /\ u \in 0 .. (S - 1) /\ o = S * l + u
  BY PositionInFile
<1>4. SectorNo(ch, k) = SectorNo(ch, l)
  BY <1>1, AddressFacts
<1>5. AddressIn(ch, p) = SectorNo(ch, k) * S + r /\ AddressIn(ch, o) = SectorNo(ch, l) * S + u
  BY DEF AddressIn
<1> HIDE DEF k, r, l, u
<1>6. k = l
  BY <1>2, <1>3, <1>4, SectorsDiffer
<1>7. r = u
  <2> DEFINE x == SectorNo(ch, k) * S
  <2>1. SectorNo(ch, k) \in Nat
    BY <1>1, <1>2, SectorIsThere
  <2>2. x \in Nat
    BY <1>1, <2>1, SMT
  <2>3. x + r = x + u
    BY <1>4, <1>5
  <2> HIDE DEF x
  <2> QED BY <1>1, <1>2, <1>3, <2>2, <2>3
<1> QED BY <1>2, <1>3, <1>6, <1>7

(* All bytes of its sectors are the file's.                                *)
LEMMA FileBytesAreAddresses ==
  ASSUME NEW ch \in OfFile, NEW b \in FileBytes(ch)
  PROVE  \E p \in 0 .. (Capacity - 1) : AddressIn(ch, p) = b
<1> DEFINE S == SectorSize
           r == b % S
<1>1. S \in Nat \ {0} /\ FileSectors \in Nat /\ Capacity = S * FileSectors /\ b \in Nat
  BY Sizes DEF FileBytes
<1>2. PICK k \in 0 .. (FileSectors - 1) : SectorNo(ch, k) = b \div S
  BY DEF FileBytes
<1>3. b \div S \in Nat /\ r \in 0 .. (S - 1) /\ b = S * (b \div S) + r
  BY <1>1, Division
<1> DEFINE p == S * k + r
           s == SectorNo(ch, k)
<1> HIDE DEF r
<1>4. S * k \in Nat /\ k * S = S * k /\ S * (k + 1) = S * k + S /\ s * S = S * s /\ S * s \in Nat
  <2>1. s \in Nat /\ k \in Nat
    BY <1>1, <1>2, <1>3
  <2> HIDE DEF s
  <2> QED BY <1>1, <2>1, SMT
<1>5. S * (k + 1) <= S * FileSectors
  <2>1. k + 1 <= FileSectors /\ k + 1 \in Int /\ FileSectors \in Int
    BY <1>1
  <2> QED BY <1>1, <2>1, Times
<1>6. S * FileSectors \in Nat
  BY <1>1, SMT
<1>7. p \in Nat /\ p - k * S \in 0 .. (S - 1) /\ p \in 0 .. (Capacity - 1)
  BY <1>1, <1>3, <1>4, <1>5, <1>6
<1> HIDE DEF p
<1>8. p \div S = k
  <2>1. k \in Nat
    BY <1>1
  <2> QED BY <1>1, <1>7, <2>1, Quotient
<1>9. p % S = r
  <2>1. p = S * (p \div S) + (p % S) /\ p % S \in 0 .. (S - 1)
    BY <1>1, <1>7, Division
  <2> DEFINE x == S * k
             y == p % S
  <2>2. p = x + y /\ y \in 0 .. (S - 1) /\ p = x + r
    BY <1>8, <2>1 DEF p
  <2>3. x \in Nat
    BY <1>4
  <2> HIDE DEF x, y
  <2>4. y = r
    BY <1>1, <1>3, <2>2, <2>3
  <2> QED BY <2>4 DEF y
<1>10. AddressIn(ch, p) = s * S + r
  BY <1>8, <1>9 DEF AddressIn
<1>11. b = S * s + r
  BY <1>2, <1>3
<1> QED BY <1>4, <1>7, <1>10, <1>11

(* In a run of sectors, neighbours in the file are neighbours on the disk. *)
LEMMA RunAddress ==
  ASSUME NEW ch, NEW a, NEW first \in Nat, NEW count, SectorRun(ch, a, first, count),
         NEW w \in 0 .. (count * SectorSize - 1)
  PROVE  AddressIn(ch, SectorSize * a + w) = first * SectorSize + w
<1> DEFINE S == SectorSize
           i == w \div S
           u == w % S
           p == S * a + w
<1>1. S \in Nat \ {0} /\ a \in Nat /\ count \in Nat \ {0}
  BY Sizes DEF SectorRun
<1>2. count * S \in Nat /\ w \in Nat /\ w < count * S /\ S * a \in Nat /\ S * count = count * S
  BY <1>1, SMT
<1>3. i \in Nat /\ u \in 0 .. (S - 1) /\ w = S * i + u
  BY <1>1, <1>2, Division
<1> HIDE DEF i, u
<1>4. S * i \in Nat /\ i * S = S * i /\ S * (a + i) = S * a + S * i /\ (a + i) * S = S * (a + i)
  BY <1>1, <1>3, SMT
<1>5. i < count
  <2>1. ASSUME count <= i PROVE FALSE
    <3>1. S * count <= S * i
      BY <1>1, <1>3, <2>1, Times
    <3> QED BY <1>1, <1>2, <1>3, <1>4, <3>1
  <2> QED BY <1>1, <1>3, <2>1
<1>6. p \in Nat /\ p = S * (a + i) + u /\ a + i \in Nat /\ p - (a + i) * S \in 0 .. (S - 1)
  BY <1>1, <1>2, <1>3, <1>4
<1> HIDE DEF p
<1>7. p \div S = a + i
  BY <1>1, <1>6, Quotient
<1>8. p % S = u
  <2>1. p = S * (p \div S) + (p % S) /\ p % S \in 0 .. (S - 1)
    BY <1>1, <1>6, Division
  <2> DEFINE x == S * (a + i)
             y == p % S
  <2>2. p = x + y /\ y \in 0 .. (S - 1) /\ p = x + u
    BY <1>6, <1>7, <2>1
  <2>3. x \in Nat
    BY <1>2, <1>4
  <2> HIDE DEF x, y
  <2>4. y = u
    BY <1>1, <1>3, <2>2, <2>3
  <2> QED BY <2>4 DEF y
<1>9. SectorNo(ch, a + i) = first + i
  BY <1>1, <1>3, <1>5 DEF SectorRun
<1>10. AddressIn(ch, p) = (first + i) * S + u
  BY <1>7, <1>8, <1>9 DEF AddressIn
<1>11. (first + i) * S = first * S + S * i /\ first * S \in Nat
  BY <1>1, <1>3, SMT
<1>12. AddressIn(ch, p) = first * S + w
  BY <1>3, <1>4, <1>10, <1>11
<1> QED BY <1>12 DEF p

(* A write in a piece: the bytes meant, and no other of the file.          *)
LEMMA WriteInPiece ==
  ASSUME NEW ch \in Chains, NEW d \in Plain, NEW buffer \in Seq(Byte),
         NEW start \in 0 .. (Capacity - 1), start + Len(buffer) <= Capacity,
         InPiece(ch, start, Len(buffer)), NEW p \in 0 .. (Capacity - 1)
  PROVE  Write_Clusters(d, ch, start, buffer)[AddressIn(ch, p)]
           = IF p - start \in 0 .. (Len(buffer) - 1) THEN buffer[(p - start) + 1] ELSE d[AddressIn(ch, p)]
<1> DEFINE h == Len(buffer)
           S == SectorSize
           a == start \div S
           r == start % S
<1>1. h \in Nat /\ ch \in OfFile /\ S \in Nat \ {0} /\ start \in Nat /\ Capacity \in Nat
  BY ChainType, Sizes
<1>2. PICK t \in FileTasks(ch, h) :
           /\ Tasks_Of_File(ch, start, h) = <<t>>
           /\ t.start = r /\ t.from = 0 /\ t.bytes = h
           /\ t.start + h <= t.count * S
           /\ SectorRun(ch, a, t.first, t.count)
  BY <1>1, PieceIsOneTask
<1>3. ~Overruns(t)
  <2>1. t.start + t.bytes <= t.count * S /\ t.start \in Nat /\ t.bytes \in Nat /\ t.count * S \in Nat
    BY <1>1, <1>2, TaskFields
  <2> QED BY <2>1 DEF Overruns
<1>4. Write_Clusters(d, ch, start, buffer) = Write_Task(d, t, buffer)
  <2>1. PICK g : /\ IsRun(g, Writing(Tasks_Of_File(ch, start, Len(buffer)), buffer), d, 1)
                 /\ Write_Clusters(d, ch, start, buffer) = g[1]
    <3>1. 1 \in Nat /\ DOMAIN Tasks_Of_File(ch, start, Len(buffer)) = 1 .. 1
      BY <1>2
    <3> DEFINE one == 1
    <3> HIDE DEF one
    <3>2. one \in Nat /\ DOMAIN Tasks_Of_File(ch, start, Len(buffer)) = 1 .. one
      BY <3>1 DEF one
    <3>3. \E g : /\ IsRun(g, Writing(Tasks_Of_File(ch, start, Len(buffer)), buffer), d, one)
                 /\ Write_Clusters(d, ch, start, buffer) = g[one]
      BY <3>2, WriteRun
    <3> QED BY <3>3 DEF one
  <2>2. g[0] = d /\ g[1] = Step(Writing(<<t>>, buffer), g[0], 1)
    <3>1. IsRun(g, Writing(<<t>>, buffer), d, 1)
      BY <1>2, <2>1
    <3> QED BY ONLY <3>1 DEF IsRun
  <2>3. Step(Writing(<<t>>, buffer), d, 1) = Write_Task(d, <<t>>[1], buffer)
    BY DEF Step, Writing
  <2>4. <<t>>[1] = t
    OBVIOUS
  <2> QED BY <2>1, <2>2, <2>3, <2>4
<1>5. Write_Task(d, t, buffer) = TaskWritten(d, t, buffer)
  BY <1>1, <1>3, OneTaskWritten
<1> DEFINE x == t.first * S
           b == AddressIn(ch, p)
           m == b - (x + r)
<1>6. b \in 0 .. (DiskSize - 1)
  BY <1>1, AddressFacts
<1>7. Write_Clusters(d, ch, start, buffer)[b] = IF m \in 0 .. (h - 1) THEN buffer[0 + (m + 1)] ELSE d[b]
  <2> HIDE DEF b
  <2>1. TaskWritten(d, t, buffer)[b] = IF m \in 0 .. (h - 1) THEN buffer[t.from + (m + 1)] ELSE d[b]
    BY <1>2, <1>6 DEF TaskWritten
  <2> QED BY <1>2, <1>4, <1>5, <2>1
<1>8. ASSUME NEW o \in Nat, o - start \in 0 .. (h - 1)
      PROVE  o \in 0 .. (Capacity - 1) /\ AddressIn(ch, o) = x + (r + (o - start))
  <2> DEFINE w == r + (o - start)
  <2>1. a \in Nat /\ r \in 0 .. (S - 1) /\ start = S * a + r
    BY <1>1, Division
  <2>2. t.first \in Nat /\ t.count * S \in Nat /\ r + h <= t.count * S
    BY <1>1, <1>2, TaskFields
  <2> HIDE DEF a, r
  <2>3. S * a \in Nat
    BY <1>1, <2>1, SMT
  <2>4. w \in 0 .. (t.count * S - 1) /\ S * a + w = o /\ o \in 0 .. (Capacity - 1)
    <3> DEFINE c == t.count * S
               v == S * a
    <3>1. c \in Nat /\ r + h <= c /\ v \in Nat /\ start = v + r /\ o - start \in 0 .. (h - 1)
      BY <1>8, <2>1, <2>2, <2>3
    <3> HIDE DEF c, v
    <3>2. w \in 0 .. (c - 1) /\ v + w = o /\ o \in 0 .. (Capacity - 1)
      BY <1>1, <2>1, <3>1
    <3> QED BY <3>2 DEF c, v
  <2> HIDE DEF w
  <2>5. SectorRun(ch, a, t.first, t.count)
    BY <1>2
  <2>6. AddressIn(ch, S * a + w) = t.first * S + w
    BY ONLY <2>2, <2>4, <2>5, RunAddress
  <2> QED BY <2>4, <2>6 DEF w
<1>9. x \in Nat /\ r \in Nat /\ b \in Nat /\ p \in Nat
  <2>1. r \in Nat /\ x \in Nat
    BY <1>1, <1>2, TaskFields
  <2> QED BY <1>6, <2>1
<1>10. CASE p - start \in 0 .. (h - 1)
  <2>1. b = x + (r + (p - start))
    BY <1>8, <1>9, <1>10
  <2> HIDE DEF b, x, r
  <2>2. m = p - start /\ 0 + (m + 1) = (p - start) + 1
    BY <1>1, <1>9, <2>1
  <2> QED BY <1>7, <1>10, <2>2 DEF b
<1>11. CASE p - start \notin 0 .. (h - 1)
  <2>1. ASSUME m \in 0 .. (h - 1) PROVE FALSE
    <3> DEFINE o == start + m
    <3> HIDE DEF b, x, r
    <3>1. o \in Nat /\ o - start \in 0 .. (h - 1) /\ o - start = m
      BY <1>1, <1>9, <2>1
    <3> HIDE DEF o, m
    <3>2. o \in 0 .. (Capacity - 1) /\ AddressIn(ch, o) = x + (r + (o - start))
      BY <1>8, <3>1
    <3>3. x + (r + m) = b
      BY <1>1, <1>9 DEF m
    <3>4. AddressIn(ch, o) = AddressIn(ch, p)
      BY <3>1, <3>2, <3>3 DEF b
    <3>5. o = p
      BY <3>2, <3>4, AddressesDiffer
    <3> QED BY <1>11, <3>1, <3>5
  <2> QED BY <1>7, <1>11, <2>1
<1> QED BY <1>10, <1>11

(* The bytes of a range of the file.                                       *)
FileRead(d, ch, start, h) == [i \in 1 .. h |-> d[AddressIn(ch, start + (i - 1))]]

(* A read in a piece: the bytes of the range.                              *)
LEMMA ReadInPiece ==
  ASSUME NEW ch \in OfFile, NEW d, NEW start \in 0 .. (Capacity - 1), NEW h \in Nat, start + h <= Capacity,
         InPiece(ch, start, h)
  PROVE  Read_Clusters(d, ch, start, h) = FileRead(d, ch, start, h)
<1> DEFINE S == SectorSize
           a == start \div S
           r == start % S
           none == [i \in 1 .. h |-> Unset]
<1>1. S \in Nat \ {0} /\ start \in Nat
  BY Sizes
<1>2. PICK t \in FileTasks(ch, h) :
           /\ Tasks_Of_File(ch, start, h) = <<t>>
           /\ t.start = r /\ t.from = 0 /\ t.bytes = h
           /\ t.start + h <= t.count * S
           /\ SectorRun(ch, a, t.first, t.count)
  BY PieceIsOneTask
<1>3. Read_Clusters(d, ch, start, h) = Read_Task(d, t, none)
  <2>1. PICK g : /\ IsRun(g, Reading(d, Tasks_Of_File(ch, start, h)), none, 1)
                 /\ Read_Clusters(d, ch, start, h) = g[1]
    <3>1. 1 \in Nat /\ DOMAIN Tasks_Of_File(ch, start, h) = 1 .. 1
      BY <1>2
    <3> DEFINE one == 1
    <3> HIDE DEF one
    <3>2. one \in Nat /\ DOMAIN Tasks_Of_File(ch, start, h) = 1 .. one
      BY <3>1 DEF one
    <3>3. \E g : /\ IsRun(g, Reading(d, Tasks_Of_File(ch, start, h)), none, one)
                 /\ Read_Clusters(d, ch, start, h) = g[one]
      BY <3>2, ReadRun
    <3> QED BY <3>3 DEF one
  <2> HIDE DEF none
  <2>2. g[0] = none /\ g[1] = Step(Reading(d, <<t>>), g[0], 1)
    <3>1. IsRun(g, Reading(d, <<t>>), none, 1)
      BY <1>2, <2>1
    <3> QED BY ONLY <3>1 DEF IsRun
  <2>3. Step(Reading(d, <<t>>), none, 1) = Read_Task(d, <<t>>[1], none)
    BY DEF Step, Reading
  <2>4. <<t>>[1] = t
    OBVIOUS
  <2> QED BY <2>1, <2>2, <2>3, <2>4
<1>4. t.first \in Nat /\ t.count * S \in Nat /\ t.first * S \in Nat
  BY TaskFields
<1>5. a \in Nat /\ r \in 0 .. (S - 1) /\ start = S * a + r
  BY <1>1, Division
<1> DEFINE x == t.first * S
           c == t.count * S
           got == [i \in 1 .. c |-> d[x + (i - 1)]]
<1>6. Read_Sectors(d, t.first, t.count) = got
  <2>1. OnDisk(t.first, t.count)
    BY <1>2, <1>4, RunOnDisk
  <2> QED BY <2>1 DEF Read_Sectors
<1>7. r + h <= c /\ SectorRun(ch, a, t.first, t.count)
  BY <1>2
<1> HIDE DEF a, r, x, c
<1>8. S * a \in Nat
  BY <1>1, <1>5, SMT
<1>9. Read_Task(d, t, none) = [i \in 1 .. h |-> IF i - 0 \in 1 .. h THEN got[r + (i - 0)] ELSE Unset]
  <2> HIDE DEF got
  <2> QED BY <1>2, <1>6 DEF Read_Task, Overlaid
<1>10. ASSUME NEW i \in 1 .. h
       PROVE  (IF i - 0 \in 1 .. h THEN got[r + (i - 0)] ELSE Unset) = d[AddressIn(ch, start + (i - 1))]
  <2> DEFINE w == r + (i - 1)
  <2>1. r + i \in 1 .. c /\ i - 0 = i /\ (r + i) - 1 = w /\ w \in 0 .. (c - 1) /\ S * a + w = start + (i - 1)
    <3> DEFINE v == S * a
    <3> HIDE DEF v
    <3>1. v \in Nat /\ start = v + r /\ r \in Nat /\ c \in Nat
      BY <1>1, <1>4, <1>5, <1>8 DEF v, c
    <3>2. r + i \in 1 .. c /\ i - 0 = i /\ (r + i) - 1 = w /\ w \in 0 .. (c - 1) /\ v + w = start + (i - 1)
      BY <1>7, <3>1
    <3> QED BY <3>2 DEF v
  <2> HIDE DEF w
  <2>2. AddressIn(ch, S * a + w) = x + w
    BY <1>4, <1>7, <2>1, RunAddress DEF x, c
  <2>3. got[r + i] = d[x + ((r + i) - 1)]
    BY <2>1
  <2> HIDE DEF got
  <2>4. got[r + i] = d[AddressIn(ch, start + (i - 1))]
    BY <2>1, <2>2, <2>3
  <2> QED BY <2>1, <2>4
<1>11. [i \in 1 .. h |-> IF i - 0 \in 1 .. h THEN got[r + (i - 0)] ELSE Unset]
         = [i \in 1 .. h |-> d[AddressIn(ch, start + (i - 1))]]
  <2> HIDE DEF got
  <2> QED BY <1>10
<1> QED BY <1>3, <1>9, <1>11 DEF FileRead

(* The table is not in the file's sectors.                                 *)
LEMMA TableIsNotInFile ==
  ASSUME NEW ch \in OfFile, NEW y \in 0 .. (TableSize - 1)
  PROVE  y \in 0 .. (DiskSize - 1) /\ y \notin FileBytes(ch) /\ y \div SectorSize \in 0 .. (FirstDataSector - 1)
<1> DEFINE S == SectorSize
           s == y \div S
           q == FirstDataSector
<1>1. S \in Nat \ {0} /\ q \in Nat /\ TableSize = S * q /\ TableSize \in Nat /\ DiskSize \in Nat /\ TableSize <= DiskSize
  BY Sizes
<1>2. y \in Nat /\ y < S * q /\ S * q \in Nat
  BY <1>1
<1>3. s \in Nat /\ y % S \in 0 .. (S - 1) /\ y = S * s + (y % S)
  BY <1>1, <1>2, Division
<1> HIDE DEF s
<1>4. s < q
  <2>1. ASSUME q <= s PROVE FALSE
    <3>1. S * q <= S * s
      BY <1>1, <1>3, <2>1, Times
    <3>2. S * s \in Nat
      BY <1>1, <1>3, SMT
    <3> DEFINE rest == y % S
    <3>3. rest \in 0 .. (S - 1) /\ y = S * s + rest
      BY <1>3
    <3> HIDE DEF rest
    <3> QED BY <1>1, <1>2, <3>1, <3>2, <3>3
  <2> QED BY <1>1, <1>3, <2>1
<1>5. \A k \in 0 .. (FileSectors - 1) : SectorNo(ch, k) # s
  <2>1. TAKE k \in 0 .. (FileSectors - 1)
  <2>2. SectorNo(ch, k) \in Nat /\ q <= SectorNo(ch, k)
    BY SectorIsThere
  <2> QED BY <1>1, <1>3, <1>4, <2>2
<1>6. y \notin FileBytes(ch)
  BY <1>5 DEF FileBytes, s
<1>7. y \in 0 .. (DiskSize - 1)
  BY <1>1
<1>8. s \in 0 .. (q - 1)
  BY <1>1, <1>3, <1>4
<1> QED BY <1>6, <1>7, <1>8 DEF s

(* The table that Fat12 starts with: every entry is free.                  *)
LEMMA ClearedTable ==
  ASSUME NEW memory \in 0 .. 255
  PROVE  /\ Cleared(memory) \in Bytes
         /\ \A c \in Cluster : Get_Entry_Value(Cleared(memory), c) = FAT_FREE
<1> DEFINE n == Get_Cluster_Count
           Free(k) == {tab \in Bytes : \A c \in Cluster : c < k => Get_Entry_Value(tab, c) = FAT_FREE}
<1>1. PICK g : IsRun(g, Clearing, Filled(memory), n) /\ Cleared(memory) = g[n]
  BY ClearedRun
<1>2. n \in Nat /\ TableSize \in Nat
  BY Sizes
<1>3. \A e, k : Step(Clearing, e, k) = Copy_Bits_To_Fat(e, k - 1, FAT_FREE)
  BY DEF Step, Clearing
<1>4. g[0] = Filled(memory) /\ \A k \in 1 .. n : g[k] = Copy_Bits_To_Fat(g[k - 1], k - 1, FAT_FREE)
  <2> HIDE DEF n
  <2>1. g[0] = Filled(memory) /\ \A k \in 1 .. n : g[k] = Step(Clearing, g[k - 1], k)
    BY ONLY <1>1, <1>2 DEF IsRun
  <2> QED BY ONLY <1>3, <2>1
<1>5. FAT_FREE \in 0 .. (Power[FatType] - 1) /\ FAT_FREE \in Nat
  <2>1. FAT_FREE \in 0 .. (Power[FatType] - 1)
    BY DiskAssumption
  <2>2. Power[FatType] \in Nat
    BY PowerStep, InfoAssumption
  <2> QED BY <2>1, <2>2
<1>6. Filled(memory) \in Free(0)
  <2>1. \A c \in Cluster : ~(c < 0)
    BY <1>2 DEF Cluster
  <2>2. Filled(memory) \in Bytes
    BY DEF Filled, Bytes
  <2> QED BY <2>1, <2>2
<1>7. ASSUME NEW k \in Nat, k + 1 <= n, NEW tab \in Free(k)
      PROVE  Copy_Bits_To_Fat(tab, k, FAT_FREE) \in Free(k + 1)
  <2> DEFINE new == Copy_Bits_To_Fat(tab, k, FAT_FREE)
  <2>1. tab \in Bytes /\ k \in Cluster
    BY <1>2, <1>7 DEF Cluster
  <2>2. new \in Bytes
    BY <1>5, <2>1, CopyBits
  <2>3. ASSUME NEW c \in Cluster, c < k + 1 PROVE Get_Entry_Value(new, c) = FAT_FREE
    <3>1. Get_Entry_Value(new, c) = IF c = k THEN FAT_FREE ELSE Get_Entry_Value(tab, c)
      BY <1>5, <2>1, SetEntry
    <3>2. c # k => Get_Entry_Value(tab, c) = FAT_FREE
      <4>1. c # k => c < k
        BY <1>2, <2>3 DEF Cluster
      <4> HIDE DEF new
      <4> QED BY <4>1
    <3> HIDE DEF new
    <3> QED BY <3>1, <3>2
  <2> HIDE DEF new
  <2>4. new \in Free(k + 1)
    BY <2>2, <2>3
  <2> QED BY <2>4 DEF new
<1> HIDE DEF n, Free
<1> DEFINE T == {k \in Nat : k <= n => g[k] \in Free(k)}
<1>8. 0 \in T
  BY <1>4, <1>6
<1>9. ASSUME NEW k \in Nat, k \in T PROVE k + 1 \in T
  <2>1. SUFFICES ASSUME k + 1 <= n PROVE g[k + 1] \in Free(k + 1)
    OBVIOUS
  <2>2. k + 1 \in 1 .. n /\ (k + 1) - 1 = k /\ k <= n
    BY <1>2, <2>1
  <2>3. g[k] \in Free(k)
    BY <1>9, <2>2
  <2>4. g[k + 1] = Copy_Bits_To_Fat(g[k], k, FAT_FREE)
    BY <1>4, <2>2
  <2> QED BY <1>7, <2>1, <2>3, <2>4
<1>10. n \in T
  BY <1>2, <1>8, <1>9, NatInd
<1>11. g[n] \in Free(n)
  BY <1>2, <1>10
<1>12. \A c \in Cluster : c < n
  BY <1>2 DEF Cluster, n
<1> QED BY <1>1, <1>11, <1>12 DEF Free

-----------------------------------------------------------------------------
(* The invariant.                                                          *)
IInv == TypeOK /\ ChangesAreDirty

(* The types, with Byte and Chains expanded.                               *)
LEMMA Types ==
  ASSUME TypeOK
  PROVE  disk \in Plain /\ fat_table_in_ram \in Bytes /\ chain \in Chains /\ chain \in OfFile
BY DiskAssumption, ChainType DEF TypeOK, Plain, Bytes

(* A save brings the sectors in the bitmap to the disk.                    *)
LEMMA Saved ==
  ASSUME NEW d \in Plain, NEW tab \in Bytes, NEW sectors \in SUBSET (0 .. (FirstDataSector - 1))
  PROVE  /\ Updated(d, tab, sectors) \in Plain
         /\ \A b \in 0 .. (DiskSize - 1) :
              Updated(d, tab, sectors)[b] = IF b \div SectorSize \in sectors THEN tab[b] ELSE d[b]
         /\ \A b \in 0 .. (DiskSize - 1) : TableSize <= b => Updated(d, tab, sectors)[b] = d[b]
<1> DEFINE S == SectorSize
           q == FirstDataSector
<1>1. /\ S \in Nat \ {0} /\ q \in Nat /\ TableSize = S * q /\ DiskSize \in Nat /\ TableSize \in Nat
      /\ TableSize <= DiskSize
  BY Sizes
<1>2. ASSUME NEW b \in 0 .. (DiskSize - 1)
      PROVE  /\ b \div S \in sectors => b \in 0 .. (TableSize - 1)
             /\ TableSize <= b => b \div S \notin sectors
  <2>0. b \in Nat /\ S \in Nat \ {0}
    BY <1>1
  <2>1. /\ b \in Nat /\ b \div S \in Nat /\ b % S \in 0 .. (S - 1) /\ b = S * (b \div S) + (b % S)
    BY ONLY <2>0, Division
  <2>2. b \div S \in sectors => b \div S + 1 <= q
    BY <1>1, <2>1
  <2>3. b \div S + 1 <= q => S * (b \div S + 1) <= S * q
    BY <1>1, <2>1, Times
  <2> DEFINE k == b \div S
             r == b % S
             x == S * k
  <2>4. S * (k + 1) = x + S /\ x \in Nat
    BY <1>1, <2>1
  <2> HIDE DEF x, r, k
  <2>5. k \in sectors => x + S <= TableSize
    BY <1>1, <2>2, <2>3, <2>4 DEF k
  <2>6. b = x + r /\ r \in 0 .. (S - 1)
    BY <2>1 DEF x, r, k
  <2>7. k \in sectors => b <= TableSize - 1
    BY <1>1, <2>1, <2>4, <2>5, <2>6
  <2> QED
    BY <1>1, <2>1, <2>7 DEF k
<1>3. Updated(d, tab, sectors) = [b \in 0 .. (DiskSize - 1) |-> IF b \div S \in sectors THEN tab[b] ELSE d[b]]
  BY UpdatedIs
<1>4. \A b \in 0 .. (DiskSize - 1) :
        (IF b \div S \in sectors THEN tab[b] ELSE d[b]) \in 0 .. 255
  BY <1>2 DEF Plain, Bytes
<1> QED
  BY <1>2, <1>3, <1>4 DEF Plain

(* The invariant holds when Fat12 has cleared and saved the table.         *)
LEMMA InitIInv == Init => IInv
<1> SUFFICES ASSUME Init PROVE IInv
  OBVIOUS
<1> DEFINE sectors == UNION {Sectors_Of_Entry(c) : c \in Cluster}
           zero == [b \in 0 .. (DiskSize - 1) |-> Zero]
<1>1. PICK memory \in {0, 255} : fat_table_in_ram = Cleared(memory)
  BY DEF Init, Cleared
<1>2. fat_table_in_ram \in Bytes
  BY <1>1, ClearedTable
<1>3. chain \in Chains /\ disk = Updated(zero, fat_table_in_ram, sectors) /\ bitmap_for_saving = {} /\ overrun = FALSE
  BY DEF Init
<1>4. zero \in Plain
  BY DiskAssumption DEF Plain
<1>5. sectors \in SUBSET (0 .. (FirstDataSector - 1))
  BY SectorsOfEntry
<1> HIDE DEF sectors, zero
<1>6. /\ disk \in Plain
      /\ \A b \in 0 .. (DiskSize - 1) :
           disk[b] = IF b \div SectorSize \in sectors THEN fat_table_in_ram[b] ELSE zero[b]
  BY <1>2, <1>3, <1>4, <1>5, Saved
<1>7. TypeOK
  BY <1>2, <1>3, <1>6, DiskAssumption DEF TypeOK, Plain, Bytes
<1>8. ChangesAreDirty
  <2>1. Get_Cluster_Count # 0
    <3>1. chain[1] \in Cluster
      BY <1>3, ChainType, DiskAssumption DEF OfFile
    <3> QED
      BY <3>1, Sizes DEF Cluster
  <2>2. ASSUME NEW y \in EntryBytes
        PROVE  disk[y] = fat_table_in_ram[y]
    <3>1. y \in 0 .. (TableSize - 1)
      BY <2>1, EntryOfByte
    <3>2. PICK c \in Cluster : y \in (Get_First_Bit_Of_Fat_Entry(c) \div 8)
                                 .. ((Get_First_Bit_Of_Fat_Entry(c) + FatType - 1) \div 8)
      BY <2>1, EntryOfByte
    <3>3. y \div SectorSize \in Sectors_Of_Entry(c)
      BY <3>2, SectorsOfEntry
    <3>4. y \in 0 .. (DiskSize - 1)
      BY <3>1, Sizes
    <3> QED
      BY <1>6, <3>3, <3>4 DEF sectors
  <2> QED
    BY <2>2 DEF ChangesAreDirty
<1> QED
  BY <1>7, <1>8 DEF IInv

(* Set_Entry_Value marks all sectors of the bytes it changes.              *)
LEMMA SetIInv ==
  ASSUME IInv, NEW position \in Entries, NEW value \in Values, Set_Entry_Value(position, value)
  PROVE  IInv'
<1> DEFINE first == Get_First_Bit_Of_Fat_Entry(position)
<1>1. TypeOK /\ ChangesAreDirty
  BY DEF IInv
<1>2. position \in Cluster /\ value \in Nat
  <2>1. Power[FatType] \in Nat \ {0}
    BY PowerStep, InfoAssumption
  <2> QED
    BY <2>1, DiskAssumption
<1>3. disk \in Plain /\ fat_table_in_ram \in Bytes
  BY <1>1, Types
<1>4. /\ bitmap_for_saving' = bitmap_for_saving \cup Sectors_Of_Entry(position)
      /\ fat_table_in_ram' = Copy_Bits_To_Fat(fat_table_in_ram, position, value)
      /\ UNCHANGED <<disk, chain, overrun>>
  BY DEF Set_Entry_Value
<1>5. /\ fat_table_in_ram' \in Bytes
      /\ \A y \in 0 .. (TableSize - 1) :
           y \notin (first \div 8) .. ((first + FatType - 1) \div 8)
             => fat_table_in_ram'[y] = fat_table_in_ram[y]
  BY <1>2, <1>3, <1>4, CopyBits
<1>6. /\ Sectors_Of_Entry(position) \subseteq 0 .. (FirstDataSector - 1)
      /\ \A y \in (first \div 8) .. ((first + FatType - 1) \div 8) :
           y \div SectorSize \in Sectors_Of_Entry(position)
  BY <1>2, SectorsOfEntry
<1> HIDE DEF first
<1>7. TypeOK'
  BY <1>1, <1>4, <1>5, <1>6, DiskAssumption DEF TypeOK, Bytes
<1>8. ChangesAreDirty'
  <2>1. Get_Cluster_Count # 0
    BY <1>2, Sizes DEF Cluster
  <2>2. \A y \in EntryBytes : y \in 0 .. (TableSize - 1)
    BY <2>1, EntryOfByte
  <2>3. \A y \in EntryBytes : disk'[y] # fat_table_in_ram'[y] => y \div SectorSize \in bitmap_for_saving'
    BY <1>1, <1>4, <1>5, <1>6, <2>2 DEF ChangesAreDirty
  <2> QED
    BY <2>3 DEF ChangesAreDirty
<1> QED
  BY <1>7, <1>8 DEF IInv

(* Save_Changes leaves table and disk equal wherever an entry is, and      *)
(* changes nothing behind the table.                                       *)
LEMMA SaveIInv ==
  ASSUME IInv, Save_Changes
  PROVE  /\ IInv'
         /\ \A y \in EntryBytes : disk'[y] = fat_table_in_ram[y]
         /\ \A b \in 0 .. (DiskSize - 1) : TableSize <= b => disk'[b] = disk[b]
<1>1. TypeOK /\ ChangesAreDirty
  BY DEF IInv
<1>2. /\ disk \in Plain /\ fat_table_in_ram \in Bytes /\ chain \in OfFile
      /\ bitmap_for_saving \in SUBSET (0 .. (FirstDataSector - 1))
  BY <1>1, Types DEF TypeOK
<1>3. /\ disk' = Updated(disk, fat_table_in_ram, bitmap_for_saving)
      /\ bitmap_for_saving' = {}
      /\ UNCHANGED <<fat_table_in_ram, chain, overrun>>
  BY DEF Save_Changes
<1>4. /\ disk' \in Plain
      /\ \A b \in 0 .. (DiskSize - 1) :
           disk'[b] = IF b \div SectorSize \in bitmap_for_saving THEN fat_table_in_ram[b] ELSE disk[b]
      /\ \A b \in 0 .. (DiskSize - 1) : TableSize <= b => disk'[b] = disk[b]
  BY <1>2, <1>3, Saved
<1>5. \A y \in EntryBytes : disk'[y] = fat_table_in_ram[y]
  <2>1. Get_Cluster_Count # 0
    BY <1>2, Sizes, DiskAssumption DEF Cluster, OfFile
  <2>2. \A y \in EntryBytes : y \in 0 .. (DiskSize - 1)
    BY <2>1, EntryOfByte, Sizes
  <2> QED
    BY <1>1, <1>4, <2>2 DEF ChangesAreDirty
<1>6. TypeOK'
  BY <1>1, <1>3, <1>4, DiskAssumption DEF TypeOK, Plain
<1>7. ChangesAreDirty'
  BY <1>3, <1>5 DEF ChangesAreDirty
<1> QED
  BY <1>4, <1>5, <1>6, <1>7 DEF IInv

(* Write_To_File does not reach the table, nor anything but the file's     *)
(* bytes.                                                                  *)
LEMMA WriteIInv ==
  ASSUME IInv, NEW start \in 0 .. (Capacity - 1), NEW buffer \in Buffers, Write_To_File(start, buffer)
  PROVE  /\ IInv'
         /\ \A b \in (0 .. (DiskSize - 1)) \ FileBytes(chain) : disk'[b] = disk[b]
         /\ \A y \in EntryBytes : disk'[y] = disk[y]
<1>1. TypeOK /\ ChangesAreDirty
  BY DEF IInv
<1>2. disk \in Plain /\ fat_table_in_ram \in Bytes /\ chain \in OfFile /\ buffer \in Seq(Byte)
  BY <1>1, Types, DiskAssumption
<1>3. /\ start + Len(buffer) <= Capacity
      /\ UNCHANGED <<fat_table_in_ram, bitmap_for_saving, chain>>
      /\ overrun' \in BOOLEAN
  BY <1>1 DEF Write_To_File, TypeOK
<1>4. disk' \in Plain /\ \A b \in (0 .. (DiskSize - 1)) \ FileBytes(chain) : disk'[b] = disk[b]
  <2>1. CASE Leaves(start, Len(buffer))
    BY <1>2, <2>1 DEF Write_To_File
  <2>2. CASE ~Leaves(start, Len(buffer))
    <3>1. disk' = Write_Clusters(disk, chain, start, buffer)
      BY <2>2 DEF Write_To_File
    <3>2. \A i \in DOMAIN Tasks_Of_File(chain, start, Len(buffer)) :
            ~Overruns(Tasks_Of_File(chain, start, Len(buffer))[i])
      BY <2>2 DEF Leaves, TasksFor
    <3> QED
      BY <1>2, <1>3, <3>1, <3>2, WriteKeeps
  <2> QED
    BY <2>1, <2>2
<1>5. \A y \in EntryBytes : disk'[y] = disk[y]
  <2>1. Get_Cluster_Count # 0
    BY <1>2, Sizes, DiskAssumption DEF Cluster, OfFile
  <2>2. \A y \in EntryBytes : y \in 0 .. (TableSize - 1)
    BY <2>1, EntryOfByte
  <2>3. \A y \in 0 .. (TableSize - 1) : y \in 0 .. (DiskSize - 1) /\ y \notin FileBytes(chain)
    BY <1>2, TableIsNotInFile
  <2> QED
    BY <1>4, <2>2, <2>3
<1>6. TypeOK'
  BY <1>1, <1>3, <1>4, DiskAssumption DEF TypeOK, Plain
<1>7. ChangesAreDirty'
  BY <1>1, <1>3, <1>5 DEF ChangesAreDirty
<1> QED
  BY <1>4, <1>5, <1>6, <1>7 DEF IInv

(* The invariant is inductive.                                             *)
LEMMA Invariance == Spec => []IInv
<1>1. IInv /\ [Next]_vars => IInv'
  <2> SUFFICES ASSUME IInv, [Next]_vars PROVE IInv'
    OBVIOUS
  <2>1. ASSUME NEW position \in Entries, NEW value \in Values, Set_Entry_Value(position, value) PROVE IInv'
    BY <2>1, SetIInv
  <2>2. CASE Save_Changes
    BY <2>2, SaveIInv
  <2>3. ASSUME NEW start \in 0 .. (Capacity - 1), NEW buffer \in Buffers, Write_To_File(start, buffer) PROVE IInv'
    BY <2>3, WriteIInv
  <2>4. CASE UNCHANGED vars
    BY <2>4 DEF vars, IInv, TypeOK, ChangesAreDirty
  <2> QED
    BY <2>1, <2>2, <2>3, <2>4 DEF Next
<1> QED
  BY <1>1, InitIInv, PTL DEF Spec

(* The disk and the table always consist of bytes, also when sectors were  *)
(* put together from the old sector and the caller's buffer, and only      *)
(* sectors of the table are ever marked for saving.                        *)
THEOREM TypeCorrect == Spec => []TypeOK
BY Invariance, PTL DEF IInv

(* Set_Sectors_In_Bitmap misses no sector: wherever the table in memory    *)
(* and the one on the disk differ in a byte that holds bits of an entry,   *)
(* the sector is marked for the next save.                                 *)
THEOREM ChangesWillBeSaved == Spec => []ChangesAreDirty
BY Invariance, PTL DEF IInv

-----------------------------------------------------------------------------
(* The promise.                                                            *)

(* A range the promise is about is a piece of the file.                    *)
LEMMA PromisedIsInPiece ==
  ASSUME chain \in OfFile, NEW start \in 0 .. (Capacity - 1), NEW h \in Nat, Promise!Promised(start, h)
  PROVE  InPiece(chain, start, h)
<1> DEFINE S == SectorSize
           k == start \div S
           m == Capacity \div S
<1>1. S \in Nat \ {0} /\ Capacity \in Nat \ {0} /\ start \in Nat
  BY Sizes
<1>2. /\ k \in Nat /\ start % S \in 0 .. (S - 1) /\ start = S * k + (start % S)
      /\ m \in Nat /\ k <= m
  <2>1. start \in Nat /\ Capacity \in Nat /\ S \in Nat \ {0} /\ start <= Capacity
    BY <1>1
  <2> HIDE DEF S
  <2> QED
    BY ONLY <2>1, Division, DivMono DEF k, m
<1>3. start \notin {i * S : i \in 1 .. m}
  BY DEF Promise!Promised, Edges
<1>4. start = 0 \/ start % S # 0
  <2> SUFFICES ASSUME start # 0, start % S = 0 PROVE FALSE
    OBVIOUS
  <2>1. start = k * S
    BY <1>1, <1>2
  <2>2. k # 0
    BY <1>1, <2>1
  <2>3. k \in 1 .. m
    BY <1>2, <2>2
  <2> HIDE DEF k, m, S
  <2> QED
    BY <1>3, <2>1, <2>3
<1>5. Len(chain) = ChainLength
  <2>1. chain \in Seq(Cluster) /\ DOMAIN chain = 1 .. ChainLength /\ ChainLength \in Nat
    BY Sizes DEF OfFile
  <2> QED
    BY <2>1, LenProperties
<1>6. \A i \in 1 .. (ChainLength - 1) :
        chain[i + 1] # chain[i] + 1 => i * ClusterSize \in Breaks
  BY <1>5 DEF Breaks
<1>7. \A b \in Breaks : ~(start < b /\ b < start + h)
  BY DEF Promise!Promised
<1> HIDE DEF k, m
<1> QED
  BY <1>4, <1>6, <1>7 DEF InPiece

(* The file's content in terms of positions.                               *)
LEMMA ContentIs ==
  ASSUME chain \in OfFile, NEW d
  PROVE  ContentOf(d) = [i \in 1 .. Capacity |-> d[AddressIn(chain, i - 1)]]
<1>1. \A i \in 1 .. Capacity : AddressOf(i) = AddressIn(chain, i - 1)
  <2> SUFFICES ASSUME NEW i \in 1 .. Capacity PROVE AddressOf(i) = AddressIn(chain, i - 1)
    OBVIOUS
  <2> DEFINE p == i - 1
  <2>1. p \in 0 .. (Capacity - 1) /\ i = p + 1
    BY Sizes
  <2> HIDE DEF p
  <2>2. AddressOf(p + 1) = AddressIn(chain, p)
    BY <2>1, AddressOfPosition
  <2> QED
    BY <2>1, <2>2 DEF p
<1> QED
  BY <1>1 DEF ContentOf

(* It is a sequence of as many bytes as the file's clusters hold.          *)
LEMMA ContentType ==
  ASSUME chain \in OfFile, NEW d \in Plain
  PROVE  /\ ContentOf(d) \in Seq(Byte) /\ Len(ContentOf(d)) = Capacity /\ Capacity \in Nat
         /\ DOMAIN ContentOf(d) = 1 .. Capacity
         /\ \A i \in 1 .. Capacity : ContentOf(d)[i] = d[AddressIn(chain, i - 1)]
         /\ ContentOf(d) \in [1 .. Capacity -> Byte]
<1> DEFINE c == ContentOf(d)
<1>1. c = [i \in 1 .. Capacity |-> d[AddressIn(chain, i - 1)]] /\ Capacity \in Nat
  BY ContentIs, Sizes
<1>2. \A i \in 1 .. Capacity : d[AddressIn(chain, i - 1)] \in Byte
  <2> SUFFICES ASSUME NEW i \in 1 .. Capacity PROVE d[AddressIn(chain, i - 1)] \in Byte
    OBVIOUS
  <2> DEFINE p == i - 1
  <2>1. p \in 0 .. (Capacity - 1)
    BY <1>1
  <2> HIDE DEF p
  <2>2. AddressIn(chain, p) \in 0 .. (DiskSize - 1)
    BY <2>1, AddressFacts
  <2>3. d[AddressIn(chain, p)] \in Byte
    BY <2>2, DiskAssumption DEF Plain
  <2> QED
    BY <2>3 DEF p
<1> HIDE DEF c
<1>3. c \in [1 .. Capacity -> Byte]
  BY <1>1, <1>2
<1>4. c \in Seq(Byte) /\ DOMAIN c = 1 .. Capacity
  BY <1>1, <1>3
<1>5. Len(c) = Capacity
  BY <1>1, <1>4, LenProperties
<1> QED
  BY <1>1, <1>3, <1>4, <1>5 DEF c

(* Read_From_File reads what is there in every range the promise is about, *)
(* for all sizes of sectors, clusters and files and all chains.            *)
THEOREM ReadsAreCorrect == Spec => []ReadsAreTrue
<1>1. TypeOK => ReadsAreTrue
  <2> SUFFICES ASSUME TypeOK, NEW start \in 0 .. (Capacity - 1), NEW h \in 1 .. (Capacity - start),
                      Promise!Promised(start, h)
               PROVE  Read_Clusters(disk, chain, start, h) = SubSeq(ContentOf(disk), start + 1, start + h)
    BY DEF ReadsAreTrue
  <2> DEFINE c == ContentOf(disk)
             part == SubSeq(c, start + 1, start + h)
  <2>1. chain \in OfFile /\ disk \in Plain
    BY Types
  <2>2. Capacity \in Nat \ {0}
    BY Sizes
  <2>3. h \in Nat /\ start \in Nat /\ start + h <= Capacity
    BY <2>2
  <2>4. Read_Clusters(disk, chain, start, h) = [i \in 1 .. h |-> disk[AddressIn(chain, start + (i - 1))]]
    <3>1. InPiece(chain, start, h)
      BY <2>1, <2>3, PromisedIsInPiece
    <3>2. start \in 0 .. (Capacity - 1)
      OBVIOUS
    <3>3. Read_Clusters(disk, chain, start, h) = FileRead(disk, chain, start, h)
      BY <2>1, <2>3, <3>1, <3>2, ReadInPiece
    <3> QED
      BY <3>3 DEF FileRead
  <2>5. c \in Seq(Byte) /\ Len(c) = Capacity /\ \A i \in 1 .. Capacity : c[i] = disk[AddressIn(chain, i - 1)]
    BY <2>1, ContentType
  <2> HIDE DEF c
  <2>6. part = [i \in 1 .. h |-> c[start + i]]
    <3>1. \A i \in (start + 1) .. (start + h) : c[i] \in Byte
      <4>1. \A i \in (start + 1) .. (start + h) : i \in 1 .. Len(c)
        BY <2>2, <2>3, <2>5
      <4> QED
        BY <2>5, <4>1, ElementOfSeq
    <3>2. /\ part \in Seq(Byte) /\ Len(part) = (start + h) - (start + 1) + 1
          /\ \A i \in 1 .. ((start + h) - (start + 1) + 1) : part[i] = c[(start + 1) + i - 1]
      BY <2>3, <3>1, SubSeqProperties
    <3>3. Len(part) = h /\ \A i \in 1 .. h : part[i] = c[start + i]
      BY <2>3, <3>2
    <3> HIDE DEF part
    <3> QED
      BY <2>3, <3>2, <3>3, LenProperties
  <2>7. \A i \in 1 .. h : c[start + i] = disk[AddressIn(chain, start + (i - 1))]
    <3>1. \A i \in 1 .. h : start + i \in 1 .. Capacity /\ (start + i) - 1 = start + (i - 1)
      BY <2>2, <2>3
    <3> QED
      BY <2>5, <3>1
  <2> HIDE DEF part
  <2>8. part = [i \in 1 .. h |-> disk[AddressIn(chain, start + (i - 1))]]
    BY <2>6, <2>7
  <2> QED
    BY <2>4, <2>8 DEF part, c
<1> QED
  BY <1>1, TypeCorrect, PTL

-----------------------------------------------------------------------------
(* Both tables begin as the promise's.                                     *)
LEMMA InitPromise == Init => Promise!Init
<1> SUFFICES ASSUME Init PROVE Promise!Init
  OBVIOUS
<1>1. IInv
  BY InitIInv
<1>2. disk \in Plain /\ chain \in OfFile
  BY <1>1, Types DEF IInv
<1>3. \A c \in Cluster : Get_Entry_Value(fat_table_in_ram, c) = FAT_FREE
  <2>1. PICK memory \in {0, 255} : fat_table_in_ram = Cleared(memory)
    BY DEF Init, Cleared
  <2> QED
    BY <2>1, ClearedTable
<1>4. \A c \in Cluster : Get_Entry_Value(disk, c) = Get_Entry_Value(fat_table_in_ram, c)
  <2>1. bitmap_for_saving = {}
    BY DEF Init
  <2>2. \A y \in EntryBytes : disk[y] = fat_table_in_ram[y]
    BY <1>1, <2>1 DEF IInv, ChangesAreDirty
  <2> QED
    BY <2>2, EntryFromBytes
<1>5. /\ TableOf(fat_table_in_ram) = [c \in Cluster |-> FAT_FREE]
      /\ TableOf(disk) = TableOf(fat_table_in_ram)
  BY <1>3, <1>4 DEF TableOf
<1>6. ContentOf(disk) \in Seq(Byte)
  BY <1>2, ContentType
<1>7. Breaks \subseteq Nat
  <2>1. Len(chain) = ChainLength /\ ChainLength \in Nat /\ ClusterSize \in Nat
    <3>1. chain \in Seq(Cluster) /\ DOMAIN chain = 1 .. ChainLength /\ ChainLength \in Nat
      BY <1>2, Sizes DEF OfFile
    <3> QED
      BY <3>1, LenProperties, Geometry
  <2>2. \A i \in 1 .. (ChainLength - 1) : i * ClusterSize \in Nat
    BY <2>1
  <2> QED
    BY <2>1, <2>2 DEF Breaks
<1> QED
  BY <1>5, <1>6, <1>7 DEF Promise!Init

(* What does not change as long as the chain does not.                     *)
LEMMA SameChain ==
  ASSUME chain' = chain
  PROVE  /\ Breaks' = Breaks /\ Addresses' = Addresses
         /\ ContentOf(disk)' = ContentOf(disk')
<1>1. \A i : AddressOf(i)' = AddressOf(i)
  BY DEF AddressOf
<1>2. Breaks' = Breaks
  BY DEF Breaks
<1>3. Addresses' = Addresses
  BY <1>1 DEF Addresses
<1>4. ContentOf(disk)' = ContentOf(disk')
  BY <1>1 DEF ContentOf
<1> QED
  BY <1>2, <1>3, <1>4

(* The addresses of the file in terms of positions.                        *)
LEMMA AddressesAre ==
  ASSUME chain \in OfFile
  PROVE  Addresses = {AddressIn(chain, p) : p \in 0 .. (Capacity - 1)}
<1>1. \A p \in 0 .. (Capacity - 1) : AddressOf(p + 1) = AddressIn(chain, p)
  BY AddressOfPosition
<1>2. Capacity \in Nat
  BY Sizes
<1>3. \A i \in 1 .. Capacity : i - 1 \in 0 .. (Capacity - 1) /\ (i - 1) + 1 = i
  BY <1>2
<1>4. \A p \in 0 .. (Capacity - 1) : p + 1 \in 1 .. Capacity
  BY <1>2
<1>5. \A i \in 1 .. Capacity : AddressOf(i) = AddressIn(chain, i - 1)
  <2> SUFFICES ASSUME NEW i \in 1 .. Capacity PROVE AddressOf(i) = AddressIn(chain, i - 1)
    OBVIOUS
  <2>1. AddressOf((i - 1) + 1) = AddressIn(chain, i - 1)
    BY <1>1, <1>3
  <2> QED
    BY <1>3, <2>1
<1> QED
  BY <1>1, <1>3, <1>4, <1>5 DEF Addresses

(* What holds for the other clusters when a step changes at most the table *)
(* and the file.                                                           *)
LEMMA OthersStay ==
  ASSUME disk \in Plain, disk' \in Plain, chain' = chain,
         \A b \in 0 .. (DiskSize - 1) : TableSize <= b /\ b \notin Addresses => disk'[b] = disk[b]
  PROVE  Others' = Others
<1>1. DOMAIN disk = 0 .. (DiskSize - 1) /\ DOMAIN disk' = 0 .. (DiskSize - 1)
  BY DEF Plain
<1>2. Addresses' = Addresses
  BY SameChain
<1> DEFINE D == {b \in 0 .. (DiskSize - 1) : b >= TableSize} \ Addresses
<1>3. Others = [b \in D |-> disk[b]] /\ Others' = [b \in D |-> disk'[b]]
  BY <1>1, <1>2 DEF Others
<1>4. \A b \in D : b \in 0 .. (DiskSize - 1) /\ TableSize <= b /\ b \notin Addresses
  BY Sizes
<1> QED
  BY <1>3, <1>4

(* An entry that is set.                                                   *)
LEMMA SetPromise ==
  ASSUME IInv, NEW position \in Entries, NEW value \in Values, Set_Entry_Value(position, value)
  PROVE  Promise!Set(position, value)
<1>1. disk \in Plain /\ fat_table_in_ram \in Bytes
  BY Types DEF IInv
<1>2. /\ fat_table_in_ram' = Copy_Bits_To_Fat(fat_table_in_ram, position, value)
      /\ disk' = disk /\ chain' = chain
  BY DEF Set_Entry_Value
<1>3. position \in Cluster /\ value \in 0 .. (Power[FatType] - 1)
  BY DiskAssumption
<1>4. \A c \in Cluster : Get_Entry_Value(fat_table_in_ram', c)
                           = IF c = position THEN value ELSE Get_Entry_Value(fat_table_in_ram, c)
  BY <1>1, <1>2, <1>3, SetEntry
<1>5. TableOf(fat_table_in_ram)' = [TableOf(fat_table_in_ram) EXCEPT ![position] = value]
  BY <1>3, <1>4 DEF TableOf
<1>6. TableOf(disk)' = TableOf(disk)
  BY <1>2 DEF TableOf
<1>7. ContentOf(disk)' = ContentOf(disk) /\ Breaks' = Breaks
  BY <1>2, SameChain
<1>8. Others' = Others
  BY <1>1, <1>2, OthersStay
<1> QED
  BY <1>5, <1>6, <1>7, <1>8 DEF Promise!Set

(* A save.                                                                 *)
LEMMA SavePromise ==
  ASSUME IInv, Save_Changes
  PROVE  Promise!Save
<1>1. disk \in Plain /\ fat_table_in_ram \in Bytes /\ chain \in OfFile
  BY Types DEF IInv
<1>2. fat_table_in_ram' = fat_table_in_ram /\ chain' = chain
  BY DEF Save_Changes
<1>3. disk' \in Plain
  BY SaveIInv, DiskAssumption DEF IInv, TypeOK, Plain
<1>4. /\ \A y \in EntryBytes : disk'[y] = fat_table_in_ram[y]
      /\ \A b \in 0 .. (DiskSize - 1) : TableSize <= b => disk'[b] = disk[b]
  BY SaveIInv
<1>5. TableOf(disk)' = TableOf(fat_table_in_ram)
  <2>1. \A c \in Cluster : Get_Entry_Value(disk', c) = Get_Entry_Value(fat_table_in_ram, c)
    BY <1>4, EntryFromBytes
  <2> QED
    BY <2>1 DEF TableOf
<1>6. TableOf(fat_table_in_ram)' = TableOf(fat_table_in_ram)
  BY <1>2 DEF TableOf
<1>7. ContentOf(disk)' = ContentOf(disk)
  <2>1. \A i \in 1 .. Capacity : disk'[AddressIn(chain, i - 1)] = disk[AddressIn(chain, i - 1)]
    <3> SUFFICES ASSUME NEW i \in 1 .. Capacity
                 PROVE  disk'[AddressIn(chain, i - 1)] = disk[AddressIn(chain, i - 1)]
      OBVIOUS
    <3> DEFINE p == i - 1
    <3>1. p \in 0 .. (Capacity - 1)
      BY Sizes
    <3> HIDE DEF p
    <3>2. AddressIn(chain, p) \in 0 .. (DiskSize - 1) /\ TableSize <= AddressIn(chain, p)
      BY <1>1, <3>1, AddressFacts
    <3>3. disk'[AddressIn(chain, p)] = disk[AddressIn(chain, p)]
      BY <1>4, <3>2
    <3> QED
      BY <3>3 DEF p
  <2>2. /\ ContentOf(disk) = [i \in 1 .. Capacity |-> disk[AddressIn(chain, i - 1)]]
        /\ ContentOf(disk') = [i \in 1 .. Capacity |-> disk'[AddressIn(chain, i - 1)]]
    BY <1>1, ContentIs
  <2>3. ContentOf(disk') = ContentOf(disk)
    BY <2>1, <2>2
  <2> QED
    BY <1>2, <2>3, SameChain
<1>8. Breaks' = Breaks
  BY <1>2, SameChain
<1>9. Others' = Others
  BY <1>1, <1>2, <1>3, <1>4, OthersStay
<1> QED
  BY <1>5, <1>6, <1>7, <1>8, <1>9 DEF Promise!Save

-----------------------------------------------------------------------------
(* A part of a sequence replaced.                                          *)
LEMMA PartReplaced ==
  ASSUME NEW c \in Seq(Byte), NEW buffer \in Seq(Byte), NEW start \in Nat, start + Len(buffer) <= Len(c)
  PROVE  LET w == SubSeq(c, 1, start) \o buffer \o SubSeq(c, start + Len(buffer) + 1, Len(c))
         IN  /\ w \in Seq(Byte) /\ Len(w) = Len(c)
             /\ \A i \in 1 .. Len(c) :
                  w[i] = IF (i - 1) - start \in 0 .. (Len(buffer) - 1) THEN buffer[((i - 1) - start) + 1] ELSE c[i]
<1> DEFINE m == Len(c)
           n == Len(buffer)
           front == SubSeq(c, 1, start)
           rest == SubSeq(c, start + n + 1, m)
           some == front \o buffer
           w == some \o rest
<1>1. m \in Nat /\ n \in Nat /\ start + n <= m
  BY LenProperties
<1>2. \A i \in 1 .. m : c[i] \in Byte
  BY ElementOfSeq
<1> HIDE DEF m, n
<1>3. /\ front \in Seq(Byte) /\ Len(front) = start
      /\ \A i \in 1 .. start : front[i] = c[i]
  <2>1. \A i \in 1 .. start : c[i] \in Byte
    BY <1>1, <1>2
  <2>2. /\ front \in Seq(Byte) /\ Len(front) = IF 1 <= start THEN start - 1 + 1 ELSE 0
        /\ \A i \in 1 .. start - 1 + 1 : front[i] = c[1 + i - 1]
    BY <2>1, SubSeqProperties
  <2> HIDE DEF front
  <2> QED
    BY <2>2
<1>4. /\ rest \in Seq(Byte) /\ Len(rest) = m - (start + n)
      /\ \A i \in 1 .. (m - (start + n)) : rest[i] = c[(start + n) + i]
  <2> DEFINE a == start + n + 1
  <2>1. a \in Nat \ {0} /\ a = (start + n) + 1
    BY <1>1
  <2>2. \A i \in a .. m : c[i] \in Byte
    BY <1>1, <1>2, <2>1
  <2> HIDE DEF a
  <2>3. /\ SubSeq(c, a, m) \in Seq(Byte) /\ Len(SubSeq(c, a, m)) = IF a <= m THEN m - a + 1 ELSE 0
        /\ \A i \in 1 .. m - a + 1 : SubSeq(c, a, m)[i] = c[a + i - 1]
    BY <1>1, <2>1, <2>2, SubSeqProperties
  <2>4. rest = SubSeq(c, a, m)
    BY DEF a
  <2> HIDE DEF rest
  <2>5. (IF a <= m THEN m - a + 1 ELSE 0) = m - (start + n) /\ m - a + 1 = m - (start + n)
    BY <1>1, <2>1
  <2>6. rest \in Seq(Byte) /\ Len(rest) = m - (start + n)
    BY <2>3, <2>4, <2>5
  <2>7. ASSUME NEW i \in 1 .. (m - (start + n)) PROVE rest[i] = c[(start + n) + i]
    <3>1. i \in Int /\ a + i - 1 = (start + n) + i
      BY <1>1, <2>1
    <3>2. rest[i] = c[a + i - 1]
      BY <2>3, <2>4, <2>5
    <3> QED
      BY <3>1, <3>2
  <2> QED
    BY <2>6, <2>7
<1> HIDE DEF front, rest
<1>5. /\ some \in Seq(Byte) /\ Len(some) = start + n
      /\ \A i \in 1 .. (start + n) : some[i] = IF i <= start THEN front[i] ELSE buffer[i - start]
  <2>1. /\ some \in Seq(Byte) /\ Len(some) = Len(front) + Len(buffer)
        /\ \A i \in 1 .. Len(front) + Len(buffer) :
             some[i] = IF i <= Len(front) THEN front[i] ELSE buffer[i - Len(front)]
    BY <1>3, ConcatProperties
  <2> HIDE DEF some
  <2> QED
    BY <1>3, <2>1 DEF n
<1> HIDE DEF some
<1>6. /\ w \in Seq(Byte) /\ Len(w) = m
      /\ \A i \in 1 .. m : w[i] = IF i <= start + n THEN some[i] ELSE rest[i - (start + n)]
  <2>1. /\ w \in Seq(Byte) /\ Len(w) = Len(some) + Len(rest)
        /\ \A i \in 1 .. Len(some) + Len(rest) :
             w[i] = IF i <= Len(some) THEN some[i] ELSE rest[i - Len(some)]
    <3>1. some \in Seq(Byte) /\ rest \in Seq(Byte)
      BY <1>4, <1>5
    <3> QED
      BY ONLY <3>1, ConcatProperties
  <2>2. Len(some) + Len(rest) = m /\ Len(some) = start + n
    BY <1>1, <1>4, <1>5
  <2> HIDE DEF w
  <2> QED
    BY <2>1, <2>2
<1> HIDE DEF w
<1>7. ASSUME NEW i \in 1 .. m
      PROVE  w[i] = IF (i - 1) - start \in 0 .. (n - 1) THEN buffer[((i - 1) - start) + 1] ELSE c[i]
  <2>1. i \in Nat /\ i >= 1 /\ i <= m
    BY <1>1
  <2>2. CASE i <= start
    <3>1. w[i] = c[i]
      BY <1>1, <1>3, <1>5, <1>6, <2>1, <2>2
    <3>2. (i - 1) - start \notin 0 .. (n - 1)
      BY <1>1, <2>1, <2>2
    <3> QED
      BY <3>1, <3>2
  <2>3. CASE start < i /\ i <= start + n
    <3>1. w[i] = buffer[i - start]
      BY <1>1, <1>5, <1>6, <2>1, <2>3
    <3>2. (i - 1) - start \in 0 .. (n - 1) /\ ((i - 1) - start) + 1 = i - start
      BY <1>1, <2>1, <2>3
    <3> QED
      BY <3>1, <3>2
  <2>4. CASE start + n < i
    <3>1. i - (start + n) \in 1 .. (m - (start + n)) /\ (start + n) + (i - (start + n)) = i
      BY <1>1, <2>1, <2>4
    <3>2. w[i] = rest[i - (start + n)]
      BY <1>1, <1>6, <2>1, <2>4
    <3>3. w[i] = c[i]
      BY <1>4, <3>1, <3>2
    <3>4. (i - 1) - start \notin 0 .. (n - 1)
      BY <1>1, <2>1, <2>4
    <3> QED
      BY <3>3, <3>4
  <2> QED
    BY <1>1, <2>1, <2>2, <2>3, <2>4
<1> QED
  BY <1>6, <1>7 DEF w, some, front, rest, m, n

(* A write.                                                                *)
LEMMA PutPromise ==
  ASSUME IInv, NEW start \in 0 .. (Capacity - 1), NEW buffer \in Buffers, Write_To_File(start, buffer)
  PROVE  Promise!Put(start, buffer) \/ UNCHANGED Promise!vars
<1> DEFINE old == ContentOf(disk)
           new == ContentOf(disk')
           n == Len(buffer)
<1>1. disk \in Plain /\ fat_table_in_ram \in Bytes /\ chain \in OfFile /\ chain \in Chains /\ buffer \in Seq(Byte)
  BY Types, DiskAssumption DEF IInv
<1>2. fat_table_in_ram' = fat_table_in_ram /\ chain' = chain /\ start + n <= Capacity
  BY DEF Write_To_File
<1>3. disk' \in Plain
  BY WriteIInv, DiskAssumption DEF IInv, TypeOK, Plain
<1>4. /\ \A b \in (0 .. (DiskSize - 1)) \ FileBytes(chain) : disk'[b] = disk[b]
      /\ \A y \in EntryBytes : disk'[y] = disk[y]
  BY WriteIInv
<1>5. TableOf(disk)' = TableOf(disk)
  <2>1. \A c \in Cluster : Get_Entry_Value(disk', c) = Get_Entry_Value(disk, c)
    BY <1>4, EntryFromBytes
  <2> QED
    BY <2>1 DEF TableOf
<1>6. TableOf(fat_table_in_ram)' = TableOf(fat_table_in_ram)
  BY <1>2 DEF TableOf
<1>7. Breaks' = Breaks /\ ContentOf(disk)' = new
  BY <1>2, SameChain
<1>8. Others' = Others
  <2>1. FileBytes(chain) \subseteq Addresses
    <3> SUFFICES ASSUME NEW b \in FileBytes(chain) PROVE b \in Addresses
      OBVIOUS
    <3>1. \E p \in 0 .. (Capacity - 1) : AddressIn(chain, p) = b
      BY <1>1, FileBytesAreAddresses
    <3> QED
      BY <1>1, <3>1, AddressesAre
  <2>2. \A b \in 0 .. (DiskSize - 1) : TableSize <= b /\ b \notin Addresses => disk'[b] = disk[b]
    BY <1>4, <2>1
  <2> QED
    BY <1>1, <1>2, <1>3, <2>2, OthersStay
<1>9. CASE Leaves(start, n)
  <2>1. disk' = disk
    BY <1>9 DEF Write_To_File
  <2>2. ContentOf(disk)' = ContentOf(disk)
    BY <1>7, <2>1
  <2> QED
    BY <1>5, <1>6, <1>7, <1>8, <2>2 DEF Promise!vars
<1>10. CASE ~Leaves(start, n)
  <2>1. /\ old \in Seq(Byte) /\ Len(old) = Capacity /\ Capacity \in Nat /\ DOMAIN old = 1 .. Capacity
        /\ \A i \in 1 .. Capacity : old[i] = disk[AddressIn(chain, i - 1)]
    BY <1>1, ContentType
  <2>2. /\ new \in Seq(Byte) /\ Len(new) = Capacity /\ new \in [1 .. Capacity -> Byte]
        /\ \A i \in 1 .. Capacity : new[i] = disk'[AddressIn(chain, i - 1)]
    BY <1>1, <1>3, ContentType
  <2>3. disk' = Write_Clusters(disk, chain, start, buffer)
    BY <1>10 DEF Write_To_File
  <2> HIDE DEF old, new
  <2>4. ASSUME Promise!Promised(start, n)
        PROVE  new = SubSeq(old, 1, start) \o buffer \o SubSeq(old, start + Len(buffer) + 1, Len(old))
    <3>1. n \in Nat /\ start \in Nat
      BY <1>1, <2>1, LenProperties
    <3>2. InPiece(chain, start, n)
      BY <1>1, <2>4, <3>1, PromisedIsInPiece
    <3>3. \A p \in 0 .. (Capacity - 1) :
            disk'[AddressIn(chain, p)]
              = IF p - start \in 0 .. (n - 1) THEN buffer[(p - start) + 1] ELSE disk[AddressIn(chain, p)]
      BY <1>1, <1>2, <2>3, <3>2, WriteInPiece
    <3>4. \A i \in 1 .. Capacity :
            new[i] = IF (i - 1) - start \in 0 .. (n - 1) THEN buffer[((i - 1) - start) + 1] ELSE old[i]
      <4> SUFFICES ASSUME NEW i \in 1 .. Capacity
                   PROVE  new[i] = IF (i - 1) - start \in 0 .. (n - 1)
                                   THEN buffer[((i - 1) - start) + 1] ELSE old[i]
        OBVIOUS
      <4> DEFINE p == i - 1
      <4>1. p \in 0 .. (Capacity - 1)
        BY <2>1
      <4>2. new[i] = disk'[AddressIn(chain, p)] /\ old[i] = disk[AddressIn(chain, p)]
        BY <2>1, <2>2
      <4> HIDE DEF p
      <4>3. new[i] = IF p - start \in 0 .. (n - 1) THEN buffer[(p - start) + 1] ELSE old[i]
        BY <3>3, <4>1, <4>2
      <4> QED
        BY <4>3 DEF p
    <3> DEFINE w == SubSeq(old, 1, start) \o buffer \o SubSeq(old, start + Len(buffer) + 1, Len(old))
    <3>5. /\ w \in Seq(Byte) /\ Len(w) = Len(old)
          /\ \A i \in 1 .. Len(old) :
               w[i] = IF (i - 1) - start \in 0 .. (Len(buffer) - 1) THEN buffer[((i - 1) - start) + 1] ELSE old[i]
      BY <1>1, <1>2, <2>1, <3>1, PartReplaced
    <3> HIDE DEF w
    <3>6. Len(w) = Len(new) /\ \A i \in 1 .. Len(w) : w[i] = new[i]
      BY <2>1, <2>2, <3>4, <3>5
    <3>7. w = new
      BY <2>2, <3>5, <3>6, SeqEqual
    <3> QED
      BY <3>7 DEF w
  <2>5. Promise!Put(start, buffer)
    <3>1. start + n <= Len(old)
      BY <1>2, <2>1
    <3>2. ASSUME ~Promise!Promised(start, n)
          PROVE  new \in [DOMAIN old -> Byte]
      BY <2>1, <2>2
    <3>3. ContentOf(disk)' = new /\ ContentOf(disk) = old
      BY <1>7 DEF old
    <3> HIDE DEF n
    <3>4. IF Promise!Promised(start, n)
          THEN ContentOf(disk)' = Promise!Overwritten(start, buffer)
          ELSE ContentOf(disk)' \in [DOMAIN ContentOf(disk) -> Byte]
      BY <2>4, <3>2, <3>3 DEF Promise!Overwritten
    <3> QED
      BY <1>5, <1>6, <1>7, <1>8, <3>1, <3>3, <3>4 DEF Promise!Put, n
  <2> QED
    BY <2>5
<1> QED
  BY <1>9, <1>10

(* Cluster_IO and Fat_IO keep what the disk promises: every call on the    *)
(* file changes the file only, and in a piece just the bytes meant; an     *)
(* entry that is set changes no other entry; a save brings all of the      *)
(* table to the disk.                                                      *)
THEOREM PromiseIsKept == Spec => KeepsPromise
<1>1. IInv /\ [Next]_vars => [Promise!Next]_(Promise!vars)
  <2> SUFFICES ASSUME IInv, [Next]_vars PROVE [Promise!Next]_(Promise!vars)
    OBVIOUS
  <2>1. ASSUME NEW position \in Entries, NEW value \in Values, Set_Entry_Value(position, value)
        PROVE  Promise!Next
    <3>1. Promise!Set(position, value) /\ position \in Cluster
      BY <2>1, SetPromise, DiskAssumption
    <3> QED
      BY <3>1 DEF Promise!Next
  <2>2. CASE Save_Changes
    BY <2>2, SavePromise DEF Promise!Next
  <2>3. ASSUME NEW start \in 0 .. (Capacity - 1), NEW buffer \in Buffers, Write_To_File(start, buffer)
        PROVE  [Promise!Next]_(Promise!vars)
    <3>1. Promise!Put(start, buffer) \/ UNCHANGED Promise!vars
      BY <2>3, PutPromise
    <3>2. Len(ContentOf(disk)) = Capacity
      BY Types, ContentType DEF IInv
    <3> QED
      BY <3>1, <3>2 DEF Promise!Next
  <2>4. CASE UNCHANGED vars
    <3>1. disk' = disk /\ fat_table_in_ram' = fat_table_in_ram /\ chain' = chain
      BY <2>4 DEF vars
    <3>2. ContentOf(disk)' = ContentOf(disk) /\ Breaks' = Breaks /\ Addresses' = Addresses
      BY <3>1, SameChain
    <3>3. Others' = Others
      BY <3>1, <3>2 DEF Others
    <3> QED
      BY <3>1, <3>2, <3>3 DEF Promise!vars, TableOf
  <2> QED
    BY <2>1, <2>2, <2>3, <2>4 DEF Next
<1> QED
  BY <1>1, InitPromise, Invariance, PTL DEF Spec, Promise!Spec, KeepsPromise
=============================================================================
