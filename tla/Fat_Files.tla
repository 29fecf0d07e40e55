----------------------------- MODULE Fat_Files -----------------------------
(***************************************************************************)
(* The FAT: Fat12 and Fat_File, with the files of the root directory as    *)
(* VFS_File and Fat_Directory use them.  What the clusters hold is left    *)
(* out, except for the root's entries.                                     *)
(*                                                                         *)
(* One call at a time: nothing in the code keeps two calls from running    *)
(* into each other, and two that change the table or the root at once are  *)
(* not modelled.  The table is the copy in RAM that every read goes to.  A *)
(* cluster is one sector, as VFS::VFS has it.                              *)
(***************************************************************************)
EXTENDS Integers, SequencesExt

CONSTANTS
  Name,          \* the names of files
  ClusterCount,  \* Get_Cluster_Count()
  ClusterSize,   \* Bytes_Per(CLUSTER), which is Bytes_Per(SECTOR)
  EntrySize,     \* sizeof(Fat_Dir_Entry)
  HowMany,       \* the lengths of reads and writes
  Offsets,       \* the arguments of Seek
  MaxPosition,   \* the highest file_position (bound)
  Shrinking,     \* FALSE: no call gives clusters of a file back and keeps the file
  Scattered,     \* FALSE: the root only grows to the cluster after its last one
  FAT_EOF, FAT_FREE,
  Closed         \* no element is open

ASSUME SizeAssumption ==
  /\ ClusterCount \in Nat \ {0} /\ ClusterSize \in Nat \ {0}
  /\ EntrySize \in 1 .. ClusterSize
  /\ HowMany \subseteq Nat /\ Offsets \subseteq Nat /\ MaxPosition \in Nat
  /\ Shrinking \in BOOLEAN /\ Scattered \in BOOLEAN

Cluster == 0 .. (ClusterCount - 1)

ASSUME MarkAssumption == FAT_EOF \notin Cluster /\ FAT_FREE \notin Cluster /\ FAT_EOF # FAT_FREE

VARIABLES
  fat,             \* the table
  last_allocated,  \* Fat12::last_allocated
  root,            \* the Fat_File of the root directory
  entries,         \* what the root's clusters hold: its entries in order
  opened           \* the open element of each file: its Fat_File and file_position

vars == <<fat, last_allocated, root, entries, opened>>

Fat_File ==
  [file_start : Cluster, file_size : Nat, allocated_clusters : 1 .. ClusterCount]
Element ==
  [file_start : Cluster, file_size : Nat, allocated_clusters : 1 .. ClusterCount, file_position : Nat]
Dir_Entry == [file_name : Name, file_start : Cluster, file_size : Nat]

Smaller(a, b) == IF a <= b THEN a ELSE b

-----------------------------------------------------------------------------
(* Fat12.  The operators that change the table work on a record of it and  *)
(* of last_allocated, for a call may use several.                          *)

(* Get_File_Clusters, cut off where the table does not lead on (there the  *)
(* code reads past the table or runs for ever).                            *)
Get_File_Clusters(table, file_start) ==
  LET upto[k \in 0 .. ClusterCount] ==
        IF k = 0 THEN <<file_start>>
        ELSE LET before == upto[k - 1]
                 next == table[Last(before)]
             IN IF next \in Cluster THEN Append(before, next) ELSE before
  IN upto[ClusterCount]

(* Allocate_One_Cluster looks for a free one from last_allocated on; a     *)
(* table without one is full.                                              *)
Full(disk) == \A c \in Cluster : disk.fat[c] # FAT_FREE

FreeCluster(disk) ==
  LET position(i) == (disk.last_allocated + i) % ClusterCount
      i == CHOOSE i \in Cluster :
             /\ disk.fat[position(i)] = FAT_FREE
             /\ \A j \in 0 .. (i - 1) : disk.fat[position(j)] # FAT_FREE
  IN position(i)

(* Mutant: the cluster is not marked until something follows it.           *)
TakeUnmarked(disk, c) == [fat |-> disk.fat, last_allocated |-> c]

(* The cluster found ends a chain.                                         *)
Take(disk, c) == [fat |-> [disk.fat EXCEPT ![c] = FAT_EOF], last_allocated |-> c]

(* Mutant: the new cluster follows the first one.                          *)
LinkFirst(disk, file_start, c) ==
  [disk EXCEPT !.fat[file_start] = c]

(* The cluster follows the last one of the file.                           *)
Link(disk, file_start, c) ==
  [disk EXCEPT !.fat[Last(Get_File_Clusters(disk.fat, file_start))] = c]

(* Allocate_Clusters_For_Existing_File: as many as there are, up to        *)
(* how_many.                                                               *)
OneMore(before, file_start) ==
  IF Full(before.disk) THEN before
  ELSE LET c == FreeCluster(before.disk)
       IN [disk |-> Take(Link(before.disk, file_start, c), c), count |-> before.count + 1]

Allocate_Clusters(disk, file_start, how_many) ==
  LET after[k \in 0 .. how_many] ==
        IF k = 0 THEN [disk |-> disk, count |-> 0] ELSE OneMore(after[k - 1], file_start)
  IN after[how_many]

(* Deallocate_Last_N_Clusters: what is freed are the table's entries at    *)
(* the indices the last clusters have in the file, and the end is set at   *)
(* an index likewise.                                                      *)
Deallocate_Last_N_Clusters(disk, file_start, how_many) ==
  LET count == Len(Get_File_Clusters(disk.fat, file_start))
      freed == (count - how_many) .. (count - 1)
  IN [disk EXCEPT !.fat =
        [c \in Cluster |-> IF c = count - how_many - 1 THEN FAT_EOF
                           ELSE IF c \in freed THEN FAT_FREE ELSE disk.fat[c]]]

(* Mutant: only the first cluster is freed.                                *)
FreeFirst(disk, file_start) == [disk EXCEPT !.fat[file_start] = FAT_FREE]

Deallocate_File(disk, file_start) ==
  LET chain == ToSet(Get_File_Clusters(disk.fat, file_start))
  IN [disk EXCEPT !.fat = [c \in Cluster |-> IF c \in chain THEN FAT_FREE ELSE disk.fat[c]]]

-----------------------------------------------------------------------------
(* Fat_File.                                                               *)

(* Mutant: an empty file needs no cluster.                                 *)
Need_From_Zero(size) == (size + ClusterSize - 1) \div ClusterSize

Calculate_Cluster_Need(size) ==
  IF size = 0 THEN 1 ELSE (size + ClusterSize - 1) \div ClusterSize

(* The file with the clusters that were to be had.                         *)
Grown(file, allocated) ==
  [disk |-> allocated.disk, file |-> [file EXCEPT !.allocated_clusters = @ + allocated.count]]

(* A file that has what Calculate_Cluster_Difference asks for, or what the *)
(* disk could give; it is shrunk only if "shrink" says so.                 *)
Resize(disk, file, size, shrink) ==
  LET difference == Calculate_Cluster_Need(size) - file.allocated_clusters IN
  IF difference > 0
  THEN Grown(file, Allocate_Clusters(disk, file.file_start, difference))
  ELSE IF difference < 0 /\ shrink
  THEN [disk |-> Deallocate_Last_N_Clusters(disk, file.file_start, -difference),
        file |-> [file EXCEPT !.allocated_clusters = @ + difference]]
  ELSE [disk |-> disk, file |-> file]

(* Mutant: the size is what was asked for.                                 *)
Asked(file, size) == size

Capped(file, size) == Smaller(file.allocated_clusters * ClusterSize, size)

Sized(resized, size) == [resized EXCEPT !.file.file_size = Capped(resized.file, size)]

Change_File_Size(disk, file, size) == Sized(Resize(disk, file, size, TRUE), size)

Expand_File(disk, file, size) ==
  IF file.file_size < size
  THEN Sized(Resize(disk, file, size, FALSE), size)
  ELSE Resize(disk, file, size, FALSE)

(* The environment the calls run in when Shrinking is FALSE.               *)
MayBecome(file, size) == Shrinking \/ Calculate_Cluster_Need(size) >= file.allocated_clusters

-----------------------------------------------------------------------------
(* Fat_Directory, for the root: one Fat_File that every call shares.  Its  *)
(* entries are read and written at once and from the start, which moves    *)
(* the right bytes as long as its clusters are neighbours (module Disk).   *)
InOnePiece(disk) ==
  LET chain == Get_File_Clusters(disk.fat, root.file_start)
  IN \A i \in 2 .. Len(chain) : chain[i] = chain[i - 1] + 1

(* Read_All_Entries: as many as the size says.                             *)
Read_All_Entries == SubSeq(entries, 1, root.file_size \div EntrySize)

Index(list, name) ==
  {i \in DOMAIN list : list[i].file_name = name /\ \A j \in 1 .. (i - 1) : list[j].file_name # name}

(* Mutant: the last entry goes, whichever was to be removed.               *)
PopLast(list, i) == Front(list)

(* Set_Last_Element_To_Index.                                              *)
SetLastTo(list, i) == Front([list EXCEPT ![i] = Last(list)])

(* Write_Entries: with room for all of them they are written, otherwise    *)
(* the root has grown as far as it could and keeps what it holds.          *)
Stored(resized, old, list) ==
  LET written == resized.file.file_size = Len(list) * EntrySize
  IN [disk |-> resized.disk, root |-> resized.file, written |-> written,
      entries |-> IF written THEN list ELSE old]

Write_Entries(disk, file, old, list) ==
  Stored(Change_File_Size(disk, file, Len(list) * EntrySize), old, list)

Disk == [fat |-> fat, last_allocated |-> last_allocated]

Becomes(disk) == fat' = disk.fat /\ last_allocated' = disk.last_allocated

DirectoryBecomes(result) ==
  Becomes(result.disk) /\ root' = result.root /\ entries' = result.entries

-----------------------------------------------------------------------------
(* Set_All_Entries_To_Free, and the root gets its first cluster.           *)
Init ==
  /\ fat = [c \in Cluster |-> IF c = 0 THEN FAT_EOF ELSE FAT_FREE]
  /\ last_allocated = 0
  /\ root = [file_start |-> 0, file_size |-> 0, allocated_clusters |-> 1]
  /\ entries = <<>>
  /\ opened = [n \in Name |-> Closed]

(* A file of that name is removed, and its entry with it.                  *)
Removed(n) ==
  LET list == Read_All_Entries IN
  IF Index(list, n) = {}
  THEN [disk |-> Disk, root |-> root, written |-> TRUE, entries |-> entries]
  ELSE LET i == CHOOSE i \in Index(list, n) : TRUE
       IN Write_Entries(Deallocate_File(Disk, list[i].file_start),
                        root, entries, SetLastTo(list, i))

MayRemove(n) ==
  LET list == Read_All_Entries
  IN Index(list, n) # {} => MayBecome(root, (Len(list) - 1) * EntrySize)

(* delete_file of a file that is not open.                                 *)
Delete(n) ==
  /\ opened[n] = Closed
  /\ MayRemove(n)
  /\ DirectoryBecomes(Removed(n))
  /\ UNCHANGED opened

(* Mutant: a file that gets no entry keeps its cluster.                    *)
KeepCluster(disk, file_start) == disk

(* The file that gets no entry is removed again (create_file_using_parent).*)
Undo(disk, file_start) == Deallocate_File(disk, file_start)

(* The file's entry comes after the others.                                *)
Added(before, n, start) ==
  LET list == SubSeq(before.entries, 1, before.root.file_size \div EntrySize)
  IN Write_Entries(Take(before.disk, start), before.root, before.entries,
       Append(list, [file_name |-> n, file_start |-> start, file_size |-> 0]))

(* create_file: what has the name goes first; then, unless the attributes  *)
(* are those of no element, the file gets a cluster and its entry.         *)
Create(n) ==
  /\ opened[n] = Closed
  /\ MayRemove(n)
  /\ \E before \in {Removed(n)} :
     \/ DirectoryBecomes(before) /\ UNCHANGED opened
     \/ /\ ~Full(before.disk)
        /\ \E start \in {FreeCluster(before.disk)} : \E result \in {Added(before, n, start)} :
             /\ Scattered \/ InOnePiece(result.disk)
             /\ root' = result.root
             /\ entries' = result.entries
             /\ IF result.written
                THEN /\ Becomes(result.disk)
                     /\ opened' = [opened EXCEPT ![n] =
                          [file_start |-> start, file_size |-> 0,
                           allocated_clusters |-> 1, file_position |-> 0]]
                ELSE Becomes(Undo(result.disk, start)) /\ UNCHANGED opened

(* open_file: the number of clusters is what the size in the entry needs.  *)
Open(n) ==
  /\ opened[n] = Closed
  /\ \E i \in Index(Read_All_Entries, n) :
       opened' = [opened EXCEPT ![n] =
         [file_start |-> entries[i].file_start, file_size |-> entries[i].file_size,
          allocated_clusters |-> Calculate_Cluster_Need(entries[i].file_size),
          file_position |-> 0]]
  /\ UNCHANGED <<fat, last_allocated, root, entries>>

Close(n) ==
  /\ opened[n] # Closed
  /\ opened' = [opened EXCEPT ![n] = Closed]
  /\ UNCHANGED <<fat, last_allocated, root, entries>>

(* Write_To_File: inside the file it writes up to the file's end, past the *)
(* end of a full disk it goes on with sectors that are none of the file's  *)
(* (what that does to them is left out).                                   *)
Written(file, position, how_many) ==
  IF position + how_many < file.file_size THEN file.file_size - position ELSE how_many

(* Change_Entry.                                                           *)
Renewed(list, n, file) ==
  [i \in DOMAIN list |->
     IF i \in Index(list, n)
     THEN [list[i] EXCEPT !.file_start = file.file_start, !.file_size = file.file_size]
     ELSE list[i]]

(* VFS_File::Write, with the entry renewed.                                *)
Write(n, how_many) ==
  /\ opened[n] # Closed
  /\ \E grown \in {Expand_File(Disk, opened[n], opened[n].file_position + how_many)} :
       LET position == opened[n].file_position
           after == position + Written(grown.file, position, how_many)
           list == Read_All_Entries
       IN /\ after <= MaxPosition
          /\ opened' = [opened EXCEPT ![n] = [grown.file EXCEPT !.file_position = after]]
          /\ IF Index(list, n) # {}
             THEN \E result \in {Write_Entries(grown.disk, root, entries,
                                              Renewed(list, n, grown.file))} :
                    DirectoryBecomes(result)
             ELSE Becomes(grown.disk) /\ UNCHANGED <<root, entries>>

(* VFS_File::Read; past the end the difference wraps round.                *)
Read(n, how_many) ==
  /\ opened[n] # Closed
  /\ LET position == opened[n].file_position
         size == opened[n].file_size
         read == IF position <= size THEN Smaller(size - position, how_many) ELSE how_many
     IN /\ position + read <= MaxPosition
        /\ opened' = [opened EXCEPT ![n].file_position = position + read]
  /\ UNCHANGED <<fat, last_allocated, root, entries>>

(* VFS_File::Seek to an offset from the start, from the position or to the *)
(* end.  Set_Size sets the size of the Fat_File; the entry stays.          *)
SeekPositions(n) ==
  {p \in Offsets \cup {opened[n].file_position + o : o \in Offsets} \cup {opened[n].file_size} :
     p <= MaxPosition}

SetPosition(n) ==
  /\ opened[n] # Closed
  /\ \E p \in SeekPositions(n) : opened' = [opened EXCEPT ![n].file_position = p]
  /\ UNCHANGED <<fat, last_allocated, root, entries>>

SetSize(n) ==
  /\ opened[n] # Closed
  /\ \E p \in SeekPositions(n) :
         /\ MayBecome(opened[n], p)
         /\ \E result \in {Change_File_Size(Disk, opened[n], p)} :
              /\ Becomes(result.disk)
              /\ opened' = [opened EXCEPT ![n] = [result.file EXCEPT !.file_position = p]]
  /\ UNCHANGED <<root, entries>>

Next ==
  \E n \in Name :
    \/ Create(n) \/ Open(n) \/ Close(n) \/ Delete(n)
    \/ SetPosition(n) \/ SetSize(n)
    \/ \E k \in HowMany : Write(n, k) \/ Read(n, k)

Spec == Init /\ [][Next]_vars

-----------------------------------------------------------------------------
(* Each component has its type.                                            *)
TypeOK ==
  /\ fat \in [Cluster -> Cluster \cup {FAT_EOF, FAT_FREE}]
  /\ last_allocated \in Cluster
  /\ root \in Fat_File
  /\ entries \in Seq(Dir_Entry)
  /\ opened \in [Name -> Element \cup {Closed}]

(* The starts of the chains there should be: the root's and the files'.    *)
Starts == {root.file_start} \cup {entries[i].file_start : i \in DOMAIN entries}
Chain(c) == Get_File_Clusters(fat, c)
EndsWell(chain) == fat[Last(chain)] = FAT_EOF /\ IsInjective(chain)

(* Every chain comes to an end, and no two files have a cluster in common  *)
(* or are the same file, whatever was allocated, grown, deleted and        *)
(* allocated again before.                                                 *)
ChainsPartitionTheDisk ==
  /\ Cardinality(Starts) = 1 + Len(entries)
  /\ LET chain == [c \in Starts |-> Chain(c)] IN
     /\ \A c \in Starts : EndsWell(chain[c])
     /\ \A c, d \in Starts : c # d => ToSet(chain[c]) \cap ToSet(chain[d]) = {}

(* A cluster that is not free belongs to a file that is in the directory,  *)
(* also after a creation that failed half way for want of space and after  *)
(* a deletion.                                                             *)
NoClusterIsLost ==
  {c \in Cluster : fat[c] # FAT_FREE} \subseteq UNION {ToSet(Chain(s)) : s \in Starts}

(* Nobody counts on clusters a file does not have: a size in the directory *)
(* or of an open file is within its chain, so that reading and writing     *)
(* within it stays in its clusters.                                        *)
SizesFit ==
  /\ root.allocated_clusters <= Len(Chain(root.file_start))
  /\ \A i \in DOMAIN entries :
       entries[i].file_size <= Len(Chain(entries[i].file_start)) * ClusterSize
  /\ \A n \in Name : opened[n] # Closed =>
       /\ opened[n].allocated_clusters <= Len(Chain(opened[n].file_start))
       /\ opened[n].file_size <= opened[n].allocated_clusters * ClusterSize

(* The entries read are those written last, although the root may have     *)
(* grown in vain; every open file has one, which leads to it.              *)
EntriesAreTrue ==
  /\ Read_All_Entries = entries
  /\ \A n \in Name : opened[n] # Closed =>
       \E i \in DOMAIN entries :
         entries[i].file_name = n /\ entries[i].file_start = opened[n].file_start

(* A file that stays open through a call loses none of its clusters, and   *)
(* they keep their order: what a cluster of it leads to stays, and its end *)
(* at most gets a follower.                                                *)
OpenFilesOnlyGrow ==
  [][fat' # fat =>
       \A n \in Name : opened[n] # Closed /\ opened'[n] # Closed =>
         /\ opened'[n].file_start = opened[n].file_start
         /\ \A c \in ToSet(Chain(opened[n].file_start)) :
              fat'[c] = fat[c] \/ (fat[c] = FAT_EOF /\ fat'[c] # FAT_FREE)]_vars

(* api.h:58: "ch == Set_Size nastav pozici a nastav velikost souboru na    *)
(* tuto pozici", set the file's size to this position: a file that has     *)
(* become smaller has a chain of as many clusters as its size needs.       *)
ShrinksToSize ==
  [][\A n \in Name :
       (/\ opened[n] # Closed /\ opened'[n] # Closed
        /\ opened'[n].file_size < opened[n].file_size)
       => /\ EndsWell(Chain(opened[n].file_start))'
          /\ Len(Chain(opened[n].file_start)') = Calculate_Cluster_Need(opened'[n].file_size)]_vars
=============================================================================
