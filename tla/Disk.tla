-------------------------------- MODULE Disk --------------------------------
(***************************************************************************)
(* A disk with the table at its beginning and one file in its clusters:    *)
(* calls of Fat_IO and of Cluster_IO as Fat12 and Fat_File make them, one  *)
(* at a time.  The file's chain is any; it does not follow the table here  *)
(* (Fat_Files has that).                                                   *)
(***************************************************************************)
EXTENDS Fat_IO, Cluster_IO

CONSTANTS
  ChainLength,  \* the number of the file's clusters
  Chains,       \* which they may be
  Entries,      \* the entries that change after the start
  Values,       \* what they become
  Buffers,      \* the buffers written
  Byte, Zero,   \* bytes, and the one the disk is full of
  FAT_FREE

Cluster == 0 .. (Get_Cluster_Count - 1)

ASSUME DiskAssumption ==
  /\ Entries \subseteq Cluster /\ Values \subseteq 0 .. (Power[FatType] - 1) /\ FAT_FREE \in Values
  /\ Byte = 0 .. 255 /\ Zero \in Byte /\ Buffers \subseteq Seq(Byte)
  /\ ChainLength \in Nat \ {0}
  /\ \A c \in Chains : c \in [1 .. ChainLength -> Cluster] /\ IsInjective(c)

VARIABLES
  disk,               \* its bytes
  fat_table_in_ram,   \* the bytes of the table
  bitmap_for_saving,  \* the sectors to be saved
  chain,              \* the clusters of the file
  overrun             \* a copy has left its buffer

vars == <<disk, fat_table_in_ram, bitmap_for_saving, chain, overrun>>

Update_Sector(d, table, sector) ==
  Write_Sectors(d, FirstTableSector + sector, 1,
                [i \in 1 .. SectorSize |-> table[sector * SectorSize + i - 1]])

(* Update_Sector for each sector in the bitmap, in order.                  *)
Updated(d, table, sectors) ==
  FoldLeft(LAMBDA e, sector : IF sector \in sectors THEN Update_Sector(e, table, sector) ELSE e,
           d, [i \in 1 .. SectorCount |-> i - 1])

(* Fat12 sets every entry to FAT_FREE and saves the table.  What was in    *)
(* memory stays in the bits that belong to no entry.                       *)
Init ==
  /\ \E memory \in {0, 255} :
       fat_table_in_ram =
         FoldLeft(LAMBDA table, c : Copy_Bits_To_Fat(table, c, FAT_FREE),
                  [y \in 0 .. (TableSize - 1) |-> memory], [i \in 1 .. Get_Cluster_Count |-> i - 1])
  /\ disk = Updated([b \in 0 .. (DiskSize - 1) |-> Zero], fat_table_in_ram,
                    UNION {Sectors_Of_Entry(c) : c \in Cluster})
  /\ bitmap_for_saving = {}
  /\ chain \in Chains
  /\ overrun = FALSE

Set_Entry_Value(position, value) ==
  /\ ~overrun
  /\ bitmap_for_saving' = bitmap_for_saving \cup Sectors_Of_Entry(position)
  /\ fat_table_in_ram' = Copy_Bits_To_Fat(fat_table_in_ram, position, value)
  /\ UNCHANGED <<disk, chain, overrun>>

Save_Changes ==
  /\ ~overrun
  /\ disk' = Updated(disk, fat_table_in_ram, bitmap_for_saving)
  /\ bitmap_for_saving' = {}
  /\ UNCHANGED <<fat_table_in_ram, chain, overrun>>

Capacity == ChainLength * ClusterSize
TasksFor(start, how_many) == Tasks_Of_File(chain, start, how_many)
Leaves(start, how_many) ==
  \E i \in DOMAIN TasksFor(start, how_many) : Overruns(TasksFor(start, how_many)[i])

(* Write_To_File of a file that has the clusters for it.                   *)
Write_To_File(start, buffer) ==
  /\ ~overrun
  /\ start + Len(buffer) <= Capacity
  /\ IF Leaves(start, Len(buffer))
     THEN overrun' = TRUE /\ UNCHANGED disk
     ELSE disk' = Write_Clusters(disk, chain, start, buffer) /\ UNCHANGED overrun
  /\ UNCHANGED <<fat_table_in_ram, bitmap_for_saving, chain>>

Next ==
  \/ \E position \in Entries, value \in Values : Set_Entry_Value(position, value)
  \/ Save_Changes
  \/ \E start \in 0 .. (Capacity - 1), buffer \in Buffers : Write_To_File(start, buffer)

Spec == Init /\ [][Next]_vars

-----------------------------------------------------------------------------
(* Each component has its type.                                            *)
TypeOK ==
  /\ disk \in [0 .. (DiskSize - 1) -> Byte]
  /\ fat_table_in_ram \in [0 .. (TableSize - 1) -> Byte]
  /\ bitmap_for_saving \subseteq 0 .. (FirstDataSector - 1)
  /\ chain \in Chains
  /\ overrun \in BOOLEAN

(* The bytes of the file, where they are, and those of other clusters.     *)
AddressOf(i) == (FirstDataSector * SectorSize) + chain[(i - 1) \div ClusterSize + 1] * ClusterSize
                  + ((i - 1) % ClusterSize)
Addresses == {AddressOf(i) : i \in 1 .. Capacity}
ContentOf(d) == [i \in 1 .. Capacity |-> d[AddressOf(i)]]
Others == [b \in {b \in DOMAIN disk : b >= TableSize} \ Addresses |-> disk[b]]
TableOf(bytes) == [c \in Cluster |-> Get_Entry_Value(bytes, c)]

(* Cluster_IO moves the right bytes of a range that does not begin with a  *)
(* sector other than the first, and lies in clusters one after the other.  *)
Edges == {i * SectorSize : i \in 1 .. (Capacity \div SectorSize)}
Breaks == {i * ClusterSize : i \in {i \in 1 .. (Len(chain) - 1) : chain[i + 1] # chain[i] + 1}}

Promise == INSTANCE Contents WITH
  Entry <- Cluster, Value <- Values,
  Edges <- Edges, breaks <- Breaks,
  table <- TableOf(fat_table_in_ram), saved <- TableOf(disk), content <- ContentOf(disk),
  others <- Others

(* Whatever the chain looks like and wherever a range begins, the disk     *)
(* does what it promises: a call on the file leaves the table and all      *)
(* other clusters alone and, in a piece, changes just the bytes meant; an  *)
(* entry that is set does not touch its neighbours, with which it shares   *)
(* bytes and sectors; and a save brings all of the table to the disk.      *)
KeepsPromise == Promise!Spec

(* The bytes in which the entries are.                                     *)
EntryBytes == 0 .. ((Get_Cluster_Count * FatType - 1) \div 8)

(* A part of the table that is not on the disk yet will be saved.  What    *)
(* lies behind the last entry was never written to and need not be.        *)
ChangesAreDirty ==
  \A y \in EntryBytes :
    disk[y] # fat_table_in_ram[y] => y \div SectorSize \in bitmap_for_saving

(* Read_From_File: in a piece, what is read is what is there.              *)
ReadsAreTrue ==
  \A start \in 0 .. (Capacity - 1) : \A how_many \in 1 .. (Capacity - start) :
    Promise!Promised(start, how_many) =>
      Read_Clusters(disk, chain, start, how_many)
        = SubSeq(ContentOf(disk), start + 1, start + how_many)

(* api.h:45-46, "rax je pocet zapsanych bytu", the number of bytes         *)
(* written: the bytes of a write, which returns the length of its buffer,  *)
(* are in the file from its start on.                                      *)
WritesArrive ==
  [][\A start \in 0 .. (Capacity - 1), buffer \in Buffers :
       Write_To_File(start, buffer) =>
         SubSeq(ContentOf(disk)', start + 1, start + Len(buffer)) = buffer]_vars
=============================================================================
