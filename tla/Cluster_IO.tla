----------------------------- MODULE Cluster_IO -----------------------------
(***************************************************************************)
(* From a range of bytes of a file to sectors of the disk: Cluster_IO      *)
(* picks the sectors, Sector_IO cuts them into runs of neighbours, Disk_IO *)
(* moves whole sectors.  A buffer is a sequence of bytes.                  *)
(***************************************************************************)
EXTENDS Filesystem_Info, SequencesExt

CONSTANT Unset  \* what is in a buffer before something is read into it

-----------------------------------------------------------------------------
(* Cluster_IO.                                                             *)
Convert_Clusters_To_Sectors(clusters) ==
  [i \in 1 .. (Len(clusters) * SectorsPerCluster) |->
     FirstSectorOf(clusters[(i - 1) \div SectorsPerCluster + 1]) + ((i - 1) % SectorsPerCluster)]

(* The sector that holds the last byte before a position; the code uses it *)
(* for the end of a range and for its start.                               *)
Convert_Position_To_Sector_Index(position) ==
  IF position = 0 THEN 0 ELSE (position - 1) \div SectorSize

Get_Affected_Sectors(clusters, start, how_many) ==
  SubSeq(Convert_Clusters_To_Sectors(clusters),
         Convert_Position_To_Sector_Index(start) + 1,
         Convert_Position_To_Sector_Index(start + how_many) + 1)

-----------------------------------------------------------------------------
(* Sector_IO.  A task is a run of "count" sectors from "first" on, and the *)
(* "bytes" to move between position "start" of the run and "from" of the   *)
(* buffer.                                                                 *)
ConsecutiveFrom(sectors, index) ==
  CHOOSE count \in 1 .. (Len(sectors) - index) :
    /\ \A i \in 2 .. count : sectors[index + i] = sectors[index + i - 1] + 1
    /\ index + count < Len(sectors) => sectors[index + count + 1] # sectors[index + count] + 1

(* Mutant: the offset within the first sector is forgotten.                *)
Start_Of_Run(start, index) == SectorSize * index

(* Calculate_Position: in the first run as asked, in the others the code   *)
(* goes by the number of sectors before it.                                *)
Calculate_Position(start, index) == IF index = 0 THEN start ELSE SectorSize * index

(* Calculate_How_Many; a difference below zero wraps round.                *)
Calculate_How_Many(start, count, remaining) ==
  LET room == count * SectorSize - start
  IN IF 0 <= room /\ room < remaining THEN room ELSE remaining

(* The run that begins at an index, when "done" bytes have been moved.     *)
Make_Task(sectors, start, how_many, index, done) ==
  LET count == ConsecutiveFrom(sectors, index)
      position == Calculate_Position(start, index)
  IN [first |-> sectors[index + 1], count |-> count, start |-> position, from |-> done,
      bytes |-> Calculate_How_Many(position, count, how_many - done)]

(* The runs in order, each beginning where the one before it ends.         *)
Tasks(sectors, start, how_many) ==
  LET upto[index \in 0 .. Len(sectors)] ==
        IF index = 0 THEN <<Make_Task(sectors, start, how_many, 0, 0)>>
        ELSE LET before == upto[index - 1] IN
             IF index = Len(sectors) \/ sectors[index + 1] = sectors[index] + 1 THEN before
             ELSE Append(before, Make_Task(sectors, start, how_many, index,
                                           Last(before).from + Last(before).bytes))
  IN upto[Len(sectors)]

Tasks_Of_File(clusters, start, how_many) ==
  Tasks(Get_Affected_Sectors(clusters, start, how_many), start % SectorSize, how_many)

(* A copy that leaves the buffer of its sectors.                           *)
Overruns(task) == task.bytes > 0 /\ task.start + task.bytes > task.count * SectorSize

-----------------------------------------------------------------------------
(* The disk: whole sectors, none if one of them is beyond its end.         *)
OnDisk(first, count) == (first + count) * SectorSize <= DiskSize

Read_Sectors(disk, first, count) ==
  [i \in 1 .. (count * SectorSize) |->
     IF OnDisk(first, count) THEN disk[first * SectorSize + i - 1] ELSE Unset]

Write_Sectors(disk, first, count, data) ==
  [b \in DOMAIN disk |->
     IF OnDisk(first, count) /\ b - first * SectorSize \in 0 .. (count * SectorSize - 1)
     THEN data[b - first * SectorSize + 1] ELSE disk[b]]

(* Mutant: a last sector that is not filled is written whole.              *)
Needed_Before_Start(task) == task.start # 0

(* Disk_IO.                                                                *)
Are_Old_Sectors_Needed(task) == task.start # 0 \/ task.count * SectorSize # task.bytes

(* Overlay some bytes of "data" with those of a buffer from "from" on.     *)
Overlaid(data, start, bytes, buffer, from) ==
  [i \in DOMAIN data |->
     IF i - start \in 1 .. bytes THEN buffer[from + i - start] ELSE data[i]]

(* Direct_Disk_IO writes from the caller's buffer, Via_Buffer_Disk_IO      *)
(* changes the bytes in a copy of the old sectors.  What lies behind the   *)
(* caller's buffer is not known.                                           *)
Write_Task(disk, task, buffer) ==
  LET whole == [i \in 1 .. (task.count * SectorSize) |->
                  IF task.from + i <= Len(buffer) THEN buffer[task.from + i] ELSE Unset]
      old == Read_Sectors(disk, task.first, task.count)
  IN Write_Sectors(disk, task.first, task.count,
       IF Are_Old_Sectors_Needed(task)
       THEN Overlaid(old, task.start, task.bytes, buffer, task.from) ELSE whole)

(* Either one fills the same bytes of the caller's buffer.                 *)
Read_Task(disk, task, buffer) ==
  Overlaid(buffer, task.from, task.bytes, Read_Sectors(disk, task.first, task.count), task.start)

(* Cluster_IO::Proceed_Task for both types.                                *)
Write_Clusters(disk, clusters, start, buffer) ==
  FoldLeft(LAMBDA d, task : Write_Task(d, task, buffer), disk,
           Tasks_Of_File(clusters, start, Len(buffer)))

Read_Clusters(disk, clusters, start, how_many) ==
  FoldLeft(LAMBDA b, task : Read_Task(disk, task, b), [i \in 1 .. how_many |-> Unset],
           Tasks_Of_File(clusters, start, how_many))
=============================================================================
