-------------------------- MODULE Filesystem_Info --------------------------
(***************************************************************************)
(* Where the table and the clusters lie on the disk.  The code computes    *)
(* the size of the table with doubles; here it is the exact quotient.      *)
(***************************************************************************)
EXTENDS Integers

CONSTANTS
  SectorSize,         \* bytes_per_sector
  SectorsPerCluster,
  SectorCount,        \* the disk's sectors
  FatType             \* the bits of a table entry

ASSUME InfoAssumption ==
  /\ SectorSize \in Nat \ {0} /\ SectorsPerCluster \in Nat \ {0}
  /\ SectorCount \in Nat \ {0} /\ FatType \in Nat \ {0}

ClusterSize == SectorsPerCluster * SectorSize
DiskSize == SectorCount * SectorSize

(* Rounder::Perform_Rounding_Up.                                           *)
Round_Up(n, divisor) == IF n % divisor = 0 THEN n ELSE (n \div divisor + 1) * divisor

(* Calculate_Size_Of_Fat_Table: each cluster takes its bytes and an entry  *)
(* of FatType bits, and the table gets the entries' share of the disk.     *)
Raw_Size == (DiskSize * FatType + FatType + 8 * ClusterSize - 1) \div (FatType + 8 * ClusterSize)

TableSize == Round_Up(Raw_Size, SectorSize)

(* Calculate_Partitions: the table comes first.                            *)
FirstTableSector == 0
FirstDataSector == TableSize \div SectorSize

(* Calculate_Data_Clusters_Size, Get_Cluster_Count.                        *)
Get_Cluster_Count == (DiskSize - FirstDataSector * SectorSize) \div ClusterSize

(* Cluster_IO::Calculate_First_Sector_Of_Data_Cluster.                     *)
FirstSectorOf(cluster) == FirstDataSector + cluster * SectorsPerCluster
=============================================================================
