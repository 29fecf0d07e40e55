------------------------------- MODULE MCDisk -------------------------------
(* Instances of Disk.  Sectors of two bytes: the second of four entries of *)
(* twelve bits lies across the first two sectors, the third across a byte  *)
(* bound within a sector; and seven sectors are the table's three and four *)
(* clusters.                                                               *)
EXTENDS Disk

MCEntries == {1, 2}
MCBuffers == {<<1>>, <<1, 0, 1>>, <<0, 1, 1, 0, 1>>}
MCChains == {<<0, 1, 2>>, <<0, 2, 3>>, <<3, 1, 0>>}
MCNeighbours == {<<0, 1, 2>>}
MCByte == 0 .. 255
=============================================================================
