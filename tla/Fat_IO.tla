------------------------------- MODULE Fat_IO -------------------------------
(***************************************************************************)
(* The table as bytes: entries of FatType bits lie one after the other,    *)
(* the highest bit first, across the bounds of bytes and sectors.  A byte  *)
(* array is a function from its indices, which begin with 0.               *)
(***************************************************************************)
EXTENDS Filesystem_Info, SequencesExt

(* Bit_Utils::Get_Individual_Bit, and what the bits of a byte stand for.   *)
Weight == <<128, 64, 32, 16, 8, 4, 2, 1>>
Get_Individual_Bit(data, bit) == (data[bit \div 8] \div Weight[(bit % 8) + 1]) % 2

(* The powers of two.                                                      *)
Power[n \in Nat] == IF n = 0 THEN 1 ELSE 2 * Power[n - 1]

(* The number that bits, highest first, stand for.                         *)
Number(bits) ==
  LET upto[i \in 0 .. Len(bits)] == IF i = 0 THEN 0 ELSE 2 * upto[i - 1] + bits[i]
  IN upto[Len(bits)]

(* Mutant: the bits above are not masked.                                  *)
Unmasked(value, i) == value \div Power[FatType - 1 - i]

(* Bit i of a value, as Endian_Converter finds it in a word in memory.     *)
ValueBit(value, i) == (value \div Power[FatType - 1 - i]) % 2

Get_First_Bit_Of_Fat_Entry(position) == position * FatType

Get_Entry_Value(table, position) ==
  Number([i \in 1 .. FatType |->
            Get_Individual_Bit(table, Get_First_Bit_Of_Fat_Entry(position) + i - 1)])

(* The entry's bits are set one by one, the others stay.                   *)
Copy_Bits_To_Fat(table, position, value) ==
  LET first == Get_First_Bit_Of_Fat_Entry(position)
      bit(b) == IF b - first \in 0 .. (FatType - 1)
                THEN ValueBit(value, b - first) ELSE Get_Individual_Bit(table, b)
  IN [y \in DOMAIN table |->
        IF y \in (first \div 8) .. ((first + FatType - 1) \div 8)
        THEN Number([k \in 1 .. 8 |-> bit(8 * y + k - 1)]) ELSE table[y]]

Get_Sector_From_Bit(bit) == (bit \div 8) \div SectorSize

(* Mutant: the sector in which the entry begins.                           *)
First_Sector_Only(position) == {Get_Sector_From_Bit(Get_First_Bit_Of_Fat_Entry(position))}

(* Set_Sectors_In_Bitmap: those the entry lies in.                         *)
Sectors_Of_Entry(position) ==
  LET first == Get_First_Bit_Of_Fat_Entry(position)
  IN Get_Sector_From_Bit(first) .. Get_Sector_From_Bit(first + FatType - 1)
=============================================================================
