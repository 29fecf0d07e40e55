------------------------------- MODULE Paths -------------------------------
(***************************************************************************)
(* Paths: the class Path, and how the system calls tell the kinds of names *)
(* they are given apart.                                                   *)
(*                                                                         *)
(* The string a program passes is a sequence of elements and separators,   *)
(* two elements never side by side; a Path is the sequence of the names    *)
(* from the root on.                                                       *)
(***************************************************************************)
EXTENDS Naturals, SequencesExt

CONSTANTS
  Name,        \* the names of files (11 characters at most: char[12])
  NameLength   \* how many characters each name has

Separator == "\\"
Here == "."
Above == ".."
Unnamed == ""  \* the root has no name

ASSUME NameAssumption ==
  /\ {Separator, Here, Above, Unnamed} \cap Name = {}
  /\ NameLength \in 1 .. 11

Token == Name \cup {Separator, Here, Above}

(* What a string may be.                                                   *)
IsRaw(raw) ==
  /\ raw \in Seq(Token)
  /\ \A i \in 2 .. Len(raw) : raw[i - 1] = Separator \/ raw[i] = Separator

(* utils::Get_Filename_Type.                                               *)
Get_Filename_Type(raw) ==
  CASE raw = <<>> -> "INVALID"
    [] raw = <<Here>> -> "CURRENT"
    [] raw = <<Above>> -> "RELATIVE_PATH"
    [] raw # <<>> /\ raw \notin {<<Here>>, <<Above>>} ->
         IF ~Contains(raw, Separator) THEN "FILENAME"
         ELSE IF raw[1] = Separator THEN "ABSOLUTE_PATH" ELSE "RELATIVE_PATH"

(* utils::Get_Path_Type.                                                   *)
Get_Path_Type(raw) ==
  LET type == Get_Filename_Type(raw)
  IN IF type \in {"INVALID", "ABSOLUTE_PATH"} THEN type ELSE "RELATIVE_PATH"

(* utils::Is_Valid_Filename.                                               *)
Is_Valid_Filename(raw) ==
  raw # <<>> /\ ~Contains(raw, Separator) /\ raw \notin {<<Here>>, <<Above>>}

(* Setup_Raw_Elements.                                                     *)
Taken(names, token) == IF token = Separator THEN names ELSE Append(names, token)
Elements(raw) ==
  LET kept[i \in 0 .. Len(raw)] == IF i = 0 THEN <<>> ELSE Taken(kept[i - 1], raw[i])
  IN kept[Len(raw)]

(* Mutant: "above" takes nothing away.                                     *)
StepDown(done, element) ==
  IF element \in {Here, Above} THEN done ELSE Append(done, element)

Step(done, element) ==
  CASE element = Here -> done
    [] element = Above -> IF done = <<>> THEN done ELSE Front(done)
    [] element \notin {Here, Above} -> Append(done, element)

Cleanup(elements) ==
  LET done[i \in 0 .. Len(elements)] ==
        IF i = 0 THEN <<>> ELSE Step(done[i - 1], elements[i])
  IN done[Len(elements)]

(* The constructor, and Append.                                            *)
PathOf(raw) == Cleanup(Elements(raw))
Appended(path, raw) == Cleanup(path \o Elements(raw))

(* The path above: the root's is the root.                                 *)
ParentPath(path) == Appended(path, <<Above>>)

Get_Filename(path) == IF path = <<>> THEN Unnamed ELSE Last(path)

(* Get_Path_Size: a separator first and between names, and the zero.       *)
Get_Path_Size(path) ==
  1 + Len(path) * NameLength + (IF path = <<>> THEN 0 ELSE Len(path) - 1) + 1

(* The method Print: the size with the zero, or 0 for a buffer too small.  *)
Printed(path, buffer_size) ==
  IF buffer_size < Get_Path_Size(path) THEN 0 ELSE Get_Path_Size(path)
=============================================================================
