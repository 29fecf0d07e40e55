------------------------------ MODULE Console ------------------------------
(***************************************************************************)
(* The console: the keyboard and the screen of the simulated machine       *)
(* (boot/keyboard.cpp, boot/vga.cpp) and the line discipline over them     *)
(* (sysfs_layer/stream.cpp), for any number of threads that read and write *)
(* at the same time: nothing in the streams keeps them apart.  A key is a  *)
(* whole token of the shell instead of a character.  Tabulators, whose     *)
(* width the host decides, are left out, and so is the keyboard's own      *)
(* buffer, which nobody fills.                                             *)
(***************************************************************************)
EXTENDS Naturals, Sequences, SequencesExt, Callers

CONSTANTS
  Token,   \* what may be typed
  MaxKeys, \* bound: the keys that are pressed
  MaxRow   \* bound: cells left of the line being typed that are remembered

(* Control codes and tokens are told apart by their head.                  *)
Control(name) == [head |-> "control", rest |-> name]
NUL == Control("NUL")
EOT == Control("EOT")
BS == Control("BS")
LF == Control("LF")
CR == Control("CR")
NL == Control("NL")
Old == Control("old")

ASSUME TokenAssumption == \A t \in Token : t.head # "control"
ASSUME ConsoleAssumption == MaxKeys \in Nat /\ MaxRow \in Nat

VARIABLES
  Std_In_Is_Open, \* did the last read of the keyboard succeed
  reads,          \* of each thread, its call of Read: whether it is under way,
                  \* its n, what it has stored, and (history) whether nobody
                  \* else has shown anything since it began
  row,            \* the row of the screen, up to the cursor
  keys            \* keys pressed so far

console_vars == <<Std_In_Is_Open, reads, row, keys>>

NoRead == [state |-> "none", room |-> 0, buffer |-> <<>>, alone |-> FALSE]

Console_Init ==
  /\ Std_In_Is_Open = TRUE /\ reads = [t \in Caller |-> NoRead]
  /\ row = <<>> /\ keys = 0

Alone(t) == reads[t].state = "reading" /\ reads[t].alone

(* Cells that no reader is to find again are only counted.                 *)
Aged(cells) == [i \in 1 .. (IF Len(cells) > MaxRow THEN MaxRow ELSE Len(cells)) |-> Old]

-----------------------------------------------------------------------------
(* The screen.                                                             *)
Write_String(cells) == row \o cells
Newline == <<>>

(* Mutant: a key that takes back the last character leaves it on screen.   *)
Written_As_It_Is == row

(* One cell back, a blank over it, and back again.                         *)
Write_Backspace == IF row = <<>> THEN row ELSE Front(row)

Disturbed(read) == IF read.state = "reading" THEN [read EXCEPT !.alone = FALSE] ELSE read

(* Thread t has read, and the screen is as it was, or shows cells.         *)
Takes(t, read) == reads' = [reads EXCEPT ![t] = read] /\ UNCHANGED row
Shows(t, read, cells) ==
  /\ reads' = [u \in Caller |-> IF u = t THEN read ELSE Disturbed(reads[u])]
  /\ row' = cells

-----------------------------------------------------------------------------
(* Input_Console_Stream::Read(n).                                          *)
Read_Starts(t, n) ==
  /\ reads[t].state = "none"
  /\ Takes(t, [state |-> "reading", room |-> n, buffer |-> <<>>, alone |-> TRUE])
  /\ UNCHANGED <<Std_In_Is_Open, keys>>

(* Mutant: one character more than there is room for.                      *)
Overfull(read) == Len(read.buffer) > read.room

Full(read) == Len(read.buffer) >= read.room

Finished(read) == [read EXCEPT !.state = "done"]

(* The loop ends before it reads: there was no room.                       *)
Read_Nothing(t) ==
  /\ reads[t].state = "reading" /\ Full(reads[t])
  /\ Takes(t, Finished(reads[t]))
  /\ UNCHANGED <<Std_In_Is_Open, keys>>

(* A read of the keyboard, which blocks until a key is pressed.  Any of    *)
(* the threads that read may get it.  What follows in the loop, up to the  *)
(* next read, is one step with it: only the screen is shared, and another  *)
(* thread's output in between is output before the key.                    *)
Read_Char(t, open) ==
  /\ reads[t].state = "reading" /\ ~Full(reads[t])
  /\ keys < MaxKeys /\ keys' = keys + 1
  /\ Std_In_Is_Open' = open

(* The input is closed: what was stored is all there is.                   *)
Key_Fails(t) == Read_Char(t, FALSE) /\ Takes(t, Finished(reads[t]))

Shortened(read) ==
  [read EXCEPT !.buffer = IF read.buffer = <<>> THEN read.buffer ELSE Front(read.buffer)]
Stored(read, code) == [read EXCEPT !.buffer = Append(read.buffer, code)]

Key_Backspace(t) ==
  Read_Char(t, TRUE) /\ Shows(t, Shortened(reads[t]), Write_Backspace)

(* The end of the text, or an empty read of a file in place of the         *)
(* keyboard, is stored and ends the call; it is not shown.                 *)
Key_Ends(t, code) == Read_Char(t, TRUE) /\ Takes(t, Finished(Stored(reads[t], code)))

Key_Linefeed(t) == Read_Char(t, TRUE) /\ Takes(t, reads[t])

Key_Return(t) == Read_Char(t, TRUE) /\ Shows(t, Finished(Stored(reads[t], NL)), Newline)

Key_Token(t, token) ==
  LET read == Stored(reads[t], token) IN
  /\ Read_Char(t, TRUE)
  /\ Shows(t, IF Full(read) THEN Finished(read) ELSE read, Write_String(<<token>>))

Key(t) ==
  \/ Key_Fails(t) \/ Key_Backspace(t) \/ Key_Linefeed(t) \/ Key_Return(t)
  \/ Key_Ends(t, NUL) \/ Key_Ends(t, EOT)
  \/ \E token \in Token : Key_Token(t, token)

(* The caller has what it read, and its line on the screen is an old one.  *)
Read_Is_Over(t) ==
  /\ reads' = [reads EXCEPT ![t] = NoRead]
  /\ row' = IF \E u \in Caller \ {t} : Alone(u) THEN row ELSE Aged(row)
  /\ UNCHANGED <<Std_In_Is_Open, keys>>

(* Output_Console_Stream::Write, by a thread that does not read.           *)
Write_Console(t, cells) ==
  /\ Shows(t, reads[t], Aged(Write_String(cells)))
  /\ UNCHANGED <<Std_In_Is_Open, keys>>

-----------------------------------------------------------------------------
(* While a thread reads a line and no other one shows anything, the end of *)
(* the row shows what the thread will get, cell by cell: stream.cpp keeps  *)
(* its buffer and the screen apart and has to change both alike with each  *)
(* key, and at the left end of the line a backspace takes a cell of the    *)
(* prompt and nothing of the buffer.  Nothing in stream.cpp protects the   *)
(* line from output of another thread (59-68) or from another reader's     *)
(* echo (44-48): after that the row is a mixture.                          *)
ScreenShowsLine == \A t \in Caller : Alone(t) => IsSuffix(reads[t].buffer, row)
=============================================================================
