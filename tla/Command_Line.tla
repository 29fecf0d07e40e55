---------------------------- MODULE Command_Line ----------------------------
(***************************************************************************)
(* How the shell reads a line (command.cpp).  A line is a sequence of      *)
(* tokens [head, rest]: a word (head ""), an operator of redirection ("<", *)
(* ">") with the file name that was written to it without a blank, or      *)
(* without one (rest ""), or a bar ("|").                                  *)
(***************************************************************************)
EXTENDS Naturals, Sequences, FiniteSets, SequencesExt

NoName == ""  \* no file name, no rest of a token
Plain == ""   \* the head of a token that is no operator

Command ==
  [command_name |-> NoName, parameters |-> <<>>, input_filename |-> NoName,
   output_filename |-> NoName, has_input_file |-> FALSE, has_output_file |-> FALSE,
   waits |-> "none"]  \* set_file has read an operator that stands alone

Is_Bar(token) == token.head = "|"
Written(token) ==
  IF token.head \in {Plain, "control"} THEN token.rest ELSE token.head \o token.rest

(* Mutant: an input file ends the redirection of the output as well.       *)
Either_Or(c, token) ==
  [c EXCEPT !.has_input_file = TRUE, !.input_filename = token.rest, !.has_output_file = FALSE,
            !.waits = IF token.rest = NoName THEN "<" ELSE "none"]

Matches_Input(c, token) ==
  [c EXCEPT !.has_input_file = TRUE, !.input_filename = token.rest,
            !.waits = IF token.rest = NoName THEN "<" ELSE "none"]

(* The flag of the input was set to the outcome of its own comparison.     *)
Matches_Output(c, token) ==
  [c EXCEPT !.has_input_file = FALSE,
            !.has_output_file = TRUE, !.output_filename = token.rest,
            !.waits = IF token.rest = NoName THEN ">" ELSE "none"]

(* ... and so were both when the token is a parameter.                     *)
Is_Parameter(c, token) ==
  [c EXCEPT !.has_input_file = FALSE, !.has_output_file = FALSE,
            !.parameters = Append(@, Written(token))]

Takes_Name(c, token) ==
  IF c.waits = "<" THEN [c EXCEPT !.input_filename = Written(token), !.waits = "none"]
  ELSE [c EXCEPT !.output_filename = Written(token), !.waits = "none"]

Parse_Token(c, token) ==
  CASE c.command_name = NoName -> [c EXCEPT !.command_name = Written(token)]
    [] c.command_name # NoName /\ c.waits # "none" -> Takes_Name(c, token)
    [] c.command_name # NoName /\ c.waits = "none" /\ token.head = "<" -> Matches_Input(c, token)
    [] c.command_name # NoName /\ c.waits = "none" /\ token.head = ">" -> Matches_Output(c, token)
    [] OTHER -> Is_Parameter(c, token)

(* An operator at the end takes its own name for the file's.               *)
Ended(c) ==
  CASE c.waits = "<" -> [c EXCEPT !.input_filename = "<", !.waits = "none"]
    [] c.waits = ">" -> [c EXCEPT !.output_filename = ">", !.waits = "none"]
    [] OTHER -> c

Parse_Command(tokens) ==
  LET read[i \in 0 .. Len(tokens)] ==
        IF i = 0 THEN Command ELSE Parse_Token(read[i - 1], tokens[i])
  IN Ended(read[Len(tokens)])

(* The parts of a line between its bars, the empty ones included.          *)
Divided(parts, token) ==
  IF Is_Bar(token) THEN Append(parts, <<>>)
  ELSE [parts EXCEPT ![Len(parts)] = Append(@, token)]
Parts(line) ==
  LET parts[i \in 0 .. Len(line)] ==
        IF i = 0 THEN <<<<>>>> ELSE Divided(parts[i - 1], line[i])
  IN parts[Len(line)]

(* The elements of a list at some of its places.                           *)
Selected(list, places) ==
  LET kept[i \in 0 .. Len(list)] ==
        IF i = 0 THEN <<>>
        ELSE IF i \in places THEN Append(kept[i - 1], list[i]) ELSE kept[i - 1]
  IN kept[Len(list)]

Parse_Input(line) ==
  LET parts == Parts(line)
      parsed == [i \in DOMAIN parts |-> Parse_Command(parts[i])] IN
  Selected(parsed, {i \in DOMAIN parsed : parsed[i].command_name # NoName})

-----------------------------------------------------------------------------
(* A part is orderly when all words stand before its redirections, at most *)
(* one of each kind, the one of the output first, and each has its name.   *)
Redirections(part) == {i \in 2 .. Len(part) : part[i].head \in {"<", ">"}}
Name_Of(part, i) ==
  IF part[i].rest # NoName THEN part[i].rest ELSE part[i + 1].rest
Named(part) == {i + 1 : i \in {j \in Redirections(part) : part[j].rest = NoName}}
Orderly(part) ==
  LET ops == Redirections(part) IN
  /\ part # <<>> => part[1].head = Plain
  /\ \A i \in ops : part[i].rest # NoName \/ (i < Len(part) /\ part[i + 1].head = Plain)
  /\ \A i \in ops, j \in 2 .. Len(part) : j > i => j \in ops \cup Named(part)
  /\ \A i, j \in ops : i < j => part[i].head = ">" /\ part[j].head = "<"

Words_Meant(part) ==
  LET words == (2 .. Len(part)) \ (Redirections(part) \cup Named(part)) IN
  [k \in 1 .. Cardinality(words) |-> Written(part[k + 1])]
Input_Meant(part) == {Name_Of(part, i) : i \in {j \in Redirections(part) : part[j].head = "<"}}
Output_Meant(part) == {Name_Of(part, i) : i \in {j \in Redirections(part) : part[j].head = ">"}}
=============================================================================
