----------------------------- MODULE MCTerminal -----------------------------
(***************************************************************************)
(* Sessions of a few keys, of three kinds: a program beside the shell that *)
(* uses every call of the library; two programs that only use the console; *)
(* and long lines for a shell alone, whose buffer holds four tokens.       *)
(* Registers that nobody has set hold zeros or ones.                       *)
(***************************************************************************)
EXTENDS Terminal, FiniteSets, TLC

MCByte == 12
MCWord == MCByte * MCByte
MCText == MCWord * MCWord + 5
MCHandler == MCText + 1
MCGarbage == {0, (MCWord * MCWord) * (MCWord * MCWord) - 1}

MCPrograms == Permutations(Program)

T(head, rest) == [head |-> head, rest |-> rest]
MCOneWord == {T("", "a")}
MCTwoWords == MCOneWord \cup {T("", "f")}
MCToken ==
  {T("", "a"), T("", "f"), T("<", ""), T(">", ""), T("<", "f"), T("|", ""),
   T("", "exit"), T("", "@echo"), T("", "off")}

MCHandles == {2, MCWord - 1}
MCProgramCalls ==
  {[service |-> "Read_File", handle |-> In, buffer |-> MCText, size |-> 0],
   [service |-> "Read_File", handle |-> 2, buffer |-> MCText, size |-> 1],
   [service |-> "Write_File", handle |-> MCWord - 1, buffer |-> MCText, size |-> 1],
   [service |-> "Open_File", filename |-> MCText, flags |-> 0, attributes |-> MCByte - 1],
   [service |-> "Open_File", filename |-> MCText, flags |-> fmOpen_Always, attributes |-> 0],
   [service |-> "Get_Working_Dir", buffer |-> MCText, size |-> 1],
   [service |-> "Create_Pipe", handles |-> MCText],
   [service |-> "Exit", code |-> MCWord - 1],
   [service |-> "Shutdown"]}
  \cup {[service |-> "Seek", handle |-> 2, offset |-> MCWord + 1, start |-> 1, operation |-> o] :
          o \in {Get_Position, 5}}
  \cup {[service |-> "Close_Handle", handle |-> h] : h \in {Out} \cup MCHandles}
  \cup {[service |-> "Read_Exit_Code", handle |-> h] : h \in MCHandles}
  \cup {[service |-> s, filename |-> MCText] : s \in {"Delete_File", "Set_Working_Dir"}}
  \cup {[service |-> "Clone", by |-> "library", kind |-> k, name |-> MCText, data |-> MCText,
         stdin |-> MCWord - 1, stdout |-> Out] : k \in {Create_Process, Create_Thread}}
  \cup {[service |-> "Wait_For", handles |-> MCText, count |-> n] : n \in {1, 2, 3}}
  \cup {[service |-> "Register_Signal_Handler", signal |-> 11, handler |-> h] : h \in {0, MCText}}

MCClone ==
  [service |-> "Clone", by |-> "library", kind |-> Create_Process, name |-> MCText,
   data |-> MCText, stdin |-> In, stdout |-> Out]
MCConsoleCalls ==
  {MCClone,
   [service |-> "Read_File", handle |-> In, buffer |-> MCText, size |-> 2],
   [service |-> "Write_File", handle |-> Out, buffer |-> MCText, size |-> 1]}
MCCalls == MCProgramCalls \cup MCConsoleCalls

-----------------------------------------------------------------------------
(* Bounds on what the three kinds have together.                           *)
MCTyped(tokens) ==
  \A typed \in {line} \cup {reads[t].buffer : t \in Caller} :
    ToSet(typed) \cap Token \subseteq tokens

(* No call of the library sets the upper half of RBX.                      *)
MCAllZeros == \A t \in Caller : calls[t].regs.rbx < DWord

MCOnlyConsole ==
  /\ \A p \in Program : calls[p].call \in MCConsoleCalls \cup {Nothing}
  /\ at = "running" /\ calls[Shell].stage # "program" => calls[Shell].call \in MCConsoleCalls

MCSessions ==
  \/ /\ keys <= 2 /\ MCTyped(MCOneWord) /\ Len(reads[Shell].buffer) <= 1
     /\ made <= 2 /\ Cardinality(running) <= 1
  \/ /\ keys <= 3 /\ MCTyped(MCTwoWords) /\ Len(reads[Shell].buffer) <= 3
     /\ MCOnlyConsole /\ MCAllZeros
  \/ keys <= 5 /\ made = 0 /\ MCAllZeros
=============================================================================
