------------------------------ MODULE Terminal ------------------------------
(***************************************************************************)
(* A session at the console: the kernel starts the shell (kernel.cpp), the *)
(* shell prints its prompt, reads a line, parses it and obeys it           *)
(* (user/shell.cpp), and the programs of the line make system calls; all   *)
(* of it through the registers of System_Calls, to the streams of Console  *)
(* where a call names them, with the parser of Command_Line.               *)
(*                                                                         *)
(* The programs of a line and their threads run at the same time, and the  *)
(* shell beside them: it makes calls while it starts them, and it goes     *)
(* back to its prompt while they still run when one of them could not be   *)
(* started (command_executor.cpp:122-126) or the line names cd after them  *)
(* (64-67).  In which order it opens, starts and closes, and what passes   *)
(* through the pipes, is module Pipelines: here its calls are any of those *)
(* it makes.                                                               *)
(***************************************************************************)
EXTENDS System_Calls, Console, Command_Line

CONSTANTS
  Program_Calls, \* the calls that programs, and the shell for a line, may make
  MaxCalls,      \* bound: how many they make
  Line_Size,     \* characters of the buffer of the shell
  Text           \* an address

ASSUME CallAssumption == \A c \in Program_Calls : IsCall(c)
ASSUME SessionAssumption == MaxCalls \in Nat /\ Line_Size \in Register /\ Text \in Register
(* A line is read word by word, and no word is empty.                      *)
ASSUME WordAssumption == \A t \in Token : ~Is_Bar(t) => Written(t) # NoName

In == 0
Out == 1

VARIABLES
  at,                 \* where the shell is
  std_in, std_out,    \* its handles
  is_echo_on,
  size,               \* of the name of its directory
  line, commands,     \* the line it has read, and what it made of it
  running,            \* the threads of programs
  awaited,            \* those of them that the shell is going to wait for
  made                \* calls made by programs, and by the shell for lines

shell_vars == <<at, std_in, std_out, is_echo_on, size, line, commands>>
program_vars == <<running, awaited, made>>
vars == <<calls, console_vars, shell_vars, program_vars>>

Init ==
  /\ Calls_Init /\ Console_Init
  /\ at = "boot" /\ std_in = In /\ std_out = In /\ is_echo_on = TRUE
  /\ size = 0
  /\ line = <<>> /\ commands = <<>>
  /\ running = {} /\ awaited = {} /\ made = 0

-----------------------------------------------------------------------------
(* The kernel's side of the console: descriptors 0 and 1 are its streams   *)
(* for ever, as close_handle refuses them.                                 *)
Asked(t) == Request(calls[t].regs)
Reads_Console(t) == Asked(t).service = "Read_File" /\ Asked(t).handle = In
Writes_Console(t) == Asked(t).service = "Write_File" /\ Asked(t).handle = Out

Start_Read(t) ==
  /\ calls[t].stage = "kernel" /\ Reads_Console(t)
  /\ Read_Starts(t, Asked(t).size)
  /\ UNCHANGED <<calls, shell_vars, program_vars>>

Press(t) ==
  /\ Key(t) \/ Read_Nothing(t)
  /\ UNCHANGED <<calls, shell_vars, program_vars>>

Finish_Read(t) ==
  /\ reads[t].state = "done" /\ Serve(t, "OK", Len(reads[t].buffer))
  /\ UNCHANGED <<console_vars, shell_vars, program_vars>>

Serve_Write(t) ==
  /\ calls[t].stage = "kernel" /\ Writes_Console(t)
  /\ Write_Console(t, [i \in 1 .. Asked(t).size |-> Old])
  /\ Serve(t, "OK", Asked(t).size)
  /\ UNCHANGED <<shell_vars, program_vars>>

(* A Clone starts a thread before it returns; the first one is the shell's *)
(* and is called by the kernel in its place.                               *)
Starts_Thread(t) == Asked(t).service = "Clone" /\ ~(t = Shell /\ at = "boot")
Start_Thread(t) ==
  /\ \E p \in Program \ running :
       /\ running' = running \cup {p}
       /\ awaited' = IF t = Shell THEN awaited \cup {p} ELSE awaited
  /\ UNCHANGED made

Serve_Other(t) ==
  /\ calls[t].stage = "kernel" /\ ~Reads_Console(t) /\ ~Writes_Console(t)
  /\ \E outcome \in DOMAIN Errors(Asked(t)) :
       /\ \E value \in IF Errors(Asked(t))[outcome] = Success THEN Values(Asked(t)) ELSE {0} :
            Serve(t, outcome, value)
       /\ IF outcome = "OK" /\ Starts_Thread(t) THEN Start_Thread(t)
          ELSE UNCHANGED program_vars
  /\ UNCHANGED <<console_vars, shell_vars>>

-----------------------------------------------------------------------------
(* The shell's calls, up to its prompt and the read of a line.             *)
Boot_Call ==
  [service |-> "Clone", by |-> "kernel", kind |-> Create_Process, name |-> Text, data |-> Text,
   stdin |-> In, stdout |-> Out]
Write_Call(count) ==
  [service |-> "Write_File", handle |-> std_out, buffer |-> Text, size |-> count]
Cwd_Call == [service |-> "Get_Working_Dir", buffer |-> Text, size |-> 1]
Read_Call == [service |-> "Read_File", handle |-> std_in, buffer |-> Text, size |-> Line_Size]

Shell_Call ==
  CASE at = "boot" -> Boot_Call
    [] at \in {"welcome", "prompt", "beak"} -> Write_Call(1)
    [] at = "cwd" -> Cwd_Call
    [] at = "path" -> Write_Call(size)
    [] at = "read" -> Read_Call

Ask ==
  /\ at \in {"boot", "welcome", "cwd", "prompt", "path", "beak", "read"}
  /\ Sys_Call(Shell, Shell_Call)
  /\ UNCHANGED <<console_vars, shell_vars, program_vars>>

Prompt(echo) == IF echo THEN "cwd" ELSE "read"

Next_Of ==
  [welcome |-> Prompt(is_echo_on), cwd |-> "prompt", prompt |-> "path", path |-> "beak",
   beak |-> "read"]

(* procedure_wrapper passes the two handles on in RAX and RBX.             *)
Shell_Starts ==
  /\ at = "boot" /\ Return(Shell)
  /\ IF calls'[Shell].result.error = Success
       THEN /\ at' = "welcome"
            /\ std_in' = calls[Shell].request.stdin /\ std_out' = calls[Shell].request.stdout
       ELSE at' = "ended" /\ UNCHANGED <<std_in, std_out>>
  /\ UNCHANGED <<console_vars, is_echo_on, size, line, commands, program_vars>>

Shell_Goes_On ==
  /\ at \in DOMAIN Next_Of /\ Return(Shell)
  /\ at' = Next_Of[at]
  /\ size' = IF at = "cwd" THEN calls'[Shell].result.value ELSE size
  /\ UNCHANGED <<console_vars, std_in, std_out, is_echo_on, line, commands, program_vars>>

(* rtl::Read_File takes the mark of the end of text off.                   *)
Stripped(chars) ==
  IF chars # <<>> /\ Last(chars) = EOT THEN Front(chars) ELSE chars
Words(chars) ==
  LET text == Stripped(chars) IN Selected(text, {i \in DOMAIN text : text[i] # NL})

Read_Line ==
  /\ at = "read" /\ Return(Shell)
  /\ LET got == calls'[Shell].result
         words == Words(SubSeq(reads[Shell].buffer, 1, got.value)) IN
     IF got.error = Success
       THEN at' = "line" /\ line' = words /\ commands' = Parse_Input(words)
       ELSE at' = Prompt(is_echo_on) /\ UNCHANGED <<line, commands>>
  /\ Read_Is_Over(Shell)
  /\ UNCHANGED <<std_in, std_out, is_echo_on, size, program_vars>>

-----------------------------------------------------------------------------
(* What the shell does with a line.                                        *)
First == commands[1]
Obey(next, echo) ==
  /\ at = "line" /\ at' = next /\ is_echo_on' = echo
  /\ size' = 0 /\ line' = <<>> /\ commands' = <<>>
  /\ UNCHANGED <<calls, console_vars, std_in, std_out, program_vars>>

Skip_Empty == commands = <<>> /\ Obey(Prompt(is_echo_on), is_echo_on)

Echo_Switch ==
  /\ commands # <<>> /\ First.command_name = "@echo"
  /\ LET echo == CASE First.parameters = <<"off">> -> FALSE
                   [] First.parameters = <<"on">> -> TRUE
                   [] OTHER -> is_echo_on
     IN Obey(Prompt(echo), echo)

Leave == commands # <<>> /\ First.command_name = "exit" /\ Obey("ended", is_echo_on)

Execute ==
  /\ commands # <<>> /\ First.command_name \notin {"@echo", "exit"}
  /\ Obey("running", is_echo_on)

(* The calls of Execute_Command, ...                                       *)
Line_Services ==
  {"Open_File", "Create_Pipe", "Clone", "Write_File", "Read_Exit_Code", "Close_Handle",
   "Set_Working_Dir", "Get_Working_Dir", "Exit"}
Line_Asks ==
  /\ at = "running" /\ made < MaxCalls /\ made' = made + 1
  /\ \E c \in Program_Calls :
       /\ c.service \in Line_Services
       /\ c.service = "Clone" => c.kind = Create_Process
       /\ Sys_Call(Shell, c)
  /\ UNCHANGED <<console_vars, shell_vars, running, awaited>>

(* ... after some of which it returns without a wait: when a file, a pipe  *)
(* or a program is not to be had, and for cd and the end of the text.      *)
Gives_Up(k) ==
  \/ k.call.service \in {"Set_Working_Dir", "Get_Working_Dir", "Exit"}
  \/ k.call.service \in {"Open_File", "Create_Pipe", "Clone"} /\ k.result.error # Success
Line_Is_Told ==
  /\ at = "running" /\ Return(Shell)
  /\ awaited' = IF Gives_Up(calls'[Shell]) THEN {} ELSE awaited
  /\ UNCHANGED <<console_vars, shell_vars, running, made>>

(* It has read the exit codes of the programs it waits for.                *)
Line_Ends ==
  /\ at = "running" /\ calls[Shell].stage = "program" /\ awaited = {}
  /\ at' = Prompt(is_echo_on)
  /\ UNCHANGED <<calls, console_vars, std_in, std_out, is_echo_on, size, line, commands,
                 program_vars>>

-----------------------------------------------------------------------------
(* The programs.                                                           *)
Program_Asks(p) ==
  /\ p \in running /\ made < MaxCalls /\ made' = made + 1
  /\ \E c \in Program_Calls : Sys_Call(p, c)
  /\ UNCHANGED <<console_vars, shell_vars, running, awaited>>

Program_Is_Told(p) ==
  /\ p \in running /\ Return(p) /\ Read_Is_Over(p)
  /\ UNCHANGED <<shell_vars, program_vars>>

Program_Ends(p) ==
  /\ p \in running /\ calls[p].stage = "program"
  /\ calls' = [calls EXCEPT ![p] = Unused]
  /\ running' = running \ {p} /\ awaited' = awaited \ {p}
  /\ UNCHANGED <<console_vars, shell_vars, made>>

Next ==
  \/ \E t \in Caller :
       Start_Read(t) \/ Press(t) \/ Finish_Read(t) \/ Serve_Write(t) \/ Serve_Other(t)
  \/ Ask \/ Shell_Starts \/ Shell_Goes_On \/ Read_Line
  \/ Skip_Empty \/ Echo_Switch \/ Leave \/ Execute
  \/ Line_Asks \/ Line_Is_Told \/ Line_Ends
  \/ \E p \in Program : Program_Asks(p) \/ Program_Is_Told(p) \/ Program_Ends(p)

Spec == Init /\ [][Next]_vars

-----------------------------------------------------------------------------
(* The state has its types; no more is stored for a call of Read than the  *)
(* n characters it has a buffer for (stream.cpp), and the shell has the    *)
(* handles of the console.                                                 *)
TypeOK ==
  /\ \A t \in Caller : LET k == calls[t] IN
       /\ k.stage \in {"program", "kernel", "library"}
       /\ \A part \in {"rax", "rbx", "rcx", "rdx", "rdi"} : k.regs[part] \in Register
       /\ k.regs.carry \in BOOLEAN /\ k.answer.error \in 0 .. Word - 1
       /\ k.call = Nothing \/ IsCall(k.call)
  /\ \A t \in Caller :
       /\ reads[t].state \in {"none", "reading", "done"} /\ reads[t].alone \in BOOLEAN
       /\ Len(reads[t].buffer) <= reads[t].room
  /\ Std_In_Is_Open \in BOOLEAN /\ keys \in 0 .. MaxKeys
  /\ awaited \subseteq running /\ running \subseteq Program /\ made \in 0 .. MaxCalls
  /\ at \notin {"boot", "ended"} => std_in = In /\ std_out = Out

(* The shell runs the programs of the line in their order, and an orderly  *)
(* one with the files and no others that the line redirects it to, and     *)
(* with all its words.  Of other lines command.cpp drops redirections: an  *)
(* input file before an output file, and both before a parameter.          *)
RedirectionsAreKept ==
  LET all == Parts(line)
      parts == Selected(all, {i \in DOMAIN all : all[i] # <<>>}) IN
  at = "line" =>
    /\ Len(commands) = Len(parts)
    /\ \A i \in DOMAIN parts : Orderly(parts[i]) =>
         LET c == commands[i]
             input == Input_Meant(parts[i])
             output == Output_Meant(parts[i]) IN
         /\ c.command_name = Written(parts[i][1])
         /\ input = IF c.has_input_file THEN {c.input_filename} ELSE {}
         /\ output = IF c.has_output_file THEN {c.output_filename} ELSE {}
         /\ c.parameters = Words_Meant(parts[i])
=============================================================================
