---------------------------- MODULE System_Calls ----------------------------
(***************************************************************************)
(* A system call from the program's side to the kernel's and back: the     *)
(* runtime library (user/rtl.cpp) puts the arguments into parts of the     *)
(* registers, the interrupt finds the service by its two numbers           *)
(* (kernel.cpp, file_system.cpp, Task_Manager.cpp), the handler takes its  *)
(* arguments from parts of the registers, does its work with some result,  *)
(* and puts the answer there, from where the library hands it out.  No     *)
(* register is initialised: what the library does not set is garbage.      *)
(*                                                                         *)
(* What a handler does is the business of other modules: here it ends with *)
(* any result it can end with.  What it leaves in the program's memory     *)
(* (the bytes of a buffer, the ends of a pipe) passes no register and is   *)
(* left out, and so are the two services of attributes, which no function  *)
(* of the library calls.                                                   *)
(*                                                                         *)
(* Every thread has registers of its own.  The variable Last_Error, which  *)
(* the calls of all threads set (api.cpp), is left out: nothing reads it.  *)
(***************************************************************************)
EXTENDS Naturals, Sequences, Callers

CONSTANTS
  Byte,    \* values of a byte; a register has eight bytes
  Garbage, \* what a register that nobody has set may hold
  Default_Signal_Handler,
  wait_obj_limit,
  NoCall

Word == Byte * Byte
DWord == Word * Word
QWord == DWord * DWord

(* The numbers of the services and the errors have to fit into a byte, and *)
(* all registers into the numbers that can be computed with.               *)
ASSUME ByteAssumption == Byte \in 12 .. 14
ASSUME GarbageAssumption == Garbage \subseteq 0 .. QWord - 1 /\ Garbage # {}
ASSUME LimitAssumption == wait_obj_limit \in 1 .. Word - 1

VARIABLE
  calls \* of each thread, the call it makes or has made last: who runs (the
        \* program, the kernel, or the library again), what the program has
        \* asked for, the TRegisters, what the handler was asked for and what
        \* it answered, and what the program got

-----------------------------------------------------------------------------
(* The parts of a register, and a register after one of them was set.      *)
L(r) == r % Byte
H(r) == (r \div Byte) % Byte
X(r) == r % Word
E(r) == r % DWord

WithL(r, v) == r - L(r) + v
WithH(r, v) == r - H(r) * Byte + v * Byte
WithX(r, v) == r - X(r) + v
WithE(r, v) == r - E(r) + v

File_System == 1
Process == 2

(* AH and AL of each service.                                              *)
Numbers ==
  [Open_File |-> <<File_System, 1>>, Write_File |-> <<File_System, 2>>,
   Read_File |-> <<File_System, 3>>, Seek |-> <<File_System, 4>>,
   Close_Handle |-> <<File_System, 5>>, Delete_File |-> <<File_System, 6>>,
   Set_Working_Dir |-> <<File_System, 7>>, Get_Working_Dir |-> <<File_System, 8>>,
   Create_Pipe |-> <<File_System, 11>>,
   Clone |-> <<Process, 1>>, Wait_For |-> <<Process, 2>>, Read_Exit_Code |-> <<Process, 3>>,
   Exit |-> <<Process, 4>>, Shutdown |-> <<Process, 5>>, Register_Signal_Handler |-> <<Process, 6>>]

ASSUME NoCallAssumption == NoCall \notin DOMAIN Numbers

Create_Process == 1
Create_Thread == 2
fmOpen_Always == 1
Get_Position == 4

Success == 0
Invalid_Argument == 2
File_Not_Found == 3
Directory_Not_Empty == 4
Out_Of_Memory == 6
IO_Error == 8
Unknown_Error == Word - 1

(* What the functions of the library can be called with, and the kernel's  *)
(* own call.  Wait_For takes a longer count than its handler reads, but no *)
(* array is as long.                                                       *)
Handle == 0 .. Word - 1
Register == 0 .. QWord - 1
Part == 0 .. Byte - 1

ASSUME HandlerAssumption == Default_Signal_Handler \in Register

IsCall(c) ==
  \/ c \in [service : {"Read_File", "Write_File"}, handle : Handle, buffer : Register,
            size : Register]
  \/ c \in [service : {"Open_File"}, filename : Register, flags : Part, attributes : Part]
  \/ c \in [service : {"Seek"}, handle : Handle, offset : Register, start : Part,
            operation : Part]
  \/ c \in [service : {"Close_Handle", "Read_Exit_Code"}, handle : Handle]
  \/ c \in [service : {"Delete_File", "Set_Working_Dir"}, filename : Register]
  \/ c \in [service : {"Get_Working_Dir"}, buffer : Register, size : Register]
  \/ c \in [service : {"Create_Pipe"}, handles : Register]
  \/ c \in [service : {"Clone"}, by : {"library"}, kind : {Create_Process, Create_Thread},
            name : Register, data : Register, stdin : Handle, stdout : Handle]
  \/ c \in [service : {"Clone"}, by : {"kernel"}, kind : {Create_Process},
            name : Register, data : Register, stdin : {0}, stdout : {1}]
  \/ c \in [service : {"Wait_For"}, handles : Register, count : 0 .. DWord - 1]
  \/ c \in [service : {"Exit"}, code : Handle]
  \/ c \in [service : {"Register_Signal_Handler"}, signal : Part, handler : Register]
  \/ c \in [service : {"Shutdown"}]

-----------------------------------------------------------------------------
(* The program's side: registers that hold the arguments of call c, when   *)
(* they held g before.                                                     *)
Unset(g) == [rax |-> g, rbx |-> g, rcx |-> g, rdx |-> g, rdi |-> g, carry |-> g # 0]

Prepare_SysCall_Context(service, g) ==
  [Unset(g) EXCEPT !.rax = WithL(WithH(@, Numbers[service][1]), Numbers[service][2])]

Transfer_Arguments(c, r) ==
  [r EXCEPT !.rdx = WithX(@, c.handle), !.rdi = c.buffer, !.rcx = c.size]
Open_Arguments(c, r) ==
  [r EXCEPT !.rdx = c.filename, !.rcx = c.flags, !.rdi = c.attributes]
Seek_Arguments(c, r) ==
  [r EXCEPT !.rdx = WithX(@, c.handle), !.rdi = c.offset,
            !.rcx = WithL(WithH(@, c.operation), c.start)]
Handle_Arguments(c, r) == [r EXCEPT !.rdx = WithX(@, c.handle)]
Name_Arguments(c, r) == [r EXCEPT !.rdx = c.filename]
Get_Working_Dir_Arguments(c, r) == [r EXCEPT !.rdx = c.buffer, !.rcx = c.size]
Create_Pipe_Arguments(c, r) == [r EXCEPT !.rdx = c.handles]

(* Mutant: only the lower half of the register with the handles is set.    *)
Clone_Out_Only(c, r) ==
  [r EXCEPT !.rcx = c.kind, !.rdx = c.name, !.rdi = c.data, !.rbx = WithX(@, c.stdout)]

Clone_Arguments(c, r) ==
  [r EXCEPT !.rcx = c.kind, !.rdx = c.name, !.rdi = c.data,
            !.rbx = WithE(@, c.stdin * Word + c.stdout)]
Wait_For_Arguments(c, r) == [r EXCEPT !.rdx = c.handles, !.rcx = c.count]
Exit_Arguments(c, r) == [r EXCEPT !.rcx = WithX(@, c.code)]
Signal_Arguments(c, r) ==
  [r EXCEPT !.rcx = c.signal,
            !.rdx = IF c.handler # 0 THEN c.handler ELSE Default_Signal_Handler]

(* The kernel starts the shell with a system call of its own.              *)
Fork_Arguments(c, r) ==
  [r EXCEPT !.rcx = WithL(@, c.kind), !.rdx = c.name, !.rdi = c.data, !.rbx = WithE(@, 1)]

Arguments(c, r) ==
  CASE c.service \in {"Read_File", "Write_File"} -> Transfer_Arguments(c, r)
    [] c.service = "Open_File" -> Open_Arguments(c, r)
    [] c.service = "Seek" -> Seek_Arguments(c, r)
    [] c.service \in {"Close_Handle", "Read_Exit_Code"} -> Handle_Arguments(c, r)
    [] c.service \in {"Delete_File", "Set_Working_Dir"} -> Name_Arguments(c, r)
    [] c.service = "Get_Working_Dir" -> Get_Working_Dir_Arguments(c, r)
    [] c.service = "Create_Pipe" -> Create_Pipe_Arguments(c, r)
    [] c.service = "Clone" /\ c.by = "library" -> Clone_Arguments(c, r)
    [] c.service = "Clone" /\ c.by = "kernel" -> Fork_Arguments(c, r)
    [] c.service = "Wait_For" -> Wait_For_Arguments(c, r)
    [] c.service = "Exit" -> Exit_Arguments(c, r)
    [] c.service = "Register_Signal_Handler" -> Signal_Arguments(c, r)
    [] c.service = "Shutdown" -> r

-----------------------------------------------------------------------------
(* The kernel's side: the service, and the arguments its handler takes.    *)
Dispatched(r) == CHOOSE service \in DOMAIN Numbers : Numbers[service] = <<H(r.rax), L(r.rax)>>

Request(r) ==
  LET service == Dispatched(r) IN
  CASE service \in {"Read_File", "Write_File"} ->
         [service |-> service, handle |-> X(r.rdx), buffer |-> r.rdi, size |-> r.rcx]
    [] service = "Open_File" ->
         [service |-> service, filename |-> r.rdx, flags |-> L(r.rcx), attributes |-> r.rdi]
    [] service = "Seek" ->
         [service |-> service, handle |-> X(r.rdx), offset |-> r.rdi,
          start |-> L(r.rcx), operation |-> H(r.rcx)]
    [] service \in {"Close_Handle", "Read_Exit_Code"} ->
         [service |-> service, handle |-> X(r.rdx)]
    [] service \in {"Delete_File", "Set_Working_Dir"} ->
         [service |-> service, filename |-> r.rdx]
    [] service = "Get_Working_Dir" ->
         [service |-> service, buffer |-> r.rdx, size |-> r.rcx]
    [] service = "Create_Pipe" -> [service |-> service, handles |-> r.rdx]
    [] service = "Clone" ->
         [service |-> service, kind |-> L(r.rcx), name |-> r.rdx, data |-> r.rdi,
          stdin |-> X(E(r.rbx) \div Word), stdout |-> X(r.rbx)]
    [] service = "Wait_For" -> [service |-> service, handles |-> r.rdx, count |-> E(r.rcx)]
    [] service = "Exit" -> [service |-> service, code |-> X(r.rcx)]
    [] service = "Register_Signal_Handler" ->
         [service |-> service, signal |-> L(r.rcx), handler |-> r.rdx]
    [] service = "Shutdown" -> [service |-> service]

(* The errors that the results of each operation are told as.              *)
Transferred == [OK |-> Success, NO_ELEMENT |-> IO_Error]
Opened(q) ==
  IF q.attributes >= Byte THEN [INVALID_ATTRIBUTES |-> Invalid_Argument]
  ELSE [OK |-> Success, ALREADY_OPENED |-> IO_Error, CANT_REMOVE_PREVIOUS |-> IO_Error,
        INVALID_FILENAME |-> Invalid_Argument, INVALID_FILE_TYPE |-> Invalid_Argument,
        FILE_NOT_FOUND |-> File_Not_Found, NO_MEMORY |-> Out_Of_Memory,
        DIRECTORY_NOT_EMPTY |-> Directory_Not_Empty]
Sought ==
  [OK |-> Success, NO_ELEMENT |-> IO_Error, ERROR_SETTING_SIZE |-> IO_Error,
   ERROR_INVALID_PARAMETERS |-> Invalid_Argument]
Closed(q) ==
  IF q.handle < 2 THEN [UNCLOSABLE |-> Invalid_Argument]
  ELSE [CLOSED |-> Success, NOT_EXISTS |-> IO_Error, OTHER_RESULT |-> Unknown_Error]
Deleted ==
  [OK |-> Success, FILE_OPENED |-> IO_Error, CANT_REMOVE |-> IO_Error,
   NOT_EMPTY |-> Directory_Not_Empty, FILE_NOT_EXISTING |-> File_Not_Found]
Entered ==
  [OK |-> Success, INVALID_PATH |-> Invalid_Argument, NOT_A_DIRECTORY |-> IO_Error,
   PATH_NOT_FOUND |-> File_Not_Found]
Cloned(q) ==
  CASE q.kind = Create_Process ->
         [OK |-> Success, NO_SLOT |-> Out_Of_Memory, NO_ENTRY |-> File_Not_Found]
    [] q.kind = Create_Thread -> [OK |-> Success, NO_ENTRY |-> File_Not_Found]
    [] OTHER -> [NO_KIND |-> Invalid_Argument]
Waited(q) ==
  IF q.count > wait_obj_limit THEN [TOO_MANY |-> Out_Of_Memory] ELSE [OK |-> Success]
Collected == [OK |-> Success, NO_THREAD |-> Invalid_Argument, FAILED |-> Unknown_Error]

Errors(q) ==
  CASE q.service \in {"Read_File", "Write_File"} -> Transferred
    [] q.service = "Open_File" -> Opened(q)
    [] q.service = "Seek" -> Sought
    [] q.service = "Close_Handle" -> Closed(q)
    [] q.service = "Delete_File" -> Deleted
    [] q.service = "Set_Working_Dir" -> Entered
    [] q.service = "Clone" -> Cloned(q)
    [] q.service = "Wait_For" -> Waited(q)
    [] q.service = "Read_Exit_Code" -> Collected
    [] OTHER -> [OK |-> Success]

(* The numbers the handler may answer with: a handle or an exit code fits  *)
(* into a word, a count is at most what was asked for.  A wait that fails, *)
(* as it does for as many handles as there may be, is no error.            *)
Wait_Failed == DWord - 1
Values(q) ==
  CASE q.service \in {"Read_File", "Write_File", "Get_Working_Dir"} -> 0 .. q.size
    [] q.service \in {"Open_File", "Clone", "Read_Exit_Code"} -> {2, Word - 2}
    [] q.service = "Seek" -> {q.offset, (q.offset + Word) % QWord}
    [] q.service = "Wait_For" ->
         IF q.count >= wait_obj_limit THEN {Wait_Failed} ELSE 0 .. q.count \cup {Wait_Failed}
    [] OTHER -> {0}

Set_Error(error, r) ==
  IF error = Success THEN [r EXCEPT !.carry = FALSE]
  ELSE [r EXCEPT !.carry = TRUE, !.rax = error]

(* The registers with the answer in them.                                  *)
Answered(q, value, r) ==
  CASE q.service \in {"Read_File", "Write_File", "Get_Working_Dir", "Wait_For"} ->
         [r EXCEPT !.rax = value]
    [] q.service = "Open_File" -> [r EXCEPT !.rax = WithX(@, value)]
    [] q.service = "Seek" -> IF q.operation = Get_Position THEN [r EXCEPT !.rax = value] ELSE r
    [] q.service = "Clone" ->
         IF q.kind = Create_Process THEN [r EXCEPT !.rax = WithX(@, value)]
         ELSE [r EXCEPT !.rax = value]
    [] q.service = "Read_Exit_Code" -> [r EXCEPT !.rcx = WithX(@, value)]
    [] OTHER -> r

-----------------------------------------------------------------------------
(* The library again.                                                      *)
Read_Error(r) == IF r.carry THEN X(r.rax) ELSE Success

(* Mutant: the whole of RAX is the handle.                                 *)
Whole_RAX(r) == r.rax

Handle_In_AX(r) == X(r.rax)

Handed_Out(c, r) ==
  CASE c.service \in {"Read_File", "Write_File", "Get_Working_Dir"} -> r.rax
    [] c.service \in {"Open_File", "Clone", "Wait_For"} -> Handle_In_AX(r)
    [] c.service = "Seek" -> IF c.operation = Get_Position THEN X(r.rax) ELSE c.offset
    [] c.service = "Read_Exit_Code" -> X(r.rcx)
    [] OTHER -> 0

-----------------------------------------------------------------------------
Nothing == [service |-> NoCall]
NoAnswer == [error |-> Success, value |-> 0]

Unused ==
  [stage |-> "program", call |-> Nothing, regs |-> Unset(0),
   request |-> Nothing, answer |-> NoAnswer, result |-> NoAnswer]

Calls_Init == calls = [t \in Caller |-> Unused]

(* A wrapper of the library up to the interrupt.                           *)
Asking(c, g) ==
  [Unused EXCEPT !.stage = "kernel", !.call = c,
                 !.regs = Arguments(c, Prepare_SysCall_Context(c.service, g))]
Sys_Call(t, c) ==
  /\ calls[t].stage = "program"
  /\ \E g \in Garbage : calls' = [calls EXCEPT ![t] = Asking(c, g)]

(* The interrupt: the handler ends with this result and this number.       *)
Served(k, outcome, value) ==
  LET q == Request(k.regs)
      error == Errors(q)[outcome] IN
  [k EXCEPT !.stage = "library", !.request = q,
            !.answer = [error |-> error, value |-> IF error = Success THEN value ELSE 0],
            !.regs = Set_Error(error, IF error = Success THEN Answered(q, value, @) ELSE @)]
Serve(t, outcome, value) ==
  /\ calls[t].stage = "kernel"
  /\ calls' = [calls EXCEPT ![t] = Served(@, outcome, value)]

(* The rest of the wrapper.                                                *)
Returned(k) ==
  [k EXCEPT !.stage = "program",
            !.result = [error |-> Read_Error(k.regs), value |-> Handed_Out(k.call, k.regs)]]
Return(t) ==
  /\ calls[t].stage = "library"
  /\ calls' = [calls EXCEPT ![t] = Returned(@)]

-----------------------------------------------------------------------------
(* What the program meant.                                                 *)
Meant(c) ==
  CASE c.service = "Clone" -> [k \in DOMAIN c \ {"by"} |-> c[k]]
    [] c.service = "Register_Signal_Handler" /\ c.handler = 0 ->
         [c EXCEPT !.handler = Default_Signal_Handler]
    [] OTHER -> c

(* The handler gets the arguments the program passed, each in full,        *)
(* whatever the registers held before: the library sets every part that    *)
(* file_system.cpp and Task_Manager.cpp read, to where they read it.       *)
ArgumentsArrive ==
  \A t \in Caller : calls[t].stage # "kernel" => calls[t].request = Meant(calls[t].call)

Has_Result(k) == k.stage = "program" /\ k.call # Nothing
Asks_Position(k) == k.call.service = "Seek" /\ k.call.operation = Get_Position

(* The program gets the error and the number the handler answered with,    *)
(* whatever the registers held before and whatever the other threads call, *)
(* but for a position in a file (rtl.cpp:95) and the failure of a wait,    *)
(* which the two properties below are about: here they are what is left of *)
(* them.  After an error the number is no answer: for most calls it is the *)
(* error's code.                                                           *)
AnswersReturn ==
  \A t \in Caller : LET k == calls[t] IN Has_Result(k) =>
    /\ k.result.error = k.answer.error
    /\ k.result.error = Success =>
         CASE k.call.service = "Wait_For" ->
                k.result.value = IF k.answer.value = Wait_Failed THEN Word - 1 ELSE k.answer.value
           [] k.call.service = "Seek" ->
                k.result.value = IF Asks_Position(k) THEN k.answer.value % Word ELSE k.call.offset
           [] OTHER -> k.result.value = k.answer.value

(* The position a program gets from Seek is the one the file has           *)
(* (api.h:59), not the lower sixteen bits of it (rtl.cpp:95).              *)
PositionsAreTold ==
  \A t \in Caller : LET k == calls[t] IN
    Has_Result(k) /\ Asks_Position(k) /\ k.result.error = Success =>
      k.result.value = k.answer.value

(* What a wait without an error answers is the index of one of the handles *)
(* that were waited for (api.h:106-108), or their number after a shutdown; *)
(* Task_Manager.cpp:238 tests for the failure of a wait, but answers its   *)
(* code as an index.                                                       *)
WaitsAreToldOf ==
  \A t \in Caller : LET k == calls[t] IN
    Has_Result(k) /\ k.call.service = "Wait_For" /\ k.result.error = Success =>
      k.result.value <= k.call.count
=============================================================================
