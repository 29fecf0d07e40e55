# TLA+ models of the kernel

The repository is a small operating system simulated on Windows: a boot loader
that plays the hardware (`src/boot`), a kernel (`src/kernel`) with processes,
threads, pipes and a FAT12 file system, and a shell with programs that run in it
(`src/user`). Every process is a set of host threads in one address space, every
system call (`Sys_Call`, `src/kernel/kernel.cpp`) runs on the thread that makes it,
and with the exception of pipes nothing in the kernel takes a lock. The modules in
this directory model the parts of the kernel that keep state, model-check them with
TLC on small instances and prove their main safety properties with TLAPS.

Paths below are relative to `src/kernel/` unless they say otherwise.

## 1. Inventory

| component | state | operations | interacts with |
|---|---|---|---|
| Pipe (`filesystem/sysfs_layer/pipe.*`) | ring buffer, fill, `partially_closed`, one mutex, two condition variables | `Read`, `Write`, `Close_End` from the ends' destructors | ends are elements of the descriptor table; the shell connects programs with it |
| Processes and threads (`Task_Manager.*`, `Process_Control_Block.*`, `Thread_Control_Block.*`) | process table (16 slots), `thread_table`, a thread list per process, the shutdown event | Clone (process, thread), Wait_For, Read_Exit_Code, Exit, Shutdown, Register_Signal_Handler | the host's threads; `Inherit` of the working directory; the process list file reads the table |
| Bootstrap (`kernel.cpp`) | none | loads the programs, clones the shell, reads its exit code, ends the kernel | system calls |
| Working directories (`filesystem/cwd/*`) | a map from process to path and directory | `Inherit`, `Set_Value`, `Get_Value`, `Open_Directory`; path normalisation | Task_Manager, `set_cwd`, every call with a relative path |
| Descriptors (`vfs_layer/handler_table.*`, `path_handlers.*`) | the vector of elements; maps from descriptor to path and from path to (count of working directories, open, descriptor) | create, get, remove; open, add, close, count and uncount a working directory | every file system call |
| File system calls (`filesystem/file_system.*`, `actions/*`) | none | open, create, delete, read, write, seek, close, set and get working directory, attributes, create pipe | descriptors, working directories, directories, FAT |
| VFS elements (`vfs_layer/vfs_file.*`, `vfs_directory.*`) | file position, the FAT file, the parent directory | read, write, seek, create, remove | FAT files and directories |
| FAT (`fat_layer/fat.*`, `fat_file.*`, `fat_directory.*`) | the table, `last_allocated`; start, size and cluster count of a file; the entries of a directory | allocate, extend, free; resize, read, write; create, find, remove, change entries | table packing, cluster IO |
| Table packing (`fat_io.*`, `utils/bit*`) | the table in memory, a bitmap of dirty sectors | get, set, save | disk |
| Cluster, sector, disk IO (`fat_layer/*_io.*`, `disk.*`, `hal_disk.*`) | none | byte ranges of a file to sector runs | disk interrupt |
| Process list (`sysfs_layer/proc_file.*`) | an index | read the next process | process table |
| Console (`sysfs_layer/stream.*`, `src/boot/keyboard.cpp`, `vga.cpp`) | whether the input is open; the buffer of a read; the screen | line input with echo and backspace, output | keyboard and VGA interrupts |
| Runtime library (`src/user/rtl.cpp`, `rtl_wrappers.*`) | `Last_Error`, one variable for all threads, read by nobody | one function per service: arguments into registers, answers out of them | system calls |
| Shell, pipelines (`src/user/shell.cpp`, `command.cpp`, `command_executor.cpp`) | handles, echo; the parsed line; open files, pipes, process handles of a command line | prompt, read and parse a line, `@echo`, `exit`, run a line of programs joined by pipes and wait for them | runtime library |
| Programs (`src/user/*.cpp`) | local | filters; `rgen` has a second thread | system calls |
| Boot (`src/boot`) | simulated devices, a keyboard buffer | interrupts | host |

`fat_table.*` and `handles.cpp` are compiled and used by nobody; `src/boot/SimpleIni.h`
is third-party code.

What is hard to test here, and where the properties aim (`PROJECT.json`, "hazards", has
each one at its line):

* **Pipes**: a wake-up lost between test and sleep; the ring wrapping; EOF against a writer
  still inside its call; a pipe closed from the other side while a call sleeps.
* **Processes**: nothing is locked. A thread runs before the tables know it, slots are
  found and marked in two steps, Read_Exit_Code takes a process apart in several, and
  Shutdown kills threads wherever they stand, its own caller too.
* **Descriptors and directories**: two maps and a vector that must agree and that every thread
  changes without a lock, one after the other; one entry shared by an open file and by the processes
  that work in the directory; checks separated from the changes they protect.
* **Directories**: every call that walks to a directory makes an object with a copy of its
  size; the objects of the working directory and of open elements live on beside them.
* **FAT**: a disk that runs full in the middle of a call, chains that must stay disjoint
  through growth, deletion and reuse, a directory that is a file itself.
* **Disk**: table entries of twelve bits that share bytes and sectors with their neighbours;
  ranges of a file that begin or end anywhere in a sector, in clusters that lie in pieces.
* **Registers**: nothing initialises them and their parts overlap, so an argument set too narrowly
  works or not by what was there before.
* **Console**: buffer and screen change in separate steps, and several threads read and write at once; the flags
  of the parser are set by comparisons.
* **Command lines**: the shell waits for programs that wait for each other through pipes;
  it closes ends of pipes while programs use others, by numbers that are reused at once
  and that programs close too; a call fails in the middle of a line.

What makes each component correct, in one line: a pipe is a FIFO that loses neither
bytes nor wake-ups; a handle leads to its process until the exit code is read; a
descriptor leads to its element until it is closed; clusters are partitioned between
the files of the directory; a call on a path does to the tree what it says, however
the path is written; arguments and answers cross the registers in full; what is written to a place of a file, or to an entry of the table,
is what is read there later, and nothing else changes; a command line comes to its end,
everything written in it arrives, and it leaves nothing behind.

## 2. Modules

| module | models |
|---|---|
| `FifoChannel` | what a pipe promises: an unbounded queue from which prefixes are taken and which may end |
| `Pipe` | `pipe.cpp`; `Channel == INSTANCE FifoChannel` is the refinement |
| `PipeProofs` | theorems about `Pipe` |
| `Task_Manager` | `Task_Manager.cpp` with both control blocks, the bootstrap thread, the keys of the working directories |
| `Task_ManagerProofs` | theorems about `Task_Manager` |
| `Handles` | `handler_table.cpp`, `path_handlers.cpp`, `dummy_cwd_holder.cpp` and the calls in `file_system.cpp` and `actions/` that use them |
| `HandlesProofs` | theorems about `Handles` |
| `Fat_Files` | `fat.cpp`, `fat_file.cpp`, `fat_directory.cpp` for the root directory, `vfs_file.cpp`, and the calls on them |
| `Fat_FilesProofs` | theorems about `Fat_Files` |
| `Paths` | `cwd.cpp` and the kinds of names of `char_utils.cpp`: strings to normalised paths |
| `Directory_Tree` | what the calls on paths promise: a tree, the open paths, the working directory |
| `Directories` | `actions/`, `cwd_opener.cpp`, `vfs_directory.cpp`, `fat_directory.cpp` over subdirectories; `Promise == INSTANCE Directory_Tree` is the refinement |
| `DirectoriesProofs` | theorems about `Directories` and `Paths` |
| `Filesystem_Info` | `filesystem_info.cpp`, `utils/rounder.cpp`: where table and clusters lie |
| `Fat_IO` | `fat_io.cpp`, `utils/bit_utils.cpp`, `bitmap.cpp`, `endian_converter.cpp`: entries of 12 bits in bytes |
| `Cluster_IO` | `cluster_io.cpp`, `sector_io.cpp`, `disk_io.cpp`, `disk.cpp`: ranges of a file to sectors |
| `Contents` | what the disk promises: a table with a saved copy, the bytes of a file, and the rest |
| `Disk` | calls of the three modules above on the bytes of a disk; `Promise == INSTANCE Contents` is the refinement |
| `DiskProofs` | theorems about `Disk` and the modules under it |
| `Pipelines` | `command_executor.cpp` and the programs of `src/user` that a line can name, over pipes and descriptors |
| `PipelinesProofs` | theorems about `Pipelines` |
| `Callers` | the threads that make system calls at the same time |
| `System_Calls` | `src/user/rtl.cpp` and the register side of every handler: arguments, dispatch, errors, answers |
| `Console` | `sysfs_layer/stream.cpp`, `src/boot/keyboard.cpp`, `vga.cpp` |
| `Command_Line` | `src/user/command.cpp`: from a line to commands |
| `Terminal` | `kernel.cpp` and `src/user/shell.cpp`: the shell and its programs beside each other, over the four modules before |
| `TerminalProofs` | theorems about `Terminal` |
| `MCPipe`, `MCTask`, `MCHandles`, `MCFat`, `MCDirectories`, `MCDisk`, `MCPipelines`, `MCTerminal` | instances for TLC |

Operators that begin with the comment "Mutant" are altered forms of the definition that
follows them. No specification uses them; putting one in the place of the definition makes
one property fail, which shows what that property is able to see.

### Pipe

A step is what a thread does while it holds `Base::mutex`: `WriteChunk` and `ReadChunk` are
one turn of `Write`'s loop and the whole of `Read`; `WriteWait` and `ReadWait` go to sleep. The
test of `partially_closed` at the top of `Write` is outside the lock, hence `WriteCheck`. Only
`notify_all` (`Notified`) or a spurious wake-up brings a sleeper back. `CloseHandle` drops
the descriptor table's reference to an end; `CloseEnd` is the destructor, which runs when
no call on that end is left (a call holds a reference of its own). `sent`,
`received` and `eof` are history variables. Writers and readers may be many, although
the class comment speaks of one of each: a shell command can be given the same descriptor twice.

### Task_Manager

`at[t]` is the step a host thread takes next. A call into the kernel is cut at every access
to a shared table: `CreateProcess` (a free slot is found), `Allocate` (it is marked),
`StartThread` (the host thread runs), `InsertThread`, `PublishThread`,
`InheritDirectory`; and `WaitFor`/`ReadExitCode` (handles are resolved), their
returns, `Unpublish`, `RemoveThread` or `FreeSlot` and `ClearThreads`. `Sweep` terminates
one slot; when the caller is in that slot the other threads of it may or may not have been
terminated before it. `Crash` stands for the null pointers and exceptions that the code
runs into when a lookup fails; what comes after one is not modelled.

One access to a container is atomic in the model; two simultaneous writes to an
`unordered_map` are undefined behaviour that it leaves out. Host thread identifiers
are distinct and not reused, since the kernel never closes a thread handle (their truncation
to 16 bits, Thread_Control_Block.cpp:46, is left out). A program uses each handle for one Read_Exit_Code. With
`SingleShell` only the bootstrap thread and the shell create processes, as all programs
of the repository do; without it every program may. Register_Signal_Handler is left out: the handler runs
only in `terminate`, immediately before its thread is killed.

### Handles

Paths are normalised paths, elements are named by their path, `entries` are the paths that
have a directory entry. `pc` is where a process is in its system call, `step` where it is in a call of
`Path_Handlers` or `Handler_Table`. Neither class takes a lock, and the model cuts their calls at every look-up and every change:

* `Create_Descriptor` is `Search` (a free slot is found, or the size of the vector is taken) and `Assign` (the element is
  put there, or at the end the vector has by then);
* `Add_Path_Element` is `Add` (has the path an entry?), the two steps above, `InsertPath` and `InsertId` (the two
  maps, where `insert` keeps what is there);
* `Try_Open_Element`, `Close_Handle`, `Try_Set_CWD` and `Unset_CWD` find an entry (`Open`, `Close`, `SetCwd`, `CwdUnset`) and
  change it in a step of its own (`Change`);
* `Try_Remove` is `Test`, `ErasePath`, `EraseId`, `EraseElement`.

Between the calls stand `OpenLookup` (the directory is searched), `Remove` and `CreateEntry` (with `Delete` before and an
addition after them they make up a creation), `CwdElement` (what was counted is looked at), `CwdOpen` and `CwdSet`.
`Spawn` inherits the directory and counts nothing, `Exit` closes nothing. Processes close descriptors that they got; two
programs of the repository also close the standard input that was given to them, which is in `Pipelines`. What two simultaneous writes do
inside one `std::map` or `std::vector` is undefined and left out.

With these steps the code keeps neither the maps inverse nor a descriptor to one holder (run `handles_paths`). `Serial` says which calls wait for each other, as they would for a lock, which the code does not
have: `"path"` for calls of `Path_Handlers` about the same path, `"search"` for the time between the search for a
descriptor and its assignment. With both, everything else may interleave (calls about other paths, the
steps of a system call between its calls of `Path_Handlers`, pipes), and the properties hold: so these two are what a repair has to provide, and
each is needed: the run `handles_paths` and `MCHandlesMaps.cfg` are without the first, `MCHandlesSearch.cfg` is without the second.

What the model shows besides its properties: Try_Set_CWD counts a path before it is found
to be a file, and the count is never taken back (`CwdElement`); the count of a working
directory may become negative, since inherited directories are uncounted and given back all the same,
which is why `cwd_count` is an integer and `Idle` tests `<= 0`.

### Fat_Files

Calls on the files of the root directory, one at a time. `fat` is the table, `root` the one
`Fat_File` of the root that all calls share, `entries` what its clusters hold, `opened` the
element of each open file with a size and a cluster count of its own. Each action is the
whole call: `Create` removes the old file, takes a cluster, writes the entry (growing the
directory) and gives the cluster back when there is no room; `Write` extends the chain, caps the
size, and rewrites the entry. `SetSize` changes the open file and not the entry, as in the
code. Contents of files are left out, contents of the directory are not. They are what was
written as long as the clusters of the directory are neighbours: `Cluster_IO` misplaces
bytes when they are not (see Disk). `Scattered = FALSE` confines creations to those that leave
the directory in one piece, so that the runs say something about the code as it is; with
`TRUE` they would be about the code with a correct `Cluster_IO`.

`Deallocate_Last_N_Clusters` frees the wrong entries (`MCFatShrink.cfg`), after which no
property of the table can hold. The passing run therefore has `Shrinking = FALSE`, which
confines it to calls that do not give clusters of a file back while the file stays: no
Set_Size below the last cluster, and no removal of an entry that would let the directory
give up a cluster. Creations and deletions of whole files are unrestricted.

### Paths, Directory_Tree, Directories

`Paths` is a pure module: a string is a sequence of names, "." and ".." with separators between
them, `Get_Filename_Type` tells the kinds apart as `char_utils.cpp` does, and `PathOf`/`Appended` are the
class `Path` with its `Cleanup`.

`Directories` has a variable for what is on the disk (`clusters`, the entries a directory's cluster holds) and
one for what is in memory (`objects`, a start, a size and a position each: the `Fat_File` of an
element). `Opened_Directory` is `Path_Dir_Opener`: from the root down, each element looked up in the one before,
with a new object for the last directory and the one above it. Which object a call works on depends
on how its path is written (`Located`): the working directory's own for a plain name, a new one for anything
else. `Kept` drops the objects that no element refers to at the end of each call. The actions are
the calls as a program sees them: `Open`, `Close`, `Create`, `Delete`, `Set_CWD`, `Read`, `Seek`, `Write`,
`Get_File_Attribute`, `Set_File_Attribute`, `Get_Working_Dir`, one at a time. A directory fits its
first cluster and the disk is not full; `Fat_Files` has the rest. `answer` records what the last call was
about and what it returned, so that the abstract tree can be asked whether that was true.

`Directory_Tree` is what a program may expect: a call is about one path, changes at most that path,
gives a reason that is true when it refuses, and refuses only then. A file that is there has attributes, and they are
those it was given last; a creation that fails leaves the old file. The code keeps this on two conditions.

`Unkept = FALSE` leaves out the calls of which the code does not do what it says, which have configurations of their own:
Get_File_Attribute by anything but a plain name for a path that is there (`MayGet`, `MCDirectoriesFound.cfg`: the whole
string is looked up as a name in the working directory), Set_File_Attribute where it would change something, and for the root (`MaySet`,
`MCDirectoriesSet.cfg`: it answers OK and the entry is as before), and a creation with impossible attributes over a file that is there (`MayCreate`,
`MCDirectoriesReplaced.cfg`: the old file is removed first).

The other condition is that no two objects of one directory are in use. `Mixed = FALSE` states it (`MayUse`): a path written other than as
a plain name leads into a directory only while no element of it is open or entered. With `Mixed = TRUE`
the objects come apart (run `directories_mixed`).

### Disk

`Filesystem_Info`, `Fat_IO` and `Cluster_IO` hold operators, one for each function of the code,
on byte arrays (a table, a disk) and on lists of clusters. `Disk` puts them over one disk with
one file whose chain is any of `Chains`: `Set_Entry_Value` and `Save_Changes` are the calls of
`Fat12`, `Write_To_File` is the one of `Fat_File`, and reading is the operator
`Read_Clusters`, which the property `ReadsAreTrue` applies to every range in every state. The
chain does not follow the table, since nothing below `Fat12` looks at the table as
a list. The table's buffer is not cleared before the entries are set (`fat_io.cpp`), so the
model starts with zeros or ones in the bits that no entry has. `Disk` stops (`overrun`) when
a copy would leave its buffer.

`Cluster_IO` gets two kinds of ranges wrong, and the model follows the code in both. A range that
begins with a sector other than the first is moved by one sector (run `disk_edges`). A range whose
clusters are not neighbours is cut into runs, and every run but the first is given the offset
`sector size * index of its first sector` although it begins at offset 0 of its own buffer
(`sector_io.cpp:59`): its bytes go elsewhere, or out of the buffer. The abstract
specification `Contents` names both (`Promised`): for all other ranges it demands exactly
the bytes meant, and for these ones that they at least change nothing but the file itself.

### Pipelines

The shell is one thread and takes the steps of `Execute_Command`: `OpenInput`, `OpenOutput`
(a file, the console or a new pipe) and `CreateProcess` for each command, then `ReadExitCode`,
`CloseIn` and `CloseOut` for each process, then `CloseFiles`; errors jump to `CloseFiles`, "cd"
to the prompt. A program is a profile: where it reads to the end (its input, a
file, the process list), whether it closes that handle, and what it writes then. `rgen` has a second
thread that reads, and a flag in memory that all instances share. Each step of a program is a system
call, and calls on a pipe are cut at the wait, as in `Pipe`. A pipe is a number of bytes here:
that its bytes are the right ones is the business of `Pipe`, and what matters to a line is who waits
for whom. A call on a pipe holds its end (`call`), so an end lives on while a call uses it.

Descriptors are numbers, the lowest free one first, and anybody may close any number. The two
descriptors of `create_pipe` are taken in one step. `process[s].input` and `output` record what the
numbers meant when the process began; the properties use them. Lines come from the set `Lines`. A
line with an output file before the last command is excluded (`LinesAssumption`): the shell
would take the front of an empty queue. Parsing, the prompt, `@echo` and the "exit" of the shell are
in `Terminal`. A call that finds no free descriptor is not enabled; the instance has
enough of them.

The properties speak of `Orderly` lines, and the definition is itself a result: each of its conditions
is one without which the code does not keep its word.

* `Startable`: when a program or a file of a line does not exist, a file is named twice, or "cd" stands in
  a pipeline, the shell returns to the prompt without waiting for the processes that run and without closing their pipes.
* `Chained`: a program after the first that does not read its input (`type a | sort | type b`) may end
  while the one before it waits for room; the shell waits for that one and never closes anything.
* `tasklist` never closes what it opens.
* With an invalid handle every reader but `freq` takes the error for input and reads on.
* A second `rgen` clears the flag that the first one's reader has set, and the first never ends.

`sort` closes its standard input and the shell closes the same number again later. In lines of up
to three programs the number is not in use by others then, because the write end of a pipe has
the lower number and is freed first (`FilesStayOpen`); with `type a | sort | type b | type c`
TLC finds the file of the last program closed by the shell. For longer lines the property asks that they
be chained, and of every line that it be startable: after `sort < a | nosuch` the prompt is back while `sort` runs,
the shell has closed the number of `sort`'s input, the program of the next line opens its file there, and `sort` closes it.

### System_Calls, Console, Command_Line, Terminal

A call crosses three stages: `Sys_Call` is a function of `rtl.cpp` up to the interrupt, `Serve` the handler with
any result it can end with, `Return` the rest of the function. Registers are numbers with the parts L, H, X and E
as of `hal.h`, and hold any value of `Garbage` before a function sets some of their parts (`TRegisters` has
no initialiser). `Byte` is small, so that all parts can be computed with. What the handlers do
besides is in the other modules, hence `Serve` picks the outcome; what they leave in the program's
memory passes no register. Every thread of `Callers` has a record of its own in `calls`, as every wrapper has `TRegisters` of its own: any number of calls are
under way at once. The record's `request` and `answer` are history, compared with `call` and `result`. `Last_Error` (`rtl.cpp:3`) is the one thing that the
calls of all threads share on the way back; each wrapper returns its error from its registers, nothing reads the variable, and it is left out.
`IsCall` says what the functions can be called with (`rtl.h`): a handle is a word, flags and attributes are
bytes, an address or a size fills a register. A wait that fails (`Wait_Failed`) is answered as success, since the
test at `Task_Manager.cpp:238` has no effect, and it always fails for exactly `wait_obj_limit` handles: with the
shutdown event they are one more than the host takes, and one more than the array holds.

`Console` is `Input_Console_Stream::Read` key by key and `Output_Console_Stream::Write`. Nothing in them keeps threads
apart: each may read or write while others do (`reads` has the read of each thread), and a key goes to any of the readers. The field
`alone` is history: nobody else has shown anything since this read began. A key is a token of
the shell (a word, an operator, a bar) instead of a character, so a backspace takes a whole token. The
row of the screen left of the cursor is remembered up to `MaxRow` cells that are not part of the line being
typed. `Command_Line` is `command.cpp` as recursive functions over the tokens of a line and of a part, with the flags the way the comparisons
set them: a token after a redirection takes the flag of the input file back, and a parameter both.

`Terminal` composes them: the kernel starts the shell through the registers, the shell writes its prompt, reads a
line and obeys it. The programs of a line, and threads they start, run at the same time, and the shell beside them: while it starts them it makes
the calls of `Execute_Command` (`Line_Asks`), and it goes back to its prompt when the exit codes are read (`Line_Ends`), or before that
when a file, a pipe or a program is not to be had (`Gives_Up`), so that it may prompt and read while a program reads the same console. A
program makes any of `Program_Calls`; together with the shell's for lines there are at most `MaxCalls`. Which calls a line makes in which
order is `Pipelines`. Calls on the descriptors 0 and 1 in their proper direction go to the
console, all others end anyhow. Write on the input and Read on the output are not among them: `stream.h` hides
the method of the base class and the call ends in itself without end.

## 3. Runs

| run | question | instance | result |
|---|---|---|---|
| `pipe` | is the pipe a FIFO channel that wakes its threads and ends properly? | 1 writer, 2 readers, ring of 2, calls of up to 3 bytes, 4 bytes in all, 2 byte values | holds |
| `task` | do tables and handles stay consistent, does Shutdown free the bootstrap thread? | 3 slots, bootstrap thread and 3 threads, one shell | holds |
| `task_clone` | does every Clone return a handle of its own (api.h:95)? | 4 slots, 4 threads, every program may clone | violated |
| `handles` | do registry, descriptors and holders agree under interleaving, if calls about one path and searches wait for each other? | a shell and a program, root, directory, file in it, 4 descriptors, counts up to 2 | holds |
| `handles_paths` | is a handle that of the opened file (api.h:43) if calls about one path do not wait? | same, with 2 shells | violated |
| `fat` | is the disk partitioned between files while it fills and empties? | 3 names, 5 clusters of 5 bytes, entries of 2, positions up to 12 | holds |
| `directories` | does every call do to the tree what it says, however its path is written, but for what `Mixed` and `Unkept` leave out? | 2 names, 9 strings (empty, ".", "..", plain, relative, absolute), 2 files or directories, 2 entries of the registry | holds |
| `directories_mixed` | does an open file exist (api.h:172)? | same, with `Mixed` | violated |
| `disk` | is the disk a table, its saved copy and the bytes of a file? | 7 sectors of 2 bytes, 3 of them the table's; 4 clusters of one sector, entries of 12 bits; a file in one piece, in two and backwards; buffers of 1, 3 and 5 bytes | holds |
| `disk_edges` | do the bytes of a write arrive where it was made (api.h:46, 53)? | same, a file in one piece | violated |
| `pipelines` | does a command line end, with all its output and with nothing left behind? | 14 lines of one to three programs, two typed after each other; 3 slots, 3 pipes of 2 bytes, 2 files, 10 descriptors | holds |
| `terminal` | do arguments and answers of simultaneous calls arrive, does the screen show the line that is read, is a line run with its redirections? | the shell and up to two programs, in the three kinds of sessions described below; registers of zeros or of ones, bytes of 12 values | holds |

Eight more configurations each check one property that does not hold, in the same way as the runs above that end in
a violation; `tlc -config` with the first shows the finding of the last column (section 4).

| configuration | module | property | finding |
|---|---|---|---|
| `MCHandlesSearch.cfg` | `MCHandles` | `HandlesAreExclusive`, without `"search"` in `Serial` | 2 |
| `MCHandlesMaps.cfg` | `MCHandles` | `MapsAgree`, without `"path"` in `Serial` | 4 |
| `MCFatShrink.cfg` | `MCFat` | `ShrinksToSize`, with `Shrinking` | 5 |
| `MCDirectoriesFound.cfg` | `MCDirectories` | `AttributesAreFound`, with `Unkept` | 8 |
| `MCDirectoriesSet.cfg` | `MCDirectories` | `AttributesAreSet`, with `Unkept` | 9 |
| `MCDirectoriesReplaced.cfg` | `MCDirectories` | `CreationsReplace`, with `Unkept` | 10 |
| `MCTerminalPositions.cfg` | `MCTerminal` | `PositionsAreTold` | 11 |
| `MCTerminalWaits.cfg` | `MCTerminal` | `WaitsAreToldOf` | 12 |

Why the bounds are enough. A ring of two bytes fills, wraps and empties within four
bytes, and a call of three bytes takes several turns; two readers compete for
one wake-up. Three slots are the kernel, the shell and one program, so that slots run out
and are reused at once; three threads give a program with a second thread or
two programs after each other. In `handles` the tree has the three kinds of paths, and four
descriptors (two of them the console's) run out. Its two processes meet in every pair of steps; one of them changes directories, while
both open, create, delete, close and inherit; the runs that end in a violation let both change directories. The theorems have no such bound. Clusters of five bytes hold two entries and a
rest, as 512 bytes hold 21 entries of 24 bytes and a rest; the third file makes the
directory grow, and five clusters are fewer than three files of two clusters and the directory
need, so that every allocation fails in some state. With sectors of two bytes one of the two
entries that `disk` changes lies across two sectors and the other across two bytes of one sector,
and the buffers of one, three and five bytes give a range in every position: within a sector,
with a rest at the front, at the end or at both, and whole sectors between.
In `directories` two names and two files give the paths `\a`, `\a\b`, `\a\a` and the same with the names
exchanged: a file beside another, a file in a directory and a directory in a directory. Names may be exchanged (symmetry: no
definition tells them apart), and the last answer is left out of the view, since no action reads it; TLC
checks the steps all the same. Two entries of the registry are an open file and a working directory, or two
open elements. The number of files ever created bounds the starts, since the allocation of `fat.cpp` goes round the
disk and a start is not reused at once; it is a guard of `Create`. The sectors of a cluster
are always neighbours, so one sector per cluster, which is also what `vfs.cpp` uses, has all the cases.
In `pipelines` three programs have a first, a middle and a last one; `type` shows more than a pipe
holds, so its writes block, and whole texts of the others fill it; the second line meets
whatever a disorderly first one left. Ten descriptors and three pipes are the most that two of these lines
need together (TLC finds a state in which a call lacks one when there are fewer, and none with these), so
the bounds disable no call. The sessions of `terminal` are of three kinds, which the constraint `MCSessions` tells apart. In the first a
program makes a call beside the shell's, of any service, with the arguments that matter and words among them that fill a register's
part; made with registers of zeros and of ones it meets every argument that is set too narrowly, and bytes of twelve values
are the least that tell all services and errors apart. The user presses two keys. In the second two programs read from and
write to the console and clone, four calls together with the shell's, so that two of them read at once, or one writes while
another or the shell reads; the three keys are out of two words and all control codes. In the third the user fills a line of
four tokens out of nine with five keys: a line with a backspace, or two lines; a redirection with its file, a bar
and a second command fit. Programs may be exchanged (symmetry).

Deadlock is not checked in the runs of `Pipe`, `Task_Manager` and `Handles`: everybody may have
ended, and so may the shell of the runs of `Terminal`; in `directories` the files run out. In `pipelines` no more lines may be typed, and disorderly ones hang; `LineEnds` says that the others
do not. Neither is it in `disk`, which stops at an overrun. `fat` checks it.

Properties of the passing runs:

* `Pipe`: `FifoOrder` (what was sent is what was received and what is in the ring),
  `NoLostWakeup` (a sleeping reader means an empty, open pipe; a sleeping writer means a full
  ring), `EofIsFinal` (after the mark there is nothing and nobody who could write),
  `ImplementsChannel` (refinement), `ReaderReleased` (after an end is closed every call of Read
  returns).
* `Task_Manager`: `TablesAgree`, `HandlesResolve`, `SlotsAreFreedLate` (an action property),
  `BootstrapEnds` (liveness).
* `Handles`: `MapsAgree` and `NoIdleEntries` (at every path that no call is at work on), `HandlesAreExclusive`; all
  on the condition above.
* `Fat_Files`: `ChainsPartitionTheDisk`, `NoClusterIsLost`, `SizesFit`, `EntriesAreTrue`,
  `OpenFilesOnlyGrow` (an action property).
* `Directories`: `OpenFilesExist` (what is open can be found from the root), `ObjectsAgree` (each object
  of a directory in use has the size of its entry), `SizesAreTold` (the entry of an open file has its size),
  `KeepsPromise` (refinement of `Directory_Tree`).
* `Disk`: `ChangesAreDirty` (every byte of an entry that differs from the disk lies in a sector
  that will be saved), `ReadsAreTrue`, `KeepsPromise` (refinement).
* `Pipelines`: `NothingIsLeft` (no process and no descriptor at the prompt), `OutputArrives` (a pipe
  is not closed under a program that still writes), `FilesStayOpen` (nobody closes the file that a running
  program has opened), `LineEnds` (liveness).
* `Terminal`: `ArgumentsArrive` and `AnswersReturn` (calls and answers of every thread cross the registers in full; of a
  position in a file and of a failed wait `AnswersReturn` says what is left of them, and `PositionsAreTold` and
  `WaitsAreToldOf` show in configurations of their own that it is not what api.h says), `ScreenShowsLine` (the line that a thread reads
  is what stands left of the cursor, as long as no other thread has shown anything since the read began: nothing in the code prevents
  that, and then it need not be), `RedirectionsAreKept` (a line whose redirections stand last, the output
  first, runs with just these).

### Fairness

Threads are host threads and the host runs each one that can run: weak fairness of the steps
inside a call (`WriterStep`, `ReaderStep`, `CloseEnd`; `Continue` of `Task_Manager`). Nobody has to
make another call, so `WriteCall`, `ReadCall`, `CloseHandle` and `Request` are not fair, with
one exception: the bootstrap thread follows a fixed script (`Request(Boot)`). In `Pipelines` the
programs and the shell follow scripts as well (`ProgramStep`, `CheckerStep`, `ShellStep`), and only
the user is not fair (`Type`, `ReadConsole`), hence the exception in `LineEnds`. Weak fairness is
enough because no two threads compete for a step that the liveness properties need; the mutex
is free between steps.

## 4. Findings

Four runs and eight configurations end in a violation of something the repository's comments say; `PROJECT.json`
("findings") quotes the lines.

1. Two Clones may return the same process (`Task_Manager.cpp:71`-`80`).
2. Two calls may get the same descriptor, as the search and the assignment are apart (`handler_table.cpp:5`-`12`).
3. Two processes may both open one path: both find that it has no entry, or that it is not open (`path_handlers.cpp:8`, `55`).
4. The two maps may come apart: an entry that is in the first already is opened, closed and erased by another process before
   it is in the second (`path_handlers.cpp:115`-`116`).
5. Shrinking a file frees table entries by index (`fat.cpp:68`-`73`).
6. A range that begins with a sector goes to the sector before (`cluster_io.cpp:48`).
7. A file deleted by its absolute path can still be opened by its plain name (`cwd_opener.cpp:33`).
8. Attributes are not found by a path (`file_system.cpp:234`).
9. Attributes that are set are not set, with the answer OK (`set_attrs_actions.cpp:18`).
10. A creation with impossible attributes fails when it has removed the old file (`create_action.cpp:27`).
11. Positions in files are handed out modulo 65536 (`rtl.cpp:95`).
12. A wait that fails is answered as success with the index 65535 (`Task_Manager.cpp:238`), and it fails for the
    largest count that passes the test at line 217.

More can be read off the models without a property of its own:

* A writer on a full pipe never learns that the read end was closed: its wait (`pipe.cpp:35`) looks at
  nothing but the room (`WriteWait` in `Pipe`).
* Exit uses a null pointer when its caller is not in the tables yet, or no more (`Task_Manager.cpp:175`, `Crash`).
* Shutdown terminates its own process on the way and with it the loop that should terminate the rest
  (`Task_Manager.cpp:187`, `Sweep`).
* The "strange error" of a creation (`create_action.cpp:39`) is an ordinary race with a second creation of
  the same name.
* The inverted comparison at `fat_file.cpp:69`; the runs of a scattered range (above).
* `a <f >g` loses its input file and `a >f x` its output file (`command.cpp:67`).
* `create_pipe` puts the end for writing second (`file_system.cpp:94`-`95`), where `api.h:84` has it first. The
  shell takes the pair as the code gives it (`command_executor.cpp:106`-`107`), so its pipelines work; `WriteEndFirst` of `Pipelines`
  is the order of the two numbers, which is another matter.
* Console output of one thread mixes into the line another one reads, as in `sort | rgen` (`stream.cpp:59`, `Shows`).
* On a closed input the shell prompts for ever: `rtl::Read_File` takes off the mark that
  `command_executor.cpp:70` waits for.

## 5. Proofs

Checked by TLAPS for all values of the constants that satisfy the assumptions named in the
modules (disjoint readers and writers, a byte value, a positive ring size; the root is
a directory, every path has a parent directory, the marks for "nothing" are no values; sizes
of the disk are positive; a byte of 12 to 14 values, addresses that fit into a register; at least two slots,
no thread has the identifier 0; the sizes of clusters and entries are positive and the marks of the table are no clusters;
descriptors, slots and pipes are numbered, the process table is finite, lines are not empty and only their last command has an
output file).

**PipeProofs.** `TypeCorrect`, `Fifo`, `WakeupsAreNotLost`, `EofFinality`, `Refinement`. The
inductive invariant is

    IInv == TypeOK /\ RingClosed /\ FifoOrder /\ ClosedMeansDestroyed
              /\ NoLostWakeup /\ EofIsFinal

`RingClosed` says that `end` is `begin` advanced by `filled`, without which a
store could overwrite what was not read yet. `ClosedMeansDestroyed` says that `partially_closed`
is set only by the destruction of an end that nobody uses; `EofIsFinal` needs it to exclude a
writer in the middle of its call. The arithmetic of the ring is in four lemmas about
`Advance`, `Fetched` and `Stored`. For the refinement, a writer's turn is shown to be a `Put`, a
reader's turn a `Take`, every other step a stutter.

**HandlesProofs.** `TypeCorrect`, `MapsStayInverse`, `HandlesStayExclusive`, `NoEntryLeaks`: for any processes, shells, paths,
descriptors and counts and every interleaving of the single look-ups and changes, under one assumption, `Serial = {"path", "search"}`: calls of
`Path_Handlers` about one path wait for each other, and so do searches for a descriptor. The code has neither lock; the theorems say
that these two are enough, the runs that neither can be spared. The inductive invariant is

    IInv == TypeOK /\ Tables /\ Apart /\ \A p \in Process : Place(p)

`Place(p)` says what the tables hold for the call of `p` at each of its steps: before its element is in the table nobody has the
path (`Before`), from then on its number leads to it, and the maps have it or not according to the step (`Since`), and the entry it found is
as it found it (`Entry`). `Tables` has what holds all the time: whatever the maps know has its element (`Elements`), a path that no call
works on has all of its entries or none (`Linked`), and what somebody holds works (`HeldWork`). `Apart` is what the two waits give: no two calls at
one path, no two between search and assignment. There is one lemma per step. Each shows the step's own `Place`, and that of the others follows
from `OthersStay`, since their paths and with them their numbers are different (`OtherPath`).

**Task_ManagerProofs.** `TypeCorrect`, `TablesStayConsistent`, `HandlesStayGood`, `HandlesHaveOneHolder`,
`SlotsFreedLate`: for any number of slots and threads and every interleaving of their table accesses, under one
assumption, `SingleShell`: only the bootstrap thread and the shell create processes. That is what the programs of
the repository do; without it `HandlesHaveOneHolder` is false, as the run `task_clone` shows, so the theorem says
what the missing lock in `alloc_first_free` relies on. The inductive invariant is

    IInv == TypeOK /\ TablesAgree /\ HandlesResolve /\ Lineage /\ Newcomers /\ Ownership
              /\ Tenancy /\ Vacancy /\ Listing /\ Holding

Nothing in the code keeps two threads off the same slot, so the argument is about who may be where. `Owns(t, p)`
says whose business a slot is: the shell's slot is the bootstrap thread's, every other the shell's. `Lineage` ties a
thread to the process that started it and `Ownership` keeps every call on slots of its caller, or on the caller's own
process. By `Tenancy` one program at a time runs in a slot, hence a slot has one owner that runs (`SoleOwner`), and an
owner makes one call at a time. The other parts say where the tables stand in the middle of
a call: `Newcomers` for a thread that Clone has started and no table shows yet, `Listing` for the order in
which a thread is listed and published, and unpublished and removed, `Vacancy` for the slots that are free or about
to be, `Holding` for a handle that is about to be given out or taken away. There is one lemma per action; `Return`,
`Exit` and `Crash` share theirs about a program that ends. `SlotsFreedLate` follows from `Listing`, since only `FreeSlot`
frees a slot (`OnlyFreeSlotFrees`); it is about the main thread of the process only, others may still run when the slot is freed. TLC finds `IInv` invariant on the instance of the run `task`.

**Fat_FilesProofs.** `ChainsPartition`, `NoClusterLost`, `SizesStayFit`, `EntriesStayTrue`, `OpenFilesGrow`,
`TypeCorrect`: for a disk of any number of clusters of any size, any files and entries, searches that find free clusters
anywhere (`Scattered`) or in one piece, and under one assumption, `~Shrinking`: no call gives clusters of a
file back and keeps the file. Shrinking breaks the table in the code (section 4), so no theorem about chains holds
without it. The inductive invariant is

    IInv == Sound(Disk, root, entries, opened) /\ Counts(root, Len(entries))

`Sound` takes the disk, the root, its entries and the open files as arguments, since a call passes through
several disks before it is done (entries shifted, root grown, cluster taken, entry written) and each of them is sound.
Its core is `Partition(table, starts)`: every start has a chain, the chains share no cluster, and
nothing else is in use. `Apart` says that different entries have different starts, the root's among them, and
`OpenFits` that an open file has an entry with its start and no more clusters and bytes than the chain.
`Counts` is what makes the root safe: it has exactly the clusters its entries need, so that writing the entries again
never shrinks it and a removal that `MayRemove` admits leaves its chain as it is. TLC finds `IInv` invariant on
the instance of the run `fat`.

A chain is defined by recursion (`Get_File_Clusters`, `Allocate_Clusters`), and facts about all chains need induction over
the data, for which the library's theorems are of no use here: they take an operator as a parameter.
The module does without them: a set of numbers that is not empty has a least one (`Least`, from
`NatLessThanWellFounded`), which gives the induction over sets of numbers (`NatInd`), and with it the existence of the
recursive functions (`WalkExists`, `AllocationExists`). From there on the lemmas are about the chain as a sequence: `ChainIs`
(what is computed is a chain, and the only one from its start), `AllocateLengthens` (an allocation that succeeds appends free
clusters to one chain and touches no other), and their likes for taking, freeing and a failed allocation.

**PipelinesProofs.** `NothingStays`, `OutputReachesPipe`, `FilesStay`, `TypeCorrect`: for any set of lines of any
length, any files, descriptors, process slots and pipes of any size, and every interleaving of the shell, the programs and
the user. The inductive invariant is

    OrderInv == TypeInv /\ (AllSound => Order)

`TypeInv` holds for all lines, disorderly ones included: `TypeOK` with `Script`, the lengths that the lists of the shell have
at each place of its script, and `Threads`, what a thread in the middle of a call holds. `Order` is the partition of the
descriptors: what each number is while only sound lines have been typed (`AllSound`, the lines of `FilesStayOpen`).
Numbers are shared by the shell, which keeps them in four lists, and the programs, which were given some and opened
others, and each may close a number that is free by then or somebody else's. The invariant names the ends of a line's pipes by
the order in which they were made (`EndAt`), counting those that the shell has closed already (`Gone`), so that a program's
handles depend on nothing but its place in the line: its output is `EndAt(2 * m - 1)` and its input `EndAt(2 * m - 2)`
(`Given`). `Pairs` says that both ends of the pipe between two programs are open, on different numbers in rising order and the
pipe not closed, until the shell begins to close them; `Accounted` that every open descriptor is an end,
a file of the shell or one of a program; `Unique` that no two are the same thing.

What makes it hard is the number that is closed twice. `NextEnd` says that the end which the shell closes next is
that end or free, never another's file. With chained lines nobody opens a file by then; with lines of three programs
the third may, and `Hole` says why it does not get that number: a lower one, the write end of the same pipe, was freed before, and
the lowest free number is handed out. This is where the order of `create_pipe` enters. `FilesNamed` and `NoRefusal` show that
sound lines never reach an error path, `RoomForProgram` that the process table has a slot. There is one lemma for each
step of the shell (`OpenInputKeeps` to `CloseFilesKeeps`); the steps of programs share `StepKeeps`, which lists what one
program's step must leave to the others, and those of the shell share `ShellKeeps`. `OutputArrives` follows from `Given` and `Pairs`,
`FilesStayOpen` from `Given`, and `NothingIsLeft` from `Accounted` with `NoProc` (under orderly lines nobody
opens the process list). TLC finds `OrderInv` invariant on the instance of the run `pipelines`. The proof corrected the properties: `FilesStayOpen` used to ask for nothing but three programs, and the attempt
found the line with an error before it.

**TerminalProofs.** `TypeCorrect`, `ArgumentsReachHandlers`, `AnswersReachCallers`, `ScreenIsTrue`,
`OrderlyLinesAreKept`: for any
tokens, any number of threads that call, read and write at once, any number of keys and calls, all arguments that `IsCall` admits, all results and any garbage in
the registers. The inductive invariant is

    IInv == CallInv /\ ConsoleInv /\ SessionInv

`CallInv` says of each thread, and at each stage of its call, what the next to look at the registers will find: in the kernel, the
request that was meant; in the library again, the error and the number that were answered. Calls share no register, so a step
of one thread leaves the others' as they were (`CallsChange`). `AnswersReachCallers` excepts the position of Seek and the failure of a wait, which
the code does not hand on, and says nothing of `Last_Error`. `Requesting` and
`Answering` are the two lemmas behind it, one case per service; they rest on lemmas about the parts of a register
(`SetLow`, `SetHigh`, `SetWord`, `SetDWord`, `Pairing`): a part that is set is read as it was set, and leaves the part beside
it alone. `ConsoleInv` keeps the room of each read and the end of the row for one that is alone, with a lemma for a longer and for a shorter
end; output of one thread ends the others' being alone (`ShowsOk`), which is all that `ScreenIsTrue` can promise of this code.
`SessionInv` joins the two: a read is under way only for the call that asked for it, with its room, and the
shell has the console's handles because the first call (`Boot_Call`) reached its handler in full. It also has the
line: what the shell parses are the tokens of the buffer, as the number of characters passed the registers in full,
and the commands are those that `LinesAreParsed` speaks of. That lemma is about `Command_Line` alone, for any line
of tokens of which no word is empty (`WordAssumption`). A recursive function is reduced to a run of steps (`RunExists`,
`RunSteps`), and induction over sets of numbers (`NatInd`) follows the flags of `Parse_Command` through a part: while words are read
the flags are down (`WordsAreRead`), the two redirections of an orderly part raise one each (`OrderlyLooks`,
`RedirectionsAreRead`, `OrderlyIsRead`), and parts and commands lose the same places (`SelectedAlike`, `NameIsRead`).

**DiskProofs.** `PromiseIsKept` (the refinement), `ReadsAreCorrect`, `ChangesWillBeSaved`, `TypeCorrect`, `TableHasRoom`,
`ClustersAreOnDisk`: for every size of disk, sector, cluster and entry, injective chains of any length, and any
entries, values, buffers and ranges. The inductive invariant is short,

    IInv == TypeOK /\ ChangesAreDirty

since the state is little more than bytes; the work is in what one call does to them. The module goes up as the
code does:

* The geometry. By `Geometry` the raw size `r` is the least with
  `r * (FatType + 8 * ClusterSize) >= DiskSize * FatType`, hence
  `(DiskSize - r) * FatType <= 8 * ClusterSize * r`, and rounding up makes the left side smaller and the right
  side larger. Hence `TableHasRoom` (an entry for every cluster) and `ClustersAreOnDisk` (the sectors of a cluster lie behind the table and
  before the disk's end). The code computes the quotient in doubles, the model exactly.
* The loops. Folds and recursive functions are reduced to one notion, a run of n steps (`Step`, `IsRun`), whose
  existence and uniqueness are proved once (`RunExists`, `RunUnique`, `FoldIsRun`), by induction over sets of numbers as in
  Fat_FilesProofs.
* The bits. The number of eight bits has these bits (`BitsOfNumber`), a value is the number of its bits
  (`NumberOfBits`), the bits of two entries are apart (`EntriesApart`), hence `SetEntry`: an entry that is set reads as
  set, and every other as before. `SectorsOfEntry` says that the marked sectors cover every byte that was touched, `UpdatedIs`
  what a save does.
* The sectors. `AffectedSectors`, `Consecutive` and `TasksStayInFile` follow a range through
  `Get_Affected_Sectors`, `Get_Consecutive_Sectors` and the tasks: whatever they compute, wrongly placed or not, each
  task runs over sectors of the file. With `OneTaskWritten` (direct and buffered output change the same bytes)
  this gives `WriteKeeps`: nothing outside the file changes. For a range that the promise is about, `PieceIsOneTask` shows
  that there is exactly one task and that it moves all the bytes; `WriteInPiece` and `ReadInPiece` follow.

The proof corrected `ChangesAreDirty`, which used to speak of all bytes of the table. The table may end with
sectors in which no entry lies; they are never written to the disk, and what memory held at the start stays different there, in
no marked sector. TLC's instance has no such sector. The property now speaks of the bytes with entries (`EntryBytes`).

**DirectoriesProofs.** `TypesAreKept`, `WhatIsOpenIsThere`, `KeptObjectsAgree`, `WritesAreTold` and the refinement
`PromiseIsKept`, under `~Mixed` and the last one also under `~Unkept`: for any names, strings, attributes and buffers, and any number of files and handles. The
inductive invariant is

    IInv == SoundAt(Disk, handles, cwd) /\ Counted(handles, cwd)

`SoundAt` speaks of a disk, a table of handles and a working directory, since a call works on up to three disks in turn (with
new objects, with a changed list, with the directory above told) and what is kept has to stand on each. It has two parts. `Good`
orders the paths: two that lead somewhere have different starts, a child's start is later than its directory's (hence no
path is deeper than files were created), and no directory has a name twice. `Stands` relates an element to its path: its own object has
the start and the size of the entry the path leads to; the object of the directory it was found in may be an old one, but
still covers the entry (`Holds`), which is what `Change_Entry` needs to find it. `Counted` says that the working directory is counted
and so not dropped, and that it is the element its entry has. Without it `Create` through a plain name would
work on another object than the one that is kept.

The lemmas follow what a call is made of. `OpenedIs` and `LocatedIs`: the directory a call works in stands, and is the element that
is kept if one is (here `MayUse` is used). `WalkRewritten`: when one list changes by one entry, where every path leads then
(`After`), by induction along the path; the entry's size in the directory above is part of it. `GoodRewritten` and
`StandsRewritten` follow, and `RemoveIs`, `CreateIs`, `WriteIs` show that the three calls make such changes. `BecomesIs`:
dropping the objects nobody keeps changes nothing that stands. `ThereIs` relates the tree as the properties see it (names
found level by level) to the walks. To be provable the model lost its bound on objects (`Fresh` takes the lowest
numbers, of which there are always enough), and `Elements` became a recursive function.

`PromiseIsKept` is the refinement of `Directory_Tree`. The tree of a disk is what its paths lead to (`TreeOf`, `TreeIs`). New
objects are nothing of it (`TreeSame`), and a list that changes by one entry gives it one path more or takes one
away (`TreeRewritten`). Then there is one lemma for each call (`OpenKeeps` to `GetCwdKeeps`), which maps each way the code may
answer to the one the promise has for it. `DeletedTree` says it of `delete_file` for every way a path is
written: either one of the reasons it gives is true and the disk is as it was, or there was none and the path is gone.
`CreateKeeps` rests on it, since `create_file` removes what has the name first; that the name is free after that is why
`UNKNOWN_ERROR` is never answered. `Write` and `Seek` change nothing that the promise is about. The root is left to
`MaySet`: `set_file_attrs` says of it that it does not exist. `NameAssumption` says that the separator, ".", ".."
and the empty string are no names: `Setup_Raw_Elements` skips empty tokens (`cwd.cpp:14`).

Only model-checked: the properties of section 4, which are false, each by one trace; and liveness (`ReaderReleased`,
`BootstrapEnds`, `LineEnds`), which the prover does not do under fairness.

## 6. Not modelled, and the plan

Not modelled:

* the process list (`proc_file.cpp` reads one entry per call) and unused code (`fat_table.*`, `handles.cpp`,
  `Peek_Char`, `Write_Char`, `rtl::Wait_For`);
* the start of the simulated machine, its clock and interrupt table (`src/boot`), and the vendored INI reader;
* what the programs compute, the recursion of `dir`, and the order in which `md`, `rd` and `shutdown` make their
  one or two calls;
* Register_Signal_Handler beyond its registers; exit codes; names and arguments of processes;
* the contents of the programs' memory, what lies behind a buffer, and single characters of names and lines:
  tabulators at the console, the length of a name, blanks;
* the two services of attributes at the register level: no function of the library calls them;
* two calls inside `fat.cpp` or inside a directory at once (`fat.cpp:119`, `vfs_file.cpp:38`).

The plan, in order:

1. `Directories` with several processes, for a directory inherited without a count (`dummy_cwd_holder.cpp:12`).
2. `Fat_Files` with calls that interleave, for the searches without a lock in `fat.cpp`.
