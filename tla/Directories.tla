---------------------------- MODULE Directories ----------------------------
(***************************************************************************)
(* Directories: the calls that find, create, remove, enter and read them,  *)
(* with the objects the code works on.  A Fat_Directory is a copy of what  *)
(* the entry of a directory says, made whenever a path is walked; the one  *)
(* of the working directory is kept, and so are those of open elements and *)
(* of the directories they were found in.  Which of them a call uses       *)
(* depends on how the path is written.                                     *)
(*                                                                         *)
(* One call at a time, by the shell or a program it started, which has the *)
(* shell's directory (interleaved calls are the subject of Handles).  A    *)
(* directory fits its first cluster, and the disk is not full (Fat_Files   *)
(* has the rest); the allocation goes round the disk, so that a start is   *)
(* not used a second time here.                                            *)
(***************************************************************************)
EXTENDS Paths, Integers, FiniteSets, TLC

CONSTANTS
  Raw,          \* the strings programs pass
  Asked,        \* the attributes programs create files with
  MaxFiles,     \* how many files are ever created (bound)
  MaxHandles,   \* how many paths have an entry at a time (bound)
  BufferSizes,  \* the buffers for Get_Working_Dir
  Mixed,        \* FALSE: paths lead into a directory only while no object of it is kept
  Unkept        \* FALSE: no calls are made of which the code does not do what they promise

ASSUME RawAssumption == \A raw \in Raw : IsRaw(raw)
ASSUME BoundAssumption ==
  /\ MaxFiles \in Nat /\ MaxHandles \in Nat /\ BufferSizes \subseteq Nat
  /\ Mixed \in BOOLEAN /\ Unkept \in BOOLEAN

(* What the attributes make of an element (Get_Element_Type): Directory    *)
(* alone is none.                                                          *)
Attributes == {"DIRECTORY", "FILE", "ROFILE", "INVALID"}
Valid == Attributes \ {"INVALID"}

ASSUME AskedAssumption == Asked \subseteq Attributes

VARIABLES
  clusters,  \* what the cluster of each directory holds, by its start
  created,   \* how many files were created: the last start that was given
  objects,   \* the Fat_Files there are: start and size, and the position in them
  handles,   \* map_path_handle: the element of a path, how it is counted, if it is open
  cwd,       \* the path and the element of the working directory
  answer     \* what the last call was about, asked for and returned

vars == <<clusters, created, objects, handles, cwd, answer>>

Start == 0 .. MaxFiles
RootObject == 0

(* An element: its own object, and the one of the directory it is in.      *)
RootElement ==
  [file_attributes |-> "DIRECTORY", file_name |-> Unnamed, self |-> RootObject, parent |-> RootObject]
Make(parent, entry, self) ==
  [file_attributes |-> entry.file_attributes, file_name |-> entry.file_name,
   self |-> self, parent |-> parent]

Disk == [clusters |-> clusters, created |-> created, objects |-> objects]

-----------------------------------------------------------------------------
(* Fat_Directory.  The operators work on a record of the disk and the      *)
(* objects, for a call changes them several times.                         *)

Read_All_Entries(disk, object) ==
  SubSeq(disk.clusters[disk.objects[object].file_start], 1, disk.objects[object].file_size)

Index(list, name) == SelectInSeq(list, LAMBDA entry : entry.file_name = name)
Found(list, name) == Index(list, name) # 0

(* The size is set and the entries are written; what was behind them stays *)
(* on the disk.                                                            *)
Write_Entries(disk, object, list) ==
  LET start == disk.objects[object].file_start
      behind == SubSeq(disk.clusters[start], Len(list) + 1, Len(disk.clusters[start]))
  IN [disk EXCEPT !.clusters[start] = list \o behind,
                  !.objects[object].file_size = Len(list)]

Change_Entry(disk, object, name, entry) ==
  LET list == Read_All_Entries(disk, object)
  IN IF Found(list, name)
     THEN Write_Entries(disk, object, [list EXCEPT ![Index(list, name)] = entry]) ELSE disk

(* Mutant: the hole is closed from the front.                              *)
DropFirst(list, i) == Tail(list)

(* Set_Last_Element_To_Index.                                              *)
SetLastTo(list, i) == Front([list EXCEPT ![i] = Last(list)])

(* Generate_Dir_Entry.                                                     *)
EntryOf(disk, element) ==
  [file_attributes |-> element.file_attributes, file_name |-> element.file_name,
   file_start |-> disk.objects[element.self].file_start,
   file_size |-> disk.objects[element.self].file_size]

(* VFS_Directory tells the directory above how large it is now; the root   *)
(* has none above it (VFS_Root_Directory).                                 *)
Tell_Parent(disk, directory) ==
  IF directory.self = RootObject THEN disk
  ELSE Change_Entry(disk, directory.parent, directory.file_name, EntryOf(disk, directory))

Create_New_Entry(disk, directory, entry) ==
  Tell_Parent(
    Write_Entries(disk, directory.self, Append(Read_All_Entries(disk, directory.self), entry)),
    directory)

(* Mutant: the directory above is not told.                                *)
Remove_Untold(disk, directory, name) ==
  LET list == Read_All_Entries(disk, directory.self)
  IN Write_Entries(disk, directory.self, SetLastTo(list, Index(list, name)))

Remove_Entry(disk, directory, name) ==
  LET list == Read_All_Entries(disk, directory.self)
  IN Tell_Parent(Write_Entries(disk, directory.self, SetLastTo(list, Index(list, name))),
                 directory)

-----------------------------------------------------------------------------
(* Path_Dir_Opener: each element of the path is looked up in the directory *)
(* before it, from the root on.                                            *)

(* The two lowest numbers no object has.                                   *)
Fresh(disk, k) ==
  LET free == (0 .. (Cardinality(DOMAIN disk.objects) + 1)) \ DOMAIN disk.objects
  IN CHOOSE o \in free : Cardinality({p \in free : p < o}) = k

With(disk, object, entry) ==
  [disk EXCEPT !.objects =
     [o \in DOMAIN @ \cup {object} |->
        IF o = object THEN [file_start |-> entry.file_start, file_size |-> entry.file_size,
                            file_position |-> 0]
        ELSE @[o]]]

RootEntry(disk) ==
  [file_attributes |-> "DIRECTORY", file_name |-> Unnamed,
   file_start |-> 0, file_size |-> disk.objects[RootObject].file_size]

NoEntry == [file_attributes |-> "INVALID", file_name |-> Unnamed, file_start |-> 0, file_size |-> 0]

(* The entry a name has in the directory of an entry, if that is one.      *)
EntryIn(disk, entry, name) ==
  LET list == disk.clusters[entry.file_start]
      found == {i \in 1 .. entry.file_size : list[i].file_name = name}
  IN IF entry.file_attributes = "DIRECTORY" /\ found # {} THEN list[Min(found)] ELSE NoEntry

Walk(disk, path) ==
  LET at[k \in 0 .. Len(path)] ==
        IF k = 0 THEN RootEntry(disk) ELSE EntryIn(disk, at[k - 1], path[k])
  IN at[Len(path)]

(* Whether the elements before the last one are directories.               *)
IsDirectory(disk, path) == Walk(disk, path).file_attributes = "DIRECTORY"

(* The directory opened anew: an object of its own, and one for the        *)
(* directory above if that is not the root.                                *)
Opened_Directory(disk, path) ==
  IF path = <<>> THEN [disk |-> disk, directory |-> RootElement]
  ELSE LET above == IF Len(path) = 1 THEN RootObject ELSE Fresh(disk, 1)
           self == Fresh(disk, 0)
           raised == IF Len(path) = 1 THEN disk ELSE With(disk, above, Walk(disk, Front(path)))
       IN [disk |-> With(raised, self, Walk(disk, path)),
           directory |-> Make(above, Walk(disk, path), self)]

FilePath(raw) ==
  IF Get_Filename_Type(raw) = "ABSOLUTE_PATH" THEN PathOf(raw) ELSE Appended(cwd.path, raw)

(* What the answer is about: the empty string names nothing, which is no   *)
(* path.                                                                   *)
Nothing == <<Unnamed>>
Subject(raw) == IF raw = <<>> THEN Nothing ELSE FilePath(raw)

(* What a call works on: the path, whether the directory above it is       *)
(* there, and the object of that directory: the one of the working         *)
(* directory for a plain name, a new one for anything else                 *)
(* (get_paths_and_directory_filename, _relative, _absolute).               *)
Located(disk, raw) ==
  LET path == FilePath(raw)
      parent == ParentPath(path)
  IN IF Get_Filename_Type(raw) = "FILENAME"
     THEN [path |-> path, valid |-> TRUE, disk |-> disk, directory |-> cwd.element]
     ELSE IF IsDirectory(disk, parent)
     THEN [path |-> path, valid |-> TRUE,
           disk |-> Opened_Directory(disk, parent).disk,
           directory |-> Opened_Directory(disk, parent).directory]
     ELSE [path |-> path, valid |-> FALSE, disk |-> disk, directory |-> RootElement]

-----------------------------------------------------------------------------
(* Path_Handlers (Handles has its maps): the entries of paths.             *)
Registered(path) == path \in DOMAIN handles

Handle(element, count, open) == [element |-> element, cwd_count |-> count, is_open |-> open]
Added(path, handle) ==
  [x \in DOMAIN handles \cup {path} |-> IF x = path THEN handle ELSE handles[x]]

(* Try_Remove: an entry that is neither open nor counted goes.             *)
Settled(table, path) ==
  IF table[path].cwd_count <= 0 /\ ~table[path].is_open
  THEN [x \in DOMAIN table \ {path} |-> table[x]] ELSE table

(* Mutant: an element does not keep the directory it was found in.         *)
Kept_Alone(table, directory) ==
  LET elements == {table[x].element : x \in DOMAIN table} \cup {directory}
  IN {RootObject} \cup {e.self : e \in elements}

(* The end of every call: the objects nobody keeps are gone.               *)
Kept(table, directory) ==
  LET elements == {table[x].element : x \in DOMAIN table} \cup {directory}
  IN {RootObject} \cup {e.self : e \in elements} \cup {e.parent : e \in elements}

Becomes(disk, table, directory) ==
  /\ clusters' = disk.clusters
  /\ created' = disk.created
  /\ handles' = table
  /\ cwd' = directory
  /\ objects' = [o \in Kept(table, directory.element) |-> disk.objects[o]]
  /\ Cardinality(DOMAIN table) <= MaxHandles  \* bound

(* The answer to a call with attributes, and to one without.               *)
Says(call, path, attributes, result) ==
  answer' = [call |-> call, path |-> path, attributes |-> attributes, result |-> result]
Answers(call, path, result) == Says(call, path, "NONE", result)

Rejects(call, path, attributes, result) ==
  Says(call, path, attributes, result) /\ UNCHANGED <<clusters, created, objects, handles, cwd>>
Refuses(call, path, result) == Rejects(call, path, "NONE", result)

(* Whether no other object of the directory is kept than the one the call *)
(* uses.                                                                   *)
MayUse(raw) ==
  ~Mixed /\ Get_Filename_Type(raw) \notin {"FILENAME", "CURRENT", "INVALID"}
    => ParentPath(FilePath(raw)) = <<>> \/ ~Registered(ParentPath(FilePath(raw)))

Init ==
  /\ clusters = [start \in Start |-> <<>>]
  /\ created = 0
  /\ objects = [o \in {RootObject} |-> [file_start |-> 0, file_size |-> 0, file_position |-> 0]]
  /\ handles = <<>>
  /\ cwd = [path |-> <<>>, element |-> RootElement]
  /\ answer = [call |-> "none", path |-> <<>>, attributes |-> "NONE", result |-> "OK"]

-----------------------------------------------------------------------------
(* open_file.                                                              *)

(* Try_Open_Element of a path that has an entry.                           *)
Reopen(path) ==
  IF handles[path].is_open THEN Refuses("open", path, "ALREADY_OPENED")
  ELSE /\ Becomes(Disk, [handles EXCEPT ![path].is_open = TRUE], cwd)
       /\ Answers("open", path, "OK")

(* open_current, open_root: the object is there.                           *)
Register(path, element, count) ==
  /\ Becomes(Disk, Added(path, Handle(element, count, TRUE)), cwd)
  /\ Answers("open", path, "OK")

(* open_file_using_parent: the element is made of its entry.               *)
OpenIn(at) ==
  LET list == Read_All_Entries(at.disk, at.directory.self)
      name == Get_Filename(at.path)
  IN IF ~Found(list, name) THEN Refuses("open", at.path, "FILE_NOT_FOUND")
     ELSE LET entry == list[Index(list, name)]
              self == Fresh(at.disk, 0)
          IN /\ Becomes(With(at.disk, self, entry),
                        Added(at.path, Handle(Make(at.directory.self, entry, self), 0, TRUE)),
                        cwd)
             /\ Answers("open", at.path, "OK")

Open(raw) ==
  /\ MayUse(raw)
  /\ LET type == Get_Filename_Type(raw)
         path == FilePath(raw)
     IN CASE type = "INVALID" -> Refuses("open", Nothing, "INVALID_FILENAME")
          [] type # "INVALID" /\ Registered(path) -> Reopen(path)
          [] type = "CURRENT" /\ ~Registered(path) -> Register(path, cwd.element, 1)
          [] type \notin {"INVALID", "CURRENT"} /\ ~Registered(path) ->
               IF path = <<>> THEN Register(path, RootElement, 0)
               ELSE \E at \in {Located(Disk, raw)} :
                      IF at.valid THEN OpenIn(at) ELSE Refuses("open", path, "FILE_NOT_FOUND")

(* close_handle of an open path.                                           *)
Close(path) ==
  /\ Registered(path) /\ handles[path].is_open
  /\ Becomes(Disk, Settled([handles EXCEPT ![path].is_open = FALSE], path), cwd)
  /\ Answers("close", path, "OK")

-----------------------------------------------------------------------------
(* delete_file and create_file.                                            *)

(* Remove_Directory: an empty one; files always.                           *)
MayRemove(entry) == entry.file_attributes = "DIRECTORY" => entry.file_size = 0

(* delete_file_using_parent: what becomes of the disk, and the result.     *)
DeletedIn(at) ==
  LET list == Read_All_Entries(at.disk, at.directory.self)
      name == Get_Filename(at.path)
  IN IF at.path = <<>> THEN [disk |-> Disk, result |-> "CANT_REMOVE"]
     ELSE IF Registered(at.path) THEN [disk |-> Disk, result |-> "FILE_OPENED"]
     ELSE IF ~Found(list, name) THEN [disk |-> Disk, result |-> "FILE_NOT_EXISTING"]
     ELSE IF ~MayRemove(list[Index(list, name)]) THEN [disk |-> Disk, result |-> "NOT_EMPTY"]
     ELSE [disk |-> Remove_Entry(at.disk, at.directory, name), result |-> "OK"]

Deleted(raw) ==
  LET type == Get_Filename_Type(raw) IN
  IF type = "CURRENT" THEN [disk |-> Disk, result |-> "CANT_REMOVE"]
  ELSE IF type = "INVALID" \/ ~Located(Disk, raw).valid
  THEN [disk |-> Disk, result |-> "FILE_NOT_EXISTING"]
  ELSE DeletedIn(Located(Disk, raw))

Delete(raw) ==
  /\ MayUse(raw)
  /\ \E after \in {Deleted(raw)} :
       /\ Becomes(after.disk, handles, cwd)
       /\ Answers("delete", Subject(raw), after.result)

(* try_delete: what keeps the old file keeps the new one away.             *)
Refusal == [CANT_REMOVE |-> "CANT_REMOVE_PREVIOUS", FILE_OPENED |-> "ALREADY_OPENED",
            NOT_EMPTY |-> "DIRECTORY_NOT_EMPTY"]

(* create_file_using_parent: the element gets a cluster and its entry, and *)
(* is open; one whose name is taken by now is taken back.                  *)
CreateIn(at, attributes) ==
  LET name == Get_Filename(at.path)
      self == Fresh(at.disk, 0)
      start == at.disk.created + 1
      entry == [file_attributes |-> attributes, file_name |-> name,
                file_start |-> start, file_size |-> 0]
      made == [With(at.disk, self, entry) EXCEPT !.created = start]
  IN IF attributes = "INVALID"
     THEN Becomes(at.disk, handles, cwd) /\ Says("create", at.path, attributes, "INVALID_FILE_TYPE")
     ELSE /\ start <= MaxFiles
          /\ IF Found(Read_All_Entries(at.disk, at.directory.self), name)
             THEN /\ Becomes(Tell_Parent(made, at.directory), handles, cwd)
                  /\ Says("create", at.path, attributes, "UNKNOWN_ERROR")
             ELSE /\ Becomes(Create_New_Entry(made, at.directory, entry),
                             Added(at.path, Handle(Make(at.directory.self, entry, self), 0, TRUE)),
                             cwd)
                  /\ Says("create", at.path, attributes, "OK")

(* A creation with attributes nobody can have fails when the old file is   *)
(* gone already.                                                           *)
MayCreate(raw, attributes) ==
  ~Unkept /\ attributes \notin Valid => Deleted(raw).result # "OK"

Create(raw, attributes) ==
  /\ MayUse(raw) /\ MayCreate(raw, attributes)
  /\ \E after \in {Deleted(raw)} :
       IF after.result \in DOMAIN Refusal
       THEN Rejects("create", FilePath(raw), attributes, Refusal[after.result])
       ELSE IF raw = <<>> THEN Rejects("create", Nothing, attributes, "INVALID_FILENAME")
       ELSE \E at \in {Located(after.disk, raw)} :
              IF at.valid THEN CreateIn(at, attributes)
              ELSE Rejects("create", at.path, attributes, "FILE_NOT_FOUND")

-----------------------------------------------------------------------------
(* set_cwd.                                                                *)

(* Unset_CWD of the directory that is left, if it has an entry.            *)
Left(table) ==
  IF cwd.path \in DOMAIN table
  THEN Settled([table EXCEPT ![cwd.path].cwd_count = @ - 1], cwd.path) ELSE table

Enter(disk, table, path, element) ==
  /\ Becomes(disk, Left(table), [path |-> path, element |-> element])
  /\ Answers("set_cwd", path, "OK")

(* Get_From_Handle: an entry is counted, also one that is no directory's.  *)
Enter_Registered(path) ==
  LET counted == [handles EXCEPT ![path].cwd_count = @ + 1]
      element == handles[path].element
  IN IF element.file_attributes = "DIRECTORY" THEN Enter(Disk, counted, path, element)
     ELSE /\ handles[path].cwd_count = 0  \* bound
          /\ Becomes(Disk, counted, cwd)
          /\ Answers("set_cwd", path, "NOT_A_DIRECTORY")

(* Try_Open_Directory: the last element may be no directory.               *)
Enter_Opened(path) ==
  IF IsDirectory(Disk, path)
  THEN \E opened \in {Opened_Directory(Disk, path)} :
         Enter(opened.disk, Added(path, Handle(opened.directory, 1, FALSE)), path,
               opened.directory)
  ELSE IF IsDirectory(Disk, ParentPath(path)) /\ Walk(Disk, path) # NoEntry
  THEN Refuses("set_cwd", path, "NOT_A_DIRECTORY")
  ELSE Refuses("set_cwd", path, "PATH_NOT_FOUND")

Set_CWD(raw) ==
  IF Get_Path_Type(raw) = "INVALID" THEN Refuses("set_cwd", Nothing, "INVALID_PATH")
  ELSE IF Registered(FilePath(raw)) THEN Enter_Registered(FilePath(raw))
  ELSE Enter_Opened(FilePath(raw))

-----------------------------------------------------------------------------
(* The calls on an open element, and those that only look.                 *)

(* Mutant: what is written is not told the directory.                      *)
Tell_Nobody(disk, element) == disk

(* VFS_File has its entry renewed in the directory it was found in.        *)
Tell_Directory(disk, element) ==
  Change_Entry(disk, element.parent, element.file_name, EntryOf(disk, element))

(* VFS_File::Write makes an empty file one of a byte (bound); a read-only  *)
(* file and a directory are not written.                                   *)
Write(path) ==
  /\ Registered(path) /\ handles[path].is_open
  /\ handles[path].element.file_attributes = "FILE"
  /\ LET element == handles[path].element
         grown == [Disk EXCEPT !.objects[element.self].file_size = 1]
     IN Becomes(Tell_Directory(grown, element), handles, cwd)
  /\ UNCHANGED answer

(* VFS_Directory::Read of one TDir_Entry, as the programs read it.         *)
Read(path) ==
  /\ Registered(path) /\ handles[path].is_open
  /\ handles[path].element.file_attributes = "DIRECTORY"
  /\ LET self == handles[path].element.self
         list == Read_All_Entries(Disk, self)
         position == objects[self].file_position
     IN IF position >= Len(list) THEN Refuses("read", path, "EOF")
        ELSE /\ objects' = [objects EXCEPT ![self].file_position = position + 1]
             /\ Answers("read", path, list[position + 1].file_name)
             /\ UNCHANGED <<clusters, created, handles, cwd>>

(* VFS_Directory::Seek to the beginning; an object that is kept keeps its  *)
(* position when it is closed and opened again.                            *)
Seek(path) ==
  /\ Registered(path) /\ handles[path].is_open
  /\ objects' = [objects EXCEPT ![handles[path].element.self].file_position = 0]
  /\ UNCHANGED <<clusters, created, handles, cwd, answer>>

(* Get_File_Attribute finds what a plain name names, and no other path     *)
(* that is there.                                                          *)
MayGet(raw) ==
  ~Unkept /\ Get_Filename_Type(raw) \notin {"FILENAME", "INVALID"}
    => Walk(Disk, FilePath(raw)) = NoEntry

(* get_file_attr looks for the whole string in the working directory.      *)
Get_File_Attribute(raw) ==
  LET list == Read_All_Entries(Disk, cwd.element.self)
      found == Len(raw) = 1 /\ Found(list, raw[1])
  IN /\ MayGet(raw)
     /\ Refuses("get_attributes", Subject(raw),
          IF found THEN list[Index(list, raw[1])].file_attributes ELSE "FILE_NOT_FOUND")

(* VFS_Directory::Is_Convertable, VFS_File::Is_Convertable.                *)
Is_Convertable(old, new) ==
  {old, new} = {"DIRECTORY"} \/ {old, new} \subseteq {"FILE", "ROFILE"}

(* Set_File_Attribute says that it has changed the attributes of a file,   *)
(* which it has not, and that there is no root.                            *)
MaySet(raw, attributes) ==
  LET path == FilePath(raw)
      old == Walk(Disk, path).file_attributes
  IN ~Unkept /\ Get_Filename_Type(raw) \notin {"CURRENT", "INVALID"}
       => /\ path # <<>>
          /\ Registered(path) \/ old = attributes \/ ~Is_Convertable(old, attributes)

(* set_file_attrs changes an element made for the call, not the entry: the *)
(* answer is all there is to it.                                           *)
Set_File_Attribute(raw, attributes) ==
  /\ MayUse(raw) /\ MaySet(raw, attributes)
  /\ \E at \in {Located(Disk, raw)} :
       LET list == Read_All_Entries(at.disk, at.directory.self)
           name == Get_Filename(at.path)
       IN Rejects("set_attributes", Subject(raw), attributes,
            IF Get_Filename_Type(raw) = "CURRENT" THEN "CANT_CHANGE"
            ELSE IF raw = <<>> \/ ~at.valid THEN "FILE_NOT_EXISTING"
            ELSE IF Registered(at.path) THEN "FILE_OPENED"
            ELSE IF ~Found(list, name) THEN "FILE_NOT_EXISTING"
            ELSE IF Is_Convertable(list[Index(list, name)].file_attributes, attributes)
            THEN "OK" ELSE "CANT_CHANGE")

(* get_cwd.                                                                *)
Get_Working_Dir(buffer_size) ==
  Refuses("get_cwd", cwd.path, IF Printed(cwd.path, buffer_size) = 0 THEN "TOO_SMALL" ELSE "OK")

Next ==
  \/ \E raw \in Raw :
       \/ Open(raw) \/ Delete(raw) \/ Set_CWD(raw) \/ Get_File_Attribute(raw)
       \/ \E attributes \in Asked : Create(raw, attributes)
       \/ \E attributes \in Asked \cap Valid : Set_File_Attribute(raw, attributes)
  \/ \E path \in DOMAIN handles : Close(path) \/ Write(path) \/ Read(path) \/ Seek(path)
  \/ \E buffer_size \in BufferSizes : Get_Working_Dir(buffer_size)

Spec == Init /\ [][Next]_vars

-----------------------------------------------------------------------------
(* The tree as it is on the disk: what a path leads to from the root.      *)
PathsTo(depth) == UNION {[1 .. k -> Name] : k \in 0 .. depth}
DeepestPaths == PathsTo(MaxFiles)
NamesIn(path) ==
  LET entry == Walk(Disk, path)
  IN IF entry.file_attributes = "DIRECTORY"
     THEN {clusters[entry.file_start][i].file_name : i \in 1 .. entry.file_size} ELSE {}
Below(paths) == UNION {{Append(path, name) : name \in NamesIn(path)} : path \in paths}
There ==
  LET level[k \in 0 .. MaxFiles] == IF k = 0 THEN {<<>>} ELSE Below(level[k - 1])
  IN UNION {level[k] : k \in 1 .. MaxFiles}
Tree == [path \in There |-> Walk(Disk, path).file_attributes]
IsOpen == {path \in DOMAIN handles : handles[path].is_open}

(* Each component has its type.                                            *)
TypeOK ==
  LET entry == [file_attributes : Valid, file_name : Name, file_start : Start, file_size : Nat]
      element == [file_attributes : Valid, file_name : Name \cup {Unnamed}, self : DOMAIN objects,
                  parent : DOMAIN objects]
  IN /\ clusters \in [Start -> Seq(entry)]
     /\ created \in 0 .. MaxFiles
     /\ DOMAIN objects \subseteq Nat /\ IsFiniteSet(DOMAIN objects)
     /\ \A o \in DOMAIN objects :
          objects[o] \in [file_start : Start, file_size : Nat, file_position : Nat]
     /\ \A path \in DOMAIN handles :
          handles[path] \in [element : element, cwd_count : Int, is_open : BOOLEAN]
     /\ cwd \in [path : DeepestPaths, element : element]

(* api.h:172: "pokud je nastavena, pak soubor musi existovat, aby byl      *)
(* otevren", the file must exist to be opened, and otherwise it is         *)
(* created: what is open can be found from the root until it is closed,    *)
(* whichever objects the calls in between worked on.                       *)
OpenFilesExist == IsOpen \subseteq There \cup {<<>>}

(* Every object of a directory that is open or worked in has the size of   *)
(* its entry: who reads it sees what a path from the root leads to.        *)
ObjectsAgree ==
  \A path \in DOMAIN handles \cup {cwd.path} :
    LET element == IF path = cwd.path THEN cwd.element ELSE handles[path].element
    IN element.file_attributes = "DIRECTORY" =>
         /\ Walk(Disk, path).file_start = objects[element.self].file_start
         /\ Walk(Disk, path).file_size = objects[element.self].file_size

(* What was written to a file is in its entry, although the object of the  *)
(* directory it was found in may be an old one.                            *)
SizesAreTold ==
  \A path \in IsOpen :
    handles[path].element.file_attributes = "FILE" =>
      Walk(Disk, path).file_size = objects[handles[path].element.self].file_size

(* api.h:75: "OUT: rdi jsou atributy souboru", the attributes of the file: *)
(* they are found of every path there is.                                  *)
AttributesAreFound ==
  [][\A raw \in Raw \ {<<>>} :
       Get_File_Attribute(raw) /\ FilePath(raw) \in There
         => answer'.result = Tree[FilePath(raw)]]_vars

(* api.h:72: "IN: rdi jsou atributy souboru", the attributes of the file:  *)
(* a file has the attributes it was successfully given.                    *)
AttributesAreSet ==
  [][\A raw \in Raw \ {<<>>}, attributes \in Asked \cap Valid :
       Set_File_Attribute(raw, attributes) /\ answer'.result = "OK"
         => Tree'[FilePath(raw)] = attributes]_vars

(* api.h:173: unless the file has to exist, "pak je soubor vzdy vytvoren - *)
(* tj. i prepsan stary soubor", it is always created, that is, an old one  *)
(* is overwritten: what has the name before has it afterwards.             *)
CreationsReplace ==
  [][\A raw \in Raw \ {<<>>}, attributes \in Asked :
       Create(raw, attributes) /\ FilePath(raw) \in There => FilePath(raw) \in There']_vars

(* The calls keep what is promised of a tree: module Directory_Tree.       *)
Promise == INSTANCE Directory_Tree WITH
  Path <- Seq(Name), Directory <- "DIRECTORY",
  tree <- Tree, opened <- IsOpen, in_use <- DOMAIN handles, cwd <- cwd.path
KeepsPromise == Promise!Spec
=============================================================================
