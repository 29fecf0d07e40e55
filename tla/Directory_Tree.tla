--------------------------- MODULE Directory_Tree ---------------------------
(***************************************************************************)
(* What the calls on files and directories promise: a tree of paths, of    *)
(* which some are open and one is the working directory, and calls that    *)
(* do what they say: a call changes at most the path it is about, it gives *)
(* a reason that holds when it is refused, and only then it is.            *)
(***************************************************************************)
EXTENDS Naturals, Sequences

CONSTANTS
  Path,        \* the paths a call may be about
  Directory,   \* those of a directory
  Valid,       \* those an element may have
  Nothing      \* what a call is about that names no path

VARIABLES
  tree,    \* the attributes of each path there is below the root
  opened,  \* the paths that are open
  in_use,  \* those that are not removed: open, or entered by somebody
  cwd,     \* the working directory
  answer   \* what the last call was about, asked for and returned

vars == <<tree, opened, in_use, cwd, answer>>

Root == <<>>
There(x) == x = Root \/ x \in DOMAIN tree
IsDirectory(x) == x = Root \/ (x \in DOMAIN tree /\ tree[x] = Directory)
Above(x) == SubSeq(x, 1, Len(x) - 1)
Children(x) == {y \in DOMAIN tree : y # Root /\ Above(y) = x}
Without(x) == [y \in DOMAIN tree \ {x} |-> tree[y]]
With(x, attributes) ==
  [y \in DOMAIN tree \cup {x} |-> IF y = x THEN attributes ELSE tree[y]]

Init ==
  /\ tree = [x \in {} |-> Directory]
  /\ opened = {} /\ in_use = {} /\ cwd = Root
  /\ answer = [call |-> "none", path |-> Root, attributes |-> "NONE", result |-> "OK"]

(* What the call says: what it was about, which attributes it asked for,   *)
(* and what became of it.                                                  *)
Answers(call, x) == answer'.call = call /\ answer'.path = x
AskedFor == answer'.attributes
Result == answer'.result

(* A path is opened once at a time, if it is there.                        *)
Open(x) ==
  /\ Answers("open", x)
  /\ IF x \in opened THEN Result = "ALREADY_OPENED" /\ UNCHANGED <<opened, in_use>>
     ELSE IF There(x)
     THEN Result = "OK" /\ opened' = opened \cup {x} /\ in_use' = in_use \cup {x}
     ELSE Result = "FILE_NOT_FOUND" /\ UNCHANGED <<opened, in_use>>
  /\ UNCHANGED <<tree, cwd>>

Close(x) ==
  /\ Answers("close", x) /\ Result = "OK"
  /\ x \in opened
  /\ opened' = opened \ {x}
  /\ in_use' \in {in_use, in_use \ {x}}
  /\ UNCHANGED <<tree, cwd>>

(* The reasons not to remove a path.                                       *)
Obstacles(x) ==
  {reason \in {"CANT_REMOVE", "FILE_OPENED", "NOT_EMPTY"} :
     \/ reason = "CANT_REMOVE" /\ x \in {Root, cwd}
     \/ reason = "FILE_OPENED" /\ x \in in_use
     \/ reason = "NOT_EMPTY" /\ Children(x) # {}}

Delete(x) ==
  /\ Answers("delete", x)
  /\ IF Obstacles(x) # {} THEN Result \in Obstacles(x) /\ UNCHANGED tree
     ELSE IF There(x) THEN Result = "OK" /\ tree' = Without(x)
     ELSE Result = "FILE_NOT_EXISTING" /\ UNCHANGED tree
  /\ UNCHANGED <<opened, in_use, cwd>>

(* What has the name is replaced by the new file, which is there and open; *)
(* what may not be removed is not replaced.                                *)
Refusal == [CANT_REMOVE |-> "CANT_REMOVE_PREVIOUS", FILE_OPENED |-> "ALREADY_OPENED",
            NOT_EMPTY |-> "DIRECTORY_NOT_EMPTY"]

Create(x) ==
  /\ Answers("create", x)
  /\ IF Obstacles(x) = {} /\ IsDirectory(Above(x)) /\ AskedFor \in Valid
     THEN /\ Result = "OK"
          /\ tree' = With(x, AskedFor)
          /\ opened' = opened \cup {x}
          /\ in_use' = in_use \cup {x}
     ELSE /\ \/ Result \in {Refusal[reason] : reason \in Obstacles(x)}
             \/ Result = "FILE_NOT_FOUND" /\ ~IsDirectory(Above(x))
             \/ Result = "INVALID_FILE_TYPE" /\ AskedFor \notin Valid
          /\ UNCHANGED <<tree, opened, in_use>>
  /\ UNCHANGED cwd

(* Only a directory is entered; the one that is left is no longer in use,  *)
(* unless it is open.                                                      *)
Set_CWD(x) ==
  /\ Answers("set_cwd", x)
  /\ IF IsDirectory(x)
     THEN /\ Result = "OK"
          /\ cwd' = x
          /\ x # Root => x \in in_use'
          /\ in_use' \cup {cwd} = in_use \cup {cwd, x}
     ELSE /\ Result = IF There(x) THEN "NOT_A_DIRECTORY" ELSE "PATH_NOT_FOUND"
          /\ UNCHANGED <<cwd, in_use>>
  /\ UNCHANGED <<tree, opened>>

(* Calls that only look: a directory is read name by name; a path has the  *)
(* attributes it was given; the working directory is printed as it is, or  *)
(* not at all.                                                             *)
Read(x) ==
  /\ Answers("read", x)
  /\ x \in opened /\ IsDirectory(x)
  /\ Result \in {y[Len(y)] : y \in Children(x)} \cup {"EOF"}
  /\ UNCHANGED <<tree, opened, in_use, cwd>>

AttributesOf(x) == IF x = Root THEN Directory ELSE tree[x]

Get_Attributes(x) ==
  /\ Answers("get_attributes", x)
  /\ Result = IF There(x) THEN AttributesOf(x) ELSE "FILE_NOT_FOUND"
  /\ UNCHANGED <<tree, opened, in_use, cwd>>

(* The reasons not to change the attributes of a path; a directory does    *)
(* not become a file, nor a file a directory.                              *)
Objections(x) ==
  {reason \in {"CANT_CHANGE", "FILE_OPENED", "FILE_NOT_EXISTING"} :
     \/ reason = "CANT_CHANGE" /\ x \in {Root, cwd}
     \/ /\ reason = "CANT_CHANGE" /\ There(x)
        /\ (AttributesOf(x) = Directory) # (AskedFor = Directory)
     \/ reason = "FILE_OPENED" /\ x \in in_use
     \/ reason = "FILE_NOT_EXISTING" /\ ~There(x)}

Set_Attributes(x) ==
  /\ Answers("set_attributes", x)
  /\ IF Objections(x) = {} THEN Result = "OK" /\ tree' = With(x, AskedFor)
     ELSE Result \in Objections(x) /\ UNCHANGED tree
  /\ UNCHANGED <<opened, in_use, cwd>>

Get_CWD ==
  /\ Answers("get_cwd", cwd) /\ Result \in {"OK", "TOO_SMALL"}
  /\ UNCHANGED <<tree, opened, in_use, cwd>>

(* Calls that name nothing are refused.                                    *)
Nameless ==
  /\ answer'.path = Nothing
  /\ Result \in {"INVALID_FILENAME", "INVALID_PATH", "FILE_NOT_EXISTING", "FILE_NOT_FOUND"}
  /\ UNCHANGED <<tree, opened, in_use, cwd>>

Next ==
  \/ Get_CWD \/ Nameless
  \/ \E x \in {answer'.path} \cap Path :
       \/ Open(x) \/ Close(x) \/ Delete(x) \/ Create(x)
       \/ Set_CWD(x) \/ Read(x) \/ Get_Attributes(x) \/ Set_Attributes(x)

Spec == Init /\ [][Next]_vars
=============================================================================
