--------------------------- MODULE MCDirectories ---------------------------
(***************************************************************************)
(* Directories with two names, that is with the paths \a, \b, \a\a, \a\b   *)
(* and so on, written as plain names, as relative and as absolute paths.   *)
(***************************************************************************)
EXTENDS Directories

MCRaw ==
  {<<>>, <<Here>>, <<Above>>} \cup {<<name>> : name \in Name}
  \cup {<<Above, Separator, name>> : name \in Name}
  \cup {<<Separator, name, Separator, Separator, name>> : name \in Name}
MCAsked == {"DIRECTORY", "FILE", "INVALID"}
MCAskedAll == Attributes
MCBufferSizes == {3}

(* The last answer tells states apart for no action: it is not part of the *)
(* view; the promise is checked of every step all the same.                *)
state == <<clusters, created, objects, handles, cwd>>

MCSymmetry == Permutations(Name)
=============================================================================
