---------------------------- MODULE MCPipelines ----------------------------
(* Instances of Pipelines: lines of one to three programs; type shows more *)
(* than a pipe holds.                                                      *)
EXTENDS Pipelines
CONSTANTS a, b

MCFiles == {a, b}
MCPipes == {1, 2, 3}
MCSlots == {1, 2, 3}

Run(program, file) == [program |-> program, file |-> file, input |-> NoFile, output |-> NoFile]
With(program) == Run(program, NoFile)
From(program, file) == [With(program) EXCEPT !.input = file]
To(program, file) == [With(program) EXCEPT !.output = file]

MCLines ==
  { <<Run("type", a), With("sort"), With("freq")>>,
    <<Run("type", a), To("find", b)>>,
    <<Run("dir", a), With("rgen"), With("find")>>,
    <<From("rgen", a), To("sort", b)>>,
    <<From("sort", a), With("freq"), With("sort")>>,
    <<With("sort"), With("find")>>,
    <<With("type"), With("freq")>>,
    <<With("echo")>>,
    <<With("tasklist")>>,
    <<With("cd")>>,
    <<Run("type", a), With("sort"), Run("type", b)>>,
    <<Run("dir", a), To("sort", a)>>,
    <<From("freq", a), With("nosuch")>>,
    <<From("freq", "missing")>> }
=============================================================================
