---------------------------- MODULE MCSelection -----------------------------
(***************************************************************************)
(* A repository r with a file at the top, one in directory go-d, a test    *)
(* and a generated file.  The worlds differ in what can go wrong.          *)
(***************************************************************************)
EXTENDS Selection

Top  == <<"r", "a.go">>
Sub  == <<"r", "go-d", "a.go">>
Test == <<"r", "go-d", "a_test.go">>
Gen  == <<"r", "go-d", "gen.go">>
Deep == <<"r", "r", "a.go">>

Go(pkg) == [kind |-> "go", pkg |-> pkg]

Repository ==
    [repo |-> <<"r">>, gomods |-> {<<"r">>}, name |-> "host/r", firstLine |-> "host/r",
     cwd |-> <<"r">>, path |-> [abs |-> TRUE, elems |-> <<"r">>],
     files |-> (Top :> Go("r") @@ Sub :> Go("d")),
     integrationMode |-> FALSE, diffRef |-> TRUE, rules |-> {}]

(* Called in the directory go-d of the repository.                         *)
InSub == [Repository EXCEPT !.cwd = <<"r", "go-d">>, !.path.elems = <<"r", "go-d">>]

(* A module in go-d of its own, beside that of the repository.             *)
Nested == [Repository EXCEPT !.gomods = {<<"r">>, <<"r", "go-d">>}, !.diffRef = FALSE]

(* With a test, a rule, and another that matches nothing here.             *)
Rules ==
    [Repository EXCEPT !.files = @ @@ Test :> [kind |-> "test", pkg |-> "d"] @@ Gen :> Go("d"),
                       !.rules = {{<<"go-d", "gen.go">>, <<"gen.go">>}, {}}, !.diffRef = FALSE]

Command == [InSub EXCEPT !.files = Top :> Go("r") @@ Sub :> Go("main"), !.diffRef = FALSE]

MCWorlds ==
    {Repository, InSub, Nested, Rules, Command,
     [Rules EXCEPT !.cwd = <<"r", "go-d">>, !.path.elems = <<"r", "go-d">>, !.integrationMode = TRUE],
     [Nested EXCEPT !.cwd = <<"r", "go-d">>, !.path.elems = <<"r", "go-d">>],
     \* with a relative path, in the module, above it and, with ".", below it
     [Repository EXCEPT !.path = [abs |-> FALSE, elems |-> <<"go-d">>], !.diffRef = FALSE],
     [Repository EXCEPT !.cwd = <<>>, !.path = [abs |-> FALSE, elems |-> <<"r">>],
                        !.files = Top :> Go("r") @@ Deep :> Go("r"), !.diffRef = FALSE],
     [InSub EXCEPT !.path = [abs |-> FALSE, elems |-> <<>>]],
     \* modules named like a directory; a go.mod that begins with a comment
     [Repository EXCEPT !.name = "go-d", !.firstLine = "go-d", !.diffRef = FALSE],
     [Repository EXCEPT !.name = "d", !.firstLine = "d", !.diffRef = FALSE],
     [Repository EXCEPT !.firstLine = "comment", !.diffRef = FALSE]}

(* The repository alone.                                                   *)
MCTop == {Repository}

MCEndsWith == {<<"go-d", "d">>}
=============================================================================
