----------------------------- MODULE Selection ------------------------------
(***************************************************************************)
(* From the command line to the mutants: runUnleash finds the module, run  *)
(* gathers the diff, the exclusion rules and the coverage, and the engine  *)
(* walks the files and gives every mutant its status and its package.      *)
(*                                                                         *)
(* A world is what gremlins meets: files and modules on disk, the working  *)
(* directory, the path argument, the flags.  Diff, profile and walk each   *)
(* name a file in their own way, and the engine compares the names.  git,  *)
(* `go test` and the file system are external; a token may stand at every  *)
(* position of a file, and FindMutations.tla says what becomes of it.      *)
(***************************************************************************)
EXTENDS Coverage, Diff, MutantStatus

CONSTANTS
    Worlds,
    MaxLine, MaxCol,  \* bounds: the positions of a file
    Budget            \* bound: lines of the diff, and half of it blocks

(* Paths are clean sequences of names; gremlins is pointed at a directory, *)
(* which no file is above.                                                 *)
ASSUME SelectionAssumption ==
    /\ MaxLine \in Nat /\ MaxCol \in Nat /\ Budget \in Nat
    /\ \A w \in Worlds :
           /\ w.cwd \in Seq(STRING)
           /\ w.path \in [abs : BOOLEAN, elems : Seq(STRING)]
           /\ w.name \in STRING
           /\ DOMAIN w.files \subseteq Seq(STRING)
           /\ \A f \in DOMAIN w.files :
                  /\ ~Below(f, Resolve(w.cwd, w.path))
                  /\ \A n \in DOMAIN f : f[n] \notin {"..", "glued"}

Positions == [Line : 1 .. MaxLine, Column : 1 .. MaxCol]

(* cover.ProfileBlock, never empty or backwards.                           *)
ProfileBlocks ==
    {b \in [StartLine : 1 .. MaxLine, StartCol : 1 .. MaxCol,
            EndLine : 1 .. MaxLine, EndCol : 1 .. MaxCol, Count : 0 .. 1] :
        \/ b.StartLine < b.EndLine
        \/ b.StartLine = b.EndLine /\ b.StartCol < b.EndCol}

VARIABLES
    world,    \* what gremlins meets; never changes
    pc,
    cwd,      \* the working directory of the process
    mod,      \* gomodule.GoModule
    patch,    \* the fragments of each file in git's diff
    diff,     \* diff.Diff
    blocks,   \* the cover profile on disk
    profile,  \* coverage.Profile
    mutants   \* what the walk has found

vars == <<world, pc, cwd, mod, patch, diff, blocks, profile, mutants>>

Nil == <<>>

Init ==
    /\ world \in Worlds
    /\ pc = "module" /\ cwd = world.cwd /\ mod = Nil
    /\ patch = Nil /\ diff = Nil /\ blocks = {} /\ profile = Nil
    /\ mutants = {}

Goto(from, to) == pc = from /\ pc' = to

-----------------------------------------------------------------------------
(* runUnleash: gomodule.Init(path)                                         *)
Root == findModuleRoot(cwd, world.path, world.gomods)

InitModule ==
    /\ Goto("module", "diff")
    /\ Root # NoRoot
    /\ mod' = GoModule(Root, world.path, world.firstLine)
    /\ UNCHANGED <<world, cwd, patch, diff, blocks, profile, mutants>>

NotInModule ==
    /\ Goto("module", "failed")
    /\ Root = NoRoot
    /\ UNCHANGED <<world, cwd, mod, patch, diff, blocks, profile, mutants>>

(* run: an error of git, of a rule or of the coverage run ends it.         *)
RunFails ==
    /\ \/ pc = "diff" /\ world.diffRef
       \/ pc = "exclusion" /\ world.rules # {}
       \/ pc = "testing"
    /\ pc' = "failed"
    /\ UNCHANGED <<world, cwd, mod, patch, diff, blocks, profile, mutants>>

-----------------------------------------------------------------------------
(* diff.New *)

Files == DOMAIN world.files

(* The lines fragment fr has in the new file.                              *)
NewLines(fr) == Cardinality({i \in DOMAIN fr.Lines : fr.Lines[i] # "delete"})

Printed == UNION {UNION {{<<f, i, j>> : j \in DOMAIN patch[f][i].Lines} : i \in DOMAIN patch[f]} :
                     f \in DOMAIN patch}
Spent == Cardinality(Printed) + 2 * Cardinality(blocks)

(* git begins a fragment, `gap` unchanged lines below the last one.        *)
Fragment(f, gap, op) ==
    /\ pc = "diff" /\ world.diffRef /\ Spent < Budget
    /\ LET old  == IF f \in DOMAIN patch THEN patch[f] ELSE <<>>
           next == IF old = <<>> THEN 1 ELSE Last(old).NewPosition + NewLines(Last(old))
           new  == Append(old, [NewPosition |-> next + gap, Lines |-> <<op>>])
       IN  patch' = [g \in DOMAIN patch \cup {f} |-> IF g = f THEN new ELSE patch[g]]
    /\ UNCHANGED <<world, pc, cwd, mod, diff, blocks, profile, mutants>>

Line(f, op) ==
    /\ pc = "diff" /\ Spent < Budget
    /\ f \in DOMAIN patch
    /\ patch' = [patch EXCEPT ![f][Len(patch[f])].Lines = Append(@, op)]
    /\ UNCHANGED <<world, pc, cwd, mod, diff, blocks, profile, mutants>>

(* git names files from the top of the repository, in whatever directory   *)
(* it runs.                                                                *)
GitName(f) == Rel(world.repo, f)

NewDiff ==
    /\ Goto("diff", "exclusion")
    /\ diff' = newDiff([name \in {GitName(f) : f \in DOMAIN patch} |->
                           patch[CHOOSE f \in DOMAIN patch : GitName(f) = name]])
    /\ UNCHANGED <<world, cwd, mod, patch, blocks, profile, mutants>>

-----------------------------------------------------------------------------
(* exclusion.New; a rule is the set of the names it matches.               *)
NewRules ==
    /\ Goto("exclusion", "coverage")
    /\ UNCHANGED <<world, cwd, mod, patch, diff, blocks, profile, mutants>>

IsFileExcluded(rules, name) == \E r \in rules : name \in r

-----------------------------------------------------------------------------
(* coverage.Run: the process moves to the module's root.                   *)
CoverageRun ==
    /\ Goto("coverage", "testing")
    /\ cwd' = Resolve(cwd, mod.Root)
    /\ UNCHANGED <<world, mod, patch, diff, blocks, profile, mutants>>

(* `go test` of the packages below scanPath, other modules left out.       *)
Tested(f) ==
    /\ world.files[f].kind = "go"
    /\ Below(cwd \o scanPath(mod, world.integrationMode), f)
    /\ \A dir \in world.gomods : Below(dir, f) => Len(dir) <= Len(cwd)

Block(f, b) ==
    /\ pc = "testing" /\ Spent + 2 <= Budget
    /\ Tested(f)
    /\ blocks' = blocks \cup
           {[file |-> f, fileName |-> <<world.name>> \o Rel(cwd, f), block |-> b]}
    /\ UNCHANGED <<world, pc, cwd, mod, patch, diff, profile, mutants>>

ParseProfile ==
    /\ Goto("testing", "walk")
    /\ profile' = parse(mod, blocks)
    /\ UNCHANGED <<world, cwd, mod, patch, diff, blocks, mutants>>

-----------------------------------------------------------------------------
(* engine.New and Run: os.DirFS resolves a relative root anew.             *)
DirFS == Resolve(cwd, mod.Root) \o mod.CallingDir

isGoCode(f) == world.files[f].kind = "go"

Walkable(f) ==
    /\ Below(DirFS, f)
    /\ isGoCode(f)
    /\ ~IsFileExcluded(world.rules, Rel(DirFS, f))

Walked == {m.file : m \in mutants}

(* Faulty variant: the module's own directory, not the calling one, is     *)
(* where the copy is mutated.                                              *)
WorkingDirAtRoot(rootDir) == rootDir

(* mutantExecutor.Start: the directory, in the copy of the module, whose   *)
(* file of the mutant's name Apply writes.                                 *)
WorkingDir(rootDir) == rootDir \o mod.CallingDir

(* runOnFile: a mutant at every position, its status and its package; and  *)
(* the file that its mutation will replace in a copy of the module.  Every *)
(* file can be read and parsed; that runOnFile ignores both errors is not  *)
(* modelled.                                                               *)
RunOnFile(f) ==
    /\ pc = "walk"
    /\ Walkable(f) /\ f \notin Walked
    /\ LET name == Rel(DirFS, f)
       IN  mutants' = mutants \cup
               {[file |-> f, pos |-> pos,
                 status |-> mutationStatus(IsCovered(profile, name, pos),
                                           IsChanged(diff, name, pos.Line)),
                 pkg |-> pkgName(mod, name, world.files[f].pkg),
                 replaces |-> WorkingDir(Resolve(cwd, mod.Root)) \o name] : pos \in Positions}
    /\ UNCHANGED <<world, pc, cwd, mod, patch, diff, blocks, profile>>

WalkEnd ==
    /\ Goto("walk", "done")
    /\ \A f \in Files : Walkable(f) => f \in Walked
    /\ UNCHANGED <<world, cwd, mod, patch, diff, blocks, profile, mutants>>

Terminated == pc \in {"done", "failed"} /\ UNCHANGED vars

Next ==
    \/ InitModule \/ NotInModule \/ RunFails
    \/ \E f \in Files, op \in Ops : (\E gap \in 0 .. 1 : Fragment(f, gap, op)) \/ Line(f, op)
    \/ NewDiff \/ NewRules \/ CoverageRun
    \/ \E f \in Files, b \in ProfileBlocks : Block(f, b)
    \/ ParseProfile
    \/ \E f \in Files : RunOnFile(f)
    \/ WalkEnd
    \/ Terminated

Spec == Init /\ [][Next]_vars

-----------------------------------------------------------------------------
(* Properties *)

(* The new line numbers of the added lines of a fragment.                  *)
Added(fr) ==
    {fr.NewPosition + Cardinality({k \in 1 .. (i - 1) : fr.Lines[k] # "delete"}) :
        i \in {j \in DOMAIN fr.Lines : fr.Lines[j] = "add"}}

(* One run of added lines, with nothing but the leading context and        *)
(* deleted lines above it.                                                 *)
OneRun(fr) ==
    \A i \in DOMAIN fr.Lines, j \in DOMAIN fr.Lines :
        /\ i < j /\ fr.Lines[j] = "add" /\ fr.Lines[i] # "context" =>
               \A k \in i .. j : fr.Lines[k] # "context"

(* The line is new, or there is no --diff.                                 *)
Changed(m) ==
    \/ ~world.diffRef
    \/ m.file \in DOMAIN patch /\ \E i \in DOMAIN patch[m.file] : m.pos.Line \in Added(patch[m.file][i])

(* Positions in text order, by line and then by column.                    *)
NotAfter(l1, c1, l2, c2) == l1 < l2 \/ (l1 = l2 /\ c1 <= c2)

Executed(m) ==
    \E e \in blocks :
        /\ e.file = m.file /\ e.block.Count > 0
        /\ NotAfter(e.block.StartLine, e.block.StartCol, m.pos.Line, m.pos.Column)
        /\ NotAfter(m.pos.Line, m.pos.Column, e.block.EndLine, e.block.EndCol)

(* The module's root, as gomodule found it, still names that directory     *)
(* after coverage.Run has moved there: it is absolute, or ".".             *)
RootStands == mod.Root.abs \/ mod.Root.elems = <<>>

(* Gremlins was called at the top of the repository, which is the module;  *)
(* no directory's name ends like the module's; go.mod begins with it.      *)
CalledAtTheTop == cwd = world.repo /\ mod.CallingDir = <<>>
ModuleNameIsUnique ==
    \A f \in Files : \A n \in 1 .. Len(f) - 1 : ~HasSuffix(f[n], world.name)
NameIsFirst == world.firstLine = world.name

(* With --diff, there are changes.  Without any, diff.go:56 takes every    *)
(* line for new, as its comment says, and all mutants are tested; "run     *)
(* tests only for mutants inside code changes" (index.md:87) says none is. *)
DiffIsNotEmpty == world.diffRef => DOMAIN patch # {}

(* At the top of a repository, named absolutely or as ".", a mutant is     *)
(* SKIPPED exactly when its line is not new, RUNNABLE exactly when it is   *)
(* new and in a block, of that very file, that some test executed, from    *)
(* the block's first position to its last in text order; as long as every  *)
(* fragment of the diff has one run of added lines, and the diff has any   *)
(* fragment.  A diff that only deletes leaves nothing to test.             *)
StatusIsDeserved ==
    pc = "done" /\ RootStands /\ CalledAtTheTop /\ ModuleNameIsUnique /\ NameIsFirst /\ DiffIsNotEmpty
    /\ (\A f \in DOMAIN patch : \A i \in DOMAIN patch[f] : OneRun(patch[f][i])) =>
        \A m \in mutants :
            /\ m.status = Skipped <=> ~Changed(m)
            /\ m.status = Runnable <=> Changed(m) /\ Executed(m)

(* "Unleash only tests covered mutants" (src/cmd/unleash.go:91): wherever  *)
(* in its module gremlins is called, in a nested one, with a relative path *)
(* that does not lead into another, with a go.mod it cannot read: as long  *)
(* as no directory is named like the module, the coverage of one file      *)
(* never counts for another.                                               *)
OnlyCoveredAreTested ==
    ModuleNameIsUnique =>
        \A m \in mutants : RootStands /\ m.status = Runnable => Executed(m)

(* Called in or with an absolute directory, or with a relative one inside  *)
(* the module it is called in: the walk finds the Go files below that      *)
(* directory, all that no rule excludes and no tests, although the process *)
(* has changed its directory meanwhile; and each mutation replaces the     *)
(* copy of the file it was found in.                                       *)
WalksWhereItWasCalled ==
    pc = "done" /\ RootStands =>
        LET asked == Resolve(world.cwd, world.path)
        IN  /\ Walked = {f \in Files :
                            /\ Below(asked, f) /\ world.files[f].kind = "go"
                            /\ \A r \in world.rules : Rel(asked, f) \notin r}
            /\ \A m \in mutants : m.replaces = m.file

(* The package of the directory a file is in, wherever gremlins is called. *)
OwnPackage(m) == <<world.name>> \o Rel(Resolve(world.cwd, mod.Root), Front(m.file))

(* A mutant is tested with the package it was found in when its directory  *)
(* ends with the name of the package, or is the module's root and no       *)
(* directory has to be found; go.mod begins with the module's name.  (In   *)
(* "normal mode", index.md:221 says so of every package.  One that is not  *)
(* named like its directory, such as every main, is tested with a          *)
(* directory above it, or the root, as engine_test.go:681 expects.)        *)
ConventionalPackagesAreTested ==
    \A m \in mutants :
        LET pkg == OwnPackage(m)
        IN  RootStands /\ NameIsFirst /\ (Len(pkg) = 1 \/ HasSuffix(Last(pkg), world.files[m.file].pkg)) =>
                m.pkg = pkg

(* "Run tests only for mutants inside code changes"                        *)
(* (docs/docs/usage/commands/unleash/index.md:87).  A fragment with context*)
(* between its added lines, as git prints for edits a few lines apart, has *)
(* unchanged lines tested and new ones skipped.                            *)
ExactlyTheChangesAreTested ==
    pc = "done" /\ DiffIsNotEmpty => \A m \in mutants : m.status # Skipped <=> Changed(m)
=============================================================================
