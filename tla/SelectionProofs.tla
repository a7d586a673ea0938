--------------------------- MODULE SelectionProofs ---------------------------
(***************************************************************************)
(* Proofs about where gremlins looks and what it tests: gomodule, the walk *)
(* of the engine, the package of a mutant and the block that covers it,    *)
(* for every tree of files and every way of calling it.                    *)
(***************************************************************************)
EXTENDS Selection, WellFoundedInduction, SequenceTheorems, FiniteSetTheorems, TLAPS

(* ---------------------------- Numbers, paths ---------------------------- *)

(* Every set of natural numbers that is not empty has a least element.     *)
LEMMA LeastNumber ==
  ASSUME NEW S \in SUBSET Nat, S # {}
  PROVE  \E x \in S : \A y \in S : x <= y
  <1> DEFINE R == {ss \in Nat \X Nat : ss[1] < ss[2]}
  <1>1. R = OpToRel(<, Nat)
    BY DEF OpToRel
  <1>2. IsWellFoundedOn(R, Nat)
    BY <1>1, NatLessThanWellFounded
  <1>3. \A x, y \in Nat : <<y, x>> \in R <=> y < x
    OBVIOUS
  <1> HIDE DEF R
  <1>4. PICK x \in S : \A y \in S : ~(<<y, x>> \in R)
    BY <1>2, WFMin
  <1>5. \A y \in S : ~(y < x)
    <2> TAKE y \in S
    <2>1. x \in Nat /\ y \in Nat /\ ~(<<y, x>> \in R)
      BY <1>4
    <2>2. QED
      BY <1>3, <2>1
  <1>6. QED
    BY <1>5

(* And one that is bounded has a greatest.                                 *)
LEMMA GreatestNumber ==
  ASSUME NEW n \in Nat, NEW S \in SUBSET (0 .. n), S # {}
  PROVE  \E x \in S : \A y \in S : y <= x
  <1> DEFINE T == {n - x : x \in S}
  <1>1. T \in SUBSET Nat /\ T # {}
    <2>1. PICK x \in S : TRUE
      OBVIOUS
    <2>2. n - x \in T
      BY <2>1
    <2>3. \A y \in S : n - y \in Nat
      OBVIOUS
    <2>4. QED
      BY <2>2, <2>3
  <1>2. PICK z \in T : \A y \in T : z <= y
    BY <1>1, LeastNumber
  <1>3. PICK x \in S : z = n - x
    BY <1>2
  <1>4. \A y \in S : n - x <= n - y
    BY <1>2, <1>3
  <1>5. QED
    BY <1>4

(* filepath.Rel undoes filepath.Join.                                      *)
LEMMA JoinRel ==
  ASSUME NEW S, NEW a \in Seq(S), NEW b \in Seq(S), IsPrefix(a, b)
  PROVE  Rel(a, b) \in Seq(S) /\ a \o Rel(a, b) = b
  BY DEF IsPrefix, Rel

(* And filepath.Join undoes filepath.Rel.                                  *)
LEMMA RelJoin ==
  ASSUME NEW a \in Seq(STRING), NEW b \in Seq(STRING)
  PROVE  IsPrefix(a, a \o b) /\ Rel(a, a \o b) = b
  BY DEF IsPrefix, Rel

(* The directory of a joined path is the joined directory.                 *)
LEMMA FrontOfJoin ==
  ASSUME NEW a \in Seq(STRING), NEW b \in Seq(STRING), b # <<>>
  PROVE  Front(b) \in Seq(STRING) /\ Front(a \o b) = a \o Front(b)
  BY DEF Front

(* What is below a directory is below those above it.                      *)
LEMMA PrefixOfJoin ==
  ASSUME NEW a \in Seq(STRING), NEW b \in Seq(STRING), NEW c \in Seq(STRING), IsPrefix(a \o b, c)
  PROVE  IsPrefix(a, c)
  BY DEF IsPrefix

(* The elements of the second part are elements of the joined path.        *)
LEMMA ElementsOfJoin ==
  ASSUME NEW a \in Seq(STRING), NEW b \in Seq(STRING), NEW S,
         \A n \in DOMAIN (a \o b) : (a \o b)[n] \notin S
  PROVE  \A n \in DOMAIN b : b[n] \notin S
  <1> TAKE n \in DOMAIN b
  <1>1. Len(a) + n \in DOMAIN (a \o b) /\ (a \o b)[Len(a) + n] = b[n]
    OBVIOUS
  <1>2. QED
    BY <1>1

(* A name alone is a path.                                                 *)
LEMMA SingletonPath == \A N \in STRING : <<N>> \in Seq(STRING)
  <1> TAKE N \in STRING
  <1>1. <<>> \in Seq(STRING)
    BY EmptySeq
  <1>2. Append(<<>>, N) \in Seq(STRING)
    BY <1>1, AppendProperties
  <1>3. Append(<<>>, N) = <<N>>
    OBVIOUS
  <1>4. QED
    BY <1>2, <1>3

(* Joining is associative.                                                 *)
LEMMA JoinAssociates ==
  \A a, b, c \in Seq(STRING) : (a \o b) \o c = a \o (b \o c)
  BY ConcatAssociative

(* The directory and the file's name in a name of the cover profile.       *)
LEMMA FrontOfModuleName ==
  ASSUME NEW N \in STRING, NEW rel \in Seq(STRING), rel # <<>>
  PROVE  /\ Front(rel) \in Seq(STRING)
         /\ Front(<<N>> \o rel) = <<N>> \o Front(rel)
         /\ Last(<<N>> \o rel) = Last(rel)
         /\ Append(Front(rel), Last(rel)) = rel
         /\ Last(rel) \in STRING
  <1>1. <<N>> \in Seq(STRING)
    BY Zenon, SingletonPath
  <1>2. Front(rel) \in Seq(STRING) /\ Front(<<N>> \o rel) = <<N>> \o Front(rel)
    BY <1>1, FrontOfJoin
  <1>3. Last(<<N>> \o rel) = Last(rel)
    BY DEF Last
  <1>4. Append(Front(rel), Last(rel)) = rel /\ Last(rel) \in STRING
    BY DEF Front, Last
  <1>5. QED
    BY <1>2, <1>3, <1>4

(* The elements of such a name.                                            *)
LEMMA ElementsOfModuleName ==
  ASSUME NEW N \in STRING, NEW s \in Seq(STRING)
  PROVE  \A n \in DOMAIN (<<N>> \o s) : (<<N>> \o s)[n] = N \/ \E k \in DOMAIN s : (<<N>> \o s)[n] = s[k]
  <1> TAKE n \in DOMAIN (<<N>> \o s)
  <1>1. n \in 1 .. Len(s) + 1 /\ Len(s) \in Nat /\ DOMAIN s = 1 .. Len(s)
    OBVIOUS
  <1>2. CASE n = 1
    BY <1>2
  <1>3. CASE n # 1
    <2>1. n - 1 \in DOMAIN s /\ (<<N>> \o s)[n] = s[n - 1]
      BY <1>1, <1>3
    <2>2. QED
      BY <2>1
  <1>4. QED
    BY <1>2, <1>3

(* Where the elements of the second part are in the joined path.           *)
LEMMA IndexOfJoin ==
  ASSUME NEW a \in Seq(STRING), NEW b \in Seq(STRING), NEW n \in 1 .. Len(b) - 1
  PROVE  Len(a) + n \in 1 .. Len(a \o b) - 1 /\ (a \o b)[Len(a) + n] = b[n]
  OBVIOUS

(* The directories of a file below a are directories of the file.          *)
LEMMA DirectoriesOfJoin ==
  ASSUME NEW a \in Seq(STRING), NEW b \in Seq(STRING), b # <<>>, NEW N,
         \A n \in 1 .. Len(a \o b) - 1 : (a \o b)[n] # N
  PROVE  \A n \in DOMAIN Front(b) : Front(b)[n] # N
  <1> TAKE n \in DOMAIN Front(b)
  <1>1. n \in 1 .. Len(b) - 1 /\ Front(b)[n] = b[n]
    BY DEF Front
  <1>2. /\ Len(a) + n \in 1 .. Len(a \o b) - 1
        /\ (a \o b)[Len(a) + n] = b[n]
    BY <1>1, IndexOfJoin
  <1>3. QED
    BY <1>1, <1>2

(* ------------------------------- gomodule ------------------------------- *)

(* findModuleRoot finds a directory above the path it was given, or none.  *)
LEMMA RootIsAbove ==
  ASSUME NEW c, NEW path \in [abs : BOOLEAN, elems : Seq(STRING)], NEW gomods,
         findModuleRoot(c, path, gomods) # NoRoot
  PROVE  /\ findModuleRoot(c, path, gomods).abs = path.abs
         /\ findModuleRoot(c, path, gomods).elems \in Seq(STRING)
         /\ IsPrefix(findModuleRoot(c, path, gomods).elems, path.elems)
  <1> DEFINE found == {p \in Up(path) : Resolve(c, p) \in gomods}
             lens == {Len(p.elems) : p \in found}
             root == findModuleRoot(c, path, gomods)
  <1>1. Len(path.elems) \in Nat
    BY LenProperties
  <1>2. \A p \in Up(path) : \E n \in 0 .. Len(path.elems) :
            p.abs = path.abs /\ p.elems = SubSeq(path.elems, 1, n)
    BY DEF Up
  <1>3. \A n \in 0 .. Len(path.elems) : Len(SubSeq(path.elems, 1, n)) = n
    BY <1>1
  <1>4. found # {}
    BY DEF findModuleRoot
  <1>5. \E p \in found : \A q \in found : Len(q.elems) <= Len(p.elems)
    <2>1. lens \in SUBSET (0 .. Len(path.elems)) /\ lens # {}
      <3>1. \A p \in found : Len(p.elems) \in 0 .. Len(path.elems)
        BY <1>2, <1>3
      <3>2. QED
        BY <1>4, <3>1
    <2>2. PICK x \in lens : \A y \in lens : y <= x
      BY <1>1, <2>1, GreatestNumber
    <2>3. QED
      BY <2>2
  <1>6. root \in found
    BY <1>4, <1>5 DEF findModuleRoot
  <1> HIDE DEF root
  <1>7. PICK n \in 0 .. Len(path.elems) : root.abs = path.abs /\ root.elems = SubSeq(path.elems, 1, n)
    BY <1>2, <1>6
  <1>8. root.elems \in Seq(STRING) /\ IsPrefix(root.elems, path.elems)
    BY <1>1, <1>7 DEF IsPrefix
  <1>9. QED
    BY <1>7, <1>8 DEF root

(* ----------------------------- The invariant ---------------------------- *)

TheRoot == findModuleRoot(world.cwd, world.path, world.gomods)

(* The module, once found, and the process' directory, which coverage.Run  *)
(* changes; the diff is that of the patch, which has fragments of files;   *)
(* the profile is that of the blocks, which are of tested files; and every *)
(* mutant has been made by RunOnFile, of a file that is walked.            *)
ModuleInv ==
    /\ world \in Worlds
    /\ pc \in {"module", "diff", "exclusion", "coverage", "testing", "walk", "done", "failed"}
    /\ pc \in {"module", "diff", "exclusion", "coverage"} => cwd = world.cwd
    /\ pc \in {"diff", "exclusion", "coverage", "testing", "walk", "done"} =>
           TheRoot # NoRoot /\ mod = GoModule(TheRoot, world.path, world.firstLine)
    /\ pc \in {"testing", "walk", "done"} => cwd = Resolve(world.cwd, mod.Root)

Fragments == [NewPosition : Nat, Lines : Seq(Ops)]

GitDiff == [name \in {GitName(f) : f \in DOMAIN patch} |->
               patch[CHOOSE f \in DOMAIN patch : GitName(f) = name]]

DiffInv ==
    /\ pc = "module" => patch = Nil
    /\ ~world.diffRef => DOMAIN patch = {}
    /\ DOMAIN patch \subseteq Files
    /\ \A f \in DOMAIN patch : patch[f] \in Seq(Fragments) /\ patch[f] # <<>>
    /\ pc \in {"exclusion", "coverage", "testing", "walk", "done"} => diff = newDiff(GitDiff)

ProfileInv ==
    /\ pc \in {"module", "diff", "exclusion", "coverage"} => blocks = {}
    /\ \A e \in blocks : /\ e.file \in Files /\ Tested(e.file)
                         /\ e.fileName = <<world.name>> \o Rel(cwd, e.file)
                         /\ e.block \in ProfileBlocks
    /\ pc \in {"walk", "done"} => profile = parse(mod, blocks)

WalkInv ==
    /\ pc \notin {"walk", "done"} => mutants = {}
    /\ \A m \in mutants :
           LET name == Rel(DirFS, m.file)
           IN  /\ m.file \in Files /\ Walkable(m.file) /\ m.pos \in Positions
               /\ m.status = mutationStatus(IsCovered(profile, name, m.pos),
                                            IsChanged(diff, name, m.pos.Line))
               /\ m.pkg = pkgName(mod, name, world.files[m.file].pkg)
               /\ m.replaces = WorkingDir(Resolve(cwd, mod.Root)) \o name
    /\ pc = "done" => \A f \in Files : Walkable(f) => f \in Walked

SelectionInv == ModuleInv /\ DiffInv /\ ProfileInv /\ WalkInv

(* Initially it holds.                                                     *)
LEMMA InitSelectionInv == Init => SelectionInv
  BY DEF Init, SelectionInv, ModuleInv, DiffInv, ProfileInv, WalkInv, Nil

(* Every step keeps the part about the module.                             *)
LEMMA ModuleStep == SelectionInv /\ [Next]_vars => ModuleInv'
  <1> SUFFICES ASSUME SelectionInv, [Next]_vars
               PROVE  ModuleInv'
    OBVIOUS
  <1> USE DEF SelectionInv, ModuleInv, TheRoot, Goto
  <1>1. CASE InitModule
    BY <1>1 DEF InitModule, Root
  <1>2. CASE NotInModule
    BY <1>2 DEF NotInModule
  <1>3. CASE RunFails
    BY <1>3 DEF RunFails
  <1>4. CASE \E f \in Files, op \in Ops : (\E gap \in 0 .. 1 : Fragment(f, gap, op)) \/ Line(f, op)
    BY <1>4 DEF Fragment, Line
  <1>5. CASE NewDiff \/ NewRules \/ ParseProfile \/ WalkEnd
    BY <1>5 DEF NewDiff, NewRules, ParseProfile, WalkEnd
  <1>6. CASE CoverageRun
    BY <1>6 DEF CoverageRun
  <1>7. CASE \E f \in Files, b \in ProfileBlocks : Block(f, b)
    BY <1>7 DEF Block
  <1>8. CASE \E f \in Files : RunOnFile(f)
    BY <1>8 DEF RunOnFile
  <1>9. CASE UNCHANGED vars
    BY <1>9 DEF vars
  <1>10. QED
    BY <1>1, <1>2, <1>3, <1>4, <1>5, <1>6, <1>7, <1>8, <1>9 DEF Next, Terminated

(* While the patch stands, so does the diff.                               *)
LEMMA DiffStands ==
  ASSUME DiffInv, UNCHANGED <<world, patch>>,
         pc' = "module" => pc = "module",
         pc' \in {"exclusion", "coverage", "testing", "walk", "done"} => diff' = newDiff(GitDiff)
  PROVE  DiffInv'
  BY DEF DiffInv, Files, GitDiff, GitName

(* A fragment has a number of new lines.                                   *)
LEMMA NewLinesType ==
  ASSUME NEW fr \in Fragments
  PROVE  NewLines(fr) \in Nat
  <1>1. {i \in DOMAIN fr.Lines : fr.Lines[i] # "delete"} \subseteq 1 .. Len(fr.Lines)
        /\ Len(fr.Lines) \in Nat
    BY DEF Fragments
  <1>2. IsFiniteSet(1 .. Len(fr.Lines))
    BY <1>1, FS_Interval
  <1>3. IsFiniteSet({i \in DOMAIN fr.Lines : fr.Lines[i] # "delete"})
    BY <1>1, <1>2, FS_Subset
  <1>4. QED
    BY <1>3, FS_CardinalityType DEF NewLines

(* A line alone is a sequence of lines.                                    *)
LEMMA SingletonLines == \A op \in Ops : <<op>> \in Seq(Ops)
  <1> TAKE op \in Ops
  <1>1. <<>> \in Seq(Ops)
    BY EmptySeq
  <1>2. Append(<<>>, op) \in Seq(Ops)
    BY <1>1, AppendProperties
  <1>3. Append(<<>>, op) = <<op>>
    OBVIOUS
  <1>4. QED
    BY <1>2, <1>3

(* Every step keeps the part about the diff.                               *)
LEMMA DiffStep == SelectionInv /\ [Next]_vars => DiffInv'
  <1> SUFFICES ASSUME SelectionInv, [Next]_vars
               PROVE  DiffInv'
    OBVIOUS
  <1>0. DiffInv /\ pc \in {"module", "diff", "exclusion", "coverage", "testing", "walk", "done", "failed"}
    BY DEF SelectionInv, ModuleInv
  <1>1. ASSUME NEW f \in Files, NEW gap \in 0 .. 1, NEW op \in Ops, Fragment(f, gap, op)
        PROVE  DiffInv'
    <2> DEFINE old  == IF f \in DOMAIN patch THEN patch[f] ELSE <<>>
               next == IF old = <<>> THEN 1 ELSE Last(old).NewPosition + NewLines(Last(old))
               frag == [NewPosition |-> next + gap, Lines |-> <<op>>]
    <2>1. /\ patch' = [g \in DOMAIN patch \cup {f} |-> IF g = f THEN Append(old, frag) ELSE patch[g]]
          /\ pc = "diff" /\ pc' = "diff" /\ world' = world
      BY <1>1 DEF Fragment
    <2>2. old \in Seq(Fragments)
      <3>1. <<>> \in Seq(Fragments)
        BY EmptySeq
      <3>2. QED
        BY <1>0, <3>1 DEF DiffInv
    <2>3. next \in Nat
      <3> HIDE DEF old
      <3>1. CASE old = <<>>
        BY <3>1
      <3>2. CASE old # <<>>
        <4>1. Last(old) \in Fragments
          BY <2>2, <3>2 DEF Last
        <4>2. Last(old).NewPosition \in Nat /\ NewLines(Last(old)) \in Nat
          BY <4>1, NewLinesType DEF Fragments
        <4>3. QED
          BY <3>2, <4>2
      <3>3. QED
        BY <3>1, <3>2
    <2> HIDE DEF old, next
    <2>4. frag \in Fragments
      BY <1>1, <2>3, SingletonLines DEF Fragments
    <2> HIDE DEF frag
    <2>5. Append(old, frag) \in Seq(Fragments) /\ Append(old, frag) # <<>>
      BY <2>2, <2>4, AppendProperties
    <2>6. /\ pc # "module" /\ UNCHANGED <<pc, world, diff>> /\ world.diffRef
          /\ pc \notin {"exclusion", "coverage", "testing", "walk", "done"}
      BY <1>1 DEF Fragment
    <2>7. /\ DOMAIN patch' \subseteq Files'
          /\ \A g \in DOMAIN patch' : patch'[g] \in Seq(Fragments) /\ patch'[g] # <<>>
      BY <1>0, <2>1, <2>5, <2>6 DEF DiffInv, Files
    <2>8. QED
      BY <2>6, <2>7 DEF DiffInv
  <1>2. ASSUME NEW f \in Files, NEW op \in Ops, Line(f, op)
        PROVE  DiffInv'
    <2> DEFINE n == Len(patch[f])
               frag == [patch[f][n] EXCEPT !.Lines = Append(@, op)]
    <2>1. /\ patch' = [patch EXCEPT ![f] = [patch[f] EXCEPT ![n] = frag]]
          /\ f \in DOMAIN patch /\ pc = "diff" /\ pc' = "diff" /\ world' = world
      BY <1>2 DEF Line
    <2>2. patch[f] \in Seq(Fragments) /\ n \in 1 .. Len(patch[f])
      BY <1>0, <2>1 DEF DiffInv
    <2>3. frag \in Fragments
      <3>1. patch[f][n] \in Fragments
        BY <2>2
      <3>2. Append(patch[f][n].Lines, op) \in Seq(Ops)
        BY <1>2, <3>1 DEF Fragments
      <3>3. QED
        BY <3>1, <3>2 DEF Fragments
    <2> HIDE DEF n, frag
    <2>4. [patch[f] EXCEPT ![n] = frag] \in Seq(Fragments) /\ Len([patch[f] EXCEPT ![n] = frag]) = Len(patch[f])
      BY <2>2, <2>3, ExceptSeq
    <2>5. [patch[f] EXCEPT ![n] = frag] # <<>>
      BY <2>2, <2>4
    <2>6. QED
      BY <1>0, <2>1, <2>4, <2>5 DEF DiffInv, Files
  <1>3. ASSUME NewDiff
        PROVE  DiffInv'
    BY <1>0, <1>3, DiffStands DEF NewDiff, GitDiff, Goto
  <1>4. ASSUME UNCHANGED <<world, patch, diff>>, pc' = "module" => pc = "module",
               pc' \in {"exclusion", "coverage", "testing", "walk", "done"} =>
                   pc \in {"exclusion", "coverage", "testing", "walk", "done"}
        PROVE  DiffInv'
    BY <1>0, <1>4, DiffStands DEF DiffInv
  <1>5. ASSUME InitModule \/ NotInModule \/ RunFails \/ NewRules \/ CoverageRun \/ ParseProfile \/ WalkEnd
        PROVE  DiffInv'
    BY <1>4, <1>5 DEF InitModule, NotInModule, RunFails, NewRules, CoverageRun, ParseProfile, WalkEnd, Goto
  <1>6. ASSUME NEW f \in Files, NEW b \in ProfileBlocks, Block(f, b)
        PROVE  DiffInv'
    BY <1>4, <1>6 DEF Block
  <1>7. ASSUME NEW f \in Files, RunOnFile(f)
        PROVE  DiffInv'
    BY <1>4, <1>7 DEF RunOnFile
  <1>8. ASSUME UNCHANGED vars
        PROVE  DiffInv'
    BY <1>4, <1>8 DEF vars
  <1>9. QED
    BY <1>1, <1>2, <1>3, <1>5, <1>6, <1>7, <1>8 DEF Next, Terminated

(* While the module stands, so do the names of the blocks.                 *)
LEMMA BlocksStand ==
  ASSUME UNCHANGED <<world, cwd, mod>>, NEW e, e.file \in Files, Tested(e.file)
  PROVE  (e.file \in Files)' /\ Tested(e.file)'
  BY DEF Files, Tested

(* Every step keeps the part about the profile.                            *)
LEMMA ProfileStep == SelectionInv /\ [Next]_vars => ProfileInv'
  <1> SUFFICES ASSUME SelectionInv, [Next]_vars
               PROVE  ProfileInv'
    OBVIOUS
  <1>0. ProfileInv /\ pc \in {"module", "diff", "exclusion", "coverage", "testing", "walk", "done", "failed"}
    BY DEF SelectionInv, ModuleInv
  <1>1. ASSUME blocks = {}, blocks' = {}, pc' \notin {"walk", "done"}
        PROVE  ProfileInv'
    BY <1>1 DEF ProfileInv
  <1>2. ASSUME InitModule \/ NotInModule \/ NewDiff \/ NewRules \/ CoverageRun
        PROVE  ProfileInv'
    BY <1>0, <1>1, <1>2 DEF ProfileInv, InitModule, NotInModule, NewDiff, NewRules, CoverageRun, Goto
  <1>3. ASSUME \E f \in Files, op \in Ops : (\E gap \in 0 .. 1 : Fragment(f, gap, op)) \/ Line(f, op)
        PROVE  ProfileInv'
    BY <1>0, <1>1, <1>3 DEF ProfileInv, Fragment, Line
  <1>4. ASSUME UNCHANGED <<world, cwd, mod, blocks>>,
               pc' \in {"module", "diff", "exclusion", "coverage"} => blocks = {},
               pc' \in {"walk", "done"} => profile' = parse(mod, blocks)
        PROVE  ProfileInv'
    BY <1>0, <1>4, BlocksStand DEF ProfileInv
  <1>5. ASSUME RunFails \/ ParseProfile \/ WalkEnd
        PROVE  ProfileInv'
    BY <1>0, <1>4, <1>5 DEF ProfileInv, RunFails, ParseProfile, WalkEnd, Goto
  <1>6. ASSUME NEW f \in Files, RunOnFile(f)
        PROVE  ProfileInv'
    BY <1>0, <1>4, <1>6 DEF ProfileInv, RunOnFile
  <1>7. ASSUME NEW f \in Files, NEW b \in ProfileBlocks, Block(f, b)
        PROVE  ProfileInv'
    <2> DEFINE e == [file |-> f, fileName |-> <<world.name>> \o Rel(cwd, f), block |-> b]
    <2>1. blocks' = blocks \cup {e} /\ UNCHANGED <<world, cwd, mod, pc>> /\ pc = "testing" /\ Tested(f)
      BY <1>7 DEF Block
    <2>2. e.file = f /\ e.fileName = <<world.name>> \o Rel(cwd, f) /\ e.block = b
      OBVIOUS
    <2> HIDE DEF e
    <2>3. QED
      BY <1>0, <2>1, <2>2, BlocksStand DEF ProfileInv
  <1>8. ASSUME UNCHANGED vars
        PROVE  ProfileInv'
    BY <1>0, <1>4, <1>8 DEF ProfileInv, vars
  <1>9. QED
    BY <1>2, <1>3, <1>5, <1>6, <1>7, <1>8 DEF Next, Terminated

(* While the walk stands, so do the names it gives.                        *)
LEMMA WalkStands ==
  ASSUME WalkInv, UNCHANGED <<world, cwd, mod, diff, profile, mutants>>,
         pc' = "done" => \A f \in Files : Walkable(f) => f \in Walked,
         pc' \notin {"walk", "done"} => mutants = {}
  PROVE  WalkInv'
  BY DEF WalkInv, DirFS, Files, Walkable, isGoCode, Walked, WorkingDir

(* Every step keeps the part about the walk.                               *)
LEMMA WalkStep == SelectionInv /\ [Next]_vars => WalkInv'
  <1> SUFFICES ASSUME SelectionInv, [Next]_vars
               PROVE  WalkInv'
    OBVIOUS
  <1>0. WalkInv /\ pc \in {"module", "diff", "exclusion", "coverage", "testing", "walk", "done", "failed"}
    BY DEF SelectionInv, ModuleInv
  <1>1. ASSUME mutants = {}, mutants' = {}, pc' # "done"
        PROVE  WalkInv'
    BY <1>1 DEF WalkInv
  <1>2. ASSUME InitModule \/ NotInModule \/ RunFails \/ NewDiff \/ NewRules \/ CoverageRun \/ ParseProfile
        PROVE  WalkInv'
    <2>1. mutants = {} /\ mutants' = {} /\ pc' # "done"
      BY <1>0, <1>2 DEF WalkInv, InitModule, NotInModule, RunFails, NewDiff, NewRules, CoverageRun,
                        ParseProfile, Goto
    <2>2. QED
      BY <1>1, <2>1
  <1>3. ASSUME \/ \E f \in Files, op \in Ops : (\E gap \in 0 .. 1 : Fragment(f, gap, op)) \/ Line(f, op)
               \/ \E f \in Files, b \in ProfileBlocks : Block(f, b)
        PROVE  WalkInv'
    <2>1. mutants = {} /\ mutants' = {} /\ pc' # "done"
      BY <1>0, <1>3 DEF WalkInv, Fragment, Line, Block
    <2>2. QED
      BY <1>1, <2>1
  <1>4. ASSUME NEW f \in Files, RunOnFile(f)
        PROVE  WalkInv'
    <2> DEFINE name == Rel(DirFS, f)
    <2>1. /\ pc = "walk" /\ Walkable(f) /\ UNCHANGED <<world, pc, cwd, mod, diff, profile>>
          /\ \A m \in mutants' :
                 \/ m \in mutants
                 \/ /\ m.file = f /\ m.pos \in Positions
                    /\ m.status = mutationStatus(IsCovered(profile, name, m.pos),
                                                IsChanged(diff, name, m.pos.Line))
                    /\ m.pkg = pkgName(mod, name, world.files[f].pkg)
                    /\ m.replaces = WorkingDir(Resolve(cwd, mod.Root)) \o name
      BY <1>4 DEF RunOnFile
    <2>2. QED
      BY <1>0, <2>1 DEF WalkInv, DirFS, Files, Walkable, isGoCode, WorkingDir
  <1>5. ASSUME WalkEnd
        PROVE  WalkInv'
    BY <1>0, <1>5, WalkStands DEF WalkEnd, Goto
  <1>6. ASSUME UNCHANGED vars
        PROVE  WalkInv'
    BY <1>0, <1>6, WalkStands DEF vars, WalkInv
  <1>7. QED
    BY <1>2, <1>3, <1>4, <1>5, <1>6 DEF Next, Terminated

(* Every reachable state satisfies the invariant.                          *)
THEOREM SelectionInvariance == Spec => []SelectionInv
  <1>1. SelectionInv /\ [Next]_vars => SelectionInv'
    BY ModuleStep, DiffStep, ProfileStep, WalkStep DEF SelectionInv
  <1>2. QED
    BY <1>1, InitSelectionInv, PTL DEF Spec

(* --------------------------- Where it looks ----------------------------- *)

Asked == Resolve(world.cwd, world.path)

(* The process may have changed its directory: os.DirFS still resolves to  *)
(* the directory gremlins was asked for.                                   *)
LEMMA DirFSIsAsked ==
  ASSUME ModuleInv, pc \in {"walk", "done"}, RootStands
  PROVE  /\ Resolve(cwd, mod.Root) = Resolve(world.cwd, mod.Root)
         /\ Resolve(cwd, mod.Root) \in Seq(STRING)
         /\ mod.CallingDir \in Seq(STRING)
         /\ DirFS = Asked
         /\ Asked \in Seq(STRING)
  <1> DEFINE r == mod.Root
             p == world.path
  <1>1. /\ world.cwd \in Seq(STRING)
        /\ p \in [abs : BOOLEAN, elems : Seq(STRING)]
    BY SelectionAssumption DEF ModuleInv
  <1>2. TheRoot # NoRoot /\ r = TheRoot /\ mod.CallingDir = Rel(r.elems, p.elems)
    BY DEF ModuleInv, GoModule
  <1>3. (r.abs <=> p.abs) /\ r.elems \in Seq(STRING) /\ IsPrefix(r.elems, p.elems)
    BY <1>1, <1>2, RootIsAbove DEF TheRoot
  <1>4. cwd = Resolve(world.cwd, r)
    BY DEF ModuleInv
  <1>5. p.elems \in Seq(STRING)
    BY <1>1
  <1>6. mod.CallingDir \in Seq(STRING) /\ r.elems \o mod.CallingDir = p.elems
    <2>1. Rel(r.elems, p.elems) \in Seq(STRING) /\ r.elems \o Rel(r.elems, p.elems) = p.elems
      <3> HIDE DEF r, p
      <3>1. QED
        BY <1>3, <1>5, JoinRel
    <2>2. QED
      BY <1>2, <2>1
  <1>7. CASE r.abs
    BY <1>3, <1>4, <1>5, <1>6, <1>7 DEF Resolve, DirFS, Asked
  <1>8. CASE ~r.abs
    <2>1. r.elems = <<>>
      BY <1>8 DEF RootStands
    <2>2. world.cwd \o r.elems = world.cwd
      BY <1>1, <2>1, ConcatEmptySeq
    <2>3. mod.CallingDir = p.elems
      BY <1>6, <2>1, ConcatEmptySeq
    <2>4. world.cwd \o p.elems \in Seq(STRING)
      BY <1>1, <1>5
    <2>5. QED
      BY <1>1, <1>3, <1>4, <1>6, <1>8, <2>2, <2>3, <2>4 DEF Resolve, DirFS, Asked
  <1>9. QED
    BY <1>7, <1>8

(* A file below the directory, and its name there.                         *)
LEMMA NamesOfFiles ==
  ASSUME SelectionInv, pc \in {"walk", "done"}, RootStands,
         NEW f \in Files, Below(DirFS, f)
  PROVE  /\ Rel(DirFS, f) \in Seq(STRING) /\ Rel(DirFS, f) # <<>>
         /\ DirFS \o Rel(DirFS, f) = f
  <1>1. DirFS \in Seq(STRING) /\ DirFS = Asked
    BY DirFSIsAsked DEF SelectionInv
  <1>2. f \in Seq(STRING) /\ f # DirFS
    <2>1. f \in Seq(STRING) /\ ~IsPrefix(f, Asked)
      BY SelectionAssumption DEF SelectionInv, ModuleInv, Files, Asked, Below
    <2>2. IsPrefix(f, f)
      BY <2>1 DEF IsPrefix
    <2>3. QED
      BY <1>1, <2>1, <2>2
  <1>3. Rel(DirFS, f) \in Seq(STRING) /\ DirFS \o Rel(DirFS, f) = f
    BY <1>1, <1>2, JoinRel DEF Below
  <1>4. Rel(DirFS, f) # <<>>
    BY <1>1, <1>2, <1>3, ConcatEmptySeq
  <1>5. QED
    BY <1>3, <1>4

(* The walk is that of the directory asked for.                            *)
LEMMA WalksThere == SelectionInv => WalksWhereItWasCalled
  <1> SUFFICES ASSUME SelectionInv, pc = "done", RootStands
               PROVE  /\ Walked = {f \in Files :
                            /\ Below(Asked, f) /\ world.files[f].kind = "go"
                            /\ \A r \in world.rules : Rel(Asked, f) \notin r}
                      /\ \A m \in mutants : m.replaces = m.file
    BY DEF WalksWhereItWasCalled, Asked
  <1>1. DirFS = Asked
    BY DirFSIsAsked DEF SelectionInv
  <1>2. \A f : Walkable(f) <=> /\ Below(Asked, f) /\ world.files[f].kind = "go"
                               /\ \A r \in world.rules : Rel(Asked, f) \notin r
    BY <1>1 DEF Walkable, isGoCode, IsFileExcluded
  <1>3. Walked = {f \in Files : Walkable(f)}
    BY DEF SelectionInv, WalkInv, Walked
  <1>4. ASSUME NEW m \in mutants
        PROVE  m.replaces = m.file
    <2>1. m.file \in Files /\ Below(DirFS, m.file) /\ m.replaces = DirFS \o Rel(DirFS, m.file)
      BY <1>4 DEF SelectionInv, WalkInv, Walkable, WorkingDir, DirFS
    <2>2. QED
      BY <2>1, NamesOfFiles
  <1>5. QED
    BY <1>2, <1>3, <1>4

(* For every tree of files, every module in it and every way of calling    *)
(* gremlins that the property admits: the walk finds the files it was      *)
(* asked for, and each mutation replaces the copy of its own file.         *)
THEOREM WalksWhereAsked == Spec => []WalksWhereItWasCalled
  BY SelectionInvariance, WalksThere, PTL

(* ---------------------------- Its own package --------------------------- *)

(* pkgName, of a directory that ends with the package's name.              *)
LEMMA NearestDirectory ==
  ASSUME NEW dirs \in Seq(STRING), NEW md, NEW name, NEW fPkg,
         md.CallingDir \o Front(name) = dirs,
         dirs = <<>> \/ HasSuffix(Last(dirs), fPkg)
  PROVE  pkgName(md, name, fPkg) = <<md.Name>> \o dirs
  <1> DEFINE named == {n \in DOMAIN dirs : HasSuffix(dirs[n], fPkg)}
  <1>1. pkgName(md, name, fPkg) =
            IF named = {} THEN <<md.Name>>
            ELSE <<md.Name>> \o SubSeq(dirs, 1, CHOOSE n \in named : \A k \in named : k <= n)
    BY DEF pkgName
  <1>2. DOMAIN dirs = 1 .. Len(dirs) /\ Len(dirs) \in Nat
    BY LenProperties
  <1>3. CASE dirs = <<>>
    <2>1. named = {}
      BY <1>3
    <2>2. <<md.Name>> \o <<>> = <<md.Name>>
      OBVIOUS
    <2>3. QED
      BY <1>1, <1>3, <2>1, <2>2
  <1>4. CASE dirs # <<>>
    <2>1. Len(dirs) # 0 /\ Last(dirs) = dirs[Len(dirs)]
      BY <1>4, EmptySeq DEF Last
    <2>2. Len(dirs) \in named
      BY <1>2, <1>4, <2>1
    <2>3. \A k \in named : k \in 1 .. Len(dirs)
      BY <1>2
    <2> HIDE DEF named
    <2>4. (CHOOSE n \in named : \A k \in named : k <= n) = Len(dirs)
      <3>1. \A n \in named : (\A k \in named : k <= n) <=> n = Len(dirs)
        BY <1>2, <2>2, <2>3
      <3>2. QED
        BY <2>2, <3>1
    <2>5. SubSeq(dirs, 1, Len(dirs)) = dirs
      BY <1>2
    <2>6. QED
      BY <1>1, <2>2, <2>4, <2>5
  <1>5. QED
    BY <1>3, <1>4

(* The nearest directory of that name is the own one.                      *)
LEMMA PackagesConventional == SelectionInv => ConventionalPackagesAreTested
  <1> SUFFICES ASSUME SelectionInv, NEW m \in mutants, RootStands, NameIsFirst,
                      Len(OwnPackage(m)) = 1 \/ HasSuffix(Last(OwnPackage(m)), world.files[m.file].pkg)
               PROVE  m.pkg = OwnPackage(m)
    BY DEF ConventionalPackagesAreTested
  <1> DEFINE base == Resolve(world.cwd, mod.Root)
             call == mod.CallingDir
             name == Rel(DirFS, m.file)
  <1>1. pc \in {"walk", "done"}
    BY DEF SelectionInv, WalkInv
  <1>2. m.file \in Files /\ Below(DirFS, m.file) /\ m.pkg = pkgName(mod, name, world.files[m.file].pkg)
    BY DEF SelectionInv, WalkInv, Walkable
  <1>3. base \in Seq(STRING) /\ call \in Seq(STRING) /\ DirFS = base \o call
    BY <1>1, DirFSIsAsked DEF SelectionInv, DirFS
  <1>4. name \in Seq(STRING) /\ name # <<>> /\ (base \o call) \o name = m.file
    BY <1>1, <1>2, <1>3, NamesOfFiles
  <1> HIDE DEF base, call, name
  <1>5. Front(name) \in Seq(STRING) /\ Front(m.file) = (base \o call) \o Front(name)
    <2>1. base \o call \in Seq(STRING)
      BY <1>3
    <2>2. QED
      BY <1>4, <2>1, FrontOfJoin
  <1>6. Front(m.file) = base \o (call \o Front(name))
    BY <1>3, <1>5, JoinAssociates
  <1>7. call \o Front(name) \in Seq(STRING)
    BY <1>3, <1>5
  <1> DEFINE dirs == call \o Front(name)
  <1>8. OwnPackage(m) = <<world.name>> \o dirs
    <2>1. OwnPackage(m) = <<world.name>> \o Rel(base, Front(m.file))
      BY DEF OwnPackage, base
    <2>2. QED
      BY <1>3, <1>6, <1>7, <2>1, RelJoin
  <1>9. pkgName(mod, name, world.files[m.file].pkg) = OwnPackage(m)
    <2>1. mod.CallingDir \o Front(name) = dirs
      BY DEF call
    <2> HIDE DEF dirs
    <2>2. dirs \in Seq(STRING)
      BY <1>7 DEF dirs
    <2>3. dirs = <<>> \/ HasSuffix(Last(dirs), world.files[m.file].pkg)
      <3>1. Len(OwnPackage(m)) = 1 + Len(dirs)
        BY <1>8, <2>2
      <3>2. dirs # <<>> => Len(dirs) # 0 /\ Len(dirs) \in Nat /\ Last(OwnPackage(m)) = Last(dirs)
        BY <1>8, <2>2, <3>1 DEF Last
      <3>3. QED
        BY <2>2, <3>1, <3>2
    <2>4. mod.Name = world.name
      BY <1>1 DEF SelectionInv, ModuleInv, GoModule, NameIsFirst
    <2>5. pkgName(mod, name, world.files[m.file].pkg) = <<mod.Name>> \o dirs
      BY <2>1, <2>2, <2>3, NearestDirectory
    <2>6. QED
      BY <1>8, <2>4, <2>5
  <1>10. QED
    BY <1>2, <1>9

(* Wherever gremlins is called, in whatever tree: a mutant in a package    *)
(* that is named like its directory is tested with that very package.      *)
THEOREM ConventionalPackages == Spec => []ConventionalPackagesAreTested
  BY SelectionInvariance, PackagesConventional, PTL

(* --------------------------- Covered by a test -------------------------- *)

(* A block covers a position when it is between its ends, in text order.   *)
LEMMA CoveredIsBetween ==
  ASSUME NEW b \in ProfileBlocks, NEW pos \in Positions
  PROVE  isBetweenLines(b, pos) \/ isPositionCovered(b, pos) <=>
             /\ NotAfter(b.StartLine, b.StartCol, pos.Line, pos.Column)
             /\ NotAfter(pos.Line, pos.Column, b.EndLine, b.EndCol)
  <1>1. MaxLine \in Nat /\ MaxCol \in Nat
    BY SelectionAssumption
  <1>2. /\ b.StartLine \in Int /\ b.StartCol \in Int /\ b.EndLine \in Int /\ b.EndCol \in Int
        /\ b.StartLine < b.EndLine \/ (b.StartLine = b.EndLine /\ b.StartCol < b.EndCol)
    BY <1>1 DEF ProfileBlocks
  <1>3. pos.Line \in Int /\ pos.Column \in Int
    BY <1>1 DEF Positions
  <1>4. QED
    BY <1>2, <1>3 DEF isBetweenLines, isPositionCovered, isSingleLine, isMultiLine, NotAfter

(* What removing a name from a path leaves is a sequence.                   *)
LEMMA WithoutIsSeq ==
  ASSUME NEW s \in Seq(STRING), NEW e
  PROVE  \E S : Without(s, e) \in Seq(S \cup STRING)
  <1> DEFINE k == Cardinality({n \in DOMAIN s : s[n] # e})
             w == Without(s, e)
             S == {w[i] : i \in 1 .. k}
  <1>1. w = [i \in 1 .. k |-> w[i]]
    BY DEF Without
  <1>2. k \in Nat
    <2>1. {n \in DOMAIN s : s[n] # e} \subseteq 1 .. Len(s) /\ Len(s) \in Nat
      OBVIOUS
    <2>2. QED
      <3>1. IsFiniteSet(1 .. Len(s))
        BY <2>1, FS_Interval
      <3>2. IsFiniteSet({n \in DOMAIN s : s[n] # e})
        BY <2>1, <3>1, FS_Subset
      <3>3. QED
        BY <3>2, FS_CardinalityType
  <1> HIDE DEF w, k
  <1>3. w \in Seq(S \cup STRING)
    BY <1>1, <1>2
  <1>4. QED
    BY <1>3 DEF w

(* The module's name goes, and nothing else, if no directory has it.       *)
LEMMA WithoutOnlyFirst ==
  ASSUME NEW s \in Seq(STRING), NEW e \in STRING, \A n \in DOMAIN s : s[n] # e
  PROVE  Without(<<e>> \o s, e) = s
  <1> DEFINE t == <<e>> \o s
             L == Len(s)
             kept == {n \in DOMAIN t : t[n] # e}
             nth(i) == CHOOSE n \in kept : Cardinality({k \in kept : k <= n}) = i
  <1>1. /\ L \in Nat /\ DOMAIN s = 1 .. L
        /\ DOMAIN t = 1 .. (L + 1) /\ t[1] = e
        /\ \A n \in 1 .. L : t[n + 1] = s[n]
    OBVIOUS
  <1>0. Without(t, e) = [i \in 1 .. Cardinality(kept) |-> t[nth(i)]]
    BY DEF Without
  <1>a. \A n : n \in kept <=> n \in DOMAIN t /\ t[n] # e
    OBVIOUS
  <1> HIDE DEF t, L, kept
  <1>2. kept = 2 .. (L + 1)
    <2>1. ASSUME NEW n \in 2 .. (L + 1)
          PROVE  n \in kept
      <3>1. n - 1 \in 1 .. L /\ t[n] = s[n - 1]
        BY <1>1, <2>1
      <3>2. n - 1 \in DOMAIN s
        BY <1>1, <3>1
      <3>3. n \in DOMAIN t
        BY <1>1, <2>1
      <3>4. t[n] # e
        BY <3>1, <3>2
      <3>5. QED
        BY <1>a, <3>3, <3>4
    <2>2. ASSUME NEW n \in kept
          PROVE  n \in 2 .. (L + 1)
      <3>1. n \in 1 .. (L + 1) /\ n # 1
        <4>1. n \in DOMAIN t /\ t[n] # e
          BY <1>a, <2>2
        <4>2. QED
          BY <1>1, <4>1
      <3>2. QED
        BY <1>1, <3>1
    <2>3. QED
      BY <2>1, <2>2
  <1>3. \A n \in kept : Cardinality({k \in kept : k <= n}) = n - 1
    <2> TAKE n \in kept
    <2>1. {k \in kept : k <= n} = 2 .. n
      BY <1>1, <1>2
    <2>2. Cardinality(2 .. n) = n - 1
      BY <1>1, <1>2, FS_Interval
    <2>3. QED
      BY <2>1, <2>2
  <1>4. Cardinality(kept) = L
    <2>1. Cardinality(2 .. (L + 1)) = L
      BY <1>1, FS_Interval
    <2>2. QED
      BY <1>2, <2>1
  <1>5. DOMAIN s = 1 .. Len(s)
    OBVIOUS
  <1>6. \A i \in 1 .. L : nth(i) = i + 1
    <2> TAKE i \in 1 .. L
    <2>1. i + 1 \in kept /\ \A n \in kept : n \in Int /\ (n - 1 = i <=> n = i + 1)
      BY <1>1, <1>2
    <2>2. \A n \in kept : Cardinality({k \in kept : k <= n}) = i <=> n = i + 1
      BY <1>3, <2>1
    <2>3. QED
      BY <2>1, <2>2
  <1> HIDE DEF nth
  <1>7. [i \in 1 .. L |-> t[nth(i)]] = [i \in 1 .. L |-> s[i]]
    BY <1>1, <1>6
  <1>8. s = [i \in 1 .. L |-> s[i]]
    BY <1>1 DEF L
  <1>9. QED
    BY <1>0, <1>4, <1>7, <1>8 DEF t

(* Another name leaves the module's name where it is.                      *)
LEMMA WithoutKeepsFirst ==
  ASSUME NEW s \in Seq(STRING), NEW d \in STRING, NEW e, e # d
  PROVE  Len(Without(<<d>> \o s, e)) >= 1 /\ Len(Without(<<d>> \o s, e)) \in Nat
         /\ Without(<<d>> \o s, e)[1] = d
  <1> DEFINE t == <<d>> \o s
             kept == {n \in DOMAIN t : t[n] # e}
             upTo(n) == {k \in kept : k <= n}
             nth(i) == CHOOSE n \in kept : Cardinality(upTo(n)) = i
  <1>1. DOMAIN t = 1 .. (Len(s) + 1) /\ t[1] = d /\ Len(s) \in Nat
    OBVIOUS
  <1>0. Without(t, e) = [i \in 1 .. Cardinality(kept) |-> t[nth(i)]]
    BY DEF Without
  <1>a. \A n : n \in kept <=> n \in DOMAIN t /\ t[n] # e
    OBVIOUS
  <1> HIDE DEF t, kept
  <1>2. kept \subseteq 1 .. (Len(s) + 1) /\ 1 \in kept
    <2>1. \A n \in kept : n \in DOMAIN t
      BY <1>a
    <2>2. 1 \in DOMAIN t
      BY <1>1
    <2>3. 1 \in kept
      BY <1>1, <1>a, <2>2
    <2>4. QED
      BY <1>1, <2>1, <2>3
  <1>3. IsFiniteSet(1 .. (Len(s) + 1))
    BY <1>1, FS_Interval
  <1>5. IsFiniteSet(kept) /\ Cardinality(kept) \in Nat /\ Cardinality(kept) >= 1
    <2>1. IsFiniteSet(kept)
      BY <1>2, <1>3, FS_Subset
    <2>2. QED
      BY <1>2, <2>1, FS_CardinalityType, FS_EmptySet
  <1>6. Cardinality(upTo(1)) = 1
    <2>1. \A n \in kept : n \in Int /\ n >= 1
      BY <1>1, <1>2
    <2>2. upTo(1) = {1}
      <3>1. \A k \in upTo(1) : k = 1
        BY <2>1
      <3>2. 1 \in upTo(1)
        BY <1>2
      <3> HIDE DEF upTo
      <3>3. QED
        BY <3>1, <3>2
    <2>3. QED
      BY <2>2, FS_Singleton
  <1>7. ASSUME NEW n \in kept, Cardinality(upTo(n)) = 1
        PROVE  n = 1
    <2>1. 1 \in upTo(n) /\ n \in upTo(n)
      BY <1>1, <1>2
    <2>2. IsFiniteSet(upTo(n))
      BY <1>5, FS_Subset
    <2> HIDE DEF upTo
    <2>3. PICK x : upTo(n) = {x}
      BY <1>7, <2>2, FS_Singleton
    <2>4. QED
      BY <2>1, <2>3
  <1>8. nth(1) = 1
    BY <1>2, <1>6, <1>7
  <1> HIDE DEF nth
  <1> DEFINE w == Without(t, e)
  <1>9. w = [i \in 1 .. Cardinality(kept) |-> t[nth(i)]]
    BY <1>0
  <1> HIDE DEF w
  <1>10. Len(w) = Cardinality(kept) /\ w[1] = t[nth(1)]
    BY <1>5, <1>9
  <1>11. Len(w) >= 1 /\ Len(w) \in Nat /\ w[1] = d
    BY <1>1, <1>5, <1>8, <1>10
  <1>12. QED
    BY <1>11 DEF w, t

(* The name a block's file has in the profile is the name of a walked file *)
(* only if that is the very file: the coverage of one file never counts    *)
(* for another.                                                            *)
LEMMA ProfileNamesOneFile ==
  ASSUME SelectionInv, pc \in {"walk", "done"}, RootStands, ModuleNameIsUnique,
         NEW e \in blocks, NEW g \in Files, Below(DirFS, g),
         removeModuleFromPath(mod, e.fileName) = Rel(DirFS, g)
  PROVE  e.file = g
  <1> DEFINE f == e.file
             N == world.name
             call == mod.CallingDir
             name == Rel(DirFS, g)
             rel == Rel(cwd, f)
             dirs == Front(e.fileName)
             left == Without(dirs, mod.Name)
             x == Append(left, Last(e.fileName))
  <1>1. /\ world \in Worlds /\ f \in Files /\ f \in Seq(STRING) /\ g \in Seq(STRING)
        /\ N \in STRING /\ mod.Name = world.firstLine
    BY SelectionAssumption DEF SelectionInv, ModuleInv, ProfileInv, Files, GoModule
  <1>2. /\ cwd \in Seq(STRING) /\ call \in Seq(STRING)
        /\ DirFS = cwd \o call /\ Asked = cwd \o call
    BY DirFSIsAsked DEF SelectionInv, ModuleInv, DirFS
  <1>3. name \in Seq(STRING) /\ name # <<>> /\ (cwd \o call) \o name = g
    BY <1>2, NamesOfFiles
  (* A tested file is below the root, which the process has moved to.      *)
  <1>4. rel \in Seq(STRING) /\ rel # <<>> /\ cwd \o rel = f
    <2>1. IsPrefix(cwd \o scanPath(mod, world.integrationMode), f)
      BY DEF SelectionInv, ProfileInv, Tested, Below
    <2>2. scanPath(mod, world.integrationMode) \in Seq(STRING)
      <3>1. <<>> \in Seq(STRING)
        BY EmptySeq
      <3>2. QED
        BY <1>2, <3>1 DEF scanPath
    <2>3. IsPrefix(cwd, f)
      BY <1>1, <1>2, <2>1, <2>2, PrefixOfJoin
    <2>4. rel \in Seq(STRING) /\ cwd \o rel = f
      BY <1>1, <1>2, <2>3, JoinRel
    <2>5. f # cwd
      <3>1. ~IsPrefix(f, Asked)
        BY <1>1, SelectionAssumption DEF Files, Asked, Below
      <3>2. IsPrefix(cwd, cwd \o call)
        BY <1>2, RelJoin
      <3>3. QED
        BY <1>2, <3>1, <3>2
    <2>6. rel # <<>>
      BY <1>2, <2>4, <2>5, ConcatEmptySeq
    <2>7. QED
      BY <2>4, <2>6
  <1>5. e.fileName = <<N>> \o rel
    BY DEF SelectionInv, ProfileInv
  <1>6. Front(rel) \in Seq(STRING) /\ dirs = <<N>> \o Front(rel) /\ Last(e.fileName) = Last(rel)
        /\ Append(Front(rel), Last(rel)) = rel /\ Last(rel) \in STRING
    BY ZenonT(30), <1>1, <1>4, <1>5, FrontOfModuleName
  (* No element of a walked file is a stand-in.                            *)
  <1>7. \A n \in DOMAIN name : name[n] \notin {"..", "glued"}
    <2>1. \A n \in DOMAIN g : g[n] \notin {"..", "glued"}
      BY <1>1, SelectionAssumption DEF Files
    <2>2. cwd \o call \in Seq(STRING)
      BY <1>2
    <2>3. QED
      BY <1>3, <2>1, <2>2, ElementsOfJoin
  <1>8. name # <<"glued">> /\ \A s : name # <<"..">> \o s
    <2>1. 1 \in DOMAIN name
      BY <1>3
    <2>2. QED
      BY <1>7, <2>1
  <1>9. name = Rel(call, x)
    BY <1>8 DEF removeModuleFromPath
  <1>10. IsPrefix(call, x)
    BY <1>8, <1>9 DEF Rel
  <1>11. g = cwd \o x
    <2>1. PICK S : left \in Seq(S \cup STRING)
      <3>1. dirs \in Seq(STRING)
        BY <1>1, <1>6
      <3>2. QED
        BY <3>1, WithoutIsSeq
    <2>2. x \in Seq(S \cup STRING) /\ call \in Seq(S \cup STRING) /\ cwd \in Seq(S \cup STRING)
      BY <1>2, <1>6, <2>1
    <2>3. call \o name = x
      BY <1>9, <1>10, <2>2, JoinRel
    <2>4. (cwd \o call) \o name = cwd \o (call \o name)
      <3> HIDE DEF call, name
      <3>1. QED
        BY <1>2, <1>3, JoinAssociates
    <2>5. QED
      BY <1>3, <2>3, <2>4
  (* The name of the module is none of the directories.                    *)
  <1>12. ASSUME NEW h \in Files, NEW n \in 1 .. Len(h) - 1
         PROVE  h[n] # N
    BY DEF ModuleNameIsUnique, HasSuffix
  <1>13. CASE mod.Name = N
    <2>1. \A n \in DOMAIN Front(rel) : Front(rel)[n] # N
      <3>1. \A n \in 1 .. Len(cwd \o rel) - 1 : (cwd \o rel)[n] # N
        BY <1>1, <1>4, <1>12
      <3> HIDE DEF rel, N
      <3>2. QED
        BY <1>2, <1>4, <3>1, DirectoriesOfJoin
    <2>2. left = Front(rel)
      BY <1>1, <1>6, <1>13, <2>1, WithoutOnlyFirst
    <2>3. x = rel
      BY <1>6, <2>2
    <2>4. QED
      BY <1>4, <1>11, <2>3
  <1>14. CASE mod.Name # N
    <2>1. Len(left) \in Nat /\ Len(left) >= 1 /\ left[1] = N
      <3> HIDE DEF rel, N, dirs
      <3>1. LET w == Without(<<N>> \o Front(rel), mod.Name)
            IN  Len(w) \in Nat /\ Len(w) >= 1 /\ w[1] = N
        BY <1>1, <1>6, <1>14, WithoutKeepsFirst
      <3>2. QED
        BY <1>6, <3>1
    <2>2. PICK S : left \in Seq(S \cup STRING)
      <3>1. dirs \in Seq(STRING)
        BY <1>1, <1>6
      <3>2. QED
        BY <3>1, WithoutIsSeq
    <2>3. x \in Seq(S \cup STRING) /\ Len(x) >= 2 /\ x[1] = N
      BY <1>6, <2>1, <2>2
    <2>4. cwd \in Seq(S \cup STRING)
      BY <1>2
    <2>5. /\ Len(cwd) + 1 \in 1 .. Len(cwd \o x) - 1
          /\ (cwd \o x)[Len(cwd) + 1] = x[1]
      BY <2>3, <2>4
    <2>6. QED
      BY <1>11, <1>12, <2>3, <2>5
  <1>15. QED
    BY <1>13, <1>14

(* A RUNNABLE mutant has a block of its own file around it.                *)
LEMMA CoveredAlone == SelectionInv => OnlyCoveredAreTested
  <1> SUFFICES ASSUME SelectionInv, ModuleNameIsUnique, RootStands,
                      NEW m \in mutants, m.status = Runnable
               PROVE  Executed(m)
    BY DEF OnlyCoveredAreTested
  <1> DEFINE name == Rel(DirFS, m.file)
             fn(e) == removeModuleFromPath(mod, e.fileName)
  <1>1. pc \in {"walk", "done"}
    BY DEF SelectionInv, WalkInv
  <1>2. m.file \in Files /\ Below(DirFS, m.file) /\ m.pos \in Positions /\ IsCovered(profile, name, m.pos)
    BY DEF SelectionInv, WalkInv, Walkable, mutationStatus, Runnable, NotCovered, Skipped
  <1>3. profile = parse(mod, blocks)
    BY <1>1 DEF SelectionInv, ProfileInv
  <1>4. PICK b \in profile[name] : isBetweenLines(b, m.pos) \/ isPositionCovered(b, m.pos)
    BY <1>2 DEF IsCovered
  <1>5. name \in DOMAIN profile
    BY <1>2 DEF IsCovered
  <1>6. PICK e \in blocks : e.block.Count > 0 /\ fn(e) = name /\ e.block = b
    BY <1>3, <1>4, <1>5 DEF parse
  <1>7. e.file = m.file
    BY <1>1, <1>2, <1>6, ProfileNamesOneFile
  <1>8. b \in ProfileBlocks
    BY <1>6 DEF SelectionInv, ProfileInv
  <1>9. /\ NotAfter(b.StartLine, b.StartCol, m.pos.Line, m.pos.Column)
        /\ NotAfter(m.pos.Line, m.pos.Column, b.EndLine, b.EndCol)
    BY <1>2, <1>4, <1>8, CoveredIsBetween
  <1>10. QED
    BY <1>6, <1>7, <1>9 DEF Executed

(* "Unleash only tests covered mutants": for every tree of files, every    *)
(* profile and every way of calling gremlins that the property admits.     *)
THEOREM OnlyCovered == Spec => []OnlyCoveredAreTested
  BY SelectionInvariance, CoveredAlone, PTL

(* ------------------------- One run of additions ------------------------- *)

(* The ranks of the elements of a finite set of numbers are 0, 1, 2...     *)
LEMMA Ranks ==
  ASSUME NEW L \in Nat, NEW A \in SUBSET (1 .. L)
  PROVE  /\ IsFiniteSet(A) /\ Cardinality(A) \in Nat
         /\ {Cardinality({k \in A : k < i}) : i \in A} = 0 .. Cardinality(A) - 1
  <1> DEFINE before(i) == {k \in A : k < i}
             ranks == 0 .. Cardinality(A) - 1
             r == [i \in A |-> Cardinality(before(i))]
  <1>1. IsFiniteSet(A) /\ Cardinality(A) \in Nat
    <2>1. IsFiniteSet(1 .. L)
      BY FS_Interval
    <2>2. IsFiniteSet(A)
      BY <2>1, FS_Subset
    <2>3. QED
      BY <2>2, FS_CardinalityType
  <1>2. ASSUME NEW S \in SUBSET A, NEW T \in SUBSET S, T # S
        PROVE  Cardinality(T) \in Nat /\ Cardinality(S) \in Nat /\ Cardinality(T) < Cardinality(S)
    <2>1. IsFiniteSet(S)
      BY <1>1, FS_Subset
    <2>2. IsFiniteSet(T) /\ Cardinality(T) <= Cardinality(S) /\ Cardinality(S) # Cardinality(T)
      BY <2>1, <1>2, FS_Subset
    <2>3. Cardinality(S) \in Nat /\ Cardinality(T) \in Nat
      BY <2>1, <2>2, FS_CardinalityType
    <2>4. QED
      BY <2>2, <2>3
  <1>3. \A i \in A : Cardinality(before(i)) \in ranks
    <2> TAKE i \in A
    <2>1. before(i) \in SUBSET A /\ before(i) # A
      OBVIOUS
    <2> HIDE DEF before
    <2>2. Cardinality(before(i)) \in Nat /\ Cardinality(before(i)) < Cardinality(A)
      BY <1>2, <2>1
    <2>3. QED
      BY <1>1, <2>2
  <1>4. \A i, j \in A : i < j => Cardinality(before(i)) # Cardinality(before(j))
    <2> TAKE i, j \in A
    <2> HAVE i < j
    <2>1. before(i) \in SUBSET before(j) /\ before(i) # before(j) /\ before(j) \in SUBSET A
      <3>1. i \in before(j) /\ ~(i \in before(i))
        OBVIOUS
      <3>2. \A k \in before(i) : k \in before(j)
        OBVIOUS
      <3>3. QED
        BY <3>1, <3>2
    <2> HIDE DEF before
    <2>2. Cardinality(before(i)) \in Nat /\ Cardinality(before(j)) \in Nat
          /\ Cardinality(before(i)) < Cardinality(before(j))
      BY <1>2, <2>1
    <2>3. QED
      BY <2>2
  <1>5. r \in Injection(A, ranks)
    <2>1. r \in [A -> ranks]
      BY <1>3
    <2>2. ASSUME NEW i \in A, NEW j \in A, r[i] = r[j]
          PROVE  i = j
      <3>1. i \in Int /\ j \in Int /\ (i < j \/ j < i \/ i = j)
        OBVIOUS
      <3>2. QED
        BY <1>4, <2>2, <3>1
    <2>3. QED
      BY <2>1, <2>2 DEF Injection, IsInjective
  <1>6. IsFiniteSet(ranks) /\ Cardinality(ranks) = Cardinality(A)
    BY SMTT(30), <1>1, FS_Interval
  <1>7. r \in Surjection(A, ranks)
    <2> HIDE DEF r, ranks
    <2>1. QED
      BY <1>5, <1>6, FS_Injection
  <1>8. \A q \in ranks : \E i \in A : Cardinality(before(i)) = q
    BY <1>7 DEF Surjection
  <1> HIDE DEF before
  <1>9. {Cardinality(before(i)) : i \in A} = ranks
    BY <1>3, <1>8
  <1>10. QED
    BY <1>1, <1>9 DEF before

(* newChanges is exact for a fragment with one run of added lines: above   *)
(* an added line there is the leading context and what was added.          *)
LEMMA ChangeIsExact ==
  ASSUME NEW fr \in Fragments, OneRun(fr), NEW line \in Int
  PROVE  line \in Added(fr) <=>
             LinesAdded(fr) # 0 /\ line >= change(fr).StartLine /\ line <= change(fr).EndLine
  <1> DEFINE s == fr.Lines
             L == Len(s)
             A == {i \in DOMAIN s : s[i] = "add"}
             C == {i \in DOMAIN s : \A j \in 1 .. i : s[j] = "context"}
             before(i) == {k \in A : k < i}
             above(i) == {k \in 1 .. (i - 1) : s[k] # "delete"}
  <1>1. s \in Seq(Ops) /\ L \in Nat /\ DOMAIN s = 1 .. L /\ fr.NewPosition \in Nat
    BY DEF Fragments
  <1>2. A \in SUBSET (1 .. L) /\ C \in SUBSET (1 .. L)
    BY <1>1
  <1>3. \A n \in 1 .. L : s[n] \in {"context", "add", "delete"}
    BY <1>1 DEF Ops
  <1>4. \A i \in 1 .. L, j \in 1 .. L :
            i < j /\ s[j] = "add" /\ s[i] # "context" => \A k \in i .. j : s[k] # "context"
    BY <1>1 DEF OneRun
  <1>5. /\ \A i : i \in A <=> i \in 1 .. L /\ s[i] = "add"
        /\ \A i : i \in C <=> i \in 1 .. L /\ \A j \in 1 .. i : s[j] = "context"
    BY <1>1
  <1>6. /\ LinesAdded(fr) = Cardinality(A) /\ LeadingContext(fr) = Cardinality(C)
        /\ Added(fr) = {fr.NewPosition + Cardinality(above(i)) : i \in A}
    BY DEF LinesAdded, LeadingContext, Added
  <1>7. IsFiniteSet(A) /\ Cardinality(A) \in Nat /\ IsFiniteSet(C) /\ Cardinality(C) \in Nat
    <2> HIDE DEF A, C
    <2>1. QED
      BY <1>1, <1>2, Ranks
  <1>8. {Cardinality(before(i)) : i \in A} = 0 .. Cardinality(A) - 1
    <2> HIDE DEF A
    <2>1. QED
      BY <1>1, <1>2, Ranks
  <1> HIDE DEF s, L, A, C
  <1>9. ASSUME NEW i \in A
        PROVE  /\ Cardinality(above(i)) = Cardinality(C) + Cardinality(before(i))
               /\ Cardinality(before(i)) \in Nat
    <2>1. i \in 1 .. L /\ s[i] = "add"
      BY <1>5
    <2>2. ASSUME NEW k \in above(i)
          PROVE  k \in C \cup before(i)
      <3>1. k \in 1 .. L /\ k < i /\ s[k] # "delete"
        BY <1>1, <2>1
      <3>2. CASE s[k] = "add"
        BY <1>5, <3>1, <3>2
      <3>3. CASE s[k] = "context"
        <4>1. \A j \in 1 .. k : s[j] = "context"
          <5> TAKE j \in 1 .. k
          <5>1. j \in 1 .. L /\ j < i /\ k \in j .. i
            BY <1>1, <2>1, <3>1
          <5>2. QED
            BY <1>4, <2>1, <3>3, <5>1
        <4>2. QED
          BY <1>5, <3>1, <4>1
      <3>4. QED
        BY <1>3, <3>1, <3>2, <3>3
    <2>3. ASSUME NEW k \in C
          PROVE  k \in above(i)
      <3>1. k \in 1 .. L /\ s[k] = "context" /\ \A j \in 1 .. k : s[j] = "context"
        BY <1>1, <1>5
      <3>2. ~(i \in 1 .. k)
        BY <2>1, <3>1
      <3>3. QED
        BY <1>1, <2>1, <3>1, <3>2
    <2>4. ASSUME NEW k \in before(i)
          PROVE  k \in above(i) /\ k \notin C
      <3>1. k \in 1 .. L /\ s[k] = "add" /\ k < i
        BY <1>5
      <3>2. k \in above(i)
        BY <1>1, <2>1, <3>1
      <3>3. k \notin C
        BY <1>1, <1>5, <3>1
      <3>4. QED
        BY <3>2, <3>3
    <2>5. before(i) \in SUBSET A
      OBVIOUS
    <2> HIDE DEF above, before
    <2>6. above(i) = C \cup before(i) /\ C \cap before(i) = {}
      BY <2>2, <2>3, <2>4
    <2>7. IsFiniteSet(before(i)) /\ Cardinality(before(i)) \in Nat
      BY <1>7, <2>5, FS_Subset, FS_CardinalityType
    <2>8. QED
      BY <1>7, <2>6, <2>7, FS_Union, FS_EmptySet
  <1> HIDE DEF above, before
  <1>10. line \in Added(fr) <=>
             \E q \in 0 .. Cardinality(A) - 1 : line = fr.NewPosition + (Cardinality(C) + q)
    <2>1. line \in Added(fr) <=> \E i \in A : line = fr.NewPosition + (Cardinality(C) + Cardinality(before(i)))
      BY <1>6, <1>9
    <2>2. /\ \A i \in A : Cardinality(before(i)) \in 0 .. Cardinality(A) - 1
          /\ \A q \in 0 .. Cardinality(A) - 1 : \E i \in A : Cardinality(before(i)) = q
      BY <1>8
    <2>3. QED
      BY <2>1, <2>2
  <1>11. change(fr).StartLine = fr.NewPosition + Cardinality(C)
         /\ change(fr).EndLine = fr.NewPosition + Cardinality(C) + Cardinality(A) - 1
    BY <1>6 DEF change
  <1>12. ASSUME NEW p \in Nat, NEW c \in Nat, NEW a \in Nat
         PROVE  (\E q \in 0 .. a - 1 : line = p + (c + q)) <=> a # 0 /\ line >= p + c /\ line <= p + c + a - 1
    <2>1. ASSUME a # 0, line >= p + c, line <= p + c + a - 1
          PROVE  \E q \in 0 .. a - 1 : line = p + (c + q)
      <3>1. line - (p + c) \in 0 .. a - 1 /\ line = p + (c + (line - (p + c)))
        BY <2>1
      <3>2. QED
        BY <3>1
    <2>2. QED
      BY <2>1
  <1>13. (\E q \in 0 .. Cardinality(A) - 1 : line = fr.NewPosition + (Cardinality(C) + q)) <=>
             /\ Cardinality(A) # 0
             /\ line >= fr.NewPosition + Cardinality(C)
             /\ line <= fr.NewPosition + Cardinality(C) + Cardinality(A) - 1
    BY ZenonT(30), <1>1, <1>7, <1>12
  <1>14. QED
    BY <1>6, <1>10, <1>11, <1>13

(* -------------------------- Deserved statuses --------------------------- *)

(* At the top of the repository the walk names a file as git does.         *)
LEMMA NamesAtTheTop ==
  ASSUME SelectionInv, pc \in {"walk", "done"}, RootStands, CalledAtTheTop,
         NEW g \in Files, Below(DirFS, g)
  PROVE  /\ DirFS = cwd /\ cwd = world.repo /\ cwd \in Seq(STRING) /\ g \in Seq(STRING)
         /\ GitName(g) = Rel(DirFS, g)
         /\ Rel(DirFS, g) \in Seq(STRING) /\ Rel(DirFS, g) # <<>> /\ cwd \o Rel(DirFS, g) = g
         /\ \A s : Rel(DirFS, g) # <<"..">> \o s
  <1> DEFINE name == Rel(DirFS, g)
  <1>1. cwd \in Seq(STRING) /\ cwd = Resolve(cwd, mod.Root) /\ DirFS = Resolve(cwd, mod.Root) \o mod.CallingDir
    BY DirFSIsAsked DEF SelectionInv, ModuleInv, DirFS
  <1>2. DirFS = cwd
    BY <1>1, ConcatEmptySeq DEF CalledAtTheTop
  <1>3. name \in Seq(STRING) /\ name # <<>> /\ cwd \o name = g
    BY <1>2, NamesOfFiles
  <1>4. g \in Seq(STRING) /\ \A n \in DOMAIN g : g[n] \notin {"..", "glued"}
    BY SelectionAssumption DEF SelectionInv, ModuleInv, Files
  <1>5. \A n \in DOMAIN name : name[n] \notin {"..", "glued"}
    BY <1>1, <1>3, <1>4, ElementsOfJoin
  <1>6. \A s : name # <<"..">> \o s
    <2>1. 1 \in DOMAIN name
      BY <1>3
    <2>2. QED
      BY <1>5, <2>1
  <1>7. QED
    BY <1>1, <1>2, <1>3, <1>4, <1>6 DEF CalledAtTheTop, GitName

(* So the diff it looks up is that of the file's own fragments.            *)
LEMMA ChangedIsAsked ==
  ASSUME SelectionInv, pc = "done", RootStands, CalledAtTheTop,
         DiffIsNotEmpty, \A f \in DOMAIN patch : \A i \in DOMAIN patch[f] : OneRun(patch[f][i]),
         NEW m \in mutants
  PROVE  IsChanged(diff, Rel(DirFS, m.file), m.pos.Line) <=> Changed(m)
  <1> DEFINE g == m.file
             name == Rel(DirFS, g)
             line == m.pos.Line
  <1>1. g \in Files /\ Below(DirFS, g) /\ line \in Int
    BY SelectionAssumption DEF SelectionInv, WalkInv, Walkable, Positions
  <1>2. /\ DirFS = world.repo /\ world.repo \in Seq(STRING)
        /\ GitName(g) = name /\ name \in Seq(STRING) /\ world.repo \o name = g
        /\ \A s : name # <<"..">> \o s
    BY <1>1, NamesAtTheTop
  <1>3. DOMAIN patch \subseteq Files /\ diff = newDiff(GitDiff)
        /\ \A f \in DOMAIN patch : patch[f] \in Seq(Fragments)
    BY DEF SelectionInv, DiffInv
  <1>4. ASSUME NEW f \in DOMAIN patch, GitName(f) = name
        PROVE  f = g
    <2>1. f \in Seq(STRING)
      BY <1>3, SelectionAssumption DEF SelectionInv, ModuleInv, Files
    <2>2. IsPrefix(world.repo, f)
      BY <1>2, <1>4 DEF GitName, Rel
    <2>3. world.repo \o GitName(f) = f
      <3>1. world.repo \o Rel(world.repo, f) = f
        BY <1>2, <2>1, <2>2, JoinRel
      <3>2. QED
        BY <3>1 DEF GitName
    <2>4. QED
      BY <1>2, <1>4, <2>3
  <1>5. /\ DOMAIN diff = {GitName(f) : f \in DOMAIN patch}
        /\ \A n \in DOMAIN diff : diff[n] = newChanges(patch[CHOOSE f \in DOMAIN patch : GitName(f) = n])
    BY <1>3 DEF newDiff, GitDiff
  <1>6. DOMAIN diff = {} <=> ~world.diffRef
    BY <1>5 DEF SelectionInv, DiffInv, DiffIsNotEmpty
  <1>7. name \in DOMAIN diff <=> g \in DOMAIN patch
    BY <1>2, <1>4, <1>5
  <1>8. ASSUME g \in DOMAIN patch
        PROVE  (\E c \in diff[name] : line >= c.StartLine /\ line <= c.EndLine) <=>
                   \E i \in DOMAIN patch[g] : line \in Added(patch[g][i])
    <2>1. (CHOOSE f \in DOMAIN patch : GitName(f) = name) = g
      BY <1>2, <1>4, <1>8
    <2>2. diff[name] = newChanges(patch[g])
      BY <1>5, <1>7, <1>8, <2>1
    <2>3. (\E c \in diff[name] : line >= c.StartLine /\ line <= c.EndLine) <=>
              \E i \in DOMAIN patch[g] :
                  /\ LinesAdded(patch[g][i]) # 0
                  /\ line >= change(patch[g][i]).StartLine /\ line <= change(patch[g][i]).EndLine
      BY <2>2 DEF newChanges
    <2>4. \A i \in DOMAIN patch[g] : patch[g][i] \in Fragments /\ OneRun(patch[g][i])
      BY <1>3, <1>8
    <2>5. \A i \in DOMAIN patch[g] :
              line \in Added(patch[g][i]) <=>
                  /\ LinesAdded(patch[g][i]) # 0
                  /\ line >= change(patch[g][i]).StartLine /\ line <= change(patch[g][i]).EndLine
      BY <1>1, <2>4, ChangeIsExact
    <2>6. QED
      BY <2>3, <2>5
  <1>9. QED
    BY <1>6, <1>7, <1>8 DEF IsChanged, Changed

(* And a block of the file is found under the file's name.                 *)
LEMMA ProfileHasTheName ==
  ASSUME SelectionInv, pc = "done", RootStands, CalledAtTheTop, ModuleNameIsUnique, NameIsFirst,
         NEW e \in blocks, e.file \in Files, Below(DirFS, e.file)
  PROVE  removeModuleFromPath(mod, e.fileName) = Rel(DirFS, e.file)
  <1> DEFINE f == e.file
             N == world.name
             rel == Rel(DirFS, f)
             dirs == Front(e.fileName)
  <1>1. /\ DirFS = cwd /\ cwd \in Seq(STRING) /\ f \in Seq(STRING)
        /\ rel \in Seq(STRING) /\ rel # <<>> /\ cwd \o rel = f
    BY NamesAtTheTop
  <1>2. N \in STRING /\ mod.Name = N /\ mod.CallingDir = <<>>
    BY SelectionAssumption DEF SelectionInv, ModuleInv, GoModule, NameIsFirst, CalledAtTheTop
  <1>3. e.fileName = <<N>> \o rel
    BY <1>1 DEF SelectionInv, ProfileInv
  <1>4. Front(rel) \in Seq(STRING) /\ dirs = <<N>> \o Front(rel) /\ Last(e.fileName) = Last(rel)
        /\ Append(Front(rel), Last(rel)) = rel
    BY ZenonT(30), <1>1, <1>2, <1>3, FrontOfModuleName
  <1>5. \A n \in 1 .. Len(f) - 1 : f[n] # N /\ <<f[n], N>> \notin EndsWith
    BY DEF ModuleNameIsUnique, HasSuffix
  <1> HIDE DEF f, N, rel, dirs
  <1>6. \A n \in DOMAIN Front(rel) : n \in 1 .. Len(rel) - 1 /\ Front(rel)[n] = rel[n]
    BY <1>1 DEF Front
  <1>7. \A n \in 1 .. Len(rel) - 1 : Len(cwd) + n \in 1 .. Len(f) - 1 /\ f[Len(cwd) + n] = rel[n]
    <2>1. \A n \in 1 .. Len(rel) - 1 : Len(cwd) + n \in 1 .. Len(cwd \o rel) - 1
                                       /\ (cwd \o rel)[Len(cwd) + n] = rel[n]
      BY <1>1, IndexOfJoin
    <2>2. QED
      BY <1>1, <2>1
  <1>8. \A n \in DOMAIN Front(rel) : Front(rel)[n] # N /\ <<Front(rel)[n], N>> \notin EndsWith
    BY <1>5, <1>6, <1>7
  <1>9. \A n \in DOMAIN dirs : <<dirs[n], N>> \notin EndsWith
    <2>1. <<N, N>> \notin EndsWith
      BY EndsWithAssumption
    <2>2. \A n \in DOMAIN dirs : dirs[n] = N \/ \E k \in DOMAIN Front(rel) : dirs[n] = Front(rel)[k]
      BY <1>2, <1>4, ElementsOfModuleName
    <2>3. QED
      BY <1>8, <2>1, <2>2
  <1>10. Without(dirs, N) = Front(rel)
    BY <1>2, <1>4, <1>8, WithoutOnlyFirst
  <1>11. Rel(<<>>, rel) = rel
    BY <1>1 DEF Rel, IsPrefix
  <1>12. removeModuleFromPath(mod, e.fileName) = Rel(mod.CallingDir, Append(Without(dirs, N), Last(e.fileName)))
    BY <1>2, <1>9 DEF removeModuleFromPath, dirs
  <1>13. QED
    BY <1>2, <1>4, <1>10, <1>11, <1>12 DEF rel, f

(* The three names agree, so the status is the one deserved.               *)
LEMMA StatusDeserved == SelectionInv => StatusIsDeserved
  <1> SUFFICES ASSUME SelectionInv, pc = "done", RootStands, CalledAtTheTop, ModuleNameIsUnique, NameIsFirst,
                      DiffIsNotEmpty, \A f \in DOMAIN patch : \A i \in DOMAIN patch[f] : OneRun(patch[f][i]),
                      NEW m \in mutants
               PROVE  /\ m.status = Skipped <=> ~Changed(m)
                      /\ m.status = Runnable <=> Changed(m) /\ Executed(m)
    BY DEF StatusIsDeserved
  <1> DEFINE name == Rel(DirFS, m.file)
             covered == IsCovered(profile, name, m.pos)
             changed == IsChanged(diff, name, m.pos.Line)
  <1>1. changed <=> Changed(m)
    BY ChangedIsAsked
  <1>2. m.status = mutationStatus(covered, changed) /\ m.file \in Files /\ Below(DirFS, m.file)
        /\ m.pos \in Positions
    BY DEF SelectionInv, WalkInv, Walkable
  <1> HIDE DEF covered, changed
  <1>3. m.status = Skipped <=> ~changed
    BY <1>2 DEF mutationStatus, Skipped, Runnable, NotCovered
  <1>4. m.status = Runnable <=> changed /\ covered
    BY <1>2 DEF mutationStatus, Skipped, Runnable, NotCovered
  <1>5. m.status = Runnable => Executed(m)
    BY CoveredAlone DEF OnlyCoveredAreTested
  <1>6. Executed(m) => covered
    <2> SUFFICES ASSUME Executed(m)
                 PROVE  covered
      OBVIOUS
    <2>1. PICK e \in blocks :
              /\ e.file = m.file /\ e.block.Count > 0
              /\ NotAfter(e.block.StartLine, e.block.StartCol, m.pos.Line, m.pos.Column)
              /\ NotAfter(m.pos.Line, m.pos.Column, e.block.EndLine, e.block.EndCol)
      BY DEF Executed
    <2>2. e.block \in ProfileBlocks /\ profile = parse(mod, blocks)
      BY DEF SelectionInv, ProfileInv
    <2>3. isBetweenLines(e.block, m.pos) \/ isPositionCovered(e.block, m.pos)
      BY <1>2, <2>1, <2>2, CoveredIsBetween
    <2>4. removeModuleFromPath(mod, e.fileName) = name
      BY <1>2, <2>1, ProfileHasTheName
    <2>5. name \in DOMAIN profile /\ e.block \in profile[name]
      BY <2>1, <2>2, <2>4 DEF parse
    <2>6. QED
      BY <2>3, <2>5 DEF IsCovered, covered
  <1>7. QED
    BY <1>1, <1>3, <1>4, <1>5, <1>6

(* At the top of a repository, for every tree of files, every diff that is *)
(* not empty and whose fragments have one run of additions, or none asked  *)
(* for, and every profile: a mutant is SKIPPED, RUNNABLE or NOT COVERED    *)
(* exactly when it should be.                                              *)
THEOREM DeservedStatuses == Spec => []StatusIsDeserved
  BY SelectionInvariance, StatusDeserved, PTL
=============================================================================
