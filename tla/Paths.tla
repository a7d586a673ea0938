------------------------------- MODULE Paths --------------------------------
(***************************************************************************)
(* How gremlins names things: the module it runs in (internal/gomodule),   *)
(* the package a mutant is tested with (Engine.pkgName), and the name a    *)
(* file has in the coverage profile.                                       *)
(*                                                                         *)
(* A path is a sequence of elements, absolute or relative to the working   *)
(* directory, clean and without "..".  The name of a module counts as one  *)
(* element, however many slashes it has.                                   *)
(***************************************************************************)
EXTENDS Integers, SequencesExt

CONSTANT EndsWith  \* the pairs <<name, s>> of a name that ends with another

ASSUME EndsWithAssumption == \A pair \in EndsWith : pair[1] # pair[2]

HasSuffix(name, s) == name = s \/ <<name, s>> \in EndsWith

Resolve(cwd, path) == IF path.abs THEN path.elems ELSE cwd \o path.elems

Below(dir, file) == IsPrefix(dir, file)

(* filepath.Rel, of clean paths: what leads out of dir begins with "..".   *)
Rel(dir, path) ==
    IF IsPrefix(dir, path) THEN SubSeq(path, Len(dir) + 1, Len(path)) ELSE <<"..">> \o path

(* The elements of s other than e, in their order.                         *)
Without(s, e) ==
    LET kept   == {n \in DOMAIN s : s[n] # e}
        nth(i) == CHOOSE n \in kept : Cardinality({k \in kept : k <= n}) = i
    IN  [i \in 1 .. Cardinality(kept) |-> s[nth(i)]]

-----------------------------------------------------------------------------
(* gomodule *)

NoRoot == [abs |-> FALSE, elems |-> <<"no root">>]

(* filepath.Dir ends at "/" or at ".": a relative path is not searched     *)
(* above the working directory.                                            *)
Up(path) == {[path EXCEPT !.elems = SubSeq(@, 1, n)] : n \in 0 .. Len(path.elems)}

findModuleRoot(cwd, path, gomods) ==
    LET found == {p \in Up(path) : Resolve(cwd, p) \in gomods}
    IN  IF found = {} THEN NoRoot
        ELSE CHOOSE p \in found : \A q \in found : Len(q.elems) <= Len(p.elems)

(* modPkg reads the name from the first line, whatever it is.              *)
GoModule(root, path, firstLine) ==
    [Name |-> firstLine, Root |-> root, CallingDir |-> Rel(root.elems, path.elems)]

-----------------------------------------------------------------------------
(* Engine *)

(* Faulty variant: the directory gremlins was called in is forgotten.      *)
pkgNameFromCallingDir(mod, name, fPkg) ==
    LET dirs  == Front(name)
        named == {n \in DOMAIN dirs : HasSuffix(dirs[n], fPkg)}
    IN  IF named = {} THEN <<mod.Name>>
        ELSE <<mod.Name>> \o SubSeq(dirs, 1, CHOOSE n \in named : \A k \in named : k <= n)

(* pkgName: below the name that gomodule read, the nearest directory, from *)
(* the file's own upwards, whose path ends with the name in the file's     *)
(* package clause; the module itself when there is none.                   *)
pkgName(mod, name, fPkg) ==
    LET dirs  == mod.CallingDir \o Front(name)
        named == {n \in DOMAIN dirs : HasSuffix(dirs[n], fPkg)}
    IN  IF named = {} THEN <<mod.Name>>
        ELSE <<mod.Name>> \o SubSeq(dirs, 1, CHOOSE n \in named : \A k \in named : k <= n)

-----------------------------------------------------------------------------
(* Coverage *)

(* The directories whose packages, and those below, are tested.            *)
scanPath(mod, integrationMode) == IF integrationMode THEN <<>> ELSE mod.CallingDir

(* removeModuleFromPath: every directory of the module's name goes, not    *)
(* only the first; one that merely ends with it is glued to the next       *)
(* element.                                                                *)
removeModuleFromPath(mod, fileName) ==
    LET dirs == Front(fileName)
    IN  IF \E n \in DOMAIN dirs : <<dirs[n], mod.Name>> \in EndsWith
        THEN <<"glued">>
        ELSE Rel(mod.CallingDir, Append(Without(dirs, mod.Name), Last(fileName)))
=============================================================================
