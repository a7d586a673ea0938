------------------------------ MODULE Coverage ------------------------------
(***************************************************************************)
(* internal/coverage: parse keeps the executed blocks of a cover profile,  *)
(* per file, and IsCovered asks whether a position is in one of them.      *)
(* A position is a line and a column; a block goes from one to another.    *)
(***************************************************************************)
EXTENDS Paths

isSingleLine(b) == b.StartLine = b.EndLine
isMultiLine(b)  == b.StartLine < b.EndLine

isBetweenLines(b, pos) == pos.Line > b.StartLine /\ pos.Line < b.EndLine

(* Faulty variant: the last line of a block counts from its start column.  *)
isPositionCoveredSameColumns(b, pos) ==
    /\ pos.Line \in {b.StartLine, b.EndLine}
    /\ pos.Column >= b.StartCol
    /\ pos.Line = b.EndLine => pos.Column <= b.EndCol

isPositionCovered(b, pos) ==
    \/ /\ isSingleLine(b) /\ pos.Line = b.StartLine
       /\ pos.Column >= b.StartCol /\ pos.Column <= b.EndCol
    \/ isMultiLine(b) /\ pos.Line = b.StartLine /\ pos.Column >= b.StartCol
    \/ isMultiLine(b) /\ pos.Line = b.EndLine /\ pos.Column <= b.EndCol

(* A file that is not in the profile has no blocks.                        *)
IsCovered(profile, name, pos) ==
    /\ name \in DOMAIN profile
    /\ \E b \in profile[name] : isBetweenLines(b, pos) \/ isPositionCovered(b, pos)

(* Faulty variant: blocks that were never executed are kept.               *)
parseAll(mod, blocks) ==
    LET fn(e) == removeModuleFromPath(mod, e.fileName)
    IN  [name \in {fn(e) : e \in blocks} |-> {e.block : e \in {d \in blocks : fn(d) = name}}]

(* parse: blocks that were never executed are left out, and so are files   *)
(* that have no other.                                                     *)
parse(mod, blocks) ==
    LET executed == {e \in blocks : e.block.Count > 0}
        fn(e)    == removeModuleFromPath(mod, e.fileName)
    IN  [name \in {fn(e) : e \in executed} |->
            {e.block : e \in {d \in executed : fn(d) = name}}]
=============================================================================
