-------------------------------- MODULE Diff --------------------------------
(***************************************************************************)
(* internal/diff: newDiff reduces each fragment of a git diff to one range *)
(* of new lines, and IsChanged asks whether a line is in one of them.      *)
(* git and the gitdiff parser are external: a fragment is its position in  *)
(* the new file and its lines, each context, added or deleted.             *)
(***************************************************************************)
EXTENDS Integers, Sequences, FiniteSets

Ops == {"context", "add", "delete"}

(* gitdiff.TextFragment: the fields the code uses.                         *)
LinesAdded(fr) == Cardinality({i \in DOMAIN fr.Lines : fr.Lines[i] = "add"})
LeadingContext(fr) ==
    Cardinality({i \in DOMAIN fr.Lines : \A j \in 1 .. i : fr.Lines[j] = "context"})

(* Faulty variant: the leading context is forgotten.                       *)
changeAtFragment(fr) ==
    [StartLine |-> fr.NewPosition, EndLine |-> fr.NewPosition + LinesAdded(fr) - 1]

(* newChanges, one fragment.                                               *)
change(fr) ==
    LET startLine == fr.NewPosition + LeadingContext(fr)
    IN  [StartLine |-> startLine, EndLine |-> startLine + LinesAdded(fr) - 1]

(* newChanges: fragments that only delete have no new lines.               *)
newChanges(fragments) ==
    {change(fragments[i]) : i \in {j \in DOMAIN fragments : LinesAdded(fragments[j]) # 0}}

(* newDiff: an entry for every file in the diff, even an empty one.        *)
newDiff(files) == [name \in DOMAIN files |-> newChanges(files[name])]

(* IsChanged: an empty diff, as without --diff, changes everything.        *)
IsChanged(d, name, line) ==
    \/ DOMAIN d = {}
    \/ /\ name \in DOMAIN d
       /\ \E c \in d[name] : line >= c.StartLine /\ line <= c.EndLine
=============================================================================
