--------------------------- MODULE MCTokenMutator ---------------------------
(* Two files.  In the first, two mutants of one node (`<`) and one of      *)
(* another (`+`); in the second, one.  So two workers can be at the same   *)
(* node, at two nodes of one file, and in two files.                       *)
EXTENDS TokenMutator, TLC

CONSTANTS lss, add, inc, boundary, negation, plus, incr

MCNodes   == {lss, add, inc}
MCMutants == {boundary, negation, plus, incr}
MCNodeOf  == boundary :> lss @@ negation :> lss @@ plus :> add @@ incr :> inc
MCTypeOf  == boundary :> "ConditionalsBoundary" @@ negation :> "ConditionalsNegation"
             @@ plus :> "ArithmeticBase" @@ incr :> "IncrementDecrement"
MCFileOf  == lss :> "a.go" @@ add :> "a.go" @@ inc :> "b.go"
MCOrigTok == lss :> "LSS" @@ add :> "ADD" @@ inc :> "INC"
=============================================================================
