------------------------------ MODULE Mappings ------------------------------
(***************************************************************************)
(* The tables of internal/engine/mappings.go and mutantenabled.go.  Tokens *)
(* and mutant types are named as in go/token and in the mutator package.   *)
(***************************************************************************)
EXTENDS Sequences

(* TokenMutantType: the mutant types that apply to a token, in order.      *)
TokenMutantType ==
    LET Arithmetic  == <<"ArithmeticBase">>
        Assignment  == <<"InvertAssignments", "RemoveSelfAssignments">>
        Bitwise     == <<"InvertBitwise">>
        BwAssign    == <<"RemoveSelfAssignments", "InvertBitwiseAssignments">>
        Equality    == <<"ConditionalsNegation">>
        Comparison  == <<"ConditionalsBoundary", "ConditionalsNegation">>
        IncDec      == <<"IncrementDecrement">>
        Logical     == <<"InvertLogical">>
        LoopCtrl    == <<"InvertLoopCtrl">>
    IN [ADD |-> Arithmetic, ADD_ASSIGN |-> Assignment,
        AND |-> Bitwise, AND_ASSIGN |-> BwAssign,
        AND_NOT |-> Bitwise, AND_NOT_ASSIGN |-> BwAssign,
        BREAK |-> LoopCtrl, CONTINUE |-> LoopCtrl,
        DEC |-> IncDec, EQL |-> Equality, GEQ |-> Comparison, GTR |-> Comparison,
        INC |-> IncDec, LAND |-> Logical, LEQ |-> Comparison, LOR |-> Logical,
        LSS |-> Comparison, MUL |-> Arithmetic, MUL_ASSIGN |-> Assignment,
        NEQ |-> Equality, OR |-> Bitwise, OR_ASSIGN |-> BwAssign,
        QUO |-> Arithmetic, QUO_ASSIGN |-> Assignment,
        REM |-> Arithmetic, REM_ASSIGN |-> Assignment,
        SHL |-> Bitwise, SHL_ASSIGN |-> BwAssign,
        SHR |-> Bitwise, SHR_ASSIGN |-> BwAssign,
        SUB |-> <<"InvertNegatives", "ArithmeticBase">>, SUB_ASSIGN |-> Assignment,
        XOR |-> Bitwise, XOR_ASSIGN |-> BwAssign]

(* tokenMutations: what a mutant of a type turns a token into.             *)
tokenMutations ==
    [ArithmeticBase |->
        [ADD |-> "SUB", MUL |-> "QUO", QUO |-> "MUL", REM |-> "MUL", SUB |-> "ADD"],
     ConditionalsBoundary |->
        [GEQ |-> "GTR", GTR |-> "GEQ", LEQ |-> "LSS", LSS |-> "LEQ"],
     ConditionalsNegation |->
        [EQL |-> "NEQ", GEQ |-> "LSS", GTR |-> "LEQ", LEQ |-> "GTR", LSS |-> "GEQ",
         NEQ |-> "EQL"],
     IncrementDecrement |-> [DEC |-> "INC", INC |-> "DEC"],
     InvertAssignments |->
        [ADD_ASSIGN |-> "SUB_ASSIGN", MUL_ASSIGN |-> "QUO_ASSIGN",
         QUO_ASSIGN |-> "MUL_ASSIGN", REM_ASSIGN |-> "REM_ASSIGN",
         SUB_ASSIGN |-> "ADD_ASSIGN"],
     InvertBitwise |->
        [AND |-> "OR", OR |-> "AND", XOR |-> "AND", AND_NOT |-> "AND", SHL |-> "SHR",
         SHR |-> "SHL"],
     InvertBitwiseAssignments |->
        [AND_ASSIGN |-> "OR_ASSIGN", OR_ASSIGN |-> "AND_ASSIGN", XOR_ASSIGN |-> "AND_ASSIGN",
         AND_NOT_ASSIGN |-> "AND_ASSIGN", SHL_ASSIGN |-> "SHR_ASSIGN",
         SHR_ASSIGN |-> "SHL_ASSIGN"],
     InvertLogical |-> [LAND |-> "LOR", LOR |-> "LAND"],
     InvertLoopCtrl |-> [BREAK |-> "CONTINUE", CONTINUE |-> "BREAK"],
     InvertNegatives |-> [SUB |-> "ADD"],
     RemoveSelfAssignments |->
        [t \in {"ADD_ASSIGN", "AND_ASSIGN", "AND_NOT_ASSIGN", "MUL_ASSIGN", "OR_ASSIGN",
                "QUO_ASSIGN", "REM_ASSIGN", "SHL_ASSIGN", "SHR_ASSIGN", "SUB_ASSIGN",
                "XOR_ASSIGN"} |-> "ASSIGN"]]

MutantTypes == DOMAIN tokenMutations

(* The tokens of the tables: those that are mutated, those they are        *)
(* mutated into, and the zero token.                                       *)
Tokens == DOMAIN TokenMutantType \cup {"ASSIGN", "ILLEGAL"}

(* mutationEnabled: the types that are on unless configured otherwise.     *)
DefaultEnabled ==
    {"ArithmeticBase", "ConditionalsBoundary", "ConditionalsNegation", "IncrementDecrement",
     "InvertNegatives"}

(* Faulty variant: the lookup starts from a token that an earlier Apply    *)
(* left mutated.                                                           *)
MutatedTokenTwice(type, tok) ==
    LET once == IF tok \in DOMAIN tokenMutations[type] THEN tokenMutations[type][tok] ELSE "ILLEGAL"
    IN  IF once \in DOMAIN tokenMutations[type] THEN tokenMutations[type][once] ELSE "ILLEGAL"

(* tokenMutations[type][tok]; a missing entry is Go's zero token, ILLEGAL. *)
MutatedToken(type, tok) ==
    IF tok \in DOMAIN tokenMutations[type] THEN tokenMutations[type][tok] ELSE "ILLEGAL"
=============================================================================
