---------------------------- MODULE FindMutations ----------------------------
(***************************************************************************)
(* runOnFile: ast.Inspect visits the nodes of a file, NewTokenNode keeps   *)
(* the kinds of node that carry a mutable token, and findMutations sends   *)
(* one mutant for every enabled type of the token.                         *)
(***************************************************************************)
EXTENDS Mappings, Integers, FiniteSets

CONSTANTS
    MaxNodes,        \* bound: nodes in the file
    Configurations   \* the sets of enabled mutant types to try

ASSUME FindAssumption == MaxNodes \in Nat /\ Configurations \subseteq SUBSET MutantTypes

(* The tokens that the Go grammar allows at each kind of node that         *)
(* NewTokenNode looks at, and one kind that it does not.                   *)
TokensOf ==
    [AssignStmt |-> {"ASSIGN", "DEFINE", "ADD_ASSIGN", "SUB_ASSIGN", "MUL_ASSIGN", "QUO_ASSIGN",
                     "REM_ASSIGN", "AND_ASSIGN", "OR_ASSIGN", "XOR_ASSIGN", "SHL_ASSIGN",
                     "SHR_ASSIGN", "AND_NOT_ASSIGN"},
     BinaryExpr |-> {"ADD", "SUB", "MUL", "QUO", "REM", "AND", "OR", "XOR", "SHL", "SHR",
                     "AND_NOT", "LAND", "LOR", "EQL", "NEQ", "LSS", "LEQ", "GTR", "GEQ"},
     BranchStmt |-> {"BREAK", "CONTINUE", "GOTO", "FALLTHROUGH"},
     IncDecStmt |-> {"INC", "DEC"},
     UnaryExpr  |-> {"ADD", "SUB", "NOT", "XOR", "AND", "ARROW", "TILDE"},
     Other      |-> {"none"}]

Nodes == UNION {{[kind |-> k, tok |-> t] : t \in TokensOf[k]} : k \in DOMAIN TokensOf}

VARIABLES
    file,      \* the nodes of the file in the order of ast.Inspect
    enabled,   \* the enabled mutant types
    at,        \* the node being visited
    typeAt,    \* findMutations' loop over the mutant types, 0 outside it
    stream     \* what has been sent on mutantStream

vars == <<file, enabled, at, typeAt, stream>>

(* runOnFile ignores the errors of Open and ParseFile (engine.go:124-127); *)
(* here the file can be opened and parsed, and the panic on one that can   *)
(* not is not modelled.                                                    *)
Init ==
    /\ file \in UNION {[1 .. n -> Nodes] : n \in 0 .. MaxNodes}
    /\ enabled \in Configurations
    /\ at = 1 /\ typeAt = 0
    /\ stream = <<>>

(* NewTokenNode's second result.                                           *)
NewTokenNode(n) == n.kind # "Other"

(* Inspect moves past a node of another kind, or whose token no type       *)
(* mutates.                                                                *)
SkipNode ==
    /\ typeAt = 0 /\ at <= Len(file)
    /\ ~NewTokenNode(file[at]) \/ file[at].tok \notin DOMAIN TokenMutantType
    /\ at' = at + 1
    /\ UNCHANGED <<file, enabled, typeAt, stream>>

EnterNode ==
    /\ typeAt = 0 /\ at <= Len(file)
    /\ NewTokenNode(file[at]) /\ file[at].tok \in DOMAIN TokenMutantType
    /\ typeAt' = 1
    /\ UNCHANGED <<file, enabled, at, stream>>

(* Leave the loop over the types, or go round it.                          *)
NextType ==
    IF typeAt < Len(TokenMutantType[file[at].tok])
    THEN typeAt' = typeAt + 1 /\ at' = at
    ELSE typeAt' = 0 /\ at' = at + 1

(* Faulty variant: `return` instead of `continue` on a disabled type.      *)
SkipTypeAndLeave ==
    /\ typeAt > 0
    /\ TokenMutantType[file[at].tok][typeAt] \notin enabled
    /\ typeAt' = 0 /\ at' = at + 1
    /\ UNCHANGED <<file, enabled, stream>>

(* `continue` on a disabled type.                                          *)
SkipType ==
    /\ typeAt > 0
    /\ TokenMutantType[file[at].tok][typeAt] \notin enabled
    /\ NextType
    /\ UNCHANGED <<file, enabled, stream>>

(* The mutant is made and sent.                                            *)
SendMutant ==
    /\ typeAt > 0
    /\ TokenMutantType[file[at].tok][typeAt] \in enabled
    /\ stream' = Append(stream, [node |-> at, type |-> TokenMutantType[file[at].tok][typeAt]])
    /\ NextType
    /\ UNCHANGED <<file, enabled>>

Terminated ==
    /\ at > Len(file)
    /\ UNCHANGED vars

Next == SkipNode \/ EnterNode \/ SkipType \/ SendMutant \/ Terminated

Spec == Init /\ [][Next]_vars

-----------------------------------------------------------------------------
(* Properties *)

(* The token that Apply will write for a mutant of the stream.             *)
Mutation(mut) == MutatedToken(mut.type, file[mut.node].tok)

(* At the end of a file, a (node, type) pair has been sent exactly when    *)
(* the type is enabled and its mutation table knows the node's token:      *)
(* TokenMutantType and tokenMutations, two tables kept by hand, agree, and *)
(* disabling a type hides no other.  No pair is sent twice.                *)
SentExactly ==
    at > Len(file) =>
        /\ {stream[i] : i \in DOMAIN stream} =
              {mut \in [node : DOMAIN file, type : enabled] : Mutation(mut) # "ILLEGAL"}
        /\ \A i, j \in DOMAIN stream : stream[i] = stream[j] => i = j

(* A mutant changes the program: its token differs from the original's, of *)
(* all mutants but that of `%=` (mappings.go:94 maps REM_ASSIGN to itself  *)
(* where invert_assignments.md:18 has `*=`, so that mutant always lives),  *)
(* and the new token is one the node's kind allows, of all mutants but     *)
(* those of unary operators.                                               *)
MutantsAreMutations ==
    \A i \in DOMAIN stream :
        LET node == file[stream[i].node]
        IN  /\ node.tok # "REM_ASSIGN" => Mutation(stream[i]) # node.tok
            /\ node.kind # "UnaryExpr" => Mutation(stream[i]) \in TokensOf[node.kind]
=============================================================================
