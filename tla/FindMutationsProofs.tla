------------------------- MODULE FindMutationsProofs -------------------------
(***************************************************************************)
(* Proofs about internal/engine: the two tables of mappings.go agree, and  *)
(* findMutations sends what they say, for files of every length and every  *)
(* choice of enabled types.                                                *)
(***************************************************************************)
EXTENDS FindMutations, SequenceTheorems, TLAPS

(* ------------------------------ The tables ------------------------------ *)

(* The tokens of mappings.go by the types of their mutants.                *)
ArithmeticTokens == {"ADD", "MUL", "QUO", "REM"}
NegativeTokens == {"SUB"}
AssignmentTokens == {"ADD_ASSIGN", "MUL_ASSIGN", "QUO_ASSIGN", "REM_ASSIGN",
                     "SUB_ASSIGN"}
BitwiseTokens == {"AND", "AND_NOT", "OR", "SHL", "SHR", "XOR"}
BwAssignTokens == {"AND_ASSIGN", "AND_NOT_ASSIGN", "OR_ASSIGN", "SHL_ASSIGN",
                   "SHR_ASSIGN", "XOR_ASSIGN"}
EqualityTokens == {"EQL", "NEQ"}
ComparisonTokens == {"GEQ", "GTR", "LEQ", "LSS"}
IncDecTokens == {"DEC", "INC"}
LogicalTokens == {"LAND", "LOR"}
LoopCtrlTokens == {"BREAK", "CONTINUE"}

(* TokenMutantType, class by class.                                        *)
LEMMA TypesOfTokens ==
  /\ DOMAIN TokenMutantType = ArithmeticTokens \cup NegativeTokens \cup
                             AssignmentTokens \cup BitwiseTokens \cup BwAssignTokens
                             \cup EqualityTokens \cup ComparisonTokens \cup
                             IncDecTokens \cup LogicalTokens \cup LoopCtrlTokens
  /\ \A t \in ArithmeticTokens : TokenMutantType[t] = <<"ArithmeticBase">>
  /\ \A t \in NegativeTokens : TokenMutantType[t] = <<"InvertNegatives", "ArithmeticBase">>
  /\ \A t \in AssignmentTokens : TokenMutantType[t] = <<"InvertAssignments", "RemoveSelfAssignments">>
  /\ \A t \in BitwiseTokens : TokenMutantType[t] = <<"InvertBitwise">>
  /\ \A t \in BwAssignTokens : TokenMutantType[t] = <<"RemoveSelfAssignments", "InvertBitwiseAssignments">>
  /\ \A t \in EqualityTokens : TokenMutantType[t] = <<"ConditionalsNegation">>
  /\ \A t \in ComparisonTokens : TokenMutantType[t] = <<"ConditionalsBoundary", "ConditionalsNegation">>
  /\ \A t \in IncDecTokens : TokenMutantType[t] = <<"IncrementDecrement">>
  /\ \A t \in LogicalTokens : TokenMutantType[t] = <<"InvertLogical">>
  /\ \A t \in LoopCtrlTokens : TokenMutantType[t] = <<"InvertLoopCtrl">>
  BY DEF TokenMutantType,
         ArithmeticTokens, NegativeTokens, AssignmentTokens, BitwiseTokens,
         BwAssignTokens, EqualityTokens, ComparisonTokens, IncDecTokens,
         LogicalTokens, LoopCtrlTokens

(* tokenMutations knows, for each type, the tokens of that type, and maps  *)
(* none of them to ILLEGAL.                                                *)
LEMMA TokensOfTypes ==
  /\ MutantTypes = {"ArithmeticBase", "ConditionalsBoundary",
                    "ConditionalsNegation", "IncrementDecrement",
                    "InvertAssignments", "InvertBitwise",
                    "InvertBitwiseAssignments", "InvertLogical", "InvertLoopCtrl",
                    "InvertNegatives", "RemoveSelfAssignments"}
  /\ DOMAIN tokenMutations["ArithmeticBase"] = ArithmeticTokens \cup NegativeTokens
  /\ DOMAIN tokenMutations["ConditionalsBoundary"] = ComparisonTokens
  /\ DOMAIN tokenMutations["ConditionalsNegation"] = EqualityTokens \cup ComparisonTokens
  /\ DOMAIN tokenMutations["IncrementDecrement"] = IncDecTokens
  /\ DOMAIN tokenMutations["InvertAssignments"] = AssignmentTokens
  /\ DOMAIN tokenMutations["InvertBitwise"] = BitwiseTokens
  /\ DOMAIN tokenMutations["InvertBitwiseAssignments"] = BwAssignTokens
  /\ DOMAIN tokenMutations["InvertLogical"] = LogicalTokens
  /\ DOMAIN tokenMutations["InvertLoopCtrl"] = LoopCtrlTokens
  /\ DOMAIN tokenMutations["InvertNegatives"] = NegativeTokens
  /\ DOMAIN tokenMutations["RemoveSelfAssignments"] = AssignmentTokens \cup BwAssignTokens
  BY DEF MutantTypes, tokenMutations,
         ArithmeticTokens, NegativeTokens, AssignmentTokens, BitwiseTokens,
         BwAssignTokens, EqualityTokens, ComparisonTokens, IncDecTokens,
         LogicalTokens, LoopCtrlTokens

(* Tokens that may stand for each other: what a type turns a token of one  *)
(* family into is of that family, and a kind of node allows all or none.   *)
AssignFamily == AssignmentTokens \cup BwAssignTokens \cup {"ASSIGN"}
BinaryFamily == ArithmeticTokens \cup NegativeTokens \cup BitwiseTokens \cup EqualityTokens
                \cup ComparisonTokens \cup LogicalTokens
Families == {AssignFamily, BinaryFamily, IncDecTokens, LoopCtrlTokens}

LEMMA TokensStayInFamily ==
  ASSUME NEW y \in MutantTypes, NEW t \in DOMAIN tokenMutations[y]
  PROVE  \E F \in Families : t \in F /\ tokenMutations[y][t] \in F
  <1> USE DEF tokenMutations, Families
  <1>1. CASE y \in {"InvertAssignments", "InvertBitwiseAssignments", "RemoveSelfAssignments"}
    <2>1. t \in AssignFamily /\ tokenMutations[y][t] \in AssignFamily
      BY <1>1 DEF AssignFamily, AssignmentTokens, BwAssignTokens
    <2>2. QED
      BY <2>1
  <1>2. CASE y \in {"ArithmeticBase", "ConditionalsBoundary", "ConditionalsNegation", "InvertBitwise",
                     "InvertLogical", "InvertNegatives"}
    <2>1. t \in BinaryFamily /\ tokenMutations[y][t] \in BinaryFamily
      BY <1>2 DEF BinaryFamily, ArithmeticTokens, NegativeTokens, BitwiseTokens, EqualityTokens,
                  ComparisonTokens, LogicalTokens
    <2>2. QED
      BY <2>1
  <1>3. CASE y = "IncrementDecrement"
    <2>1. t \in IncDecTokens /\ tokenMutations[y][t] \in IncDecTokens
      BY <1>3 DEF IncDecTokens
    <2>2. QED
      BY <2>1
  <1>4. CASE y = "InvertLoopCtrl"
    <2>1. t \in LoopCtrlTokens /\ tokenMutations[y][t] \in LoopCtrlTokens
      BY <1>4 DEF LoopCtrlTokens
    <2>2. QED
      BY <2>1
  <1>5. QED
    BY <1>1, <1>2, <1>3, <1>4, TokensOfTypes

LEMMA KindsAllowFamilies ==
  ASSUME NEW kind \in DOMAIN TokensOf \ {"UnaryExpr"}, NEW F \in Families,
         NEW t \in TokensOf[kind] \cap F
  PROVE  F \subseteq TokensOf[kind]
  <1> USE DEF TokensOf
  <1>1. CASE F = AssignFamily
    <2>1. t \in AssignFamily /\ t \in TokensOf[kind]
      BY <1>1
    <2>2. kind = "AssignStmt"
      BY <2>1 DEF AssignFamily, AssignmentTokens, BwAssignTokens
    <2>3. QED
      BY <1>1, <2>2 DEF AssignFamily, AssignmentTokens, BwAssignTokens
  <1>2. CASE F = BinaryFamily
    <2> USE DEF BinaryFamily, ArithmeticTokens, NegativeTokens, BitwiseTokens, EqualityTokens,
                ComparisonTokens, LogicalTokens
    <2>1. t \in BinaryFamily /\ t \in TokensOf[kind]
      BY <1>2
    <2>2. kind = "BinaryExpr"
      BY <2>1
    <2>3. QED
      BY <1>2, <2>2
  <1>3. CASE F = IncDecTokens
    <2>1. t \in IncDecTokens /\ t \in TokensOf[kind]
      BY <1>3
    <2>2. kind = "IncDecStmt"
      BY <2>1 DEF IncDecTokens
    <2>3. QED
      BY <1>3, <2>2 DEF IncDecTokens
  <1>4. CASE F = LoopCtrlTokens
    <2>1. t \in LoopCtrlTokens /\ t \in TokensOf[kind]
      BY <1>4
    <2>2. kind = "BranchStmt"
      BY <2>1 DEF LoopCtrlTokens
    <2>3. QED
      BY <1>4, <2>2 DEF LoopCtrlTokens
  <1>5. QED
    BY <1>1, <1>2, <1>3, <1>4 DEF Families

(* What a mutant turns its token into is a token, another one, and one     *)
(* that may stand where it stood, with the two exceptions of               *)
(* MutantsAreMutations.                                                    *)
LEMMA TokensChange ==
  ASSUME NEW y \in MutantTypes, NEW t \in DOMAIN tokenMutations[y]
  PROVE  /\ MutatedToken(y, t) # "ILLEGAL"
         /\ t # "REM_ASSIGN" => MutatedToken(y, t) # t
         /\ \A kind \in DOMAIN TokensOf \ {"UnaryExpr"} :
                t \in TokensOf[kind] => MutatedToken(y, t) \in TokensOf[kind]
  <1>1. MutatedToken(y, t) = tokenMutations[y][t]
    BY DEF MutatedToken
  <1>2. tokenMutations[y][t] # "ILLEGAL" /\ (t # "REM_ASSIGN" => tokenMutations[y][t] # t)
    <2> USE DEF tokenMutations
    <2>1. CASE y \in {"ArithmeticBase", "ConditionalsBoundary", "ConditionalsNegation"}
      BY <2>1
    <2>2. CASE y \in {"IncrementDecrement", "InvertAssignments", "InvertBitwise"}
      BY <2>2
    <2>3. CASE y \in {"InvertBitwiseAssignments", "InvertLogical", "InvertLoopCtrl"}
      BY <2>3
    <2>4. CASE y \in {"InvertNegatives", "RemoveSelfAssignments"}
      BY <2>4
    <2>5. QED
      BY <2>1, <2>2, <2>3, <2>4, TokensOfTypes
  <1>3. ASSUME NEW kind \in DOMAIN TokensOf \ {"UnaryExpr"}, t \in TokensOf[kind]
        PROVE  tokenMutations[y][t] \in TokensOf[kind]
    <2>1. PICK F \in Families : t \in F /\ tokenMutations[y][t] \in F
      BY TokensStayInFamily
    <2>2. F \subseteq TokensOf[kind]
      BY <1>3, <2>1, KindsAllowFamilies
    <2>3. QED
      BY <2>1, <2>2
  <1>4. QED
    BY <1>1, <1>2, <1>3

(* The list of a token has one or two types, and none twice.               *)
LEMMA TypesAreDistinct ==
  ASSUME NEW t \in DOMAIN TokenMutantType
  PROVE  /\ TokenMutantType[t] \in Seq(MutantTypes)
         /\ Len(TokenMutantType[t]) \in 1 .. 2
         /\ DOMAIN TokenMutantType[t] = 1 .. Len(TokenMutantType[t])
         /\ \A j, k \in DOMAIN TokenMutantType[t] :
                TokenMutantType[t][j] = TokenMutantType[t][k] => j = k
  <1>1. CASE t \in ArithmeticTokens
    <2>1. TokenMutantType[t] = <<"ArithmeticBase">>
      BY <1>1, TypesOfTokens
    <2>2. QED
      BY <2>1, TokensOfTypes
  <1>2. CASE t \in NegativeTokens
    <2>1. TokenMutantType[t] = <<"InvertNegatives", "ArithmeticBase">>
      BY <1>2, TypesOfTokens
    <2>2. QED
      BY <2>1, TokensOfTypes
  <1>3. CASE t \in AssignmentTokens
    <2>1. TokenMutantType[t] = <<"InvertAssignments", "RemoveSelfAssignments">>
      BY <1>3, TypesOfTokens
    <2>2. QED
      BY <2>1, TokensOfTypes
  <1>4. CASE t \in BitwiseTokens
    <2>1. TokenMutantType[t] = <<"InvertBitwise">>
      BY <1>4, TypesOfTokens
    <2>2. QED
      BY <2>1, TokensOfTypes
  <1>5. CASE t \in BwAssignTokens
    <2>1. TokenMutantType[t] = <<"RemoveSelfAssignments", "InvertBitwiseAssignments">>
      BY <1>5, TypesOfTokens
    <2>2. QED
      BY <2>1, TokensOfTypes
  <1>6. CASE t \in EqualityTokens
    <2>1. TokenMutantType[t] = <<"ConditionalsNegation">>
      BY <1>6, TypesOfTokens
    <2>2. QED
      BY <2>1, TokensOfTypes
  <1>7. CASE t \in ComparisonTokens
    <2>1. TokenMutantType[t] = <<"ConditionalsBoundary", "ConditionalsNegation">>
      BY <1>7, TypesOfTokens
    <2>2. QED
      BY <2>1, TokensOfTypes
  <1>8. CASE t \in IncDecTokens
    <2>1. TokenMutantType[t] = <<"IncrementDecrement">>
      BY <1>8, TypesOfTokens
    <2>2. QED
      BY <2>1, TokensOfTypes
  <1>9. CASE t \in LogicalTokens
    <2>1. TokenMutantType[t] = <<"InvertLogical">>
      BY <1>9, TypesOfTokens
    <2>2. QED
      BY <2>1, TokensOfTypes
  <1>10. CASE t \in LoopCtrlTokens
    <2>1. TokenMutantType[t] = <<"InvertLoopCtrl">>
      BY <1>10, TypesOfTokens
    <2>2. QED
      BY <2>1, TokensOfTypes
  <1>11. QED
    BY <1>1, <1>2, <1>3, <1>4, <1>5, <1>6, <1>7, <1>8, <1>9, <1>10, TypesOfTokens

(* The two tables agree: a type is in a token's list exactly when its own  *)
(* table has that token.                                                   *)
LEMMA TablesAgree ==
  ASSUME NEW t \in DOMAIN TokenMutantType, NEW y \in MutantTypes
  PROVE  MutatedToken(y, t) # "ILLEGAL"
         <=> \E k \in DOMAIN TokenMutantType[t] : TokenMutantType[t][k] = y
  <1>1. MutatedToken(y, t) # "ILLEGAL" <=> t \in DOMAIN tokenMutations[y]
    BY TokensChange DEF MutatedToken
  <1>2. t \in DOMAIN tokenMutations[y]
        <=> \E k \in DOMAIN TokenMutantType[t] : TokenMutantType[t][k] = y
    <2>1. CASE t \in ArithmeticTokens
      <3>1. TokenMutantType[t] = <<"ArithmeticBase">>
        BY <2>1, TypesOfTokens
      <3>2. t \in DOMAIN tokenMutations[y] <=> y = "ArithmeticBase"
        BY <2>1, TokensOfTypes DEF ArithmeticTokens, NegativeTokens, AssignmentTokens, BitwiseTokens,
                  BwAssignTokens, EqualityTokens, ComparisonTokens, IncDecTokens,
                  LogicalTokens, LoopCtrlTokens
      <3>3. QED
        BY <3>1, <3>2
    <2>2. CASE t \in NegativeTokens
      <3>1. TokenMutantType[t] = <<"InvertNegatives", "ArithmeticBase">>
        BY <2>2, TypesOfTokens
      <3>2. t \in DOMAIN tokenMutations[y] <=> y = "InvertNegatives" \/ y = "ArithmeticBase"
        BY <2>2, TokensOfTypes DEF ArithmeticTokens, NegativeTokens, AssignmentTokens, BitwiseTokens,
                  BwAssignTokens, EqualityTokens, ComparisonTokens, IncDecTokens,
                  LogicalTokens, LoopCtrlTokens
      <3>3. QED
        BY <3>1, <3>2
    <2>3. CASE t \in AssignmentTokens
      <3>1. TokenMutantType[t] = <<"InvertAssignments", "RemoveSelfAssignments">>
        BY <2>3, TypesOfTokens
      <3>2. t \in DOMAIN tokenMutations[y] <=> y = "InvertAssignments" \/ y = "RemoveSelfAssignments"
        BY <2>3, TokensOfTypes DEF ArithmeticTokens, NegativeTokens, AssignmentTokens, BitwiseTokens,
                  BwAssignTokens, EqualityTokens, ComparisonTokens, IncDecTokens,
                  LogicalTokens, LoopCtrlTokens
      <3>3. QED
        BY <3>1, <3>2
    <2>4. CASE t \in BitwiseTokens
      <3>1. TokenMutantType[t] = <<"InvertBitwise">>
        BY <2>4, TypesOfTokens
      <3>2. t \in DOMAIN tokenMutations[y] <=> y = "InvertBitwise"
        BY <2>4, TokensOfTypes DEF ArithmeticTokens, NegativeTokens, AssignmentTokens, BitwiseTokens,
                  BwAssignTokens, EqualityTokens, ComparisonTokens, IncDecTokens,
                  LogicalTokens, LoopCtrlTokens
      <3>3. QED
        BY <3>1, <3>2
    <2>5. CASE t \in BwAssignTokens
      <3>1. TokenMutantType[t] = <<"RemoveSelfAssignments", "InvertBitwiseAssignments">>
        BY <2>5, TypesOfTokens
      <3>2. t \in DOMAIN tokenMutations[y] <=> y = "RemoveSelfAssignments" \/ y = "InvertBitwiseAssignments"
        BY <2>5, TokensOfTypes DEF ArithmeticTokens, NegativeTokens, AssignmentTokens, BitwiseTokens,
                  BwAssignTokens, EqualityTokens, ComparisonTokens, IncDecTokens,
                  LogicalTokens, LoopCtrlTokens
      <3>3. QED
        BY <3>1, <3>2
    <2>6. CASE t \in EqualityTokens
      <3>1. TokenMutantType[t] = <<"ConditionalsNegation">>
        BY <2>6, TypesOfTokens
      <3>2. t \in DOMAIN tokenMutations[y] <=> y = "ConditionalsNegation"
        BY <2>6, TokensOfTypes DEF ArithmeticTokens, NegativeTokens, AssignmentTokens, BitwiseTokens,
                  BwAssignTokens, EqualityTokens, ComparisonTokens, IncDecTokens,
                  LogicalTokens, LoopCtrlTokens
      <3>3. QED
        BY <3>1, <3>2
    <2>7. CASE t \in ComparisonTokens
      <3>1. TokenMutantType[t] = <<"ConditionalsBoundary", "ConditionalsNegation">>
        BY <2>7, TypesOfTokens
      <3>2. t \in DOMAIN tokenMutations[y] <=> y = "ConditionalsBoundary" \/ y = "ConditionalsNegation"
        BY <2>7, TokensOfTypes DEF ArithmeticTokens, NegativeTokens, AssignmentTokens, BitwiseTokens,
                  BwAssignTokens, EqualityTokens, ComparisonTokens, IncDecTokens,
                  LogicalTokens, LoopCtrlTokens
      <3>3. QED
        BY <3>1, <3>2
    <2>8. CASE t \in IncDecTokens
      <3>1. TokenMutantType[t] = <<"IncrementDecrement">>
        BY <2>8, TypesOfTokens
      <3>2. t \in DOMAIN tokenMutations[y] <=> y = "IncrementDecrement"
        BY <2>8, TokensOfTypes DEF ArithmeticTokens, NegativeTokens, AssignmentTokens, BitwiseTokens,
                  BwAssignTokens, EqualityTokens, ComparisonTokens, IncDecTokens,
                  LogicalTokens, LoopCtrlTokens
      <3>3. QED
        BY <3>1, <3>2
    <2>9. CASE t \in LogicalTokens
      <3>1. TokenMutantType[t] = <<"InvertLogical">>
        BY <2>9, TypesOfTokens
      <3>2. t \in DOMAIN tokenMutations[y] <=> y = "InvertLogical"
        BY <2>9, TokensOfTypes DEF ArithmeticTokens, NegativeTokens, AssignmentTokens, BitwiseTokens,
                  BwAssignTokens, EqualityTokens, ComparisonTokens, IncDecTokens,
                  LogicalTokens, LoopCtrlTokens
      <3>3. QED
        BY <3>1, <3>2
    <2>10. CASE t \in LoopCtrlTokens
      <3>1. TokenMutantType[t] = <<"InvertLoopCtrl">>
        BY <2>10, TypesOfTokens
      <3>2. t \in DOMAIN tokenMutations[y] <=> y = "InvertLoopCtrl"
        BY <2>10, TokensOfTypes DEF ArithmeticTokens, NegativeTokens, AssignmentTokens, BitwiseTokens,
                  BwAssignTokens, EqualityTokens, ComparisonTokens, IncDecTokens,
                  LogicalTokens, LoopCtrlTokens
      <3>3. QED
        BY <3>1, <3>2
    <2>11. QED
      BY <2>1, <2>2, <2>3, <2>4, <2>5, <2>6, <2>7, <2>8, <2>9, <2>10, TypesOfTokens
  <1>3. QED
    BY <1>1, <1>2

(* A token that has no list is in no table.                                *)
LEMMA OthersStay ==
  ASSUME NEW t, t \notin DOMAIN TokenMutantType, NEW y \in MutantTypes
  PROVE  MutatedToken(y, t) = "ILLEGAL"
  BY TypesOfTokens, TokensOfTypes DEF MutatedToken

(* ----------------------------- The invariant ---------------------------- *)

(* The mutants of the node at i, in the order of its list.                 *)
Mutable(i) == NewTokenNode(file[i]) /\ file[i].tok \in DOMAIN TokenMutantType
Types(i)   == TokenMutantType[file[i].tok]

(* The loops have passed the k-th type of the node at i.                   *)
Passed(i, k) == i < at \/ (i = at /\ k < typeAt)

Due == {mut \in [node : 1 .. Len(file), type : enabled] :
            /\ Mutable(mut.node)
            /\ \E k \in DOMAIN Types(mut.node) :
                   Types(mut.node)[k] = mut.type /\ Passed(mut.node, k)}

(* What has been sent is what the loops have passed, and once.             *)
FindInv ==
    /\ file \in Seq(Nodes)
    /\ enabled \in SUBSET MutantTypes
    /\ at \in 1 .. Len(file) + 1
    /\ typeAt \in Nat
    /\ typeAt > 0 => at <= Len(file) /\ Mutable(at) /\ typeAt <= Len(Types(at))
    /\ stream \in Seq([node : 1 .. Len(file), type : enabled])
    /\ \A i \in DOMAIN stream : stream[i] \in Due
    /\ \A mut \in Due : \E i \in DOMAIN stream : stream[i] = mut
    /\ \A i, j \in DOMAIN stream : stream[i] = stream[j] => i = j

LEMMA InitFindInv == Init => FindInv
  <1> SUFFICES ASSUME Init
               PROVE  FindInv
    OBVIOUS
  <1>1. PICK n \in 0 .. MaxNodes : file \in [1 .. n -> Nodes]
    BY DEF Init
  <1>2. n \in Nat
    BY FindAssumption
  <1>3. file \in Seq(Nodes) /\ Len(file) \in Nat
    BY <1>1, <1>2
  <1>4. at = 1 /\ typeAt = 0 /\ stream = <<>> /\ enabled \in SUBSET MutantTypes
    BY FindAssumption DEF Init
  <1>5. \A i \in 1 .. Len(file), k \in Nat : ~Passed(i, k)
    BY <1>3, <1>4 DEF Passed
  <1>6. Due = {}
    <2> SUFFICES ASSUME NEW mut \in Due
                 PROVE  FALSE
      OBVIOUS
    <2>1. /\ mut.node \in 1 .. Len(file) /\ Mutable(mut.node)
          /\ \E k \in DOMAIN Types(mut.node) : Passed(mut.node, k)
      BY DEF Due
    <2>2. DOMAIN Types(mut.node) \subseteq Nat
      BY <2>1, TypesAreDistinct DEF Mutable, Types
    <2>3. QED
      BY <1>5, <2>1, <2>2
  <1>7. QED
    BY <1>3, <1>4, <1>6 DEF FindInv

(* Moving past a node that has no mutant, or into one that has, changes    *)
(* nothing that is due.                                                    *)
LEMMA DueIsUnchanged ==
  ASSUME FindInv, UNCHANGED <<file, enabled>>,
         \A i \in 1 .. Len(file) :
            Mutable(i) => \A k \in DOMAIN Types(i) : Passed(i, k)' <=> Passed(i, k)
  PROVE  Due' = Due
  BY DEF Due, Mutable, Types

(* Going round the loop over the types, or out of it, adds the one that    *)
(* was looked at, if it is enabled.                                        *)
LEMMA DueGrows ==
  ASSUME FindInv, typeAt > 0, NextType, UNCHANGED <<file, enabled>>
  PROVE  /\ at' \in 1 .. Len(file) + 1 /\ typeAt' \in Nat
         /\ typeAt' > 0 => at' <= Len(file) /\ Mutable(at)' /\ typeAt' <= Len(Types(at)')
         /\ Due' = Due \cup {mut \in {[node |-> at, type |-> Types(at)[typeAt]]} : mut.type \in enabled}
         /\ [node |-> at, type |-> Types(at)[typeAt]] \notin Due
  <1> DEFINE new == [node |-> at, type |-> Types(at)[typeAt]]
  <1>1. /\ Len(file) \in Nat /\ at \in 1 .. Len(file) /\ Mutable(at)
        /\ typeAt \in 1 .. Len(Types(at))
    BY LenProperties DEF FindInv
  <1>2. /\ Len(Types(at)) \in 1 .. 2 /\ DOMAIN Types(at) = 1 .. Len(Types(at))
        /\ \A j, k \in DOMAIN Types(at) : Types(at)[j] = Types(at)[k] => j = k
    BY <1>1, TypesAreDistinct DEF Mutable, Types
  <1>3. IF typeAt < Len(Types(at)) THEN typeAt' = typeAt + 1 /\ at' = at
        ELSE typeAt' = 0 /\ at' = at + 1
    BY DEF NextType, Types
  <1>4. /\ at' \in 1 .. Len(file) + 1 /\ typeAt' \in Nat
        /\ typeAt' > 0 => at' <= Len(file) /\ Mutable(at)' /\ typeAt' <= Len(Types(at)')
    <2>1. CASE typeAt < Len(Types(at))
      <3>1. typeAt' = typeAt + 1 /\ at' = at
        BY <1>3, <2>1
      <3>2. Mutable(at)' /\ Types(at)' = Types(at)
        BY <1>1, <3>1 DEF Mutable, Types
      <3>3. QED
        BY <1>1, <1>2, <2>1, <3>1, <3>2
    <2>2. CASE ~(typeAt < Len(Types(at)))
      <3>1. typeAt' = 0 /\ at' = at + 1
        BY <1>3, <2>2
      <3>2. QED
        BY <1>1, <3>1
    <2>3. QED
      BY <2>1, <2>2
  <1>5. \A i \in 1 .. Len(file) : \A k \in Nat :
            (i = at => k \in 1 .. Len(Types(at))) =>
                (Passed(i, k)' <=> Passed(i, k) \/ (i = at /\ k = typeAt))
    <2> SUFFICES ASSUME NEW i \in 1 .. Len(file), NEW k \in Nat, i = at => k \in 1 .. Len(Types(at))
                 PROVE  Passed(i, k)' <=> Passed(i, k) \/ (i = at /\ k = typeAt)
      OBVIOUS
    <2>1. Passed(i, k)' <=> i < at' \/ (i = at' /\ k < typeAt')
      BY DEF Passed
    <2>2. Passed(i, k) <=> i < at \/ (i = at /\ k < typeAt)
      BY DEF Passed
    <2>3. CASE typeAt < Len(Types(at))
      <3>1. typeAt' = typeAt + 1 /\ at' = at
        BY <1>3, <2>3
      <3>2. QED
        BY <1>1, <2>1, <2>2, <3>1
    <2>4. CASE ~(typeAt < Len(Types(at)))
      <3>1. typeAt' = 0 /\ at' = at + 1
        BY <1>3, <2>4
      <3>2. QED
        BY <1>1, <1>2, <2>1, <2>2, <2>4, <3>1
    <2>5. QED
      BY <2>3, <2>4
  <1>6. ASSUME NEW mut \in [node : 1 .. Len(file), type : enabled]
        PROVE  mut \in Due' <=> mut \in Due \/ mut = new
    <2> DEFINE i == mut.node
               T == Types(i)
    <2>1. i \in 1 .. Len(file) /\ mut.type \in enabled /\ mut = [node |-> i, type |-> mut.type]
      OBVIOUS
    <2>2. mut \in Due' <=> Mutable(i) /\ \E k \in DOMAIN T : T[k] = mut.type /\ Passed(i, k)'
      BY DEF Due, Mutable, Types
    <2>3. mut \in Due <=> Mutable(i) /\ \E k \in DOMAIN T : T[k] = mut.type /\ Passed(i, k)
      BY DEF Due
    <2>4. Mutable(i) => DOMAIN T \subseteq Nat /\ (i = at => DOMAIN T = 1 .. Len(Types(at)))
      BY <1>2, TypesAreDistinct DEF Mutable, Types
    <2>5. mut = new <=> i = at /\ mut.type = Types(at)[typeAt]
      BY <2>1
    <2>6. ASSUME Mutable(i), NEW k \in DOMAIN T
          PROVE  Passed(i, k)' <=> Passed(i, k) \/ (i = at /\ k = typeAt)
      BY <1>5, <2>1, <2>4, <2>6
    <2>7. i = at => typeAt \in DOMAIN T /\ Mutable(i)
      BY <1>1, <1>2
    <2> HIDE DEF T, i, new
    <2>8. QED
      BY <2>2, <2>3, <2>5, <2>6, <2>7 DEF T
  <1>7. new \notin Due
    <2> SUFFICES ASSUME new \in Due
                 PROVE  FALSE
      OBVIOUS
    <2>1. PICK k \in DOMAIN Types(at) : Types(at)[k] = Types(at)[typeAt] /\ Passed(at, k)
      BY DEF Due
    <2>2. k = typeAt
      BY <1>1, <1>2, <2>1
    <2>3. QED
      BY <1>1, <2>1, <2>2 DEF Passed
  <1>8. Due' = Due \cup {mut \in {new} : mut.type \in enabled}
    <2>1. Due' \subseteq [node : 1 .. Len(file), type : enabled]
      BY DEF Due
    <2>2. Due \subseteq [node : 1 .. Len(file), type : enabled]
      BY DEF Due
    <2>3. new.type \in enabled => new \in [node : 1 .. Len(file), type : enabled]
      BY <1>1
    <2> HIDE DEF new
    <2>4. QED
      BY <1>6, <2>1, <2>2, <2>3
  <1>9. QED
    BY <1>4, <1>7, <1>8

LEMMA NextFindInv == FindInv /\ [Next]_vars => FindInv'
  <1> SUFFICES ASSUME FindInv, [Next]_vars
               PROVE  FindInv'
    OBVIOUS
  <1>1. Len(file) \in Nat /\ at \in Nat /\ typeAt \in Nat
    BY LenProperties DEF FindInv
  <1>2. \A i : Mutable(i) => DOMAIN Types(i) \subseteq Nat \ {0} /\ 1 <= Len(Types(i))
    <2> SUFFICES ASSUME NEW i, Mutable(i)
                 PROVE  DOMAIN Types(i) \subseteq Nat \ {0} /\ 1 <= Len(Types(i))
      OBVIOUS
    <2>1. Len(Types(i)) \in 1 .. 2 /\ DOMAIN Types(i) = 1 .. Len(Types(i))
      BY TypesAreDistinct DEF Mutable, Types
    <2>2. QED
      BY <2>1
  <1>3. ASSUME SkipNode
        PROVE  FindInv'
    <2>1. /\ typeAt = 0 /\ at \in 1 .. Len(file) /\ ~Mutable(at) /\ at' = at + 1
          /\ UNCHANGED <<file, enabled, typeAt, stream>>
      BY <1>3 DEF SkipNode, Mutable, FindInv
    <2>2. \A i \in 1 .. Len(file), k \in Nat : i # at => (Passed(i, k)' <=> Passed(i, k))
      BY <1>1, <2>1 DEF Passed
    <2>3. Due' = Due
      BY <1>2, <2>1, <2>2, DueIsUnchanged
    <2>4. QED
      BY <1>1, <2>1, <2>3 DEF FindInv
  <1>4. ASSUME EnterNode
        PROVE  FindInv'
    <2>1. /\ typeAt = 0 /\ at \in 1 .. Len(file) /\ Mutable(at) /\ typeAt' = 1
          /\ UNCHANGED <<file, enabled, at, stream>>
      BY <1>4 DEF EnterNode, Mutable, FindInv
    <2>2. \A i \in 1 .. Len(file) : \A k \in Nat \ {0} : Passed(i, k)' <=> Passed(i, k)
      BY <1>1, <2>1 DEF Passed
    <2>3. Due' = Due
      BY <1>2, <2>1, <2>2, DueIsUnchanged
    <2>4. Mutable(at)' /\ Types(at)' = Types(at) /\ 1 <= Len(Types(at))
      BY <1>2, <2>1 DEF Mutable, Types
    <2>5. QED
      BY <2>1, <2>3, <2>4 DEF FindInv
  <1>5. ASSUME SkipType
        PROVE  FindInv'
    <2>1. /\ typeAt > 0 /\ Types(at)[typeAt] \notin enabled /\ NextType
          /\ UNCHANGED <<file, enabled, stream>>
      BY <1>5 DEF SkipType, Types
    <2>2. /\ at' \in 1 .. Len(file) + 1 /\ typeAt' \in Nat
          /\ typeAt' > 0 => at' <= Len(file) /\ Mutable(at)' /\ typeAt' <= Len(Types(at)')
          /\ Due' = Due \cup {mut \in {[node |-> at, type |-> Types(at)[typeAt]]} : mut.type \in enabled}
      BY <2>1, DueGrows
    <2>3. Due' = Due
      BY <2>1, <2>2
    <2>4. QED
      BY <2>1, <2>2, <2>3 DEF FindInv
  <1>6. ASSUME SendMutant
        PROVE  FindInv'
    <2> DEFINE new == [node |-> at, type |-> Types(at)[typeAt]]
    <2>1. /\ typeAt > 0 /\ Types(at)[typeAt] \in enabled /\ NextType
          /\ stream' = Append(stream, new) /\ UNCHANGED <<file, enabled>>
      BY <1>6 DEF SendMutant, Types
    <2>2. /\ at' \in 1 .. Len(file) + 1 /\ typeAt' \in Nat
          /\ typeAt' > 0 => at' <= Len(file) /\ Mutable(at)' /\ typeAt' <= Len(Types(at)')
          /\ Due' = Due \cup {new} /\ new \notin Due
      BY <2>1, DueGrows
    <2>3. new \in [node : 1 .. Len(file), type : enabled]
      BY <1>1, <2>1 DEF FindInv
    <2> HIDE DEF new
    <2>4. /\ stream \in Seq([node : 1 .. Len(file), type : enabled]) /\ Len(stream) \in Nat
          /\ DOMAIN stream = 1 .. Len(stream)
      BY LenProperties DEF FindInv
    <2>5. /\ stream' \in Seq([node : 1 .. Len(file), type : enabled])
          /\ DOMAIN stream' = 1 .. Len(stream) + 1
          /\ \A i \in 1 .. Len(stream) : stream'[i] = stream[i]
          /\ stream'[Len(stream) + 1] = new
      BY <2>1, <2>3, <2>4
    <2>6. \A i \in DOMAIN stream' : stream'[i] \in Due'
      BY SMTT(30), <2>2, <2>4, <2>5 DEF FindInv
    <2>7. \A mut \in Due' : \E i \in DOMAIN stream' : stream'[i] = mut
      <3> TAKE mut \in Due'
      <3>1. CASE mut = new
        BY <2>4, <2>5, <3>1
      <3>2. CASE mut \in Due
        <4>1. PICK i \in DOMAIN stream : stream[i] = mut
          BY <3>2 DEF FindInv
        <4>2. i \in DOMAIN stream' /\ stream'[i] = mut
          BY <2>4, <2>5, <4>1
        <4>3. QED
          BY <4>2
      <3>3. QED
        BY <2>2, <3>1, <3>2
    <2>8. \A i, j \in DOMAIN stream' : stream'[i] = stream'[j] => i = j
      <3>1. \A i \in 1 .. Len(stream) : stream[i] # new
        BY <2>2, <2>4 DEF FindInv
      <3>2. \A i, j \in 1 .. Len(stream) : stream[i] = stream[j] => i = j
        BY <2>4 DEF FindInv
      <3>3. QED
        BY <2>4, <2>5, <3>1, <3>2
    <2>9. QED
      BY <2>1, <2>2, <2>5, <2>6, <2>7, <2>8 DEF FindInv
  <1>7. ASSUME UNCHANGED vars
        PROVE  FindInv'
    BY <1>7 DEF vars, FindInv, Due, Mutable, Types, Passed
  <1>8. QED
    BY <1>3, <1>4, <1>5, <1>6, <1>7 DEF Next, Terminated

(* Every reachable state satisfies the invariant.                          *)
THEOREM FindInvariance == Spec => []FindInv
  BY InitFindInv, NextFindInv, PTL DEF Spec

(* ------------------------------- Theorems ------------------------------- *)

(* At the end of every file, findMutations has sent each mutation that the *)
(* enabled tables know, once, and nothing else.                            *)
THEOREM EveryMutationOnce == Spec => []SentExactly
  <1>1. FindInv => SentExactly
    <2> SUFFICES ASSUME FindInv, at > Len(file)
                 PROVE  SentExactly
      BY DEF SentExactly
    <2> DEFINE All == {mut \in [node : DOMAIN file, type : enabled] : Mutation(mut) # "ILLEGAL"}
    <2>1. /\ Len(file) \in Nat /\ DOMAIN file = 1 .. Len(file) /\ at = Len(file) + 1
          /\ file \in [1 .. Len(file) -> Nodes]
      BY LenProperties DEF FindInv
    <2>2. ASSUME NEW mut \in [node : 1 .. Len(file), type : enabled]
          PROVE  mut \in Due <=> Mutation(mut) # "ILLEGAL"
      <3> DEFINE i == mut.node
                 t == file[i].tok
      <3>1. i \in 1 .. Len(file) /\ mut.type \in MutantTypes /\ file[i] \in Nodes
        BY <2>1 DEF FindInv
      <3>2. \A k : Passed(i, k)
        BY <2>1, <3>1 DEF Passed
      <3>3. CASE Mutable(i)
        <4>1. Mutation(mut) # "ILLEGAL" <=> \E k \in DOMAIN Types(i) : Types(i)[k] = mut.type
          BY <3>1, <3>3, TablesAgree DEF Mutation, Types, Mutable
        <4>2. QED
          BY <3>2, <3>3, <4>1 DEF Due
      <3>4. CASE ~Mutable(i)
        <4>1. t \notin DOMAIN TokenMutantType
          <5>1. CASE t \in DOMAIN TokenMutantType
            <6>1. file[i].kind = "Other"
              BY <3>4, <5>1 DEF Mutable, NewTokenNode
            <6>2. PICK k \in DOMAIN TokensOf : file[i] \in {[kind |-> k, tok |-> x] : x \in TokensOf[k]}
              BY <3>1 DEF Nodes
            <6>3. k = "Other" /\ t \in TokensOf[k]
              BY <6>1, <6>2
            <6>4. t = "none"
              BY <6>3 DEF TokensOf
            <6>5. QED
              BY <5>1, <6>4 DEF TokenMutantType
          <5>2. QED
            BY <5>1
        <4>2. Mutation(mut) = "ILLEGAL"
          BY <3>1, <4>1, OthersStay DEF Mutation
        <4>3. QED
          BY <3>4, <4>2 DEF Due
      <3>5. QED
        BY <3>3, <3>4
    <2>3. Due = All
      <3>1. Due \subseteq [node : 1 .. Len(file), type : enabled]
        BY DEF Due
      <3>2. QED
        BY <2>1, <2>2, <3>1
    <2> HIDE DEF All
    <2>4. {stream[i] : i \in DOMAIN stream} = All
      BY <2>3 DEF FindInv
    <2>5. QED
      BY <2>4 DEF SentExactly, FindInv, All
  <1>2. QED
    BY <1>1, FindInvariance, PTL

(* No mutant of any file leaves its token as it is, `%=` apart, or puts    *)
(* one where the grammar forbids it, unary operators apart.                *)
THEOREM MutantsMutate == Spec => []MutantsAreMutations
  <1>1. FindInv => MutantsAreMutations
    <2> SUFFICES ASSUME FindInv, NEW j \in DOMAIN stream
                 PROVE  LET node == file[stream[j].node]
                        IN  /\ node.tok # "REM_ASSIGN" => Mutation(stream[j]) # node.tok
                            /\ node.kind # "UnaryExpr" => Mutation(stream[j]) \in TokensOf[node.kind]
      BY DEF MutantsAreMutations
    <2> DEFINE i == stream[j].node
               y == stream[j].type
               t == file[i].tok
    <2>1. stream[j] \in Due
      BY DEF FindInv
    <2>2. i \in 1 .. Len(file) /\ y \in MutantTypes /\ t \in DOMAIN TokenMutantType
          /\ \E k \in DOMAIN TokenMutantType[t] : TokenMutantType[t][k] = y
      BY <2>1 DEF Due, FindInv, Mutable, Types
    <2>3. file[i] \in Nodes
      BY <2>2, LenProperties DEF FindInv
    <2>4. PICK k \in DOMAIN TokensOf : \E x \in TokensOf[k] : file[i] = [kind |-> k, tok |-> x]
      BY <2>3 DEF Nodes
    <2>5. file[i].kind = k /\ t \in TokensOf[k]
      BY <2>4
    <2>6. MutatedToken(y, t) # "ILLEGAL"
      BY <2>2, TablesAgree
    <2>7. t \in DOMAIN tokenMutations[y]
      BY <2>6 DEF MutatedToken
    <2>8. Mutation(stream[j]) = MutatedToken(y, t)
      BY DEF Mutation
    <2> HIDE DEF i, y, t
    <2>9. /\ t # "REM_ASSIGN" => MutatedToken(y, t) # t
          /\ k # "UnaryExpr" => MutatedToken(y, t) \in TokensOf[k]
      BY <2>2, <2>5, <2>7, TokensChange
    <2>10. QED
      BY <2>5, <2>8, <2>9 DEF i, t
  <1>2. QED
    BY <1>1, FindInvariance, PTL
=============================================================================
