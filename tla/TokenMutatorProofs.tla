-------------------------- MODULE TokenMutatorProofs --------------------------
(***************************************************************************)
(* Proofs about TokenMutator.tla, for every set of workers, mutants, nodes *)
(* and files, and every set of I/O calls that may fail.                    *)
(***************************************************************************)
EXTENDS TokenMutator, TLAPS

(* Every entry of tokenMutations is a token.                               *)
LEMMA MutantTokens ==
    ASSUME NEW type \in MutantTypes, NEW t \in Tokens
    PROVE  MutatedToken(type, t) \in Tokens
<1>1. Tokens = {"ADD", "ADD_ASSIGN", "AND", "AND_ASSIGN", "AND_NOT", "AND_NOT_ASSIGN", "BREAK",
        "CONTINUE", "DEC", "EQL", "GEQ", "GTR", "INC", "LAND", "LEQ", "LOR", "LSS", "MUL",
        "MUL_ASSIGN", "NEQ", "OR", "OR_ASSIGN", "QUO", "QUO_ASSIGN", "REM", "REM_ASSIGN",
        "SHL", "SHL_ASSIGN", "SHR", "SHR_ASSIGN", "SUB", "SUB_ASSIGN", "XOR", "XOR_ASSIGN",
        "ASSIGN", "ILLEGAL"}
  BY DEF Tokens, TokenMutantType
<1>2. CASE t \notin DOMAIN tokenMutations[type]
  BY <1>1, <1>2 DEF MutatedToken
<1>3. CASE t \in DOMAIN tokenMutations[type]
  <2> USE <1>1, <1>3 DEF tokenMutations, MutatedToken
  <2>1. CASE type \in {"ArithmeticBase", "ConditionalsBoundary"}
    BY <2>1
  <2>2. CASE type \in {"ConditionalsNegation", "IncrementDecrement"}
    BY <2>2
  <2>3. CASE type \in {"InvertAssignments", "InvertBitwise"}
    BY <2>3
  <2>4. CASE type \in {"InvertBitwiseAssignments", "InvertLogical"}
    BY <2>4
  <2>5. CASE type \in {"InvertLoopCtrl", "InvertNegatives", "RemoveSelfAssignments"}
    BY <2>5
  <2>6. QED
    BY <2>1, <2>2, <2>3, <2>4, <2>5 DEF MutantTypes
<1>4. QED
  BY <1>2, <1>3

(* A worker that is not idle has a mutant, at a node of a file.            *)
LEMMA BusyWorker ==
    ASSUME TypeOK, OwnersInv, NEW w \in Workers, pc[w] # "idle"
    PROVE  /\ mutant[w] \in Mutants
           /\ NodeOf[mutant[w]] \in Nodes
           /\ TypeOf[mutant[w]] \in MutantTypes
           /\ File(mutant[w]) \in Files
<1>1. mutant[w] \in Mutants
  BY DEF TypeOK, OwnersInv
<1>2. QED
  BY <1>1, TokenMutatorAssumption DEF File, Files

(* Writing a file changes that file in one worker's copy.                  *)
LEMMA WrittenTree ==
    ASSUME TypeOK, NEW w \in Workers, NEW m \in Mutants, NEW content \in [Nodes -> Content]
    PROVE  /\ Written(w, m, content) \in [Workers -> [Nodes -> Content]]
           /\ \A v \in Workers, n \in Nodes : Written(w, m, content)[v][n] =
                 IF v = w /\ FileOf[n] = File(m) THEN content[n] ELSE disk[v][n]
BY DEF TypeOK, Written

(* A truncated file is a file.                                             *)
LEMMA EmptyFileTree == EmptyFile \in [Nodes -> Content]
BY DEF EmptyFile, Content

(* Leaving a mutant keeps the types, and touches one worker.               *)
LEMMA LeaveMutant ==
    ASSUME TypeOK, NEW w \in Workers, Leave(w)
    PROVE  /\ mutant' \in [Workers -> Mutants \cup {None}]
           /\ orig' \in [Workers -> [Nodes -> Content]]
           /\ actual' \in [Workers -> Tokens]
           /\ mutant'[w] = None
           /\ \A v \in Workers \ {w} :
                 mutant'[v] = mutant[v] /\ orig'[v] = orig[v] /\ actual'[v] = actual[v]
<1>1. "ILLEGAL" \in Tokens
  BY DEF Tokens
<1>2. QED
  BY <1>1, EmptyFileTree DEF TypeOK, Leave

(* Unlock takes one worker out of Apply, to its tests or to its next       *)
(* mutant.                                                                 *)
LEMMA UnlockLeavesApply ==
    ASSUME TypeOK, NEW w \in Workers, Unlock(w)
    PROVE  /\ pc'[w] = IF outcome[mutant[w]] = "applied" THEN "test" ELSE "idle"
           /\ pc'[w] = "test" => mutant'[w] = mutant[w] /\ orig'[w] = orig[w]
           /\ \A v \in Workers \ {w} :
                 /\ pc'[v] = pc[v] /\ mutant'[v] = mutant[v]
                 /\ lk'[v] = lk[v] /\ ulk'[v] = ulk[v]
                 /\ orig'[v] = orig[v] /\ actual'[v] = actual[v]
<1> USE DEF Unlock, ApplyReturns, Goto
<1>1. \A v \in Workers \ {w} : pc'[v] = pc[v] /\ lk'[v] = lk[v] /\ ulk'[v] = ulk[v]
  BY DEF TypeOK
<1>2. CASE outcome[mutant[w]] = "applied"
  BY <1>1, <1>2 DEF TypeOK
<1>3. CASE outcome[mutant[w]] # "applied"
  <2>1. pc'[w] = "idle" /\ Leave(w)
    BY <1>3 DEF TypeOK
  <2>2. QED
    BY <1>1, <1>3, <2>1, LeaveMutant
<1>4. QED
  BY <1>2, <1>3

(* Every step keeps the types.                                             *)
LEMMA TypeStep == MutatorInv /\ [Next]_vars => TypeOK'
<1> SUFFICES ASSUME MutatorInv, [Next]_vars PROVE TypeOK'
  OBVIOUS
<1>a. TypeOK /\ OwnersInv
  BY DEF MutatorInv
<1> USE DEF MutatorInv, TypeOK, PC, history
<1>1. ASSUME NEW w \in Workers, NEW m \in Mutants, Take(w, m) PROVE TypeOK'
  BY <1>1 DEF Take, Goto
<1>2. ASSUME NEW w \in Workers, LookupHit(w) PROVE TypeOK'
  <2>1. mutant[w] \in Mutants /\ File(mutant[w]) \in Files
    BY <1>2, <1>a, BusyWorker DEF LookupHit, Goto
  <2>2. QED
    BY <1>2, <2>1 DEF LookupHit, Goto
<1>3. ASSUME NEW w \in Workers, LookupMiss(w) PROVE TypeOK'
  BY <1>3 DEF LookupMiss, Goto
<1>4. ASSUME NEW w \in Workers, Create(w) PROVE TypeOK'
  <2>1. mutant[w] \in Mutants /\ File(mutant[w]) \in Files
    BY <1>4, <1>a, BusyWorker DEF Create, Goto
  <2>2. locks' \in [Files -> Workers \cup {None}] /\ lk' \in [Workers -> Workers \cup {None}]
    BY <1>4, <2>1 DEF Create
  <2>3. QED
    BY <1>4, <2>2 DEF Create, Goto
<1>5. ASSUME NEW w \in Workers, Lock(w) PROVE TypeOK'
  <2>1. mutant[w] \in Mutants /\ File(mutant[w]) \in Files
    BY <1>5, <1>a, BusyWorker DEF Lock, Goto
  <2>2. lk[w] \in Workers
    BY <1>5 DEF Lock, Goto, MutatorInv, LockInv
  <2>3. QED
    BY <1>5, <2>1, <2>2 DEF Lock, Goto
<1>6. ASSUME NEW w \in Workers, Defer(w) PROVE TypeOK'
  <2>1. mutant[w] \in Mutants /\ File(mutant[w]) \in Files
    BY <1>6, <1>a, BusyWorker DEF Defer, Goto
  <2>2. QED
    BY <1>6, <2>1 DEF Defer, Goto
<1>7. ASSUME NEW w \in Workers, Read(w) PROVE TypeOK'
  BY <1>7 DEF Read, Goto
<1>8. ASSUME NEW w \in Workers, ReadFails(w) PROVE TypeOK'
  <2>1. mutant[w] \in Mutants /\ File(mutant[w]) \in Files
    BY <1>8, <1>a, BusyWorker DEF ReadFails, Goto
  <2>2. QED
    BY <1>8, <2>1 DEF ReadFails, Goto, Fail
<1>9. ASSUME NEW w \in Workers, SetTok(w) PROVE TypeOK'
  <2>1. NodeOf[mutant[w]] \in Nodes /\ TypeOf[mutant[w]] \in MutantTypes
    BY <1>9, <1>a, BusyWorker DEF SetTok, Goto
  <2>2. MutatedToken(TypeOf[mutant[w]], tok[NodeOf[mutant[w]]]) \in Tokens
    BY <2>1, MutantTokens
  <2>3. tok' \in [Nodes -> Tokens] /\ actual' \in [Workers -> Tokens]
    BY <1>9, <2>1, <2>2 DEF SetTok
  <2>4. QED
    BY <1>9, <2>3 DEF SetTok, Goto
<1>10. ASSUME NEW w \in Workers, Write(w) PROVE TypeOK'
  <2>1. mutant[w] \in Mutants /\ File(mutant[w]) \in Files
    BY <1>10, <1>a, BusyWorker DEF Write, Goto
  <2>2. tok \in [Nodes -> Content]
    BY DEF Content
  <2>3. disk' \in [Workers -> [Nodes -> Content]]
    BY <1>10, <1>a, <2>1, <2>2, WrittenTree DEF Write
  <2>4. QED
    BY <1>10, <2>3 DEF Write, Goto
<1>11. ASSUME NEW w \in Workers, WriteFails(w) PROVE TypeOK'
  <2>1. mutant[w] \in Mutants /\ File(mutant[w]) \in Files
    BY <1>11, <1>a, BusyWorker DEF WriteFails, Goto
  <2>2. disk' \in [Workers -> [Nodes -> Content]]
    BY <1>11, <1>a, <2>1, WrittenTree, EmptyFileTree DEF WriteFails
  <2>3. spoiled' \subseteq Files /\ leftover' \subseteq Workers \X Files
    BY <1>11, <2>1 DEF WriteFails
  <2>4. QED
    BY <1>11, <2>1, <2>2, <2>3 DEF WriteFails, Goto, Fail
<1>12. ASSUME NEW w \in Workers, Restore(w) PROVE TypeOK'
  <2>1. mutant[w] \in Mutants /\ NodeOf[mutant[w]] \in Nodes
    BY <1>12, <1>a, BusyWorker DEF Restore, Goto
  <2>2. QED
    BY <1>12, <2>1 DEF Restore, Goto
<1>13. ASSUME NEW w \in Workers, Unlock(w) PROVE TypeOK'
  <2>1. /\ lk' \in [Workers -> Workers \cup {None}]
        /\ ulk' \in [Workers -> Workers \cup {None}]
        /\ held' \subseteq Files \X Workers
    BY <1>13 DEF Unlock, ApplyReturns
  <2>2. /\ mutant' \in [Workers -> Mutants \cup {None}]
        /\ orig' \in [Workers -> [Nodes -> Content]]
        /\ actual' \in [Workers -> Tokens]
        /\ pc' \in [Workers -> PC]
    BY <1>13, <1>a, LeaveMutant DEF Unlock, ApplyReturns, Goto
  <2>3. QED
    BY <1>13, <2>1, <2>2 DEF Unlock
<1>14. ASSUME NEW w \in Workers, Rollback(w) PROVE TypeOK'
  <2>1. mutant[w] \in Mutants /\ File(mutant[w]) \in Files
    BY <1>14, <1>a, BusyWorker DEF Rollback, Goto
  <2>2. disk' \in [Workers -> [Nodes -> Content]]
    BY <1>14, <1>a, <2>1, WrittenTree DEF Rollback
  <2>3. /\ mutant' \in [Workers -> Mutants \cup {None}]
        /\ orig' \in [Workers -> [Nodes -> Content]]
        /\ actual' \in [Workers -> Tokens]
    BY <1>14, <1>a, LeaveMutant DEF Rollback
  <2>4. QED
    BY <1>14, <2>2, <2>3 DEF Rollback, Goto
<1>15. ASSUME NEW w \in Workers, RollbackFails(w) PROVE TypeOK'
  <2>1. mutant[w] \in Mutants /\ File(mutant[w]) \in Files
    BY <1>15, <1>a, BusyWorker DEF RollbackFails, Goto
  <2>2. disk' \in [Workers -> [Nodes -> Content]]
    BY <1>15, <1>a, <2>1, WrittenTree, EmptyFileTree DEF RollbackFails
  <2>3. /\ mutant' \in [Workers -> Mutants \cup {None}]
        /\ orig' \in [Workers -> [Nodes -> Content]]
        /\ actual' \in [Workers -> Tokens]
    BY <1>15, <1>a, LeaveMutant DEF RollbackFails
  <2>4. leftover' \subseteq Workers \X Files
    BY <1>15, <2>1 DEF RollbackFails
  <2>5. QED
    BY <1>15, <2>2, <2>3, <2>4 DEF RollbackFails, Goto
<1>16. CASE UNCHANGED vars
  BY <1>16 DEF vars, history
<1>17. QED
  BY <1>1, <1>2, <1>3, <1>4, <1>5, <1>6, <1>7, <1>8,
     <1>9, <1>10, <1>11, <1>12, <1>13, <1>14, <1>15, <1>16 DEF Next, Worker, Apply, Terminated

(* Every step keeps the workers' mutants apart.                            *)
LEMMA OwnersStep == MutatorInv /\ [Next]_vars => OwnersInv'
<1> SUFFICES ASSUME MutatorInv, [Next]_vars PROVE OwnersInv'
  OBVIOUS
<1>a. TypeOK /\ OwnersInv
  BY DEF MutatorInv
<1>b. /\ pc \in [Workers -> PC]
       /\ mutant \in [Workers -> Mutants \cup {None}]
       /\ outcome \in [Mutants -> {"todo", "taken", "applied", "failed"}]
  BY <1>a DEF TypeOK
<1> USE TokenMutatorAssumption, <1>a, <1>b DEF OwnersInv
<1>1. ASSUME NEW w \in Workers, NEW m \in Mutants, Take(w, m) PROVE OwnersInv'
  <2>1. /\ mutant'[w] = m /\ pc'[w] = "lookup"
        /\ \A v \in Workers \ {w} : mutant'[v] = mutant[v] /\ pc'[v] = pc[v]
    BY <1>1 DEF Take, Goto
  <2>2. /\ outcome[m] = "todo" /\ outcome'[m] = "taken"
        /\ \A k \in Mutants \ {m} : outcome'[k] = outcome[k]
    BY <1>1 DEF Take
  <2>3. ASSUME NEW v \in Workers PROVE mutant[v] # m
    <3>1. mutant[v] \in Mutants => outcome[mutant[v]] # "todo"
      OBVIOUS
    <3>2. QED
      BY <2>2, <3>1
  <2>4. \A v \in Workers : (mutant[v] = None <=> pc[v] = "idle")'
    BY <2>1
  <2>5. \A v \in Workers : pc'[v] # "idle" => mutant'[v] \in Mutants
    BY <2>1
  <2>6. QED
    BY <2>1, <2>2, <2>3, <2>4, <2>5
<1>2. ASSUME NEW w \in Workers, LookupHit(w) PROVE OwnersInv'
  BY <1>2 DEF LookupHit, Goto
<1>3. ASSUME NEW w \in Workers, LookupMiss(w) PROVE OwnersInv'
  BY <1>3 DEF LookupMiss, Goto
<1>4. ASSUME NEW w \in Workers, Create(w) PROVE OwnersInv'
  BY <1>4 DEF Create, Goto
<1>5. ASSUME NEW w \in Workers, Lock(w) PROVE OwnersInv'
  BY <1>5 DEF Lock, Goto
<1>6. ASSUME NEW w \in Workers, Defer(w) PROVE OwnersInv'
  BY <1>6 DEF Defer, Goto
<1>7. ASSUME NEW w \in Workers, Read(w) PROVE OwnersInv'
  BY <1>7 DEF Read, Goto
<1>8. ASSUME NEW w \in Workers, ReadFails(w) PROVE OwnersInv'
  BY <1>8 DEF ReadFails, Goto, Fail
<1>9. ASSUME NEW w \in Workers, SetTok(w) PROVE OwnersInv'
  BY <1>9 DEF SetTok, Goto
<1>10. ASSUME NEW w \in Workers, Write(w) PROVE OwnersInv'
  BY <1>10 DEF Write, Goto
<1>11. ASSUME NEW w \in Workers, WriteFails(w) PROVE OwnersInv'
  BY <1>11 DEF WriteFails, Goto, Fail
<1>12. ASSUME NEW w \in Workers, Restore(w) PROVE OwnersInv'
  BY <1>12 DEF Restore, Goto
<1>13. ASSUME NEW w \in Workers, Unlock(w) PROVE OwnersInv'
  <2>1. outcome' = outcome /\ pc[w] = "unlock" /\ mutant[w] # None
    BY <1>13 DEF Unlock, OwnersInv
  <2>2. CASE outcome[mutant[w]] = "applied"
    <3>1. mutant' = mutant /\ pc'[w] = "test" /\ \A v \in Workers \ {w} : pc'[v] = pc[v]
      BY <1>13, <2>2 DEF Unlock, ApplyReturns, Goto
    <3>2. QED
      BY <2>1, <2>2, <3>1
  <2>3. CASE outcome[mutant[w]] # "applied"
    <3>1. /\ mutant'[w] = None /\ pc'[w] = "idle"
          /\ \A v \in Workers \ {w} : mutant'[v] = mutant[v] /\ pc'[v] = pc[v]
      BY <1>13, <2>3, <1>a, LeaveMutant DEF Unlock, ApplyReturns, Goto
    <3>2. QED
      BY <2>1, <3>1
  <2>4. QED
    BY <2>2, <2>3
<1>14. ASSUME NEW w \in Workers, Rollback(w) PROVE OwnersInv'
  <2>1. /\ mutant'[w] = None
        /\ \A v \in Workers \ {w} : mutant'[v] = mutant[v]
    BY <1>14, <1>a, LeaveMutant DEF Rollback
  <2>2. pc'[w] = "idle" /\ \A v \in Workers \ {w} : pc'[v] = pc[v]
    BY <1>14 DEF Rollback, Goto
  <2>3. QED
    BY <1>14, <2>1, <2>2 DEF Rollback
<1>15. ASSUME NEW w \in Workers, RollbackFails(w) PROVE OwnersInv'
  <2>1. /\ mutant'[w] = None
        /\ \A v \in Workers \ {w} : mutant'[v] = mutant[v]
    BY <1>15, <1>a, LeaveMutant DEF RollbackFails
  <2>2. pc'[w] = "idle" /\ \A v \in Workers \ {w} : pc'[v] = pc[v]
    BY <1>15 DEF RollbackFails, Goto
  <2>3. QED
    BY <1>15, <2>1, <2>2 DEF RollbackFails
<1>16. CASE UNCHANGED vars
  BY <1>16 DEF vars, history
<1>17. QED
  BY <1>1, <1>2, <1>3, <1>4, <1>5, <1>6, <1>7, <1>8,
     <1>9, <1>10, <1>11, <1>12, <1>13, <1>14, <1>15, <1>16 DEF Next, Worker, Apply, Terminated

(* Every step keeps the exclusion: a lock, once in the map, stays there,   *)
(* so all who wait for a file wait for the same one.                       *)
LEMMA LocksStep == MutatorInv /\ [Next]_vars => (LocksExclude /\ LockInv)'
<1> SUFFICES ASSUME MutatorInv, [Next]_vars PROVE (LocksExclude /\ LockInv)'
  OBVIOUS
<1>a. TypeOK /\ OwnersInv
  BY DEF MutatorInv
<1>b. /\ pc \in [Workers -> PC]
       /\ mutant \in [Workers -> Mutants \cup {None}]
       /\ locks \in [Files -> Workers \cup {None}]
       /\ lk \in [Workers -> Workers \cup {None}]
       /\ ulk \in [Workers -> Workers \cup {None}]
       /\ LocksExclude /\ LockInv
  BY <1>a DEF TypeOK, MutatorInv
<1> USE TokenMutatorAssumption, <1>a, <1>b DEF OwnersInv, LocksExclude, LockInv, Critical
<1>1. ASSUME NEW w \in Workers, NEW m \in Mutants, Take(w, m) PROVE (LocksExclude /\ LockInv)'
  BY <1>1 DEF Take, Goto
<1>2. ASSUME NEW w \in Workers, LookupHit(w) PROVE (LocksExclude /\ LockInv)'
  BY <1>2 DEF LookupHit, Goto
<1>3. ASSUME NEW w \in Workers, LookupMiss(w) PROVE (LocksExclude /\ LockInv)'
  BY <1>3 DEF LookupMiss, Goto
<1>4. ASSUME NEW w \in Workers, Create(w) PROVE (LocksExclude /\ LockInv)'
  <2> DEFINE f == File(mutant[w])
  <2>1. f \in Files
    BY <1>4, BusyWorker DEF Create, Goto
  <2>2. /\ \A g \in Files : locks[g] # None => locks'[g] = locks[g]
        /\ lk'[w] # None /\ lk'[w] = locks'[f]
        /\ \A v \in Workers \ {w} : lk'[v] = lk[v] /\ pc'[v] = pc[v]
        /\ pc'[w] = "lock" /\ UNCHANGED <<mutant, held, ulk>>
    BY <1>4, <2>1 DEF Create, Goto
  <2>3. ASSUME NEW v \in Workers, pc[v] # "idle" PROVE File(mutant[v]) \in Files
    BY <2>3, BusyWorker
  <2>4. LockInv'
    BY <2>2, <2>3
  <2>5. LocksExclude'
    BY <2>2
  <2>6. QED
    BY <2>4, <2>5
<1>5. ASSUME NEW w \in Workers, Lock(w) PROVE (LocksExclude /\ LockInv)'
  BY <1>5 DEF Lock, Goto
<1>6. ASSUME NEW w \in Workers, Defer(w) PROVE (LocksExclude /\ LockInv)'
  BY <1>6 DEF Defer, Goto
<1>7. ASSUME NEW w \in Workers, Read(w) PROVE (LocksExclude /\ LockInv)'
  BY <1>7 DEF Read, Goto
<1>8. ASSUME NEW w \in Workers, ReadFails(w) PROVE (LocksExclude /\ LockInv)'
  BY <1>8 DEF ReadFails, Goto, Fail
<1>9. ASSUME NEW w \in Workers, SetTok(w) PROVE (LocksExclude /\ LockInv)'
  BY <1>9 DEF SetTok, Goto
<1>10. ASSUME NEW w \in Workers, Write(w) PROVE (LocksExclude /\ LockInv)'
  BY <1>10 DEF Write, Goto
<1>11. ASSUME NEW w \in Workers, WriteFails(w) PROVE (LocksExclude /\ LockInv)'
  BY <1>11 DEF WriteFails, Goto, Fail
<1>12. ASSUME NEW w \in Workers, Restore(w) PROVE (LocksExclude /\ LockInv)'
  BY <1>12 DEF Restore, Goto
<1>13. ASSUME NEW w \in Workers, Unlock(w) PROVE (LocksExclude /\ LockInv)'
  <2>1. /\ pc'[w] \in {"idle", "test"}
        /\ \A v \in Workers \ {w} : pc'[v] = pc[v] /\ mutant'[v] = mutant[v]
                                  /\ lk'[v] = lk[v] /\ ulk'[v] = ulk[v]
    BY <1>13, UnlockLeavesApply
  <2>2. \A v \in Workers \ {w} : pc[v] \in Critical => File(mutant[v]) # File(mutant[w])
    BY <1>13 DEF Unlock
  <2>3. held' = held \ {<<File(mutant[w]), ulk[w]>>} /\ locks' = locks
    BY <1>13 DEF Unlock
  <2>4. LockInv'
    BY <2>1, <2>3
  <2>5. LocksExclude'
    BY <2>1, <2>2, <2>3
  <2>6. QED
    BY <2>4, <2>5
<1>14. ASSUME NEW w \in Workers, Rollback(w) PROVE (LocksExclude /\ LockInv)'
  <2>1. /\ mutant'[w] = None
        /\ \A v \in Workers \ {w} : mutant'[v] = mutant[v]
    BY <1>14, LeaveMutant DEF Rollback
  <2>2. pc'[w] = "idle" /\ \A v \in Workers \ {w} : pc'[v] = pc[v]
    BY <1>14 DEF Rollback, Goto
  <2>3. QED
    BY <1>14, <2>1, <2>2 DEF Rollback
<1>15. ASSUME NEW w \in Workers, RollbackFails(w) PROVE (LocksExclude /\ LockInv)'
  <2>1. /\ mutant'[w] = None
        /\ \A v \in Workers \ {w} : mutant'[v] = mutant[v]
    BY <1>15, LeaveMutant DEF RollbackFails
  <2>2. pc'[w] = "idle" /\ \A v \in Workers \ {w} : pc'[v] = pc[v]
    BY <1>15 DEF RollbackFails, Goto
  <2>3. QED
    BY <1>15, <2>1, <2>2 DEF RollbackFails
<1>16. CASE UNCHANGED vars
  BY <1>16 DEF vars, history
<1>17. QED
  BY <1>1, <1>2, <1>3, <1>4, <1>5, <1>6, <1>7, <1>8,
     <1>9, <1>10, <1>11, <1>12, <1>13, <1>14, <1>15, <1>16 DEF Next, Worker, Apply, Terminated

(* A step that touches neither locks nor mutants and moves one worker from *)
(* inside Apply to inside Apply, or not from there, leaks nothing.         *)
LEMMA MoveLeaksNothing ==
    ASSUME TypeOK, NoLockIsLeaked, NEW w \in Workers, NEW to,
           pc' = [pc EXCEPT ![w] = to], pc[w] \in Critical => to \in Critical,
           pc[w] \in Critical => mutant'[w] = mutant[w] /\ lk'[w] = lk[w],
           \A v \in Workers \ {w} : mutant'[v] = mutant[v] /\ lk'[v] = lk[v],
           held' = held
    PROVE  NoLockIsLeaked'
<1>1. pc'[w] = to /\ \A v \in Workers \ {w} : pc'[v] = pc[v]
  BY DEF TypeOK
<1>2. ASSUME NEW l \in held
      PROVE  \E v \in Workers : pc'[v] \in Critical /\ l = <<File(mutant'[v]), lk'[v]>>
  <2>1. PICK v \in Workers : pc[v] \in Critical /\ l = <<File(mutant[v]), lk[v]>>
    BY DEF NoLockIsLeaked
  <2>2. pc'[v] \in Critical /\ mutant'[v] = mutant[v] /\ lk'[v] = lk[v]
    BY <1>1, <2>1
  <2>3. QED
    BY <2>1, <2>2
<1>3. QED
  BY <1>2 DEF NoLockIsLeaked, File

(* Every step keeps the locks accounted for: Lock makes its worker the     *)
(* holder, and the deferred Unlock, which looked the lock up again, lets   *)
(* go of that very one, after an error as well.                            *)
LEMMA LeakStep == MutatorInv /\ [Next]_vars => NoLockIsLeaked'
<1> SUFFICES ASSUME MutatorInv, [Next]_vars PROVE NoLockIsLeaked'
  OBVIOUS
<1>a. TypeOK /\ OwnersInv /\ LocksExclude /\ NoLockIsLeaked
  BY DEF MutatorInv
<1>b. /\ pc \in [Workers -> PC] /\ mutant \in [Workers -> Mutants \cup {None}]
      /\ lk \in [Workers -> Workers \cup {None}]
  BY <1>a DEF TypeOK
<1> USE <1>a, <1>b
<1>1. ASSUME NEW w \in Workers,
             \/ \E m \in Mutants : Take(w, m)
             \/ LookupHit(w) \/ LookupMiss(w) \/ Create(w)
      PROVE  NoLockIsLeaked'
  BY <1>1, MoveLeaksNothing DEF Take, LookupHit, LookupMiss, Create, Goto, Critical
<1>2. ASSUME NEW w \in Workers, Defer(w) \/ Read(w) \/ ReadFails(w) \/ SetTok(w) PROVE NoLockIsLeaked'
  BY <1>2, MoveLeaksNothing DEF Defer, Read, ReadFails, SetTok, Goto, Critical
<1>3. ASSUME NEW w \in Workers, Write(w) \/ WriteFails(w) \/ Restore(w) PROVE NoLockIsLeaked'
  BY <1>3, MoveLeaksNothing DEF Write, WriteFails, Restore, Goto, Critical
<1>4. ASSUME NEW w \in Workers, Rollback(w) \/ RollbackFails(w) PROVE NoLockIsLeaked'
  <2>1. Leave(w) /\ held' = held /\ lk' = lk /\ Goto(w, "test", "idle")
    BY <1>4 DEF Rollback, RollbackFails
  <2>2. \A v \in Workers \ {w} : mutant'[v] = mutant[v]
    BY <2>1, LeaveMutant
  <2>3. pc[w] \notin Critical
    BY <2>1 DEF Goto, Critical
  <2>4. QED
    BY <2>1, <2>2, <2>3, MoveLeaksNothing DEF Goto
<1>5. ASSUME NEW w \in Workers, Lock(w) PROVE NoLockIsLeaked'
  <2>1. /\ pc[w] = "lock" /\ pc'[w] = "defer" /\ \A v \in Workers \ {w} : pc'[v] = pc[v]
        /\ mutant' = mutant /\ lk' = lk /\ held' = held \cup {<<File(mutant[w]), lk[w]>>}
    BY <1>5 DEF Lock, Goto
  <2>2. ASSUME NEW l \in held'
        PROVE  \E v \in Workers : pc'[v] \in Critical /\ l = <<File(mutant[v]), lk[v]>>
    <3>1. CASE l = <<File(mutant[w]), lk[w]>>
      BY <2>1, <3>1 DEF Critical
    <3>2. CASE l \in held
      <4>1. PICK v \in Workers : pc[v] \in Critical /\ l = <<File(mutant[v]), lk[v]>>
        BY <3>2 DEF NoLockIsLeaked
      <4>2. v # w
        BY <2>1, <4>1 DEF Critical
      <4>3. QED
        BY <2>1, <4>1, <4>2
    <3>3. QED
      BY <2>1, <2>2, <3>1, <3>2
  <2>3. QED
    BY <2>1, <2>2 DEF NoLockIsLeaked, File
<1>6. ASSUME NEW w \in Workers, Unlock(w) PROVE NoLockIsLeaked'
  <2>1. /\ pc[w] \in Critical /\ ulk[w] = lk[w]
        /\ held' = held \ {<<File(mutant[w]), lk[w]>>}
    BY <1>6 DEF Unlock, LocksExclude, Critical
  <2>2. \A v \in Workers \ {w} : pc'[v] = pc[v] /\ mutant'[v] = mutant[v] /\ lk'[v] = lk[v]
    BY <1>6, UnlockLeavesApply
  <2>3. ASSUME NEW l \in held'
        PROVE  \E v \in Workers : pc'[v] \in Critical /\ l = <<File(mutant'[v]), lk'[v]>>
    <3>1. PICK v \in Workers : pc[v] \in Critical /\ l = <<File(mutant[v]), lk[v]>>
      BY <2>1, <2>3 DEF NoLockIsLeaked
    <3>2. v # w
      BY <2>1, <2>3, <3>1
    <3>3. QED
      BY <2>2, <3>1, <3>2
  <2>4. QED
    BY <2>3 DEF NoLockIsLeaked, File
<1>7. CASE UNCHANGED vars
  BY <1>7 DEF vars, NoLockIsLeaked, File
<1>8. QED
  BY <1>1, <1>2, <1>3, <1>4, <1>5, <1>6, <1>7 DEF Next, Worker, Apply, Terminated

(* Every step keeps the AST: only the worker that has a file's lock        *)
(* changes its nodes.                                                      *)
LEMMA AstStep == MutatorInv /\ [Next]_vars => AstInv'
<1> SUFFICES ASSUME MutatorInv, [Next]_vars PROVE AstInv'
  OBVIOUS
<1>a. TypeOK /\ OwnersInv
  BY DEF MutatorInv
<1>b. /\ pc \in [Workers -> PC]
       /\ mutant \in [Workers -> Mutants \cup {None}]
       /\ tok \in [Nodes -> Tokens]
       /\ actual \in [Workers -> Tokens]
       /\ AstInv
  BY <1>a DEF TypeOK, MutatorInv
<1> USE TokenMutatorAssumption, <1>a, <1>b DEF AstInv, HasMutated, history
<1>1. ASSUME NEW w \in Workers, NEW m \in Mutants, Take(w, m) PROVE AstInv'
  BY <1>1 DEF Take, Goto
<1>2. ASSUME NEW w \in Workers, LookupHit(w) PROVE AstInv'
  BY <1>2 DEF LookupHit, Goto
<1>3. ASSUME NEW w \in Workers, LookupMiss(w) PROVE AstInv'
  BY <1>3 DEF LookupMiss, Goto
<1>4. ASSUME NEW w \in Workers, Create(w) PROVE AstInv'
  BY <1>4 DEF Create, Goto
<1>5. ASSUME NEW w \in Workers, Lock(w) PROVE AstInv'
  BY <1>5 DEF Lock, Goto
<1>6. ASSUME NEW w \in Workers, Defer(w) PROVE AstInv'
  BY <1>6 DEF Defer, Goto
<1>7. ASSUME NEW w \in Workers, Read(w) PROVE AstInv'
  BY <1>7 DEF Read, Goto
<1>8. ASSUME NEW w \in Workers, ReadFails(w) PROVE AstInv'
  BY <1>8 DEF ReadFails, Goto, Fail
<1>9. ASSUME NEW w \in Workers, SetTok(w) PROVE AstInv'
  <2> DEFINE k == NodeOf[mutant[w]]
  <2>1. mutant[w] \in Mutants /\ k \in Nodes
    BY <1>9, BusyWorker DEF SetTok, Goto
  <2>2. \A v \in Workers : HasMutated(v, k) => File(mutant[v]) = File(mutant[w])
    BY DEF File
  <2>3. \A v \in Workers : ~HasMutated(v, k)
    BY <1>9, <2>2 DEF SetTok, Goto, MutatorInv, LocksExclude, Critical
  <2>4. FileOf[k] \notin spoiled => tok[k] = OrigTok[k]
    BY <2>1, <2>3
  <2>5. /\ tok'[k] = MutatedToken(TypeOf[mutant[w]], tok[k]) /\ actual'[w] = tok[k]
        /\ \A n \in Nodes \ {k} : tok'[n] = tok[n]
        /\ \A v \in Workers \ {w} : actual'[v] = actual[v] /\ pc'[v] = pc[v]
        /\ pc[w] = "set" /\ pc'[w] = "write" /\ mutant' = mutant /\ spoiled' = spoiled
    BY <1>9, <2>1 DEF SetTok, Goto
  <2>6. QED
    BY <2>3, <2>4, <2>5
<1>10. ASSUME NEW w \in Workers, Write(w) PROVE AstInv'
  BY <1>10 DEF Write, Goto
<1>11. ASSUME NEW w \in Workers, WriteFails(w) PROVE AstInv'
  <2> DEFINE f == File(mutant[w])
  <2>1. /\ tok' = tok /\ actual' = actual /\ mutant' = mutant /\ spoiled' = spoiled \cup {f}
        /\ pc'[w] = "unlock" /\ \A v \in Workers \ {w} : pc'[v] = pc[v]
    BY <1>11 DEF WriteFails, Goto
  <2>2. \A n \in Nodes : FileOf[n] # f => ~HasMutated(w, n)
    BY DEF File
  <2>3. QED
    BY <2>1, <2>2
<1>12. ASSUME NEW w \in Workers, Restore(w) PROVE AstInv'
  <2> DEFINE k == NodeOf[mutant[w]]
  <2>1. mutant[w] \in Mutants /\ k \in Nodes
    BY <1>12, BusyWorker DEF Restore, Goto
  <2>2. \A v \in Workers : HasMutated(v, k) => File(mutant[v]) = File(mutant[w])
    BY DEF File
  <2>3. \A v \in Workers \ {w} : ~HasMutated(v, k)
    BY <1>12, <2>2 DEF Restore, Goto, MutatorInv, LocksExclude, Critical
  <2>4. FileOf[k] \notin spoiled => actual[w] = OrigTok[k]
    BY <1>12, <2>1 DEF Restore, Goto
  <2>5. /\ tok'[k] = actual[w] /\ \A n \in Nodes \ {k} : tok'[n] = tok[n]
        /\ \A v \in Workers \ {w} : pc'[v] = pc[v]
        /\ pc[w] = "restore" /\ pc'[w] = "unlock"
        /\ UNCHANGED <<mutant, actual, spoiled>>
    BY <1>12, <2>1 DEF Restore, Goto
  <2>6. QED
    BY <2>3, <2>4, <2>5
<1>13. ASSUME NEW w \in Workers, Unlock(w) PROVE AstInv'
  <2>1. /\ pc'[w] \in {"idle", "test"}
        /\ \A v \in Workers \ {w} :
              pc'[v] = pc[v] /\ mutant'[v] = mutant[v] /\ actual'[v] = actual[v]
    BY <1>13, UnlockLeavesApply
  <2>2. QED
    BY <1>13, <2>1 DEF Unlock
<1>14. ASSUME NEW w \in Workers, Rollback(w) PROVE AstInv'
  <2>1. pc'[w] = "idle" /\ \A v \in Workers \ {w} : pc'[v] = pc[v]
    BY <1>14 DEF Rollback, Goto
  <2>2. \A v \in Workers \ {w} : mutant'[v] = mutant[v] /\ actual'[v] = actual[v]
    BY <1>14, LeaveMutant DEF Rollback
  <2>3. QED
    BY <1>14, <2>1, <2>2 DEF Rollback, Goto
<1>15. ASSUME NEW w \in Workers, RollbackFails(w) PROVE AstInv'
  <2>1. pc'[w] = "idle" /\ \A v \in Workers \ {w} : pc'[v] = pc[v]
    BY <1>15 DEF RollbackFails, Goto
  <2>2. \A v \in Workers \ {w} : mutant'[v] = mutant[v] /\ actual'[v] = actual[v]
    BY <1>15, LeaveMutant DEF RollbackFails
  <2>3. QED
    BY <1>15, <2>1, <2>2 DEF RollbackFails, Goto
<1>16. CASE UNCHANGED vars
  BY <1>16 DEF vars, history
<1>17. QED
  BY <1>1, <1>2, <1>3, <1>4, <1>5, <1>6, <1>7, <1>8,
     <1>9, <1>10, <1>11, <1>12, <1>13, <1>14, <1>15, <1>16 DEF Next, Worker, Apply, Terminated

(* What writing the mutated file does to the disks.                        *)
LEMMA WriteTree ==
    ASSUME TypeOK, OwnersInv, NEW w \in Workers, Write(w)
    PROVE  \A v \in Workers, n \in Nodes : disk'[v][n] =
              IF v = w /\ FileOf[n] = File(mutant[w]) THEN tok[n] ELSE disk[v][n]
<1>1. mutant[w] \in Mutants
  BY BusyWorker DEF Write, Goto
<1>2. tok \in [Nodes -> Content]
  BY DEF TypeOK, Content
<1>3. disk' = Written(w, mutant[w], tok)
  BY DEF Write
<1>4. QED
  BY <1>1, <1>2, <1>3, WrittenTree

(* Rollback puts back the one file, as the worker read it.                 *)
LEMMA RollbackTree ==
    ASSUME TypeOK, OwnersInv, NEW w \in Workers, Rollback(w)
    PROVE  \A v \in Workers, n \in Nodes : disk'[v][n] =
              IF v = w /\ FileOf[n] = File(mutant[w]) THEN orig[w][n] ELSE disk[v][n]
<1>1. mutant[w] \in Mutants
  BY BusyWorker DEF Rollback, Goto
<1>2. orig[w] \in [Nodes -> Content]
  BY DEF TypeOK
<1>3. disk' = Written(w, mutant[w], orig[w])
  BY DEF Rollback
<1>4. QED
  BY <1>1, <1>2, <1>3, WrittenTree

(* A write that fails, of Apply or of Rollback, harms one file at most.    *)
LEMMA FailedWriteTree ==
    ASSUME TypeOK, OwnersInv, NEW w \in Workers, WriteFails(w) \/ RollbackFails(w)
    PROVE  \A v \in Workers, n \in Nodes :
              (v = w /\ FileOf[n] = File(mutant[w])) \/ disk'[v][n] = disk[v][n]
<1>1. mutant[w] \in Mutants
  BY BusyWorker DEF WriteFails, RollbackFails, Goto
<1>2. disk' \in {disk, Written(w, mutant[w], EmptyFile)}
  BY DEF WriteFails, RollbackFails
<1>3. \A v \in Workers, n \in Nodes :
         (v = w /\ FileOf[n] = File(mutant[w])) \/ Written(w, mutant[w], EmptyFile)[v][n] = disk[v][n]
  BY <1>1, WrittenTree, EmptyFileTree
<1>4. QED
  BY <1>2, <1>3

(* A worker inside Apply is the only one whose mutation is in the AST of   *)
(* its file.                                                               *)
LEMMA AloneInFile ==
    ASSUME LocksExclude, NEW v \in Workers, NEW w \in Workers, NEW n \in Nodes,
           HasMutated(v, n), pc[w] \in Critical, File(mutant[w]) = FileOf[n]
    PROVE  v = w
<1>1. pc[v] \in Critical /\ File(mutant[v]) = File(mutant[w])
  BY DEF HasMutated, Critical, File
<1>2. QED
  BY <1>1 DEF LocksExclude

(* What a worker is about to print of its file: its own mutation only.     *)
LEMMA PrintedTokens ==
    ASSUME MutatorInv, NEW w \in Workers, pc[w] = "write", NEW n \in Nodes,
           FileOf[n] = File(mutant[w]), FileOf[n] \notin spoiled
    PROVE  tok[n] = OnlyMutated(mutant[w])[n]
<1> DEFINE m == mutant[w]
<1>1. m \in Mutants /\ NodeOf[m] \in Nodes
  BY BusyWorker DEF MutatorInv
<1>2. CASE n = NodeOf[m]
  <2>1. tok[n] = MutatedToken(TypeOf[m], OrigTok[n])
    BY <1>2 DEF MutatorInv, AstInv, HasMutated
  <2>2. QED
    BY <1>1, <1>2, <2>1, TokenMutatorAssumption DEF OnlyMutated
<1>3. CASE n # NodeOf[m]
  <2>1. ASSUME NEW v \in Workers, HasMutated(v, n) PROVE FALSE
    <3>1. v = w
      BY <2>1, AloneInFile DEF MutatorInv, Critical
    <3>2. QED
      BY <1>3, <2>1, <3>1 DEF HasMutated
  <2>2. tok[n] = OrigTok[n]
    BY <2>1 DEF MutatorInv, AstInv
  <2>3. QED
    BY <1>1, <1>3, <2>2, TokenMutatorAssumption DEF OnlyMutated
<1>4. QED
  BY <1>2, <1>3

(* Every step keeps the disks: what is printed has the worker's own        *)
(* mutation only, and what is rolled back is what was read before it.      *)
LEMMA DiskStep == MutatorInv /\ [Next]_vars => DiskInv'
<1> SUFFICES ASSUME MutatorInv, [Next]_vars PROVE DiskInv'
  OBVIOUS
<1>a. TypeOK /\ OwnersInv
  BY DEF MutatorInv
<1>b. /\ pc \in [Workers -> PC]
       /\ mutant \in [Workers -> Mutants \cup {None}]
       /\ outcome \in [Mutants -> {"todo", "taken", "applied", "failed"}]
       /\ disk \in [Workers -> [Nodes -> Content]]
       /\ orig \in [Workers -> [Nodes -> Content]]
       /\ DiskInv
  BY <1>a DEF TypeOK, MutatorInv
<1> USE TokenMutatorAssumption, <1>a, <1>b DEF DiskInv, HasWritten, OwnersInv, history
<1>1. ASSUME NEW w \in Workers, NEW m \in Mutants, Take(w, m) PROVE DiskInv'
  BY <1>1 DEF Take, Goto
<1>2. ASSUME NEW w \in Workers, LookupHit(w) PROVE DiskInv'
  BY <1>2 DEF LookupHit, Goto
<1>3. ASSUME NEW w \in Workers, LookupMiss(w) PROVE DiskInv'
  BY <1>3 DEF LookupMiss, Goto
<1>4. ASSUME NEW w \in Workers, Create(w) PROVE DiskInv'
  BY <1>4 DEF Create, Goto
<1>5. ASSUME NEW w \in Workers, Lock(w) PROVE DiskInv'
  BY <1>5 DEF Lock, Goto
<1>6. ASSUME NEW w \in Workers, Defer(w) PROVE DiskInv'
  BY <1>6 DEF Defer, Goto
<1>7. ASSUME NEW w \in Workers, Read(w) PROVE DiskInv'
  BY <1>7 DEF Read, Goto
<1>8. ASSUME NEW w \in Workers, ReadFails(w) PROVE DiskInv'
  BY <1>8 DEF ReadFails, Goto, Fail
<1>9. ASSUME NEW w \in Workers, SetTok(w) PROVE DiskInv'
  BY <1>9 DEF SetTok, Goto
<1>10. ASSUME NEW w \in Workers, Write(w) PROVE DiskInv'
  <2> DEFINE m == mutant[w]
  <2>1. m \in Mutants /\ NodeOf[m] \in Nodes
    BY <1>10, BusyWorker DEF Write, Goto
  <2>2. \A n \in Nodes : FileOf[n] = File(m) /\ FileOf[n] \notin spoiled =>
           tok[n] = OnlyMutated(m)[n]
    BY <1>10, PrintedTokens DEF Write, Goto
  <2>4. \A v \in Workers, n \in Nodes : disk'[v][n] =
          IF v = w /\ FileOf[n] = File(m) THEN tok[n] ELSE disk[v][n]
    BY <1>10, WriteTree
  <2>5. /\ pc[w] = "write" /\ pc'[w] = "restore" /\ \A v \in Workers \ {w} : pc'[v] = pc[v]
        /\ UNCHANGED <<mutant, orig, outcome, spoiled, leftover>>
    BY <1>10 DEF Write, Goto
  <2>6. QED
    BY <2>2, <2>4, <2>5
<1>11. ASSUME NEW w \in Workers, WriteFails(w) PROVE DiskInv'
  <2> DEFINE m == mutant[w]
  <2>1. m \in Mutants
    BY <1>11, BusyWorker DEF WriteFails, Goto
  <2>2. \A v \in Workers, n \in Nodes : (v = w /\ FileOf[n] = File(m)) \/ disk'[v][n] = disk[v][n]
    BY <1>11, FailedWriteTree
  <2>3. /\ pc[w] = "write" /\ pc'[w] = "unlock" /\ \A v \in Workers \ {w} : pc'[v] = pc[v]
        /\ \A k \in Mutants \ {m} : outcome'[k] = outcome[k]
        /\ UNCHANGED <<mutant, orig>>
        /\ spoiled' = spoiled \cup {File(m)} /\ leftover' = leftover \cup {<<w, File(m)>>}
    BY <1>11, <2>1 DEF WriteFails, Goto, Fail
  <2>4. QED
    BY <2>1, <2>2, <2>3
<1>12. ASSUME NEW w \in Workers, Restore(w) PROVE DiskInv'
  BY <1>12 DEF Restore, Goto
<1>13. ASSUME NEW w \in Workers, Unlock(w) PROVE DiskInv'
  <2>1. /\ pc'[w] = IF outcome[mutant[w]] = "applied" THEN "test" ELSE "idle"
        /\ pc'[w] = "test" => mutant'[w] = mutant[w] /\ orig'[w] = orig[w]
        /\ \A v \in Workers \ {w} :
              pc'[v] = pc[v] /\ mutant'[v] = mutant[v] /\ orig'[v] = orig[v]
    BY <1>13, UnlockLeavesApply
  <2>2. pc[w] = "unlock" /\ UNCHANGED <<disk, outcome, spoiled, leftover>>
    BY <1>13 DEF Unlock
  <2>3. \A v \in Workers \ {w} : HasWritten(v)' <=> HasWritten(v)
    BY <2>1, <2>2
  <2>4. /\ pc'[w] = "test" => HasWritten(w)
        /\ pc'[w] = "idle" => ~HasWritten(w)
        /\ pc'[w] \in {"idle", "test"}
    BY <2>1, <2>2
  <2>5. QED
    BY <2>1, <2>2, <2>3, <2>4
<1>14. ASSUME NEW w \in Workers, Rollback(w) PROVE DiskInv'
  <2> DEFINE m == mutant[w]
  <2>1. m \in Mutants
    BY <1>14, BusyWorker DEF Rollback, Goto
  <2>2. \A v \in Workers, n \in Nodes : disk'[v][n] =
          IF v = w /\ FileOf[n] = File(m) THEN orig[w][n] ELSE disk[v][n]
    BY <1>14, RollbackTree
  <2>3. \A v \in Workers \ {w} : mutant'[v] = mutant[v] /\ orig'[v] = orig[v]
    BY <1>14, LeaveMutant DEF Rollback
  <2>4. /\ pc[w] = "test" /\ pc'[w] = "idle" /\ \A v \in Workers \ {w} : pc'[v] = pc[v]
        /\ UNCHANGED <<outcome, spoiled, leftover>>
    BY <1>14 DEF Rollback, Goto
  <2>5. QED
    BY <2>2, <2>3, <2>4
<1>15. ASSUME NEW w \in Workers, RollbackFails(w) PROVE DiskInv'
  <2> DEFINE m == mutant[w]
  <2>1. m \in Mutants
    BY <1>15, BusyWorker DEF RollbackFails, Goto
  <2>2. \A v \in Workers, n \in Nodes : (v = w /\ FileOf[n] = File(m)) \/ disk'[v][n] = disk[v][n]
    BY <1>15, FailedWriteTree
  <2>3. \A v \in Workers \ {w} : mutant'[v] = mutant[v] /\ orig'[v] = orig[v]
    BY <1>15, LeaveMutant DEF RollbackFails
  <2>4. /\ pc[w] = "test" /\ pc'[w] = "idle" /\ \A v \in Workers \ {w} : pc'[v] = pc[v]
        /\ leftover' = leftover \cup {<<w, File(m)>>}
        /\ UNCHANGED <<outcome, spoiled>>
    BY <1>15 DEF RollbackFails, Goto
  <2>5. QED
    BY <2>2, <2>3, <2>4
<1>16. CASE UNCHANGED vars
  BY <1>16 DEF vars, history
<1>17. QED
  BY <1>1, <1>2, <1>3, <1>4, <1>5, <1>6, <1>7, <1>8,
     <1>9, <1>10, <1>11, <1>12, <1>13, <1>14, <1>15, <1>16 DEF Next, Worker, Apply, Terminated

(* The sources as they were copied and parsed.                             *)
LEMMA InitMutatorInv == Init => MutatorInv
<1> SUFFICES ASSUME Init PROVE MutatorInv
  OBVIOUS
<1> USE TokenMutatorAssumption DEF Init
<1>1. "ILLEGAL" \in Tokens
  BY DEF Tokens
<1>2. TypeOK
  BY <1>1, EmptyFileTree DEF TypeOK, PC, Content
<1>3. OwnersInv
  BY DEF OwnersInv
<1>4. LocksExclude /\ NoLockIsLeaked /\ LockInv
  BY DEF LocksExclude, NoLockIsLeaked, LockInv, Critical
<1>5. AstInv
  BY DEF AstInv, HasMutated
<1>6. DiskInv
  BY DEF DiskInv, HasWritten
<1>7. QED
  BY <1>2, <1>3, <1>4, <1>5, <1>6 DEF MutatorInv

(* The inductive invariant holds in every run: Apply and Rollback by any   *)
(* number of workers, with any failures of reading and writing.            *)
THEOREM MutatorInvariance == Spec => []MutatorInv
<1>1. MutatorInv /\ [Next]_vars => MutatorInv'
  BY TypeStep, OwnersStep, LocksStep, LeakStep, AstStep, DiskStep DEF MutatorInv
<1>2. QED
  BY InitMutatorInv, <1>1, PTL DEF Spec

(* The locks that fileLock makes on demand exclude: no two workers are in  *)
(* Apply on one file, and each unlocks the lock it locked.                 *)
THEOREM ApplyExcludes == Spec => []LocksExclude
<1>1. MutatorInv => LocksExclude
  BY DEF MutatorInv
<1>2. QED
  BY <1>1, MutatorInvariance, PTL

(* Whoever waits for a file's lock waits for a worker inside Apply, which  *)
(* waits for nobody: no failure of reading or writing leaves a lock behind *)
(* that the other mutants of the file would wait for in vain.              *)
THEOREM ApplyLeaksNoLock == Spec => []NoLockIsLeaked
<1>1. MutatorInv => NoLockIsLeaked
  BY DEF MutatorInv
<1>2. QED
  BY <1>1, MutatorInvariance, PTL

(* Whenever a file's lock is free its AST is the source, unless a write of *)
(* the file has failed.                                                    *)
THEOREM AstIntact == Spec => []AstIntactWhenUnlocked
<1>1. MutatorInv => AstIntactWhenUnlocked
  <2> SUFFICES ASSUME MutatorInv, NEW n \in Nodes, FileOf[n] \notin spoiled,
                      \A l \in held : l[1] # FileOf[n]
               PROVE  tok[n] = OrigTok[n]
    BY DEF AstIntactWhenUnlocked
  <2>1. ASSUME NEW w \in Workers, HasMutated(w, n) PROVE FALSE
    <3>1. <<FileOf[n], lk[w]>> \in held
      BY <2>1 DEF MutatorInv, LocksExclude, Critical, HasMutated, File
    <3>2. QED
      BY <3>1
  <2>2. QED
    BY <2>1 DEF MutatorInv, AstInv
<1>2. QED
  BY <1>1, MutatorInvariance, PTL

(* The tests of a mutant see its mutation and no other, in every file      *)
(* whose AST was always written and that the worker always rolled back.    *)
THEOREM TestsSeeOwnMutation == Spec => []TestsOnlyOwnMutation
<1>1. MutatorInv => TestsOnlyOwnMutation
  <2> SUFFICES ASSUME MutatorInv, NEW w \in Workers, pc[w] = "test", NEW n \in Nodes,
                      FileOf[n] \notin spoiled, <<w, FileOf[n]>> \notin leftover
               PROVE  disk[w][n] = OnlyMutated(mutant[w])[n]
    BY DEF TestsOnlyOwnMutation
  <2>1. mutant[w] \in Mutants
    BY BusyWorker DEF MutatorInv
  <2>2. CASE File(mutant[w]) = FileOf[n]
    BY <2>2 DEF MutatorInv, DiskInv, HasWritten
  <2>3. CASE File(mutant[w]) # FileOf[n]
    <3>1. disk[w][n] = OrigTok[n]
      BY <2>3 DEF MutatorInv, DiskInv
    <3>2. n # NodeOf[mutant[w]]
      BY <2>3 DEF File
    <3>3. QED
      BY <2>1, <3>1, <3>2, TokenMutatorAssumption DEF OnlyMutated
  <2>4. QED
    BY <2>2, <2>3
<1>2. QED
  BY <1>1, MutatorInvariance, PTL

(* Between mutants a worker's copy is the source, but for files that it    *)
(* failed to write or to roll back.                                        *)
THEOREM WorkdirPristine == Spec => []WorkdirPristineWhenIdle
<1>1. MutatorInv => WorkdirPristineWhenIdle
  BY DEF MutatorInv, DiskInv, WorkdirPristineWhenIdle
<1>2. QED
  BY <1>1, MutatorInvariance, PTL

(* When nothing but the reading of a file may fail, every test sees the    *)
(* source with exactly one mutation: what the comment on TokenMutator      *)
(* promises, and what the failing write of run mutator_writefault breaks.  *)
THEOREM ExactlyOneMutation ==
    Faults \cap {"open", "write", "rollback"} = {} => (Spec => []TestsExactlyOneMutation)
<1> SUFFICES ASSUME Faults \cap {"open", "write", "rollback"} = {}
             PROVE  Spec => []TestsExactlyOneMutation
  OBVIOUS
<1> DEFINE Unharmed == spoiled = {} /\ leftover = {}
<1>1. Init => Unharmed
  BY DEF Init
<1>2. Unharmed /\ [Next]_vars => Unharmed'
  <2> SUFFICES ASSUME Unharmed, [Next]_vars PROVE Unharmed'
    OBVIOUS
  <2>1. ASSUME NEW w \in Workers, Worker(w) PROVE UNCHANGED <<spoiled, leftover>>
    <3>1. ~WriteFails(w) /\ ~RollbackFails(w)
      BY DEF WriteFails, RollbackFails
    <3>2. CASE \E m \in Mutants : Take(w, m)
      BY <3>2 DEF Take, history
    <3>3. CASE Apply(w)
      BY <3>1, <3>3 DEF Apply, LookupHit, LookupMiss, Create, Defer, Read, ReadFails, SetTok,
        Write, Restore, Unlock, history
    <3>4. CASE Lock(w) \/ Rollback(w)
      BY <3>4 DEF Lock, Rollback, history
    <3>5. QED
      BY <2>1, <3>1, <3>2, <3>3, <3>4 DEF Worker
  <2>2. QED
    BY <2>1 DEF Next, Terminated, vars, history
<1>3. MutatorInv /\ TestsOnlyOwnMutation /\ Unharmed => TestsExactlyOneMutation
  <2> SUFFICES ASSUME MutatorInv, TestsOnlyOwnMutation, Unharmed,
                      NEW w \in Workers, pc[w] = "test"
               PROVE  disk[w] = OnlyMutated(mutant[w])
    BY DEF TestsExactlyOneMutation
  <2>1. disk[w] \in [Nodes -> Content]
    BY DEF MutatorInv, TypeOK
  <2>2. DOMAIN OnlyMutated(mutant[w]) = Nodes
    BY TokenMutatorAssumption DEF OnlyMutated
  <2>3. \A n \in Nodes : disk[w][n] = OnlyMutated(mutant[w])[n]
    BY DEF TestsOnlyOwnMutation
  <2>4. OnlyMutated(mutant[w]) = [n \in Nodes |-> OnlyMutated(mutant[w])[n]]
    BY <2>2 DEF OnlyMutated
  <2>5. QED
    BY <2>1, <2>3, <2>4
<1>4. QED
  BY <1>1, <1>2, <1>3, MutatorInvariance, TestsSeeOwnMutation, PTL DEF Spec
===============================================================================
