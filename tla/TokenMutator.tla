---------------------------- MODULE TokenMutator ----------------------------
(***************************************************************************)
(* TokenMutator.Apply and Rollback as the workers run them concurrently:   *)
(* every worker has its own copy of the source tree on disk, but all share *)
(* one AST per file, which Apply mutates, prints and puts back under a     *)
(* lock per file.  The locks live in a map guarded by an RWMutex and are   *)
(* made on demand with a double check (fileLock).                          *)
(*                                                                         *)
(* A file is the tokens of its nodes; a file that a failed write left      *)
(* truncated has Torn tokens.                                              *)
(***************************************************************************)
EXTENDS Mappings, FiniteSets

CONSTANTS
    Workers,
    Mutants,
    Nodes,     \* the token nodes of all files
    NodeOf,    \* the node a mutant mutates
    TypeOf,    \* and its type
    FileOf,    \* the file of a node
    OrigTok,   \* the token of a node in the source code
    Faults,    \* I/O calls that may fail, among "read", "open", "write", "rollback"
    None

Files == {FileOf[n] : n \in Nodes}
File(m) == FileOf[NodeOf[m]]
Torn == "torn"
Content == Tokens \cup {Torn}

(* No bytes at all: a file cut off by a failed write, and Go's nil []byte. *)
EmptyFile == [n \in Nodes |-> Torn]

ASSUME TokenMutatorAssumption ==
    /\ NodeOf \in [Mutants -> Nodes]
    /\ TypeOf \in [Mutants -> MutantTypes]
    /\ DOMAIN FileOf = Nodes
    /\ OrigTok \in [Nodes -> Tokens]
    /\ Faults \subseteq {"read", "open", "write", "rollback"}
    /\ None \notin Mutants \cup Workers

VARIABLES
    tok,      \* the shared AST: the token of each node
    disk,     \* each worker's copy of the source tree
    locks,    \* the lock cache: the worker that made a file's lock, or None
    held,     \* the locks that are locked, as <<file, maker>>
    pc,       \* where each worker is in Apply, the tests and Rollback
    mutant,   \* the mutant it works on, None when idle
    lk, ulk,  \* the lock it locked, and the one its deferred Unlock unlocks
    orig,     \* m.origFile (the tokens of the other files are not used)
    actual,   \* m.actualToken
    outcome,  \* of each mutant: "todo", "taken", "applied", "failed"
    spoiled,  \* history: files whose AST Apply could not write
    leftover  \* history: <<worker, file>> not written, or not rolled back

history == <<spoiled, leftover>>
vars == <<tok, disk, locks, held, pc, mutant, lk, ulk, orig, actual, outcome, history>>

PC == {"idle", "lookup", "create", "lock", "defer", "read", "set", "write", "restore",
       "unlock", "test"}

TypeOK ==
    /\ tok \in [Nodes -> Tokens]
    /\ disk \in [Workers -> [Nodes -> Content]]
    /\ locks \in [Files -> Workers \cup {None}]
    /\ held \subseteq Files \X Workers
    /\ pc \in [Workers -> PC]
    /\ mutant \in [Workers -> Mutants \cup {None}]
    /\ lk \in [Workers -> Workers \cup {None}]
    /\ ulk \in [Workers -> Workers \cup {None}]
    /\ orig \in [Workers -> [Nodes -> Content]]
    /\ actual \in [Workers -> Tokens]
    /\ outcome \in [Mutants -> {"todo", "taken", "applied", "failed"}]
    /\ spoiled \subseteq Files /\ leftover \subseteq Workers \X Files

(* The dealer copied the sources for each worker; the AST was parsed from  *)
(* the same sources.                                                       *)
Init ==
    /\ tok = OrigTok
    /\ disk = [w \in Workers |-> OrigTok]
    /\ locks = [f \in Files |-> None]
    /\ held = {}
    /\ pc = [w \in Workers |-> "idle"]
    /\ mutant = [w \in Workers |-> None]
    /\ lk = [w \in Workers |-> None]
    /\ ulk = [w \in Workers |-> None]
    /\ orig = [w \in Workers |-> EmptyFile]
    /\ actual = [w \in Workers |-> "ILLEGAL"]
    /\ outcome = [m \in Mutants |-> "todo"]
    /\ spoiled = {} /\ leftover = {}

Goto(w, from, to) == pc[w] = from /\ pc' = [pc EXCEPT ![w] = to]

(* The worker is done with its mutant, whose fields nobody reads again.    *)
Leave(w) ==
    /\ mutant' = [mutant EXCEPT ![w] = None]
    /\ orig' = [orig EXCEPT ![w] = EmptyFile]
    /\ actual' = [actual EXCEPT ![w] = "ILLEGAL"]

-----------------------------------------------------------------------------
(* mutantExecutor.Start has SetWorkdir done and calls Apply.               *)
Take(w, m) ==
    /\ outcome[m] = "todo"
    /\ Goto(w, "idle", "lookup")
    /\ mutant' = [mutant EXCEPT ![w] = m]
    /\ outcome' = [outcome EXCEPT ![m] = "taken"]
    /\ UNCHANGED <<tok, disk, locks, held, lk, ulk, orig, actual, history>>

(* fileLock, cachedLock finds the lock.                                    *)
LookupHit(w) ==
    /\ Goto(w, "lookup", "lock")
    /\ locks[File(mutant[w])] # None
    /\ lk' = [lk EXCEPT ![w] = locks[File(mutant[w])]]
    /\ UNCHANGED <<tok, disk, locks, held, mutant, ulk, orig, actual, outcome, history>>

(* fileLock, cachedLock does not.                                          *)
LookupMiss(w) ==
    /\ Goto(w, "lookup", "create")
    /\ locks[File(mutant[w])] = None
    /\ UNCHANGED <<tok, disk, locks, held, mutant, lk, ulk, orig, actual, outcome, history>>

(* Faulty variant: no second look at the map under the write lock.         *)
CreateUnchecked(w) ==
    /\ Goto(w, "create", "lock")
    /\ locks' = [locks EXCEPT ![File(mutant[w])] = w]
    /\ lk' = [lk EXCEPT ![w] = w]
    /\ UNCHANGED <<tok, disk, held, mutant, ulk, orig, actual, outcome, history>>

(* fileLock, under mutex.Lock(): look again, and make the lock if it is    *)
(* still not there.                                                        *)
Create(w) ==
    LET f    == File(mutant[w])
        lock == IF locks[f] = None THEN w ELSE locks[f]
    IN  /\ Goto(w, "create", "lock")
        /\ locks' = [locks EXCEPT ![f] = lock]
        /\ lk' = [lk EXCEPT ![w] = lock]
        /\ UNCHANGED <<tok, disk, held, mutant, ulk, orig, actual, outcome, history>>

(* Faulty variant: no lock.                                                *)
LockNot(w) ==
    /\ Goto(w, "lock", "defer")
    /\ UNCHANGED <<tok, disk, locks, held, mutant, lk, ulk, orig, actual, outcome, history>>

(* fileLock(..).Lock()                                                     *)
Lock(w) ==
    LET l == <<File(mutant[w]), lk[w]>>
    IN  /\ Goto(w, "lock", "defer")
        /\ l \notin held
        /\ held' = held \cup {l}
        /\ UNCHANGED <<tok, disk, locks, mutant, lk, ulk, orig, actual, outcome, history>>

(* defer fileLock(..).Unlock(): the lock is looked up again, now.          *)
Defer(w) ==
    /\ Goto(w, "defer", "read")
    /\ ulk' = [ulk EXCEPT ![w] = locks[File(mutant[w])]]
    /\ UNCHANGED <<tok, disk, locks, held, mutant, lk, orig, actual, outcome, history>>

Read(w) ==
    /\ Goto(w, "read", "set")
    /\ orig' = [orig EXCEPT ![w] = disk[w]]
    /\ UNCHANGED <<tok, disk, locks, held, mutant, lk, ulk, actual, outcome, history>>

Fail(m) == outcome' = [outcome EXCEPT ![m] = "failed"]

ReadFails(w) ==
    /\ "read" \in Faults
    /\ Goto(w, "read", "unlock")
    /\ Fail(mutant[w])
    /\ UNCHANGED <<tok, disk, locks, held, mutant, lk, ulk, orig, actual, history>>

(* SetTok on the shared node.                                              *)
SetTok(w) ==
    LET n == NodeOf[mutant[w]]
    IN  /\ Goto(w, "set", "write")
        /\ actual' = [actual EXCEPT ![w] = tok[n]]
        /\ tok' = [tok EXCEPT ![n] = MutatedToken(TypeOf[mutant[w]], tok[n])]
        /\ UNCHANGED <<disk, locks, held, mutant, lk, ulk, orig, outcome, history>>

(* Worker w's source tree with the given contents for mutant m's file.     *)
Written(w, m, content) ==
    [disk EXCEPT ![w] = [n \in Nodes |-> IF FileOf[n] = File(m) THEN content[n] ELSE disk[w][n]]]

(* writeMutatedFile prints the whole AST of the file and writes it.        *)
Write(w) ==
    /\ Goto(w, "write", "restore")
    /\ disk' = Written(w, mutant[w], tok)
    /\ UNCHANGED <<tok, locks, held, mutant, lk, ulk, orig, actual, outcome, history>>

(* An error from Fprint, or from opening the file, leaves the file alone;  *)
(* a failed write leaves it truncated.  Either way Apply returns with the  *)
(* mutated token still in the AST.                                         *)
WriteFails(w) ==
    /\ Goto(w, "write", "unlock")
    /\ \/ "open" \in Faults /\ disk' = disk
       \/ "write" \in Faults /\ disk' = Written(w, mutant[w], EmptyFile)
    /\ Fail(mutant[w])
    /\ spoiled' = spoiled \cup {File(mutant[w])}
    /\ leftover' = leftover \cup {<<w, File(mutant[w])>>}
    /\ UNCHANGED <<tok, locks, held, mutant, lk, ulk, orig, actual>>

(* Faulty variant: the token is not put back.                              *)
RestoreNot(w) ==
    /\ Goto(w, "restore", "unlock")
    /\ outcome' = [outcome EXCEPT ![mutant[w]] = "applied"]
    /\ UNCHANGED <<tok, disk, locks, held, mutant, lk, ulk, orig, actual, history>>

(* "Rollback here to facilitate the atomicity of the operation."           *)
Restore(w) ==
    /\ Goto(w, "restore", "unlock")
    /\ tok' = [tok EXCEPT ![NodeOf[mutant[w]]] = actual[w]]
    /\ outcome' = [outcome EXCEPT ![mutant[w]] = "applied"]
    /\ UNCHANGED <<disk, locks, held, mutant, lk, ulk, orig, actual, history>>

(* Apply returns: its locals are gone, and after an error the executor     *)
(* gives the mutant up, without a Rollback.                                *)
ApplyReturns(w) ==
    /\ lk' = [lk EXCEPT ![w] = None]
    /\ ulk' = [ulk EXCEPT ![w] = None]
    /\ IF outcome[mutant[w]] = "applied"
       THEN Goto(w, "unlock", "test") /\ UNCHANGED <<mutant, orig, actual>>
       ELSE Goto(w, "unlock", "idle") /\ Leave(w)

(* Faulty variant: an error path that returns before it unlocks.           *)
UnlockOnSuccessOnly(w) ==
    /\ pc[w] = "unlock"
    /\ ApplyReturns(w)
    /\ held' = IF outcome[mutant[w]] = "applied" THEN held \ {<<File(mutant[w]), ulk[w]>>} ELSE held
    /\ UNCHANGED <<tok, disk, locks, outcome, history>>

(* The deferred Unlock.                                                    *)
Unlock(w) ==
    /\ pc[w] = "unlock"
    /\ ApplyReturns(w)
    /\ held' = held \ {<<File(mutant[w]), ulk[w]>>}
    /\ UNCHANGED <<tok, disk, locks, outcome, history>>

(* Faulty variant: the clean-up of origFile runs before the write.         *)
RollbackOfNothing(w) ==
    /\ Goto(w, "test", "idle")
    /\ disk' = Written(w, mutant[w], EmptyFile)
    /\ Leave(w)
    /\ UNCHANGED <<tok, locks, held, lk, ulk, outcome, history>>

(* The tests are over: Rollback writes origFile back, with no lock, and    *)
(* drops it.                                                               *)
Rollback(w) ==
    /\ Goto(w, "test", "idle")
    /\ disk' = Written(w, mutant[w], orig[w])
    /\ Leave(w)
    /\ UNCHANGED <<tok, locks, held, lk, ulk, outcome, history>>

(* Its error is logged and forgotten.                                      *)
RollbackFails(w) ==
    /\ "rollback" \in Faults
    /\ Goto(w, "test", "idle")
    /\ disk' \in {disk, Written(w, mutant[w], EmptyFile)}
    /\ Leave(w)
    /\ leftover' = leftover \cup {<<w, File(mutant[w])>>}
    /\ UNCHANGED <<tok, locks, held, lk, ulk, outcome, spoiled>>

-----------------------------------------------------------------------------
Apply(w) ==
    \/ LookupHit(w) \/ LookupMiss(w) \/ Create(w) \/ Defer(w)
    \/ Read(w) \/ ReadFails(w)
    \/ SetTok(w)
    \/ Write(w) \/ WriteFails(w)
    \/ Restore(w)
    \/ Unlock(w)

Worker(w) ==
    \/ \E m \in Mutants : Take(w, m)
    \/ Apply(w)
    \/ Lock(w)
    \/ Rollback(w)
    \/ RollbackFails(w)

(* All mutants have been through a worker.                                 *)
Finished == \A w \in Workers : pc[w] = "idle" /\ \A m \in Mutants : outcome[m] # "todo"

Terminated == Finished /\ UNCHANGED vars

Next == (\E w \in Workers : Worker(w)) \/ Terminated

(***************************************************************************)
(* Goroutines are scheduled fairly, tests end, and a sync.Mutex does not   *)
(* starve a waiter (its starvation mode hands the lock over in FIFO        *)
(* order): strong fairness on Lock, weak fairness on the rest.             *)
(***************************************************************************)
Fairness ==
    \A w \in Workers : WF_vars(Worker(w)) /\ SF_vars(Lock(w))

Spec == Init /\ [][Next]_vars /\ Fairness

-----------------------------------------------------------------------------
(* Properties *)

(* The source tree with exactly one mutation, m.                           *)
OnlyMutated(m) ==
    [OrigTok EXCEPT ![NodeOf[m]] = MutatedToken(TypeOf[m], OrigTok[NodeOf[m]])]

(* While the tests of a mutant run, the worker's tree on disk differs from *)
(* the original by that one mutation: no other worker's mutation of the    *)
(* same file has leaked in through the shared AST ("it is important to     *)
(* avoid that more than one mutation is applied to the same file before    *)
(* writing it", tokenmutator.go:33-34), and none of its own earlier ones   *)
(* is left.  False when writing a mutated file fails: Apply returns before *)
(* it puts the token back.                                                 *)
TestsExactlyOneMutation ==
    \A w \in Workers : pc[w] = "test" => disk[w] = OnlyMutated(mutant[w])

(* The same with failures: what goes wrong in one file stays there.  In    *)
(* all files whose AST was always written, and that this worker always     *)
(* rolled back, the tests see their own mutation and no other.             *)
TestsOnlyOwnMutation ==
    \A w \in Workers : pc[w] = "test" =>
        \A n \in Nodes :
            FileOf[n] \notin spoiled /\ <<w, FileOf[n]>> \notin leftover =>
                disk[w][n] = OnlyMutated(mutant[w])[n]

(* "Once the file is written and the token is rolled back, the lock is     *)
(* released" (tokenmutator.go:37-38): whenever nobody holds a file's lock, *)
(* its AST is the original, unless a write of it has failed.               *)
AstIntactWhenUnlocked ==
    \A n \in Nodes :
        FileOf[n] \notin spoiled /\ (\A l \in held : l[1] # FileOf[n]) => tok[n] = OrigTok[n]

(* Between mutants a worker's tree is the original, but for files that it  *)
(* failed to write or to roll back: even a worker that tested a file with  *)
(* a spoiled AST leaves none of it behind.                                 *)
WorkdirPristineWhenIdle ==
    \A w \in Workers : pc[w] = "idle" =>
        \A n \in Nodes : <<w, FileOf[n]>> \notin leftover => disk[w][n] = OrigTok[n]

(* The steps of Apply between Lock and Unlock.                             *)
Critical == {"defer", "read", "set", "write", "restore", "unlock"}

(* Two workers are never inside Apply on the same file, even though the    *)
(* lock is made on demand and looked up twice; and each unlocks the very   *)
(* lock it has locked (unlocking another one is fatal in Go).              *)
LocksExclude ==
    /\ \A v, w \in Workers :
          pc[v] \in Critical /\ pc[w] \in Critical /\ File(mutant[v]) = File(mutant[w]) => v = w
    /\ \A w \in Workers : pc[w] \in Critical =>
          /\ <<File(mutant[w]), lk[w]>> \in held
          /\ pc[w] # "defer" => ulk[w] = lk[w]

(* No path out of Apply keeps a lock: one that is locked has a worker      *)
(* inside Apply that will unlock it, and that waits for nobody.            *)
NoLockIsLeaked ==
    \A l \in held : \E w \in Workers : pc[w] \in Critical /\ l = <<File(mutant[w]), lk[w]>>

(* The worker works on node n, whose token in the AST is the mutated one.  *)
HasMutated(w, n) == pc[w] \in {"write", "restore"} /\ NodeOf[mutant[w]] = n

(* The mutated file is on the worker's disk, to be rolled back.            *)
HasWritten(w) ==
    \/ pc[w] \in {"restore", "test"}
    \/ pc[w] = "unlock" /\ outcome[mutant[w]] = "applied"

(* Workers have mutants of their own, in the state their steps left them.  *)
OwnersInv ==
    /\ \A w \in Workers :
          /\ mutant[w] = None <=> pc[w] = "idle"
          /\ pc[w] \notin {"idle", "unlock", "test"} => outcome[mutant[w]] = "taken"
          /\ pc[w] = "unlock" => outcome[mutant[w]] \in {"applied", "failed"}
          /\ pc[w] = "test" => outcome[mutant[w]] = "applied"
    /\ \A v, w \in Workers : mutant[v] = mutant[w] /\ mutant[v] # None => v = w

(* The lock a worker waits for, or has, is the one in the map.             *)
LockInv ==
    \A w \in Workers : pc[w] \in Critical \cup {"lock"} =>
        lk[w] # None /\ lk[w] = locks[File(mutant[w])]

(* The AST of a file that was always written differs from the source in    *)
(* the node its one worker is at, by that worker's mutation.               *)
AstInv ==
    /\ \A n \in Nodes :
          FileOf[n] \notin spoiled /\ (\A w \in Workers : ~HasMutated(w, n)) => tok[n] = OrigTok[n]
    /\ \A w \in Workers, n \in Nodes :
          FileOf[n] \notin spoiled /\ HasMutated(w, n) =>
              actual[w] = OrigTok[n] /\ tok[n] = MutatedToken(TypeOf[mutant[w]], OrigTok[n])

(* In a file that was always rolled back, a worker's disk has the source,  *)
(* or the source with its mutation while that is written; and what it      *)
(* will roll back to is the source.                                        *)
DiskInv ==
    \A w \in Workers, n \in Nodes : <<w, FileOf[n]>> \notin leftover =>
        LET here == pc[w] # "idle" /\ File(mutant[w]) = FileOf[n]
        IN  /\ ~(here /\ HasWritten(w)) => disk[w][n] = OrigTok[n]
            /\ here /\ (pc[w] \in {"set", "write"} \/ HasWritten(w)) => orig[w][n] = OrigTok[n]
            /\ here /\ HasWritten(w) /\ FileOf[n] \notin spoiled =>
                   disk[w][n] = OnlyMutated(mutant[w])[n]

(* The inductive invariant: why the properties above hold after any number *)
(* of mutants, workers and failures.  A worker in Apply has the one lock   *)
(* of its file, so the AST it prints has no mutation but its own, and the  *)
(* file it read before is the one it puts back.                            *)
MutatorInv ==
    /\ TypeOK /\ OwnersInv
    /\ LocksExclude /\ NoLockIsLeaked /\ LockInv
    /\ AstInv /\ DiskInv

(* Every mutant is dealt with, whichever file it is in and whatever fails: *)
(* no error path keeps a lock.                                             *)
EveryMutantIsDealtWith == <>[]Finished
=============================================================================
