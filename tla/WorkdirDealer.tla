---------------------------- MODULE WorkdirDealer ----------------------------
(***************************************************************************)
(* The CachedDealer of internal/engine/workdir: one copy of the source     *)
(* tree per identifier, made on the first Get.  The identifier is the name *)
(* of the worker that asks.  Get looks in the cache under the read lock,   *)
(* copies without a lock, and enters the copy under the write lock; Clean  *)
(* takes no lock.                                                          *)
(*                                                                         *)
(* The actions are the dealer's steps; Unleash.tla composes them with the  *)
(* process that owns the dealer.                                           *)
(***************************************************************************)
EXTENDS Naturals, FiniteSets

CONSTANTS
    Idfs,         \* the identifiers, one per worker
    Dirs,         \* the names os.MkdirTemp may pick
    DealerFaults, \* calls that may fail: "mkdir", "copy", "remove"
    None

ASSUME DealerAssumption ==
    /\ DealerFaults \subseteq {"mkdir", "copy", "remove"}
    /\ None \notin Dirs

VARIABLES
    cache,  \* cd.cache: None for an identifier that is not in it
    disk,   \* each directory: "absent", "partial" (being copied) or "full"
    getter, \* each caller: "out", "making", "copying", "caching", "returned", "failed"
    dstDir  \* Get's local variable, then its result

dealerVars == <<cache, disk, getter, dstDir>>

DealerTypeOK ==
    /\ cache \in [Idfs -> Dirs \cup {None}]
    /\ disk \in [Dirs -> {"absent", "partial", "full"}]
    /\ getter \in [Idfs -> {"out", "making", "copying", "caching", "returned", "failed"}]
    /\ dstDir \in [Idfs -> Dirs \cup {None}]

DealerInit ==
    /\ cache = [i \in Idfs |-> None]
    /\ disk = [d \in Dirs |-> "absent"]
    /\ getter = [i \in Idfs |-> "out"]
    /\ dstDir = [i \in Idfs |-> None]

GetterMoves(i, from, to) == getter[i] = from /\ getter' = [getter EXCEPT ![i] = to]

(* fromCache finds the directory and Get returns it.                       *)
GetCached(i) ==
    /\ GetterMoves(i, "out", "returned")
    /\ cache[i] # None
    /\ dstDir' = [dstDir EXCEPT ![i] = cache[i]]
    /\ UNCHANGED <<cache, disk>>

GetUncached(i) ==
    /\ GetterMoves(i, "out", "making")
    /\ cache[i] = None
    /\ UNCHANGED <<cache, disk, dstDir>>

(* Faulty variant: a name that some other directory may have already.      *)
MkdirTempSharing(i) ==
    /\ GetterMoves(i, "making", "copying")
    /\ \E d \in Dirs :
          /\ disk' = [disk EXCEPT ![d] = "partial"]
          /\ dstDir' = [dstDir EXCEPT ![i] = d]
    /\ UNCHANGED cache

(* os.MkdirTemp: a directory that did not exist.                           *)
MkdirTemp(i) ==
    /\ GetterMoves(i, "making", "copying")
    /\ \E d \in Dirs :
          /\ disk[d] = "absent"
          /\ disk' = [disk EXCEPT ![d] = "partial"]
          /\ dstDir' = [dstDir EXCEPT ![i] = d]
    /\ UNCHANGED cache

MkdirFails(i) ==
    /\ "mkdir" \in DealerFaults
    /\ GetterMoves(i, "making", "failed")
    /\ UNCHANGED <<cache, disk, dstDir>>

(* Faulty variant: the walk stops at a directory it could not read, and    *)
(* Get carries on.                                                         *)
CopyIncomplete(i) ==
    /\ GetterMoves(i, "copying", "caching")
    /\ UNCHANGED <<cache, disk, dstDir>>

(* filepath.Walk has copied every directory and regular file.              *)
Copy(i) ==
    /\ GetterMoves(i, "copying", "caching")
    /\ disk' = [disk EXCEPT ![dstDir[i]] = "full"]
    /\ UNCHANGED <<cache, dstDir>>

(* The walk ends with an error: Get returns it and leaves what it made.    *)
CopyFails(i) ==
    /\ "copy" \in DealerFaults
    /\ GetterMoves(i, "copying", "failed")
    /\ dstDir' = [dstDir EXCEPT ![i] = None]
    /\ UNCHANGED <<cache, disk>>

(* setCache, and Get returns.                                              *)
SetCache(i) ==
    /\ GetterMoves(i, "caching", "returned")
    /\ cache' = [cache EXCEPT ![i] = dstDir[i]]
    /\ UNCHANGED <<disk, dstDir>>

(* Clean: RemoveAll of every cached directory, errors only logged, and an  *)
(* empty cache.                                                            *)
Clean ==
    LET Cached == {cache[i] : i \in Idfs} \ {None}
    IN  /\ \E failed \in SUBSET Cached :
              /\ failed = {} \/ "remove" \in DealerFaults
              /\ disk' = [d \in Dirs |-> IF d \in Cached \ failed THEN "absent" ELSE disk[d]]
        /\ cache' = [i \in Idfs |-> None]
        /\ UNCHANGED <<getter, dstDir>>

(* The caller has no more use for the directory.                           *)
Release(i) ==
    /\ GetterMoves(i, "returned", "out")
    /\ dstDir' = [dstDir EXCEPT ![i] = None]
    /\ UNCHANGED <<cache, disk>>
=============================================================================
