---------------------------- MODULE ColdStorage -----------------------------
(***************************************************************************)
(* src/src/cold-storage-worker.ts on top of the engine it drains: an       *)
(* interval packs the entries at the tail of the recency list, compresses  *)
(* and ships them, and then deletes their keys.  Compression and upload    *)
(* are awaits, one behind the other with nothing read in between, so they  *)
(* are one wait here, in which the engine serves its clients.              *)
(***************************************************************************)
EXTENDS StorageEngine

CONSTANTS
    BatchSize,          \* options.batchSize
    EvictAfterArchive   \* options.evictAfterArchive

ASSUME ColdAssumption == BatchSize \in Nat \ {0} /\ EvictAfterArchive \in BOOLEAN

VARIABLES
    timer,          \* the interval is set
    isProcessing,
    snapshot        \* what the call under way has collected and still has to delete

cold == <<timer, isProcessing, snapshot>>
coldVars == <<vars, cold>>

NoSnapshot == [stage |-> "none"]

ColdInit ==
    /\ Init
    /\ timer = FALSE
    /\ isProcessing = FALSE
    /\ snapshot = NoSnapshot
-----------------------------------------------------------------------------
\* The deletions are a loop without an await: nothing else runs until it ends.
EventLoopFree == task = Idle /\ snapshot.stage # "evicting"

\* Expired entries are collected like the others.
getColdEntries == TailNodes(lruList, BatchSize)

start ==
    /\ EventLoopFree /\ ~timer
    /\ timer' = TRUE
    /\ UNCHANGED <<vars, isProcessing, snapshot>>

\* A snapshot that has begun goes on.
stop ==
    /\ EventLoopFree /\ timer
    /\ timer' = FALSE
    /\ UNCHANGED <<vars, isProcessing, snapshot>>

\* The interval fires.  It returns at once when a snapshot is under way, or the store
\* is empty; a direct call differs in nothing.
createSnapshot ==
    /\ EventLoopFree /\ timer
    /\ ~isProcessing
    /\ lruList # <<>>
    /\ isProcessing' = TRUE
    /\ snapshot' = [stage |-> "shipping", left |-> getColdEntries,
                    entries |-> [k \in ToSet(getColdEntries) |-> map[k]],
                    at |-> totalOps, saved |-> FALSE]
    /\ UNCHANGED <<vars, timer>>

Finally == isProcessing' = FALSE /\ snapshot' = NoSnapshot

saveSnapshot ==
    /\ EventLoopFree
    /\ snapshot.stage = "shipping"
    /\ IF EvictAfterArchive
       THEN /\ snapshot' = [snapshot EXCEPT !.stage = "evicting", !.saved = TRUE]
            /\ UNCHANGED isProcessing
       ELSE Finally
    /\ UNCHANGED <<vars, timer>>

\* Mutant: the error is caught around the upload, and the deletion goes ahead.
Rejected_EvictsAll ==
    snapshot' = [snapshot EXCEPT !.stage = "evicting"] /\ UNCHANGED isProcessing
\* Mutant: isProcessing is cleared behind the deletions instead of in finally.
Rejected_StaysBusy == snapshot' = NoSnapshot /\ UNCHANGED isProcessing
Rejected == Finally

\* The compression or the sink fails.
saveSnapshotFails ==
    /\ EventLoopFree
    /\ snapshot.stage = "shipping"
    /\ Rejected
    /\ UNCHANGED <<vars, timer>>

\* engine.del, of one key at a time.  MaxOps bounds the clients only.
EvictNext ==
    /\ task = Idle
    /\ snapshot.stage = "evicting" /\ snapshot.left # <<>>
    /\ LET keys == <<Head(snapshot.left)>>
       IN  Run([op |-> "del", all |-> ToSet(keys), keys |-> keys, now |-> clock, deleted |-> 0])
    /\ totalOps' = totalOps + 1
    /\ snapshot' = [snapshot EXCEPT !.left = Tail(@)]
    /\ UNCHANGED <<data, ttlTimer, hits, misses, clock, lastUse, timer, isProcessing>>

EvictDone ==
    /\ task = Idle
    /\ snapshot.stage = "evicting" /\ snapshot.left = <<>>
    /\ Finally
    /\ UNCHANGED <<vars, timer>>

Engine ==
    /\ \/ EventLoopFree /\ (Request \/ sweepStart)
       \/ Progress \/ Tick
    /\ UNCHANGED cold

Worker == saveSnapshot \/ saveSnapshotFails \/ EvictNext \/ EvictDone

ColdNext == Engine \/ start \/ stop \/ createSnapshot \/ Worker

(***************************************************************************)
(* Compression and upload end, one way or the other.  The engine's own     *)
(* fairness is as before: between two tasks it stays the event loop's.     *)
(***************************************************************************)
ColdSpec ==
    /\ ColdInit /\ [][ColdNext]_coldVars
    /\ Fairness
    /\ SF_coldVars(Worker)
-----------------------------------------------------------------------------
\* "evict keys from DRAM after successfully pushing" (cold-storage-worker.ts:70): the
\* worker deletes what it has saved, and nothing else.  The entry may be a later one
\* only if somebody touched the key during the upload: the code does not look again.
ArchivedFirst ==
    [][\A k \in DOMAIN map \ DOMAIN map' :
          snapshot.stage = "evicting" =>
              /\ snapshot.saved /\ k \in DOMAIN snapshot.entries
              /\ map[k] = snapshot.entries[k] \/ lastUse[k] > snapshot.at]_coldVars

\* Methods and snapshots end, a failed upload too: the worker can take another one.
CallsReturn == []<>(task = Idle /\ ~isProcessing)
=============================================================================
