------------------------------ MODULE HashRing ------------------------------
(***************************************************************************)
(* src/src/cluster/consistent-hash.ts: the ring that says which shard owns *)
(* a key.  A hash is a number; SHA-256 is a constant.  A ring is the array *)
(* of its entries, sorted by hash, and starts at position 1, not 0.        *)
(***************************************************************************)
EXTENDS Integers, Sequences, FiniteSets, SequencesExt

CONSTANT
    VnodeHashes    \* node -> the hashes of its virtual nodes, in the order they are added

Node == DOMAIN VnodeHashes
ASSUME RingAssumption == VnodeHashes \in [Node -> Seq(Nat) \ {<<>>}]

Entry == [hash : Nat, node : Node]

(***************************************************************************)
(* addNode pushes the entries and sorts; the sort is stable, so an entry   *)
(* comes behind those of its hash that were there before.                  *)
(***************************************************************************)
Behind(ring, entry) ==
    CHOOSE p \in 0..Len(ring) : \A i \in DOMAIN ring : ring[i].hash <= entry.hash <=> i <= p

Insert(ring, entry) == InsertAt(ring, Behind(ring, entry) + 1, entry)

HasNode(ring, n) == \E i \in DOMAIN ring : ring[i].node = n

addNode(ring, n) ==
    IF HasNode(ring, n) THEN ring
    ELSE FoldLeft(LAMBDA r, h : Insert(r, [hash |-> h, node |-> n]), ring, VnodeHashes[n])

removeNode(ring, n) ==
    FoldLeft(LAMBDA kept, e : IF e.node = n THEN kept ELSE Append(kept, e), <<>>, ring)
-----------------------------------------------------------------------------
(***************************************************************************)
(* binarySearch: the first entry whose hash is at least target, or the     *)
(* position behind the last.                                               *)
(***************************************************************************)
SearchStart(ring) == [low |-> 1, high |-> Len(ring), result |-> Len(ring) + 1]

\* One turn of the loop.
SearchStep(ring, target, at) ==
    LET mid == (at.low + at.high) \div 2
    IN  IF ring[mid].hash >= target
        THEN [low |-> at.low, high |-> mid - 1, result |-> mid]
        ELSE [low |-> mid + 1, high |-> at.high, result |-> at.result]

Turn(ring, target, at) == IF at.low > at.high THEN at ELSE SearchStep(ring, target, at)

\* Len(ring) turns are enough.
binarySearch(ring, target) ==
    LET after[n \in 0..Len(ring)] ==
            IF n = 0 THEN SearchStart(ring) ELSE Turn(ring, target, after[n - 1])
    IN  after[Len(ring)].result

\* Mutant: a key behind the last point goes to the last node.
Wrapped_NotAround(ring, index) == IF index > Len(ring) THEN Len(ring) ELSE index
Wrapped(ring, index) == IF index > Len(ring) THEN 1 ELSE index

getNode(ring, keyHash) == ring[Wrapped(ring, binarySearch(ring, keyHash))].node
-----------------------------------------------------------------------------
(***************************************************************************)
(* What they should return, without arrays, sorting or searching.          *)
(***************************************************************************)
Sorted(ring) == \A i, j \in DOMAIN ring : i < j => ring[i].hash <= ring[j].hash

IsFirst(ring, target, i) ==
    /\ i \in 1..Len(ring) + 1
    /\ \A j \in 1..i - 1 : ring[j].hash < target
    /\ i <= Len(ring) => ring[i].hash >= target

\* bigger is ring with entries of n in between.
Grown(ring, bigger, n) ==
    \E f \in [DOMAIN ring -> DOMAIN bigger] :
        /\ \A i, j \in DOMAIN ring : i < j => f[i] < f[j]
        /\ \A i \in DOMAIN ring : bigger[f[i]] = ring[i]
        /\ \A p \in DOMAIN bigger : (\A i \in DOMAIN ring : f[i] # p) => bigger[p].node = n
=============================================================================
