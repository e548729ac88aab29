--------------------------- MODULE StorageEngine ----------------------------
(***************************************************************************)
(* src/src/storage-engine.ts: the map, the recency list, the packed array  *)
(* of keys with an expiration and its index, the evictions and the active  *)
(* expiration cycle.                                                       *)
(*                                                                         *)
(* JavaScript runs a method to its end before the next one starts; `task'  *)
(* is the method that is running.  A method with a loop (the evictions of  *)
(* set, the keys of del, the samples of the expiration cycle) takes one    *)
(* step per iteration, and no other method starts until it is idle again.  *)
(* Time may pass between any two steps.                                    *)
(***************************************************************************)
EXTENDS LruOps, FiniteSets

CONSTANTS
    Key,
    Text,            \* values BigInt() refuses
    Nil,             \* the null reply of get
    MaxInt,          \* bound on the counters INCR keeps
    Ttl,             \* values of EX; 0 stands for a SET without EX
    DelLists,        \* argument lists of del
    MaxKeys,         \* options.maxKeys, 0 = no limit
    MemoryLimit,     \* options.maxMemoryBytes > 0
    MaxEvictions,    \* parameter of checkMemoryAndEvict (100 in the code)
    SampleSize,      \* options.ttlSampleSize
    MaxTime,         \* bound on the clock
    MaxOps           \* bound on totalOps

ASSUME ValueAssumption == Text \cap Int = {} /\ Nil \notin Text \cup Int
ASSUME OptionAssumption ==
    /\ MaxKeys \in Nat /\ MemoryLimit \in BOOLEAN
    /\ MaxEvictions \in Nat \ {0} /\ SampleSize \in Nat \ {0}
ASSUME BoundAssumption == MaxInt \in Nat \ {0} /\ MaxTime \in Nat /\ MaxOps \in Nat
ASSUME InputAssumption == Ttl \subseteq Nat /\ DelLists \subseteq Seq(Key)

VARIABLES
    map,              \* key -> [value, expiresAt]
    lruList,          \* keys, most recently used first (LruList implements it)
    expiresList,      \* packed array of the keys that expire
    expiresIndexMap,  \* key -> its position in expiresList
    ttlTimer,         \* the sweep timer runs
    hits, misses, totalOps,
    clock,            \* Date.now(), in the unit of EX
    task,             \* the method that is running
    reply,            \* what the last method returned
    lastUse           \* history: totalOps when the key was last touched

data == <<map, lruList, expiresList, expiresIndexMap>>
stats == <<hits, misses, totalOps>>
vars == <<data, ttlTimer, stats, clock, task, reply, lastUse>>

Value == Text \cup Int
SetValues == Text \cup 0..MaxInt     \* values clients send
NoExpiry == -1                       \* expiresAt = null
Idle == [op |-> "idle"]
NoReply == [op |-> "none"]

Entry == [value : Value, expiresAt : Nat \cup {NoExpiry}]

Resident(k) == k \in DOMAIN map
Expired(k, now) == map[k].expiresAt # NoExpiry /\ now >= map[k].expiresAt
Fresh(k) == Resident(k) /\ ~Expired(k, clock)

Deadline(ex) == IF ex > 0 THEN clock + ex ELSE NoExpiry

Init ==
    /\ map = [k \in {} |-> [value |-> 0, expiresAt |-> NoExpiry]]
    /\ lruList = <<>>
    /\ expiresList = <<>>
    /\ expiresIndexMap = [k \in {} |-> 0]
    /\ ttlTimer = TRUE                \* the constructor starts it
    /\ hits = 0 /\ misses = 0 /\ totalOps = 0
    /\ clock = 0
    /\ task = Idle
    /\ reply = NoReply
    /\ lastUse = [k \in Key |-> 0]
-----------------------------------------------------------------------------
(***************************************************************************)
(* The packed array.  Positions count from 1.                              *)
(***************************************************************************)
\* Mutant: the index counts from 0, the array from 1.
NextPosition_FromZero == Len(expiresList)
NextPosition == Len(expiresList) + 1

trackExpiry(k) ==
    IF k \in DOMAIN expiresIndexMap
    THEN UNCHANGED <<expiresList, expiresIndexMap>>
    ELSE /\ expiresList' = Append(expiresList, k)
         /\ expiresIndexMap' =
                [j \in DOMAIN expiresIndexMap \cup {k} |->
                    IF j = k THEN NextPosition ELSE expiresIndexMap[j]]

\* Mutant: the key that moved keeps its old index.
untrackExpiry_StaleIndex(k) ==
    IF k \notin DOMAIN expiresIndexMap
    THEN UNCHANGED <<expiresList, expiresIndexMap>>
    ELSE LET index == expiresIndexMap[k]
             lastKey == expiresList[Len(expiresList)]
         IN  /\ expiresList' = [i \in 1..Len(expiresList) - 1 |->
                                    IF i = index THEN lastKey ELSE expiresList[i]]
             /\ expiresIndexMap' =
                    [j \in DOMAIN expiresIndexMap \ {k} |-> expiresIndexMap[j]]

\* The last key takes the place of the removed one.
untrackExpiry(k) ==
    IF k \notin DOMAIN expiresIndexMap
    THEN UNCHANGED <<expiresList, expiresIndexMap>>
    ELSE LET index == expiresIndexMap[k]
             lastKey == expiresList[Len(expiresList)]
         IN  /\ expiresList' = [i \in 1..Len(expiresList) - 1 |->
                                    IF i = index THEN lastKey ELSE expiresList[i]]
             /\ expiresIndexMap' =
                    [j \in DOMAIN expiresIndexMap \ {k} |->
                        IF j = lastKey THEN index ELSE expiresIndexMap[j]]

deleteKey(k) ==
    /\ map' = [j \in DOMAIN map \ {k} |-> map[j]]
    /\ lruList' = Unlink(lruList, k)
    /\ untrackExpiry(k)

\* Mutant: the eviction forgets the map.
evictOneLru_KeepsEntry ==
    /\ lruList # <<>>
    /\ UNCHANGED map
    /\ lruList' = PopTail(lruList)
    /\ untrackExpiry(Last(lruList))

evictOneLru ==
    /\ lruList # <<>>
    /\ map' = [j \in DOMAIN map \ {Last(lruList)} |-> map[j]]
    /\ lruList' = PopTail(lruList)
    /\ untrackExpiry(Last(lruList))

Touch(k) == lastUse' = [lastUse EXCEPT ![k] = totalOps']

\* A method starts: the event loop runs nothing else.
Start(ops) == task = Idle /\ totalOps + ops <= MaxOps /\ totalOps' = totalOps + ops
Return(result) == task' = Idle /\ reply' = result
Run(t) == task' = t /\ reply' = NoReply
-----------------------------------------------------------------------------
(***************************************************************************)
(* checkMemoryAndEvict.  The first loop stops when the key count fits; the *)
(* second asks process.memoryUsage() before every eviction, whose answer   *)
(* is the garbage collector's.  Both share the eviction budget.            *)
(***************************************************************************)
OverKeys == MaxKeys > 0 /\ Cardinality(DOMAIN map) > MaxKeys
BudgetLeft == task.evicted < MaxEvictions
MayEvict == BudgetLeft /\ lruList # <<>> /\ (OverKeys \/ MemoryLimit)
MustEvict == BudgetLeft /\ lruList # <<>> /\ OverKeys

Evict ==
    /\ task.op \in {"makeRoom", "trim"}
    /\ MayEvict
    /\ evictOneLru
    /\ task' = [task EXCEPT !.evicted = @ + 1]
    /\ UNCHANGED <<ttlTimer, stats, clock, reply, lastUse>>

\* The eviction before an insertion is over: the new node goes in.
Insert ==
    /\ task.op = "makeRoom"
    /\ ~MustEvict
    /\ LET k == task.key IN
        /\ map' = [j \in DOMAIN map \cup {k} |->
                      IF j = k THEN [value |-> task.value, expiresAt |-> task.expiresAt]
                      ELSE map[j]]
        /\ lruList' = PushFront(lruList, k)
        /\ IF task.expiresAt # NoExpiry
           THEN trackExpiry(k)
           ELSE UNCHANGED <<expiresList, expiresIndexMap>>
        /\ task' = [op |-> "trim", result |-> task.result, evicted |-> 0]
        /\ lastUse' = [lastUse EXCEPT ![k] = totalOps]
    /\ UNCHANGED <<ttlTimer, stats, clock, reply>>

\* The eviction after a write is over: set returns.
WriteDone ==
    /\ task.op = "trim"
    /\ ~MustEvict
    /\ Return(task.result)
    /\ UNCHANGED <<data, ttlTimer, stats, clock, lastUse>>

\* Mutant: an overwritten entry is not tracked under its new deadline.
retrack_OnlyDrops(k, ex) ==
    IF ex > 0 THEN UNCHANGED <<expiresList, expiresIndexMap>> ELSE untrackExpiry(k)
retrack(k, ex) == IF ex > 0 THEN trackExpiry(k) ELSE untrackExpiry(k)

\* set returns nothing: its result is what it was asked for.
SetResult(k, v, ex) == [op |-> "set", key |-> k, value |-> v, ex |-> ex]

setExisting(k, v, ex) ==
    /\ Start(1)
    /\ Resident(k)
    /\ map' = [map EXCEPT ![k] = [value |-> v, expiresAt |-> Deadline(ex)]]
    /\ lruList' = MoveToFront(lruList, k)
    /\ retrack(k, ex)
    /\ Touch(k)
    /\ Run([op |-> "trim", result |-> SetResult(k, v, ex), evicted |-> 0])
    /\ UNCHANGED <<ttlTimer, hits, misses, clock>>

setNew(k, v, ex) ==
    /\ Start(1)
    /\ ~Resident(k)
    /\ Run([op |-> "makeRoom", key |-> k, value |-> v, expiresAt |-> Deadline(ex),
            result |-> SetResult(k, v, ex), evicted |-> 0])
    /\ UNCHANGED <<data, ttlTimer, hits, misses, clock, lastUse>>

set(k, v, ex) == setExisting(k, v, ex) \/ setNew(k, v, ex)
-----------------------------------------------------------------------------
getMiss(k) ==
    /\ Start(1)
    /\ ~Resident(k)
    /\ misses' = misses + 1
    /\ Return([op |-> "get", key |-> k, value |-> Nil])
    /\ UNCHANGED <<data, ttlTimer, hits, clock, lastUse>>

\* Passive expiration.
getExpired(k) ==
    /\ Start(1)
    /\ Resident(k) /\ Expired(k, clock)
    /\ misses' = misses + 1
    /\ deleteKey(k)
    /\ Return([op |-> "get", key |-> k, value |-> Nil])
    /\ UNCHANGED <<ttlTimer, hits, clock, lastUse>>

getHit(k) ==
    /\ Start(1)
    /\ Fresh(k)
    /\ hits' = hits + 1
    /\ lruList' = MoveToFront(lruList, k)
    /\ Touch(k)
    /\ Return([op |-> "get", key |-> k, value |-> map[k].value])
    /\ UNCHANGED <<map, expiresList, expiresIndexMap, ttlTimer, misses, clock>>

get(k) == getMiss(k) \/ getExpired(k) \/ getHit(k)
-----------------------------------------------------------------------------
\* INCR of an absent key, or of an expired one it first deletes, is a nested set.
incrAbsent(k) ==
    /\ Start(2)
    /\ \/ ~Resident(k) /\ UNCHANGED data
       \/ Resident(k) /\ Expired(k, clock) /\ deleteKey(k)
    /\ Run([op |-> "makeRoom", key |-> k, value |-> 1, expiresAt |-> NoExpiry,
            result |-> [op |-> "incr", key |-> k, value |-> 1], evicted |-> 0])
    /\ UNCHANGED <<ttlTimer, hits, misses, clock, lastUse>>

\* Mutant: INCR loses the deadline.
Bumped_DropsDeadline(e) == [value |-> e.value + 1, expiresAt |-> NoExpiry]
Bumped(e) == [e EXCEPT !.value = @ + 1]

\* The value is replaced and the deadline kept; incr makes no room.
incrPresent(k) ==
    /\ Start(1)
    /\ Fresh(k)
    /\ map[k].value \in Int /\ map[k].value < MaxInt
    /\ map' = [map EXCEPT ![k] = Bumped(@)]
    /\ lruList' = MoveToFront(lruList, k)
    /\ Touch(k)
    /\ Return([op |-> "incr", key |-> k, value |-> map[k].value + 1])
    /\ UNCHANGED <<expiresList, expiresIndexMap, ttlTimer, hits, misses, clock>>

\* BigInt() throws: the error leaves the entry and its recency alone.
incrNotInteger(k) ==
    /\ Start(1)
    /\ Fresh(k)
    /\ map[k].value \notin Int
    /\ Return([op |-> "error", key |-> k])
    /\ UNCHANGED <<data, ttlTimer, hits, misses, clock, lastUse>>

incr(k) == incrAbsent(k) \/ incrPresent(k) \/ incrNotInteger(k)
-----------------------------------------------------------------------------
ttlExpired(k) ==
    /\ Start(1)
    /\ Resident(k) /\ Expired(k, clock)
    /\ deleteKey(k)
    /\ Return([op |-> "ttl", key |-> k, left |-> -2])
    /\ UNCHANGED <<ttlTimer, hits, misses, clock, lastUse>>

\* A ttl does not count as a use of the key.
ttlLeft(k) ==
    /\ Start(1)
    /\ ~(Resident(k) /\ Expired(k, clock))
    /\ Return([op |-> "ttl", key |-> k,
               left |-> IF ~Resident(k) THEN -2
                        ELSE IF map[k].expiresAt = NoExpiry THEN -1
                        ELSE map[k].expiresAt - clock])
    /\ UNCHANGED <<data, ttlTimer, hits, misses, clock, lastUse>>

ttl(k) == ttlExpired(k) \/ ttlLeft(k)
-----------------------------------------------------------------------------
\* del reads the clock once, then takes its keys one by one.
del(keys) ==
    /\ Start(1)
    /\ Run([op |-> "del", all |-> ToSet(keys), keys |-> keys, now |-> clock, deleted |-> 0])
    /\ UNCHANGED <<data, ttlTimer, hits, misses, clock, lastUse>>

delOne ==
    /\ task.op = "del" /\ task.keys # <<>>
    /\ LET k == Head(task.keys)
           counts == Resident(k) /\ ~Expired(k, task.now)
       IN  /\ IF Resident(k) THEN deleteKey(k) ELSE UNCHANGED data
           /\ task' = [task EXCEPT !.keys = Tail(@),
                                   !.deleted = IF counts THEN @ + 1 ELSE @]
    /\ UNCHANGED <<ttlTimer, stats, clock, reply, lastUse>>

delDone ==
    /\ task.op = "del" /\ task.keys = <<>>
    /\ Return([op |-> "del", keys |-> task.all, deleted |-> task.deleted])
    /\ UNCHANGED <<data, ttlTimer, stats, clock, lastUse>>
-----------------------------------------------------------------------------
(***************************************************************************)
(* runActiveTtlCycle: batches of random picks, with replacement, from the  *)
(* packed array; another batch when more than a quarter of the picks had   *)
(* expired and the time budget, which the wall clock decides, is not used. *)
(***************************************************************************)
Batch(now) ==
    LET n == IF SampleSize < Len(expiresList) THEN SampleSize ELSE Len(expiresList)
    IN  [op |-> "sweep", now |-> now, size |-> n, left |-> n, expired |-> 0]

sweepStart ==
    /\ task = Idle
    /\ ttlTimer
    /\ expiresList # <<>>
    /\ task' = Batch(clock)
    /\ UNCHANGED <<data, ttlTimer, stats, clock, reply, lastUse>>

sweepPick(i) ==
    /\ task.op = "sweep" /\ task.left > 0
    /\ i \in DOMAIN expiresList
    /\ LET k == expiresList[i] IN
        IF Resident(k) /\ Expired(k, task.now)
        THEN /\ deleteKey(k)
             /\ task' = [task EXCEPT !.left = @ - 1, !.expired = @ + 1]
        ELSE /\ UNCHANGED data
             /\ task' = [task EXCEPT !.left = @ - 1]
    /\ UNCHANGED <<ttlTimer, stats, clock, reply, lastUse>>

BatchOver == task.op = "sweep" /\ (task.left = 0 \/ expiresList = <<>>)
ManyExpired == 4 * task.expired > task.size

sweepAgain ==
    /\ BatchOver /\ ManyExpired
    /\ expiresList # <<>>
    /\ task' = Batch(clock)
    /\ UNCHANGED <<data, ttlTimer, stats, clock, reply, lastUse>>

\* The batch found few expired keys, the budget ran out or the array is empty.
sweepStop ==
    /\ BatchOver
    /\ task' = Idle
    /\ UNCHANGED <<data, ttlTimer, stats, clock, reply, lastUse>>

startTtlSweep ==
    /\ task = Idle /\ ~ttlTimer
    /\ ttlTimer' = TRUE
    /\ UNCHANGED <<data, stats, clock, task, reply, lastUse>>

stopTtlSweep ==
    /\ task = Idle /\ ttlTimer
    /\ ttlTimer' = FALSE
    /\ UNCHANGED <<data, stats, clock, task, reply, lastUse>>

clear ==
    /\ task = Idle
    /\ Return([op |-> "clear"])
    /\ map' = [k \in {} |-> map[k]]
    /\ lruList' = <<>>
    /\ expiresList' = <<>>
    /\ expiresIndexMap' = [k \in {} |-> 0]
    /\ UNCHANGED <<ttlTimer, stats, clock, lastUse>>

\* The wall clock, up to the bound MaxTime.
Tick ==
    /\ clock < MaxTime
    /\ clock' = clock + 1
    /\ UNCHANGED <<data, ttlTimer, stats, task, reply, lastUse>>

\* The steps that finish the method that is running.
Progress ==
    \/ Evict \/ Insert \/ WriteDone
    \/ delOne \/ delDone
    \/ \E i \in DOMAIN expiresList : sweepPick(i)
    \/ sweepAgain \/ sweepStop

Request ==
    \/ \E k \in Key : get(k) \/ incr(k) \/ ttl(k)
    \/ \E k \in Key, v \in SetValues, ex \in Ttl : set(k, v, ex)
    \/ \E keys \in DelLists : del(keys)
    \/ startTtlSweep \/ stopTtlSweep \/ clear

Next == Request \/ sweepStart \/ Progress \/ Tick

Spec == Init /\ [][Next]_vars
-----------------------------------------------------------------------------
Result ==
    [op : {"clear"}]
        \cup [op : {"error"}, key : Key]
        \cup [op : {"set"}, key : Key, value : Value, ex : Nat]
        \cup [op : {"get"}, key : Key, value : Value \cup {Nil}]
        \cup [op : {"incr"}, key : Key, value : Int]
        \cup [op : {"ttl"}, key : Key, left : Nat \cup {-1, -2}]
        \cup [op : {"del"}, keys : SUBSET Key, deleted : Nat]

Task ==
    {Idle}
        \cup [op : {"makeRoom"}, key : Key, value : Value,
              expiresAt : Nat \cup {NoExpiry}, result : Result, evicted : Nat]
        \cup [op : {"trim"}, result : Result, evicted : Nat]
        \cup [op : {"del"}, all : SUBSET Key, keys : Seq(Key), now : Nat, deleted : Nat]
        \cup [op : {"sweep"}, now : Nat, size : Nat, left : Nat, expired : Nat]

TypeOK ==
    /\ DOMAIN map \subseteq Key /\ map \in [DOMAIN map -> Entry]
    /\ lruList \in Seq(Key)
    /\ expiresList \in Seq(Key)
    /\ DOMAIN expiresIndexMap \subseteq Key
    /\ expiresIndexMap \in [DOMAIN expiresIndexMap -> Nat \ {0}]
    /\ ttlTimer \in BOOLEAN
    /\ hits \in Nat /\ misses \in Nat /\ totalOps \in Nat
    /\ clock \in Nat
    /\ task \in Task
    /\ reply \in {NoReply} \cup Result
    /\ lastUse \in [Key -> Nat]

\* The recency list holds every key of the map once and nothing else: eviction
\* never misses an entry and never pops a key that is no longer there.
ListMatchesMap == Distinct(lruList) /\ ToSet(lruList) = DOMAIN map

\* The packed array holds exactly the keys with a deadline, and the index says
\* where each one is, whatever swaps with the last key came before.
ExpiryIndexExact ==
    /\ DOMAIN expiresIndexMap = {k \in DOMAIN map : map[k].expiresAt # NoExpiry}
    /\ \A k \in DOMAIN expiresIndexMap :
          expiresIndexMap[k] \in DOMAIN expiresList /\ expiresList[expiresIndexMap[k]] = k
    /\ \A i \in DOMAIN expiresList :
          expiresList[i] \in DOMAIN expiresIndexMap /\ expiresIndexMap[expiresList[i]] = i

\* The list is sorted by the last SET, INCR or GET hit of its keys, so that the
\* tail is the least recently used key, also across evictions and expirations.
RecencyOrder ==
    \A i, j \in DOMAIN lruList : i < j => lastUse[lruList[i]] > lastUse[lruList[j]]

\* No method returns with more keys than the limit.
WithinMaxKeys == task = Idle /\ MaxKeys > 0 => Cardinality(DOMAIN map) <= MaxKeys

\* Making room never evicts the entry it makes room for: when only the number of
\* keys is limited, a SET or INCR that returns leaves its key in the store.
WrittenStays == task.op = "trim" /\ ~MemoryLimit => Resident(task.result.key)

\* The limit is kept, and at the expense of other keys than the one being written.
LimitsKept == WithinMaxKeys /\ WrittenStays

(***************************************************************************)
(* What clients may rely on.  A method has its effect when it starts: the  *)
(* entry that makeRoom still has to insert counts, the keys that del still *)
(* has to delete do not, and its count is what it has and will find.       *)
(***************************************************************************)
Doomed == IF task.op = "del" THEN ToSet(task.keys) ELSE {}
Coming == IF task.op = "makeRoom" /\ (task.expiresAt = NoExpiry \/ clock < task.expiresAt)
          THEN {task.key} ELSE {}
Shown == {k \in DOMAIN map : ~Expired(k, clock)} \ Doomed
ToCount == {k \in Doomed \cap DOMAIN map : ~Expired(k, task.now)}

Store ==
    [k \in Shown \cup Coming |->
        IF k \in Coming THEN [value |-> task.value, expiresAt |-> task.expiresAt] ELSE map[k]]
Owed ==
    IF task.op \in {"makeRoom", "trim"} THEN {task.result}
    ELSE IF task.op = "del"
    THEN {[op |-> "del", keys |-> task.all, deleted |-> task.deleted + Cardinality(ToCount)]}
    ELSE {}

KVCache == INSTANCE KVCache WITH
    Value <- SetValues, KeyLimit <- MaxKeys > 0, store <- Store, owed <- Owed

\* Every method does to the unexpired entries what it was asked for, and returns what
\* they say; between a SET and the next one, or a DEL, an entry only goes with its
\* deadline or while another key is written under a limit.  No sweep, no eviction and no
\* expired entry that nobody has met yet makes a difference to a client.
ImplementsCache == KVCache!Spec

\* Active expiration reclaims every expired entry, read or not, while the timer
\* runs: no key stays expired for ever.
ExpiredReclaimed == \A k \in Key : []<>~(Resident(k) /\ Expired(k, clock) /\ ttlTimer)

(***************************************************************************)
(* The event loop goes on with a method it has begun and fires the timer.  *)
(* Every index of the packed array is picked again and again: picks are    *)
(* uniformly random, so a key that is never picked has probability zero.   *)
(***************************************************************************)
PickKey(k) == \E i \in DOMAIN expiresList : expiresList[i] = k /\ sweepPick(i)

Fairness ==
    /\ WF_vars(Progress)
    /\ SF_vars(sweepStart)
    /\ \A k \in Key : SF_vars(PickKey(k))
=============================================================================
