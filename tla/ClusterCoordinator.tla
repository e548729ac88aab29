------------------------- MODULE ClusterCoordinator -------------------------
(***************************************************************************)
(* src/src/cluster/cluster-coordinator.ts and worker-thread.ts: the master *)
(* thread routes commands to worker threads over message ports and fans    *)
(* out deletions and statistics; every worker has its own engine.  A port  *)
(* delivers in order; nothing orders two ports.                            *)
(*                                                                         *)
(* The master runs one callback to its end; only executeCrossShardDel,     *)
(* which takes and releases locks that the workers compete for, has steps  *)
(* in between.  AtomicLock models how acquire waits.                       *)
(*                                                                         *)
(* A connection has one command under way.  It sends at most one message   *)
(* to a shard, so the pair stands for the RPC id, fresh for every message. *)
(*                                                                         *)
(* Entries set with EX expire, unnoticed until a command meets or misses   *)
(* them; every shard has its own sweep, and the clock is not modelled.     *)
(* Which entries a command will find gone is guessed at its call and       *)
(* carried by its messages, a prophecy the refinement needs.               *)
(***************************************************************************)
EXTENDS HashRing, FiniteSetsExt

CONSTANTS
    Client,        \* connections of ClusterServer, and the telemetry server
    ShardCount,
    Key,
    KeyHash,       \* key -> its hash
    DelLists,      \* the keys of a DEL
    SetValues,     \* values clients write
    SampleLimit,   \* limitPerShard of sampleClusterKeys (20)
    MaxInt,        \* bound on the counters
    Limited,       \* engineOptions limit keys or memory: any entry may be evicted
    Mortal         \* shards whose thread may end, by running out of memory for one

ASSUME ClusterAssumption ==
    /\ ShardCount \in Nat \ {0}
    /\ Node = 0..ShardCount - 1
    /\ KeyHash \in [Key -> Nat]
    /\ DelLists \subseteq Seq(Key) \ {<<>>}
    /\ SetValues \subseteq Nat /\ SampleLimit \in Nat /\ MaxInt \in Nat
    /\ Limited \in BOOLEAN /\ Mortal \subseteq Node

VARIABLES
    engine,     \* shard -> key -> [number, expires]
    inbox,      \* shard -> messages posted to the worker
    outbox,     \* shard -> answers posted to the master
    worker,     \* shard -> what its CROSS_SHARD_DEL handler is doing
    alive,      \* shards whose thread runs
    locks,      \* shard -> the slot of the shared lock buffer
    master,     \* what executeCrossShardDel is doing
    call,       \* client -> the call under way
    pendingRpcs,
    reply       \* client -> the last answer, until the next call

threads == <<engine, inbox, outbox, worker, alive>>
calls == <<call, pendingRpcs, reply>>
vars == <<threads, locks, master, calls>>

Shard == 0..ShardCount - 1
FREE == 0
TAKEN == 1
Missing == -1
NoEntry == [number |-> Missing, expires |-> FALSE]
Ok == -2
Quiet == [pc |-> "idle"]

Init ==
    /\ engine = [s \in Shard |-> [k \in Key |-> NoEntry]]
    /\ inbox = [s \in Shard |-> <<>>]
    /\ outbox = [s \in Shard |-> <<>>]
    /\ worker = [s \in Shard |-> Quiet]
    /\ alive = Shard
    /\ locks = [s \in Shard |-> FREE]
    /\ master = Quiet
    /\ call = [c \in Client |-> Quiet]
    /\ pendingRpcs = {}
    /\ reply = [c \in Client |-> Ok]
-----------------------------------------------------------------------------
(***************************************************************************)
(* The engine of a shard under one message.                                *)
(***************************************************************************)
Holding(e, keys) == {k \in keys : e[k].number # Missing}

\* How many keys it returns stands for which.
sampleKeys(e) == Min({Cardinality(Holding(e, Key)), SampleLimit})

\* The entries that expired or were evicted before the message is carried out.
Faded(e, msg) == [k \in Key |-> IF k \in msg.lost THEN NoEntry ELSE e[k]]

Execute(e, msg) ==
    LET left == Faded(e, msg) IN
    CASE msg.op = "SET" -> [left EXCEPT ![msg.key] = [number |-> msg.value, expires |-> msg.expires]]
      [] msg.op = "INCR" ->
            [left EXCEPT ![msg.key].number = IF @ = Missing THEN 1 ELSE @ + 1]
      [] msg.op \in {"DEL", "CROSS_SHARD_DEL"} ->
            [k \in Key |-> IF k \in msg.keys THEN NoEntry ELSE left[k]]
      [] OTHER -> left

Response(e, msg) ==
    LET left == Faded(e, msg) IN
    CASE msg.op \in {"SET", "PING"} -> Ok
      [] msg.op = "GET" -> left[msg.key].number
      [] msg.op = "INCR" -> Execute(e, msg)[msg.key].number
      [] msg.op \in {"DEL", "CROSS_SHARD_DEL"} -> Cardinality(Holding(left, msg.keys))
      [] msg.op = "STATS" -> Cardinality(Holding(left, Key))
      [] msg.op = "SAMPLE_KEYS" -> sampleKeys(left)

\* What shard s will hold when it is through with everything the master sent, or is
\* about to send, so far.
Running(s) == IF worker[s].pc \in {"acquire", "locked"} THEN <<worker[s].msg>> ELSE <<>>
Unposted(s) ==
    IF master.pc \in {"acquire", "post"} /\ s \in DOMAIN master.msgs THEN <<master.msgs[s]>>
    ELSE <<>>
Outcome(s) == FoldLeft(Execute, engine[s], Running(s) \o inbox[s] \o Unposted(s))
-----------------------------------------------------------------------------
(***************************************************************************)
(* execute, getClusterStats and sampleClusterKeys: msgs has one message    *)
(* for each shard that takes part.  sum adds up the answers so far; cmd    *)
(* and promise, what was called and what the answers will come to, are for *)
(* the refinement.                                                         *)
(***************************************************************************)
Ready(c) == master = Quiet /\ call[c] = Quiet
Begin(c, cmd, msgs) ==
    /\ Ready(c)
    /\ call' = [call EXCEPT ![c] =
          [pc |-> "called", cmd |-> cmd, sum |-> 0,
           promise |-> MapThenSumSet(LAMBDA s : Response(Outcome(s), msgs[s]), DOMAIN msgs)]]
    /\ reply' = [reply EXCEPT ![c] = Ok]

\* One message, to one shard.
To(s, msg) == [t \in {s} |-> msg]

\* sendToWorker, for every message.
sendToWorkers(c, msgs) ==
    /\ inbox' = [s \in Shard |-> IF s \in DOMAIN msgs THEN Append(inbox[s], msgs[s]) ELSE inbox[s]]
    /\ pendingRpcs' = pendingRpcs \cup ({c} \X DOMAIN msgs)
    /\ UNCHANGED <<engine, outbox, worker, alive>>

Send(c, cmd, msgs) ==
    /\ Begin(c, cmd, msgs)
    /\ sendToWorkers(c, msgs)
    /\ UNCHANGED <<locks, master>>

\* The constructor adds the shards in order, and nothing adds or removes one later.
Ring == FoldLeft(addNode, <<>>, [i \in 1..ShardCount |-> i - 1])
RingOwner == [k \in Key |-> getNode(Ring, KeyHash[k])]
getShardForKey(k) == RingOwner[k]

\* The entries of these keys that can have gone when a command called now meets them.
Vanishing(keys) ==
    {k \in keys : LET e == Outcome(getShardForKey(k))[k]
                  IN  e.number # Missing /\ (Limited \/ e.expires)}

GET(c, k) == \E lost \in SUBSET Vanishing({k}) :
    Send(c, <<"GET", k>>,
         To(getShardForKey(k), [client |-> c, op |-> "GET", key |-> k, lost |-> lost]))
SET(c, k, v, ex) ==
    Send(c, <<"SET", k, v, ex>>,
         To(getShardForKey(k), [client |-> c, op |-> "SET", key |-> k, value |-> v,
                                expires |-> ex, lost |-> {}]))
INCR(c, k) == \E lost \in SUBSET Vanishing({k}) :
    /\ k \notin lost => Outcome(getShardForKey(k))[k].number < MaxInt
    /\ Send(c, <<"INCR", k>>,
            To(getShardForKey(k), [client |-> c, op |-> "INCR", key |-> k, lost |-> lost]))
PING(c) == Send(c, <<"PING">>, To(0, [client |-> c, op |-> "PING", lost |-> {}]))

FanOut(c, op) == \E lost \in SUBSET Vanishing(Key) :
    Send(c, <<op>>, [s \in Shard |->
        [client |-> c, op |-> op, lost |-> {k \in lost : getShardForKey(k) = s}]])
getClusterStats(c) == FanOut(c, "STATS")
sampleClusterKeys(c) == FanOut(c, "SAMPLE_KEYS")

shardKeyMap(c, op, keys, lost) ==
    [s \in {getShardForKey(k) : k \in keys} |->
        [client |-> c, op |-> op, keys |-> {k \in keys : getShardForKey(k) = s},
         lost |-> {k \in lost : getShardForKey(k) = s}]]

\* One key: routed like any command.  More keys on one shard: its lock alone.
DelOnOneShard(c, keys) == \E lost \in SUBSET Vanishing(ToSet(keys)) :
    LET op == IF Len(keys) = 1 THEN "DEL" ELSE "CROSS_SHARD_DEL"
        msgs == shardKeyMap(c, op, ToSet(keys), lost)
    IN  Cardinality(DOMAIN msgs) = 1 /\ Send(c, <<"DEL", ToSet(keys)>>, msgs)
-----------------------------------------------------------------------------
(***************************************************************************)
(* executeCrossShardDel over several shards.  withMultiLock takes the      *)
(* locks in ascending order, posts, and releases at the first await, which *)
(* is before any answer.                                                   *)
(***************************************************************************)
executeCrossShardDel(c, keys) == \E lost \in SUBSET Vanishing(ToSet(keys)) :
    LET msgs == shardKeyMap(c, "CROSS_SHARD_DEL", ToSet(keys), lost) IN
    /\ Cardinality(DOMAIN msgs) > 1
    /\ Begin(c, <<"DEL", ToSet(keys)>>, msgs)
    /\ master' = [pc |-> "acquire", client |-> c, msgs |-> msgs, held |-> {}]
    /\ UNCHANGED <<threads, locks, pendingRpcs>>

\* Mutant: the locks are not taken.
Locking_None == {}
Locking == DOMAIN master.msgs

acquireLocks ==
    /\ master.pc = "acquire" /\ master.held # Locking
    /\ LET s == Min(Locking \ master.held) IN
          /\ locks[s] = FREE
          /\ locks' = [locks EXCEPT ![s] = TAKEN]
          /\ master' = [master EXCEPT !.held = @ \cup {s}]
    /\ UNCHANGED <<threads, calls>>

\* The order of the posts is that of the keys, which does not matter here.
PostOne(s) ==
    /\ master.pc = "post" \/ (master.pc = "acquire" /\ master.held = Locking)
    /\ s \in DOMAIN master.msgs
    /\ sendToWorkers(master.client, To(s, master.msgs[s]))
    /\ LET left == [t \in DOMAIN master.msgs \ {s} |-> master.msgs[t]]
       IN  master' = [master EXCEPT !.pc = IF DOMAIN left = {} THEN "release" ELSE "post",
                                    !.msgs = left]
    /\ UNCHANGED <<locks, call, reply>>

\* release stores FREE, whoever has the lock.
releaseAll ==
    /\ master.pc = "release"
    /\ IF master.held = {}
       THEN master' = Quiet /\ UNCHANGED locks
       ELSE LET s == Max(master.held) IN
            /\ locks' = [locks EXCEPT ![s] = FREE]
            /\ master' = [master EXCEPT !.held = @ \ {s}]
    /\ UNCHANGED <<threads, calls>>
-----------------------------------------------------------------------------
(***************************************************************************)
(* The worker's message handler.  All but a cross-shard deletion, which    *)
(* takes the lock, end at once.                                            *)
(***************************************************************************)
Working(s, pc) == s \in alive /\ worker[s].pc = pc
Next1(s) == inbox' = [inbox EXCEPT ![s] = Tail(@)]
Post(s, c, answer) == outbox' = [outbox EXCEPT ![s] = Append(@, [client |-> c, answer |-> answer])]

\* EXECUTE takes no lock.
Locks(msg) == msg.op = "CROSS_SHARD_DEL"

WorkerExecutes(s) ==
    /\ Working(s, "idle") /\ inbox[s] # <<>> /\ ~Locks(Head(inbox[s]))
    /\ engine' = [engine EXCEPT ![s] = Execute(@, Head(inbox[s]))]
    /\ Post(s, Head(inbox[s]).client, Response(engine[s], Head(inbox[s])))
    /\ Next1(s)
    /\ UNCHANGED <<worker, alive, locks, master, calls>>

WorkerTakes(s) ==
    /\ Working(s, "idle") /\ inbox[s] # <<>> /\ Locks(Head(inbox[s]))
    /\ worker' = [worker EXCEPT ![s] = [pc |-> "acquire", msg |-> Head(inbox[s])]]
    /\ Next1(s)
    /\ UNCHANGED <<engine, outbox, alive, locks, master, calls>>

WorkerAcquires(s) ==
    /\ Working(s, "acquire") /\ locks[s] = FREE
    /\ locks' = [locks EXCEPT ![s] = TAKEN]
    /\ worker' = [worker EXCEPT ![s].pc = "locked"]
    /\ UNCHANGED <<engine, inbox, outbox, alive, master, calls>>

WorkerDeletes(s) ==
    /\ Working(s, "locked")
    /\ engine' = [engine EXCEPT ![s] = Execute(@, worker[s].msg)]
    /\ worker' = [worker EXCEPT ![s] =
          [pc |-> "deleted", client |-> @.msg.client, count |-> Response(engine[s], @.msg)]]
    /\ UNCHANGED <<inbox, outbox, alive, locks, master, calls>>

\* Mutant: an early return skips the release.
FreeLock_Not(s) == UNCHANGED locks
FreeLock(s) == locks' = [locks EXCEPT ![s] = FREE]

WorkerAnswers(s) ==
    /\ Working(s, "deleted")
    /\ FreeLock(s)
    /\ Post(s, worker[s].client, worker[s].count)
    /\ worker' = [worker EXCEPT ![s] = Quiet]
    /\ UNCHANGED <<engine, inbox, alive, master, calls>>

\* The thread ends, perhaps with its lock.  The master logs it and does nothing.
WorkerDies(s) ==
    /\ s \in alive \cap Mortal
    /\ alive' = alive \ {s}
    /\ UNCHANGED <<engine, inbox, outbox, worker, locks, master, calls>>
-----------------------------------------------------------------------------
\* Mutant: the call is answered when the first shard is.
Complete_First(c, left) == TRUE
Complete(c, left) == \A rpc \in left : rpc[1] # c

\* An answer reaches the master; the last one answers the call.
handleWorkerMessage(s) ==
    /\ master = Quiet /\ outbox[s] # <<>>
    /\ outbox' = [outbox EXCEPT ![s] = Tail(@)]
    /\ LET msg == Head(outbox[s])
           c == msg.client
           sum == call[c].sum + msg.answer
       IN  IF <<c, s>> \notin pendingRpcs THEN UNCHANGED calls
           ELSE /\ pendingRpcs' = pendingRpcs \ {<<c, s>>}
                /\ IF Complete(c, pendingRpcs')
                   THEN reply' = [reply EXCEPT ![c] = sum] /\ call' = [call EXCEPT ![c] = Quiet]
                   ELSE call' = [call EXCEPT ![c].sum = sum] /\ UNCHANGED reply
    /\ UNCHANGED <<engine, inbox, worker, alive, locks, master>>

\* close: SHUTDOWN and terminate end the threads, and the calls under way with them.
close ==
    /\ master = Quiet
    /\ alive' = {}
    /\ pendingRpcs' = {}
    /\ master' = [pc |-> "closed"]
    /\ UNCHANGED <<engine, inbox, outbox, worker, locks, call, reply>>

Command(c) ==
    /\ Ready(c)
    /\ \/ \E k \in Key : GET(c, k) \/ INCR(c, k)
       \/ \E k \in Key, v \in SetValues, ex \in BOOLEAN : SET(c, k, v, ex)
       \/ PING(c) \/ getClusterStats(c) \/ sampleClusterKeys(c)
       \/ \E keys \in DelLists : DelOnOneShard(c, keys) \/ executeCrossShardDel(c, keys)

Master == acquireLocks \/ (\E s \in Shard : PostOne(s)) \/ releaseAll
Worker(s) ==
    WorkerExecutes(s) \/ WorkerTakes(s) \/ WorkerAcquires(s) \/ WorkerDeletes(s) \/ WorkerAnswers(s)

Next ==
    \/ \E c \in Client : Command(c)
    \/ Master
    \/ \E s \in Shard : Worker(s) \/ handleWorkerMessage(s) \/ WorkerDies(s)
    \/ close

Spec == Init /\ [][Next]_vars

(***************************************************************************)
(* Threads run and messages arrive.  Nobody has to call, die or close.     *)
(***************************************************************************)
FairSpec ==
    /\ Spec
    /\ WF_vars(Master)
    /\ \A s \in Shard : WF_vars(Worker(s)) /\ WF_vars(handleWorkerMessage(s))
-----------------------------------------------------------------------------
\* The ring as a circle: the shard of the next point clockwise, the lowest if it has more.
Owner ==
    LET Hashes == UNION {ToSet(VnodeHashes[s]) : s \in Shard}
        Ahead(k) == {h \in Hashes : h >= KeyHash[k]}
        Point(k) == IF Ahead(k) = {} THEN Min(Hashes) ELSE Min(Ahead(k))
    IN  [k \in Key |-> Min({s \in Shard : Point(k) \in ToSet(VnodeHashes[s])})]

Count == Nat \cup {Missing, Ok}
KeysOf(s) == {k \in Key : Owner[k] = s}
EngineEntry == [number : Nat, expires : BOOLEAN] \cup {NoEntry}
MessageTo(s) ==
    [client : Client, op : {"GET", "INCR"}, key : KeysOf(s), lost : SUBSET KeysOf(s)]
        \cup [client : Client, op : {"SET"}, key : KeysOf(s), value : Nat, expires : BOOLEAN,
              lost : SUBSET KeysOf(s)]
        \cup [client : Client, op : {"DEL", "CROSS_SHARD_DEL"}, keys : SUBSET KeysOf(s),
              lost : SUBSET KeysOf(s)]
        \cup [client : Client, op : {"PING", "STATS", "SAMPLE_KEYS"}, lost : SUBSET KeysOf(s)]
Deletion(s) == {m \in MessageTo(s) : m.op = "CROSS_SHARD_DEL"}

MasterOK ==
    \/ master \in {Quiet, [pc |-> "closed"]}
    \/ /\ master.pc \in {"acquire", "post", "release"}
       /\ DOMAIN master = {"pc", "client", "msgs", "held"}
       /\ master.client \in Client /\ master.held \subseteq Shard
       /\ DOMAIN master.msgs \subseteq Shard
       /\ \A s \in DOMAIN master.msgs : master.msgs[s] \in Deletion(s)

CallOK(c) ==
    \/ call[c] = Quiet
    \/ /\ DOMAIN call[c] = {"pc", "cmd", "sum", "promise"} /\ call[c].pc = "called"
       /\ call[c].sum \in Int /\ call[c].promise \in Int

\* A shard sees keys of its own only.
TypeOK ==
    /\ engine \in [Shard -> [Key -> EngineEntry]]
    /\ DOMAIN inbox = Shard /\ \A s \in Shard : inbox[s] \in Seq(MessageTo(s))
    /\ outbox \in [Shard -> Seq([client : Client, answer : Count])]
    /\ DOMAIN worker = Shard
    /\ \A s \in Shard : worker[s] \in {Quiet} \cup [pc : {"acquire", "locked"}, msg : Deletion(s)]
                                  \cup [pc : {"deleted"}, client : Client, count : Count]
    /\ alive \subseteq Shard
    /\ locks \in [Shard -> {FREE, TAKEN}]
    /\ MasterOK
    /\ DOMAIN call = Client /\ \A c \in Client : CallOK(c)
    /\ pendingRpcs \subseteq Client \X Shard
    /\ reply \in [Client -> Int]

HeldByMaster(s) == "held" \in DOMAIN master /\ s \in master.held
HeldByWorker(s) == worker[s].pc \in {"locked", "deleted"}

\* A lock is set exactly while one thread has it, and never two: release, which asks
\* nobody, is only called by the thread that acquired.
LocksExact ==
    \A s \in Shard :
        /\ locks[s] = TAKEN <=> HeldByMaster(s) \/ HeldByWorker(s)
        /\ ~(HeldByMaster(s) /\ HeldByWorker(s))

\* Messages reach the shard that owns their keys, and locks tell who has them.
Consistent == TypeOK /\ LocksExact

\* "Coordinates atomic, cross-shard multi-key DEL" (cluster-coordinator.ts:143): no
\* shard deletes before every shard has its part of the keys.  This is what the locks
\* give, which are released long before the deletion ends.
FanOutWhole ==
    \A s \in Shard :
        worker[s].pc = "locked" /\ master.pc \in {"acquire", "post"}
            => worker[s].msg.client # master.client

\* Callers see one store on which each of their commands takes effect at once, the fan-outs
\* included, also when workers die: the order of the posts is the order of the commands,
\* on every shard.  Only an entry with a deadline may be gone when a command meets it,
\* each for itself: two that expire at one time are not seen to go together.
Store == INSTANCE ClusterStore WITH
    store <- [k \in Key |-> Outcome(Owner[k])[k]],
    cmd <- [c \in Client |-> IF call[c] = Quiet THEN <<>> ELSE call[c].cmd],
    owed <- [c \in Client |-> IF call[c] = Quiet THEN {} ELSE {call[c].promise}]
ImplementsStore == Store!Spec

\* A call is answered when the shards it needs live, whatever happened to the others,
\* unless a worker died in its critical section: the master would wait for ever.
ToPost(c) == IF master.pc \in {"acquire", "post"} /\ master.client = c THEN DOMAIN master.msgs ELSE {}
Awaited(c) == {s \in Shard : <<c, s>> \in pendingRpcs} \cup ToPost(c)
Orphaned == \E s \in Shard \ alive : HeldByWorker(s)
CallsAnswered ==
    \A c \in Client :
        (call[c] # Quiet /\ Awaited(c) \subseteq alive)
            ~> (call[c] = Quiet \/ ~(Awaited(c) \subseteq alive) \/ Orphaned \/ master.pc = "closed")
=============================================================================
