------------------------------ MODULE Recovery ------------------------------
(***************************************************************************)
(* What a restart restores: command-handler.ts executes commands on the    *)
(* engine and logs some of them; server.ts hands its own empty engine,     *)
(* with its limits, to aof-recovery.ts, which executes the logged commands *)
(* again before the port opens.  Disk and queue are AofLogger's; here      *)
(* every frame reaches the file.                                           *)
(***************************************************************************)
EXTENDS Integers, Sequences, SequencesExt, FiniteSets

CONSTANTS
    Key,
    Text,          \* values INCR refuses
    Ttl,           \* values of EX; 0 stands for a SET without EX
    DelLists,      \* arguments of DEL
    MaxKeys,       \* options.maxKeys, 0 = no limit
    MemoryLimit,   \* options.maxMemoryBytes > 0
    MaxInt, MaxTime, MaxLog   \* bounds: counters, clock, commands logged

ASSUME RecoveryAssumption ==
    /\ Text \cap Int = {} /\ Ttl \subseteq Nat /\ DelLists \subseteq Seq(Key)
    /\ MaxKeys \in Nat /\ MemoryLimit \in BOOLEAN
    /\ {MaxInt, MaxTime, MaxLog} \subseteq Nat

VARIABLES store,     \* key -> [value, expiresAt]
          log,       \* commands in the file
          pos,       \* how many of them the store has executed
          serving,   \* the port is open; otherwise the recovery runs
          clock,
          lost,      \* history: keys evicted since the last SET or DEL in the file
          before     \* history: store and lost when the server went down, and the time

vars == <<store, log, pos, serving, clock, lost, before>>

NoExpiry == -1
NoEntries == [k \in {} |-> [value |-> 0, expiresAt |-> NoExpiry]]
NotDown == [store |-> NoEntries, lost |-> {}, at |-> 0]

Live(s, k, now) ==
    k \in DOMAIN s /\ (s[k].expiresAt = NoExpiry \/ now < s[k].expiresAt)

With(s, k, v, expiresAt) ==
    [j \in DOMAIN s \cup {k} |->
        IF j = k THEN [value |-> v, expiresAt |-> expiresAt] ELSE s[j]]
Without(s, S) == [j \in DOMAIN s \ S |-> s[j]]

\* Refused by BigInt(): the command throws before it is logged.
Fails(s, cmd, now) ==
    cmd.name = "INCR" /\ Live(s, cmd.key, now) /\ s[cmd.key].value \notin Int

\* The engine after a command, as long as it has room: the same code for clients and
\* for the recovery.
Executed(s, cmd, now) ==
    CASE cmd.name = "SET" ->
            With(s, cmd.key, cmd.value, IF cmd.ex > 0 THEN now + cmd.ex ELSE NoExpiry)
      [] cmd.name = "DEL" -> Without(s, ToSet(cmd.keys))
      [] cmd.name = "INCR" ->
            IF Fails(s, cmd, now) THEN s
            ELSE IF Live(s, cmd.key, now)
            THEN With(s, cmd.key, s[cmd.key].value + 1, s[cmd.key].expiresAt)
            ELSE With(s, cmd.key, 1, NoExpiry)

\* SET makes room, and so does the SET inside an INCR that finds nothing.
MakesRoom(s, cmd, now) ==
    cmd.name = "SET" \/ (cmd.name = "INCR" /\ ~Live(s, cmd.key, now))

\* The keys checkMemoryAndEvict may take: one too many, never the one just written, or,
\* with a memory limit, whatever the heap says.  Which is the least recently used one
\* depends on reads, which the file does not have, so any key may be.
Victims(s, cmd, now) ==
    LET after == Executed(s, cmd, now)
        Left(V) == Cardinality(DOMAIN after \ V)
    IN  IF ~MakesRoom(s, cmd, now) THEN {{}}
        ELSE {V \in SUBSET DOMAIN after :
                 /\ MaxKeys > 0 => Left(V) <= MaxKeys
                 /\ MemoryLimit \/ V = {} \/ (MaxKeys > 0 /\ Left(V) = MaxKeys /\ cmd.key \notin V)}

\* Mutant: an overwriting INCR is not logged.
Logged_SetAndDelOnly(s, cmd, now) ==
    \/ cmd.name = "SET"
    \/ cmd.name = "DEL" /\ \E k \in ToSet(cmd.keys) : Live(s, k, now)

\* DEL is logged only when it deleted something that had not expired.
Logged(s, cmd, now) ==
    \/ cmd.name = "SET"
    \/ cmd.name = "DEL" /\ \E k \in ToSet(cmd.keys) : Live(s, k, now)
    \/ cmd.name = "INCR" /\ ~Fails(s, cmd, now)

\* The file says anew what these keys are.
Renewed(cmd) ==
    IF cmd.name = "SET" THEN {cmd.key} ELSE IF cmd.name = "DEL" THEN ToSet(cmd.keys) ELSE {}

Init ==
    /\ store = NoEntries /\ log = <<>> /\ pos = 0 /\ serving = TRUE
    /\ clock = 0 /\ lost = {} /\ before = NotDown
-----------------------------------------------------------------------------
\* CommandHandler.execute on the engine; the file says of the renewed keys what they are.
Executes(cmd, renewed) ==
    \E V \in Victims(store, cmd, clock) :
        /\ store' = Without(Executed(store, cmd, clock), V)
        /\ lost' = (lost \ renewed) \cup V

execute(cmd) ==
    /\ serving
    /\ IF Logged(store, cmd, clock)
       THEN Executes(cmd, Renewed(cmd)) /\ log' = Append(log, cmd) /\ pos' = pos + 1
       ELSE Executes(cmd, {}) /\ UNCHANGED <<log, pos>>
    /\ UNCHANGED <<serving, clock, before>>

SET(k, v, ex) ==
    /\ Len(log) < MaxLog
    /\ execute([name |-> "SET", key |-> k, value |-> v, ex |-> ex])
DEL(keys) ==
    /\ Len(log) < MaxLog
    /\ execute([name |-> "DEL", keys |-> keys])
INCR(k) ==
    /\ Len(log) < MaxLog
    /\ Live(store, k, clock) /\ store[k].value \in Int => store[k].value < MaxInt
    /\ execute([name |-> "INCR", key |-> k])

\* A read or a sweep that meets an expired entry removes it; nothing is logged.  The
\* sweep runs during a recovery too.
Expire(k) ==
    /\ k \in DOMAIN store /\ ~Live(store, k, clock)
    /\ store' = Without(store, {k})
    /\ UNCHANGED <<log, pos, serving, clock, lost, before>>

Tick ==
    /\ clock < MaxTime /\ clock' = clock + 1
    /\ UNCHANGED <<store, log, pos, serving, lost, before>>

\* The process ends, and a new one begins with an empty engine.  When it ends during a
\* recovery, the next one still has to restore what there was before the first end.
restart ==
    /\ store' = NoEntries /\ pos' = 0 /\ serving' = FALSE /\ lost' = {}
    /\ before' = IF serving THEN [store |-> store, lost |-> lost, at |-> clock] ELSE before
    /\ UNCHANGED <<log, clock>>

\* The next command of the file; what it throws is dropped.
restore ==
    /\ ~serving /\ pos < Len(log)
    /\ Executes(log[pos + 1], Renewed(log[pos + 1])) /\ pos' = pos + 1
    /\ UNCHANGED <<log, serving, clock, before>>

\* The recovery has read the file to its end: the port opens.
Restored == ~serving /\ pos = Len(log)
listen ==
    /\ Restored
    /\ serving' = TRUE /\ before' = NotDown
    /\ UNCHANGED <<store, log, pos, clock, lost>>

Next ==
    \/ \E k \in Key : INCR(k) \/ Expire(k)
    \/ \E k \in Key, v \in Text \cup 0..MaxInt, ex \in Ttl : SET(k, v, ex)
    \/ \E keys \in DelLists : DEL(keys)
    \/ Tick \/ restart \/ restore \/ listen

Spec == Init /\ [][Next]_vars
-----------------------------------------------------------------------------
LiveValues(s, now) ==
    [k \in Key |-> IF Live(s, k, now) THEN <<s[k].value>> ELSE <<>>]

\* "restore the exact in-memory engine state" (aof-recovery.ts:15): when the port opens,
\* clients see what they would see had the server not gone down.
RestoresExact == Restored => LiveValues(store, clock) = LiveValues(before.store, clock)

\* What the commands say when nothing expires and nothing is evicted: the values of the
\* keys, and the EX they were set with.
Said(cmds) == FoldLeft(LAMBDA s, cmd : Executed(s, cmd, 0), NoEntries, cmds)
Timed(k) == k \in DOMAIN Said(log) /\ Said(log)[k].expiresAt # NoExpiry

\* Of a key whose last SET had no EX, clients see what they saw before, although DEL and
\* INCR are logged only in some cases.
SameAsBefore(k) == LiveValues(store, clock)[k] = LiveValues(before.store, clock)[k]

\* An entry that would still be going to expire is back with its value, and expires no
\* earlier than it would have.
DeadlineSurvives(k) ==
    Live(before.store, k, clock) /\ before.store[k].expiresAt # NoExpiry =>
        /\ k \in DOMAIN store
        /\ store[k].value = before.store[k].value
        /\ store[k].expiresAt >= before.store[k].expiresAt

\* There are more keys than the engine keeps.
Named == {k \in Key : \E i \in DOMAIN log : log[i].name # "DEL" /\ log[i].key = k}
Crowded == MemoryLimit \/ (MaxKeys > 0 /\ Cardinality(Named) > MaxKeys)

\* When the port opens, the store has what it had, but for the keys the engine evicted
\* before it went down or has evicted again: the recovery makes room as well, and without
\* the reads that had kept a key.  An engine that has room for all keys loses none.
RestartKeeps ==
    Restored =>
        /\ \A k \in Key \ (before.lost \cup lost) :
              IF Timed(k) THEN DeadlineSurvives(k) ELSE SameAsBefore(k)
        /\ before.lost \cup lost = {} \/ Crowded
=============================================================================
