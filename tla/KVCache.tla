------------------------------ MODULE KVCache -------------------------------
(***************************************************************************)
(* What StorageEngine promises its clients: every command takes effect at  *)
(* once, on the entries that have not expired, and returns what these say. *)
(* An entry goes with its deadline, with a command that deletes it, or,    *)
(* when there is a limit, while a write makes room.  Nothing else changes  *)
(* an entry, and no entry comes back.                                      *)
(***************************************************************************)
EXTENDS Integers, FiniteSets

CONSTANTS Key, Value, Nil, Ttl, KeyLimit, MemoryLimit

VARIABLES store,    \* key -> [value, expiresAt], unexpired
          clock,
          owed,     \* the result a command that has taken effect will return
          reply     \* the last result

vars == <<store, clock, owed, reply>>

NoExpiry == -1
NoReply == [op |-> "none"]

Init ==
    /\ store = [k \in {} |-> [value |-> 0, expiresAt |-> NoExpiry]]
    /\ clock = 0 /\ owed = {} /\ reply = NoReply

Holds(k) == k \in DOMAIN store
Without(S) == [k \in DOMAIN store \ S |-> store[k]]
With(k, e) == [j \in DOMAIN store \cup {k} |-> IF j = k THEN e ELSE store[j]]

\* A command returns its result at once or later; until then no other one begins.
Takes(result) ==
    /\ owed = {}
    /\ \/ owed' = {} /\ reply' = result
       \/ owed' = {result} /\ reply' = NoReply
    /\ UNCHANGED clock

Returns ==
    /\ owed # {} /\ owed' = {} /\ reply' \in owed
    /\ UNCHANGED <<store, clock>>

set(k, v, ex) ==
    /\ Takes([op |-> "set", key |-> k, value |-> v, ex |-> ex])
    /\ store' = With(k, [value |-> v, expiresAt |-> IF ex > 0 THEN clock + ex ELSE NoExpiry])

get(k) ==
    /\ Takes([op |-> "get", key |-> k, value |-> IF Holds(k) THEN store[k].value ELSE Nil])
    /\ UNCHANGED store

incrAbsent(k) ==
    /\ ~Holds(k)
    /\ Takes([op |-> "incr", key |-> k, value |-> 1])
    /\ store' = With(k, [value |-> 1, expiresAt |-> NoExpiry])

incrPresent(k) ==
    /\ Holds(k) /\ store[k].value \in Int
    /\ Takes([op |-> "incr", key |-> k, value |-> store[k].value + 1])
    /\ store' = With(k, [value |-> store[k].value + 1, expiresAt |-> store[k].expiresAt])

incrNotInteger(k) ==
    /\ Holds(k) /\ store[k].value \notin Int
    /\ Takes([op |-> "error", key |-> k])
    /\ UNCHANGED store

ttl(k) ==
    /\ Takes([op |-> "ttl", key |-> k,
              left |-> IF ~Holds(k) THEN -2
                       ELSE IF store[k].expiresAt = NoExpiry THEN -1
                       ELSE store[k].expiresAt - clock])
    /\ UNCHANGED store

del(keys) ==
    /\ Takes([op |-> "del", keys |-> keys, deleted |-> Cardinality(keys \cap DOMAIN store)])
    /\ store' = Without(keys)

clear == Takes([op |-> "clear"]) /\ store' = Without(DOMAIN store)

\* Only a write makes room, and never at the expense of its own key for the key limit.
Evict(k) ==
    /\ \E result \in owed :
          /\ result.op \in {"set", "incr"}
          /\ MemoryLimit \/ (KeyLimit /\ k # result.key)
    /\ store' = Without({k})
    /\ UNCHANGED <<clock, owed, reply>>

Tick ==
    /\ clock' = clock + 1
    /\ store' = Without({k \in DOMAIN store : store[k].expiresAt = clock'})
    /\ UNCHANGED <<owed, reply>>

Next ==
    \/ \E k \in Key :
          \/ get(k) \/ incrAbsent(k) \/ incrPresent(k) \/ incrNotInteger(k) \/ ttl(k) \/ Evict(k)
          \/ \E v \in Value, ex \in Ttl : set(k, v, ex)
    \/ \E keys \in SUBSET Key : del(keys)
    \/ clear \/ Returns \/ Tick

Spec == Init /\ [][Next]_vars
=============================================================================
