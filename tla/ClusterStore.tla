---------------------------- MODULE ClusterStore ----------------------------
(***************************************************************************)
(* What a cluster of shards promises its callers: one store, on which      *)
(* every command takes effect at once between its call and its answer.     *)
(* A command may find that entries with a deadline have gone.              *)
(***************************************************************************)
EXTENDS Integers, Sequences, FiniteSets, SequencesExt

CONSTANTS Client, Key, DelLists, SetValues,
          Limited   \* entries without a deadline may go, too

VARIABLES store,   \* key -> [number, expires]
          cmd,     \* client -> the command it has called, or none
          owed,    \* client -> the answer it is owed, or nothing
          reply    \* client -> the last answer, until the next call

vars == <<store, cmd, owed, reply>>

Missing == -1
NoEntry == [number |-> Missing, expires |-> FALSE]
Ok == -2
None == <<>>

Init ==
    /\ store = [k \in Key |-> NoEntry]
    /\ cmd = [c \in Client |-> None]
    /\ owed = [c \in Client |-> {}]
    /\ reply = [c \in Client |-> Ok]

PresentIn(s) == {k \in Key : s[k].number # Missing}
Vanishing(keys) == {k \in keys \cap PresentIn(store) : Limited \/ store[k].expires}

\* The store without the entries that have gone.
Faded(lost) == [k \in Key |-> IF k \in lost THEN NoEntry ELSE store[k]]

Call(c, command) ==
    /\ cmd[c] = None
    /\ cmd' = [cmd EXCEPT ![c] = command]
    /\ reply' = [reply EXCEPT ![c] = Ok]
Owe(c, answer) == owed' = [owed EXCEPT ![c] = {answer}]

GET(c, k) ==
    /\ Call(c, <<"GET", k>>)
    /\ \E lost \in SUBSET Vanishing({k}) : Owe(c, Faded(lost)[k].number) /\ store' = Faded(lost)
SET(c, k, v, ex) ==
    /\ Call(c, <<"SET", k, v, ex>>)
    /\ Owe(c, Ok)
    /\ store' = [store EXCEPT ![k] = [number |-> v, expires |-> ex]]
INCR(c, k) ==
    /\ Call(c, <<"INCR", k>>)
    /\ \E lost \in SUBSET Vanishing({k}) :
          LET old == Faded(lost)[k]
              n == IF old = NoEntry THEN 1 ELSE old.number + 1
          IN  Owe(c, n) /\ store' = [store EXCEPT ![k] = [number |-> n, expires |-> old.expires]]
DEL(c, keys) ==
    /\ Call(c, <<"DEL", keys>>)
    /\ \E lost \in SUBSET Vanishing(keys) : Owe(c, Cardinality(keys \cap PresentIn(Faded(lost))))
    /\ store' = [k \in Key |-> IF k \in keys THEN NoEntry ELSE store[k]]
Size(c) ==
    /\ Call(c, <<"STATS">>)
    /\ \E lost \in SUBSET Vanishing(Key) :
          Owe(c, Cardinality(PresentIn(Faded(lost)))) /\ store' = Faded(lost)
Sample(c) ==
    /\ Call(c, <<"SAMPLE_KEYS">>)
    /\ \E lost \in SUBSET Vanishing(Key) :
          /\ \E n \in 0..Cardinality(PresentIn(Faded(lost))) : Owe(c, n)
          /\ store' = Faded(lost)
PING(c) == Call(c, <<"PING">>) /\ Owe(c, Ok) /\ UNCHANGED store

Answer(c) ==
    /\ cmd' = [cmd EXCEPT ![c] = None]
    /\ owed' = [owed EXCEPT ![c] = {}]
    /\ reply' \in {[reply EXCEPT ![c] = answer] : answer \in owed[c]}
    /\ UNCHANGED store

Next == \E c \in Client :
    \/ \E k \in Key : GET(c, k) \/ INCR(c, k) \/ \E v \in SetValues, ex \in BOOLEAN : SET(c, k, v, ex)
    \/ \E keys \in DelLists : DEL(c, ToSet(keys))
    \/ Size(c) \/ Sample(c) \/ PING(c) \/ Answer(c)

Spec == Init /\ [][Next]_vars
=============================================================================
