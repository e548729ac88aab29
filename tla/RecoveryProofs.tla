--------------------------- MODULE RecoveryProofs ---------------------------
(***************************************************************************)
(* A restart keeps what has no deadline and what still has one, but for    *)
(* what the engine evicts, for any keys, commands, deadlines and limits.   *)
(***************************************************************************)
EXTENDS Recovery, LeastNumber, FiniteSetTheorems, SequenceTheorems

Value == Text \cup Int
Entry == [value : Value, expiresAt : Int]
Stores == UNION {[D -> Entry] : D \in SUBSET Key}

Command ==
    [name : {"SET"}, key : Key, value : Value, ex : Ttl]
        \cup [name : {"DEL"}, keys : Seq(Key)] \cup [name : {"INCR"}, key : Key]

\* What a store says of a key.
At(s, k) == IF k \in DOMAIN s THEN <<s[k]>> ELSE <<>>

\* A store and its entries.
LEMMA StoreFacts ==
    ASSUME NEW s \in Stores
    PROVE  /\ DOMAIN s \in SUBSET Key /\ s \in [DOMAIN s -> Entry]
           /\ \A k \in DOMAIN s : /\ k \in Key /\ s[k] \in Entry
                                  /\ s[k].value \in Value /\ s[k].expiresAt \in Int
                                  /\ s[k] = [value |-> s[k].value, expiresAt |-> s[k].expiresAt]
BY DEF Stores, Entry

\* Writing an entry changes the store there.
LEMMA WithFacts ==
    ASSUME NEW s \in Stores, NEW k \in Key, NEW v \in Value, NEW d \in Int
    PROVE  /\ With(s, k, v, d) \in Stores
           /\ \A j \in Key : At(With(s, k, v, d), j) =
                  IF j = k THEN <<[value |-> v, expiresAt |-> d]>> ELSE At(s, j)
<1> DEFINE new == With(s, k, v, d)
<1>1. s \in [DOMAIN s -> Entry] /\ DOMAIN s \cup {k} \in SUBSET Key
  BY StoreFacts
<1>2. /\ DOMAIN new = DOMAIN s \cup {k} /\ new[k] = [value |-> v, expiresAt |-> d]
      /\ \A j \in DOMAIN s : j # k => new[j] = s[j]
  BY DEF With
<1>3. new \in [DOMAIN s \cup {k} -> Entry]
  BY <1>1 DEF With, Entry
<1> HIDE DEF new
<1>4. new \in Stores
  BY <1>1, <1>3 DEF Stores
<1>5. \A j \in Key : At(new, j) = IF j = k THEN <<[value |-> v, expiresAt |-> d]>> ELSE At(s, j)
  BY <1>2 DEF At
<1> QED
  BY <1>4, <1>5 DEF new

\* Deleting keys leaves the others.
LEMMA WithoutFacts ==
    ASSUME NEW s \in Stores, NEW S
    PROVE  /\ Without(s, S) \in Stores
           /\ \A j \in Key : At(Without(s, S), j) = IF j \in S THEN <<>> ELSE At(s, j)
<1>1. s \in [DOMAIN s -> Entry] /\ DOMAIN s \ S \in SUBSET Key
  BY StoreFacts
<1>2. Without(s, S) \in [DOMAIN s \ S -> Entry]
  BY <1>1 DEF Without
<1>3. Without(s, S) \in Stores
  BY <1>1, <1>2 DEF Stores
<1> QED
  BY <1>3 DEF Without, At
-----------------------------------------------------------------------------
(***************************************************************************)
(* What a command makes of a key depends on that key alone.                *)
(***************************************************************************)
\* What is left of e, the entry a store has of k or none, after a command.
Changed(e, k, cmd, now) ==
    CASE cmd.name = "SET" ->
            IF cmd.key # k THEN e
            ELSE <<[value |-> cmd.value, expiresAt |-> IF cmd.ex > 0 THEN now + cmd.ex ELSE NoExpiry]>>
      [] cmd.name = "DEL" -> IF k \in ToSet(cmd.keys) THEN <<>> ELSE e
      [] cmd.name = "INCR" ->
            IF cmd.key # k THEN e
            ELSE IF e # <<>> /\ (e[1].expiresAt = NoExpiry \/ now < e[1].expiresAt)
            THEN IF e[1].value \in Int
                 THEN <<[value |-> e[1].value + 1, expiresAt |-> e[1].expiresAt]>> ELSE e
            ELSE <<[value |-> 1, expiresAt |-> NoExpiry]>>

\* The three kinds of commands.
LEMMA CommandKinds ==
    ASSUME NEW cmd \in Command
    PROVE  \/ cmd.name = "SET" /\ cmd.key \in Key /\ cmd.value \in Value /\ cmd.ex \in Ttl
           \/ cmd.name = "DEL" /\ cmd.keys \in Seq(Key)
           \/ cmd.name = "INCR" /\ cmd.key \in Key
BY DEF Command

\* A command leaves a store, and changes it key by key.
LEMMA ExecutedFacts ==
    ASSUME NEW s \in Stores, NEW cmd \in Command, NEW now \in Nat
    PROVE  /\ Executed(s, cmd, now) \in Stores
           /\ \A k \in Key : At(Executed(s, cmd, now), k) = Changed(At(s, k), k, cmd, now)
<1>0. "SET" # "DEL" /\ "SET" # "INCR" /\ "DEL" # "INCR" /\ NoExpiry \in Int
  BY DEF NoExpiry
<1>1. CASE cmd.name = "SET" /\ cmd.key \in Key /\ cmd.value \in Value /\ cmd.ex \in Ttl
  <2> DEFINE d == IF cmd.ex > 0 THEN now + cmd.ex ELSE NoExpiry
  <2>0. cmd.key \in Key /\ cmd.value \in Value /\ cmd.ex \in Nat
    BY <1>1, RecoveryAssumption DEF RecoveryAssumption
  <2>1. d \in Int
    BY <1>0, <2>0
  <2>2. Executed(s, cmd, now) = With(s, cmd.key, cmd.value, d)
    BY <1>0, <1>1 DEF Executed
  <2>3. \A k \in Key : Changed(At(s, k), k, cmd, now) =
            IF cmd.key # k THEN At(s, k) ELSE <<[value |-> cmd.value, expiresAt |-> d]>>
    BY <1>0, <1>1 DEF Changed
  <2> HIDE DEF d
  <2>4. With(s, cmd.key, cmd.value, d) \in Stores
        /\ \A k \in Key : At(With(s, cmd.key, cmd.value, d), k) =
              IF k = cmd.key THEN <<[value |-> cmd.value, expiresAt |-> d]>> ELSE At(s, k)
    <3> DEFINE key == cmd.key
               value == cmd.value
    <3>1. key \in Key /\ value \in Value
      BY <2>0
    <3> HIDE DEF key, value
    <3>2. /\ With(s, key, value, d) \in Stores
          /\ \A k \in Key : At(With(s, key, value, d), k) =
                IF k = key THEN <<[value |-> value, expiresAt |-> d]>> ELSE At(s, k)
      BY <2>1, <3>1, WithFacts
    <3> QED
      BY <3>2 DEF key, value
  <2> QED
    BY <2>2, <2>3, <2>4
<1>2. CASE cmd.name = "DEL" /\ cmd.keys \in Seq(Key)
  <2>1. Executed(s, cmd, now) = Without(s, ToSet(cmd.keys))
    BY <1>0, <1>2 DEF Executed
  <2>2. \A k \in Key : Changed(At(s, k), k, cmd, now) =
            IF k \in ToSet(cmd.keys) THEN <<>> ELSE At(s, k)
    BY <1>0, <1>2 DEF Changed
  <2> QED
    BY <2>1, <2>2, WithoutFacts
<1>3. CASE cmd.name = "INCR" /\ cmd.key \in Key
  <2> DEFINE j == cmd.key
             new == Executed(s, cmd, now)
  <2>0. j \in Key
    BY <1>3
  <2>1. new = IF Fails(s, cmd, now) THEN s
              ELSE IF Live(s, j, now) THEN With(s, j, s[j].value + 1, s[j].expiresAt)
              ELSE With(s, j, 1, NoExpiry)
    BY <1>0, <1>3 DEF Executed
  <2>2. \A k \in Key : Changed(At(s, k), k, cmd, now) =
            IF j # k THEN At(s, k)
            ELSE IF At(s, k) # <<>> /\ (At(s, k)[1].expiresAt = NoExpiry \/ now < At(s, k)[1].expiresAt)
            THEN IF At(s, k)[1].value \in Int
                 THEN <<[value |-> At(s, k)[1].value + 1, expiresAt |-> At(s, k)[1].expiresAt]>>
                 ELSE At(s, k)
            ELSE <<[value |-> 1, expiresAt |-> NoExpiry]>>
    BY <1>0, <1>3 DEF Changed
  <2>3. Fails(s, cmd, now) <=> Live(s, j, now) /\ s[j].value \notin Int
    BY <1>3 DEF Fails
  <2>4. At(s, j) # <<>> /\ (At(s, j)[1].expiresAt = NoExpiry \/ now < At(s, j)[1].expiresAt)
            <=> Live(s, j, now)
    BY DEF At, Live
  <2> HIDE DEF new
  <2>5. CASE ~Live(s, j, now)
    <3>1. new = With(s, j, 1, NoExpiry)
      BY <2>1, <2>3, <2>5
    <3>2. 1 \in Value
      BY DEF Value
    <3>3. \A k \in Key : Changed(At(s, k), k, cmd, now) =
              IF k = j THEN <<[value |-> 1, expiresAt |-> NoExpiry]>> ELSE At(s, k)
      BY <2>2, <2>4, <2>5
    <3>4. With(s, j, 1, NoExpiry) \in Stores
          /\ \A k \in Key : At(With(s, j, 1, NoExpiry), k) =
                IF k = j THEN <<[value |-> 1, expiresAt |-> NoExpiry]>> ELSE At(s, k)
      BY <1>0, <2>0, <3>2, WithFacts
    <3> QED
      BY <3>1, <3>3, <3>4 DEF new
  <2>6. CASE Live(s, j, now) /\ s[j].value \in Int
    <3>1. j \in DOMAIN s /\ At(s, j)[1] = s[j]
      BY <2>6 DEF Live, At
    <3>2. new = With(s, j, s[j].value + 1, s[j].expiresAt)
      BY <2>1, <2>3, <2>6
    <3>3. s[j].value + 1 \in Value /\ s[j].expiresAt \in Int
      BY <2>6, <3>1, StoreFacts DEF Value
    <3>4. \A k \in Key : Changed(At(s, k), k, cmd, now) =
              IF k = j THEN <<[value |-> s[j].value + 1, expiresAt |-> s[j].expiresAt]>>
                       ELSE At(s, k)
      BY <2>2, <2>4, <2>6, <3>1
    <3> DEFINE v == s[j].value + 1
               d == s[j].expiresAt
    <3> HIDE DEF v, d
    <3>5. With(s, j, v, d) \in Stores
          /\ \A k \in Key : At(With(s, j, v, d), k) =
                IF k = j THEN <<[value |-> v, expiresAt |-> d]>> ELSE At(s, k)
      BY <2>0, <3>3, WithFacts DEF v, d
    <3> QED
      BY <3>2, <3>4, <3>5 DEF new, v, d
  <2>7. CASE Live(s, j, now) /\ s[j].value \notin Int
    <3>1. At(s, j)[1] = s[j] /\ new = s
      BY <2>1, <2>3, <2>7 DEF Live, At
    <3>2. ASSUME NEW k \in Key PROVE At(new, k) = Changed(At(s, k), k, cmd, now)
      BY <2>2, <2>4, <2>7, <3>1
    <3> QED
      BY <3>1, <3>2 DEF new
  <2> QED
    BY <2>5, <2>6, <2>7
<1> QED
  BY <1>1, <1>2, <1>3, CommandKinds
-----------------------------------------------------------------------------
(***************************************************************************)
(* What the commands of a file say.                                        *)
(***************************************************************************)
\* g[i] is the store after the first i commands.
Replays(g, l) ==
    /\ g \in [0..Len(l) -> Stores]
    /\ g[0] = NoEntries
    /\ \A i \in 1..Len(l) : g[i] = Executed(g[i - 1], l[i], 0)

\* The empty store.
LEMMA NothingStored == NoEntries \in Stores /\ \A k \in Key : At(NoEntries, k) = <<>>
<1>1. DOMAIN NoEntries = {} /\ {} \in SUBSET Key
  BY DEF NoEntries
<1>2. NoEntries \in [{} -> Entry]
  BY DEF NoEntries
<1> QED
  BY <1>1, <1>2 DEF Stores, At

\* The commands of a log.
LEMMA LogFacts ==
    ASSUME NEW l \in Seq(Command)
    PROVE  Len(l) \in Nat /\ DOMAIN l = 1..Len(l) /\ \A i \in 1..Len(l) : l[i] \in Command
OBVIOUS

\* The replay executes the commands one by one, from the first to the last.
LEMMA ReplayGoesOn ==
    ASSUME NEW l \in Seq(Command)
    PROVE  \E g : Replays(g, l) /\ Said(l) = g[Len(l)]
<1>1. PICK n \in Nat : n = Len(l) /\ DOMAIN l = 1..n /\ \A i \in 1..n : l[i] \in Command
  BY LogFacts
<1> DEFINE step == [p \in Stores \X (1..n) |-> Executed(p[1], l[p[2]], 0)]
           Is(h) == h = [s \in SUBSET (1..n) |->
                           IF s = {} THEN NoEntries
                           ELSE Executed(h[s \ {Max(s)}], l[Max(s)], 0)]
           iter == CHOOSE h : Is(h)
           g == [i \in 0..n |-> iter[1..i]]
<1>2. \A y \in Stores, i \in 1..n : step[<<y, i>>] = Executed(y, l[i], 0)
  OBVIOUS
<1>3. \A y \in Stores, i \in 1..n : Executed(y, l[i], 0) \in Stores
  BY <1>1, ExecutedFacts
<1>4. \E f : Is(f)
  <2> HIDE DEF step
  <2>1. \A y \in Stores, i \in 1..n : step[<<y, i>>] \in Stores
    BY <1>2, <1>3
  <2>2. PICK f \in [SUBSET (1..n) -> Stores] : Folds(f, NoEntries, step, n)
    BY <1>1, <2>1, NothingStored, FoldExists
  <2>3. ASSUME NEW s \in SUBSET (1..n)
        PROVE  f[s] = IF s = {} THEN NoEntries ELSE Executed(f[s \ {Max(s)}], l[Max(s)], 0)
    <3>1. f[s] = IF s = {} THEN NoEntries ELSE step[<<f[s \ {Max(s)}], Max(s)>>]
      BY <2>2 DEF Folds
    <3>2. CASE s # {}
      <4>1. s \in SUBSET (0..n)
        OBVIOUS
      <4>2. Max(s) \in s
        BY <1>1, <3>2, <4>1, Greatest
      <4>3. Max(s) \in 1..n /\ s \ {Max(s)} \in SUBSET (1..n)
        BY <4>2
      <4>4. f[s \ {Max(s)}] \in Stores
        BY <4>3
      <4> QED
        BY <1>2, <3>1, <3>2, <4>3, <4>4
    <3> QED
      BY <3>1, <3>2
  <2>4. f = [s \in SUBSET (1..n) |-> f[s]]
    OBVIOUS
  <2> QED
    BY <2>3, <2>4
<1>5. Is(iter)
  <2> HIDE DEF Is
  <2> QED
    BY <1>4
<1>6. Said(l) = iter[1..n]
  BY <1>1 DEF Said, FoldLeft, MapThenFoldSet
<1> HIDE DEF iter
<1>7. ASSUME NEW i \in 1..n
      PROVE  g[i] = Executed(g[i - 1], l[i], 0)
  <2>1. /\ 1..i \in SUBSET (1..n) /\ 1..i # {}
        /\ Max(1..i) = i /\ (1..i) \ {i} = 1..i - 1
    BY <1>1, FirstPositions
  <2>2. iter[1..i] = Executed(iter[1..i - 1], l[i], 0)
    BY <1>5, <2>1
  <2> QED
    BY <2>2
<1>8. g[0] = NoEntries
  <2>1. 1..0 = {} /\ 1..0 \in SUBSET (1..n)
    OBVIOUS
  <2>2. iter[1..0] = NoEntries
    BY <1>5, <2>1
  <2> QED
    BY <1>1, <2>2
<1>9. g \in [0..n -> Stores]
  <2> DEFINE S == {i \in 0..n : g[i] \in Stores}
  <2>1. DOMAIN g = 0..n /\ g = [i \in 0..n |-> g[i]]
    OBVIOUS
  <2> HIDE DEF g
  <2>2. 0 \in S
    BY <1>1, <1>8, NothingStored
  <2>3. \A i \in 1..n : i - 1 \in S => i \in S
    BY <1>3, <1>7
  <2>4. \A i \in 0..n : i \in S
    <3> HIDE DEF S
    <3> QED
      BY <1>1, <2>2, <2>3, Reached
  <2> QED
    BY <2>1, <2>4
<1>10. g[n] = iter[1..n]
  BY <1>1
<1> HIDE DEF g
<1>11. Replays(g, l)
  BY <1>1, <1>7, <1>8, <1>9 DEF Replays
<1> QED
  BY <1>1, <1>6, <1>10, <1>11

\* Two logs have the same first commands.
Alike(l, m, n) == n <= Len(l) /\ n <= Len(m) /\ \A i \in 1..n : l[i] = m[i]

\* There is one way to replay a log.
LEMMA ReplaysAlike ==
    ASSUME NEW l \in Seq(Command), NEW m \in Seq(Command), NEW n \in Nat,
           Alike(l, m, n), NEW g, Replays(g, l), NEW h, Replays(h, m)
    PROVE  g[n] = h[n]
<1> DEFINE S == {i \in 0..n : g[i] = h[i]}
<1>1. 0 \in S
  BY DEF Replays
<1>2. ASSUME NEW i \in 1..n, i - 1 \in S
      PROVE  i \in S
  <2>1. i \in 1..Len(l) /\ i \in 1..Len(m) /\ i \in 0..n
    BY LogFacts DEF Alike
  <2>2. g[i] = Executed(g[i - 1], l[i], 0) /\ h[i] = Executed(h[i - 1], m[i], 0)
    BY <2>1 DEF Replays
  <2>3. l[i] = m[i]
    BY DEF Alike
  <2> QED
    BY <1>2, <2>1, <2>2, <2>3
<1>3. \A i \in 0..n : i \in S
  <2> HIDE DEF S
  <2> QED
    BY <1>1, <1>2, Reached
<1> QED
  BY <1>3

\* One command more is executed behind the others.
LEMMA ReplayAppends ==
    ASSUME NEW l \in Seq(Command), NEW cmd \in Command
    PROVE  /\ Said(Append(l, cmd)) = Executed(Said(l), cmd, 0)
           /\ Said(l) \in Stores
<1>1. \E m \in Seq(Command) : m = Append(l, cmd)
  <2>1. Append(l, cmd) \in Seq(Command)
    OBVIOUS
  <2> QED
    BY <2>1
<1>2. PICK m \in Seq(Command) : m = Append(l, cmd)
  BY <1>1
<1>3. PICK n \in Nat :
        n = Len(l) /\ Len(m) = n + 1 /\ m[n + 1] = cmd /\ \A i \in 1..n : l[i] = m[i]
  BY <1>2
<1>4. PICK g : Replays(g, l) /\ Said(l) = g[n]
  BY <1>3, ReplayGoesOn
<1>5. PICK h : Replays(h, m) /\ Said(m) = h[n + 1]
  BY <1>3, ReplayGoesOn
<1>6. g[n] = h[n]
  <2>1. Alike(l, m, n)
    BY <1>3 DEF Alike
  <2> QED
    BY <1>4, <1>5, <2>1, ReplaysAlike
<1>7. h[n + 1] = Executed(h[n], cmd, 0)
  <2>1. n + 1 \in 1..Len(m) /\ n + 1 - 1 = n
    BY <1>3
  <2>2. h[n + 1] = Executed(h[n + 1 - 1], m[n + 1], 0)
    BY <1>5, <2>1 DEF Replays
  <2> QED
    BY <1>3, <2>1, <2>2
<1>8. g[n] \in Stores
  BY <1>3, <1>4 DEF Replays
<1> QED
  BY <1>2, <1>4, <1>5, <1>6, <1>7, <1>8
-----------------------------------------------------------------------------
(***************************************************************************)
(* The entry a store has of a key, and what the file says of it.           *)
(***************************************************************************)
Maybe == {<<>>} \cup {<<x>> : x \in Entry}

\* An entry that has not expired.
Alive(e, now) == e # <<>> => e[1].expiresAt = NoExpiry \/ now < e[1].expiresAt

\* The entry there may be.
LEMMA MaybeFacts ==
    /\ <<>> \in Maybe
    /\ \A e \in Maybe : e # <<>> => /\ e = <<e[1]>> /\ e[1].value \in Value /\ e[1].expiresAt \in Int
    /\ \A s \in Stores, k \in Key : At(s, k) \in Maybe
<1>1. \A x \in Entry : x.value \in Value /\ x.expiresAt \in Int /\ <<x>>[1] = x
  BY DEF Entry
<1>2. \A s \in Stores, k \in Key : At(s, k) \in Maybe
  BY StoreFacts DEF At, Maybe
<1> QED
  BY <1>1, <1>2 DEF Maybe

\* The effect of each kind of command on a key it does not name, and on one it does.
LEMMA ChangedBy ==
    ASSUME NEW cmd \in Command, NEW k, NEW e \in Maybe, NEW now \in Nat
    PROVE  /\ cmd.name = "SET" => Changed(e, k, cmd, now) =
                IF cmd.key # k THEN e
                ELSE <<[value |-> cmd.value,
                        expiresAt |-> IF cmd.ex > 0 THEN now + cmd.ex ELSE NoExpiry]>>
           /\ cmd.name = "DEL" => Changed(e, k, cmd, now) =
                IF k \in ToSet(cmd.keys) THEN <<>> ELSE e
           /\ cmd.name = "INCR" /\ cmd.key # k => Changed(e, k, cmd, now) = e
           /\ cmd.name = "INCR" /\ cmd.key = k /\ (e = <<>> \/ ~Alive(e, now)) =>
                Changed(e, k, cmd, now) = <<[value |-> 1, expiresAt |-> NoExpiry]>>
           /\ cmd.name = "INCR" /\ cmd.key = k /\ e # <<>> /\ Alive(e, now) =>
                Changed(e, k, cmd, now) =
                    IF e[1].value \in Int
                    THEN <<[value |-> e[1].value + 1, expiresAt |-> e[1].expiresAt]>> ELSE e
<1>1. "SET" # "DEL" /\ "SET" # "INCR" /\ "DEL" # "INCR"
  OBVIOUS
<1> QED
  BY <1>1 DEF Changed, Alive

\* A command leaves no expired entry where there was none.
LEMMA ChangedAlive ==
    ASSUME NEW cmd \in Command, NEW k, NEW r \in Maybe, NEW now \in Nat, Alive(r, now)
    PROVE  Alive(Changed(r, k, cmd, now), now)
<1>1. CASE cmd.name = "SET"
  <2>1. cmd.ex \in Nat
    BY <1>1, CommandKinds, RecoveryAssumption DEF RecoveryAssumption
  <2> QED
    BY <1>1, <2>1, ChangedBy DEF Alive
<1>2. CASE cmd.name = "DEL"
  BY <1>2, ChangedBy DEF Alive
<1>3. CASE cmd.name = "INCR"
  BY <1>3, ChangedBy DEF Alive
<1> QED
  BY <1>1, <1>2, <1>3, CommandKinds

\* The file says r of a key: without a deadline that is the entry there is.  With one, an
\* entry that has not expired has that value, and its deadline counts from now at most.
Untimed(r) == r = <<>> \/ r[1].expiresAt = NoExpiry

Matches(e, r, now) ==
    IF Untimed(r) THEN e = r
    ELSE e # <<>> /\ e[1].expiresAt # NoExpiry /\ now < e[1].expiresAt =>
            e[1].value = r[1].value /\ e[1].expiresAt <= now + r[1].expiresAt

\* What was executed after some moment is there until its EX has passed since then.
InPlace(e, r, now, at) ==
    \/ Untimed(r)
    \/ now >= at + r[1].expiresAt
    \/ e # <<>> /\ e[1].expiresAt # NoExpiry
       /\ e[1].value = r[1].value /\ e[1].expiresAt >= at + r[1].expiresAt

\* A command is done by the engine at its time and told by the file alike.
LEMMA ChangedMatches ==
    ASSUME NEW cmd \in Command, NEW k, NEW e \in Maybe, NEW r \in Maybe, NEW now \in Nat,
           Alive(r, 0), Matches(e, r, now) \/ k \in Renewed(cmd)
    PROVE  Matches(Changed(e, k, cmd, now), Changed(r, k, cmd, 0), now)
<1>0. "SET" # "DEL" /\ "SET" # "INCR" /\ "DEL" # "INCR" /\ 0 \in Nat
  OBVIOUS
<1>1. CASE cmd.name = "SET" /\ cmd.key = k
  <2>1. cmd.ex \in Nat
    BY <1>1, CommandKinds, RecoveryAssumption DEF RecoveryAssumption
  <2>2. /\ Changed(e, k, cmd, now) = <<[value |-> cmd.value,
                expiresAt |-> IF cmd.ex > 0 THEN now + cmd.ex ELSE NoExpiry]>>
        /\ Changed(r, k, cmd, 0) = <<[value |-> cmd.value,
                expiresAt |-> IF cmd.ex > 0 THEN 0 + cmd.ex ELSE NoExpiry]>>
    BY <1>0, <1>1, ChangedBy
  <2> QED
    BY <2>1, <2>2 DEF Matches, Untimed, NoExpiry
<1>2. CASE cmd.name = "SET" /\ cmd.key # k
  <2>1. Matches(e, r, now)
    BY <1>0, <1>2 DEF Renewed
  <2> QED
    BY <1>0, <1>2, <2>1, ChangedBy
<1>3. CASE cmd.name = "DEL"
  <2>1. k \in ToSet(cmd.keys) \/ Matches(e, r, now)
    BY <1>0, <1>3 DEF Renewed
  <2> QED
    BY <1>0, <1>3, <2>1, ChangedBy DEF Matches, Untimed
<1>4. CASE cmd.name = "INCR" /\ cmd.key # k
  <2>1. Matches(e, r, now)
    BY <1>0, <1>4 DEF Renewed
  <2> QED
    BY <1>0, <1>4, <2>1, ChangedBy
<1>5. CASE cmd.name = "INCR" /\ cmd.key = k
  <2>1. Matches(e, r, now)
    BY <1>0, <1>5 DEF Renewed
  <2>2. CASE Untimed(r)
    <3>1. e = r /\ Alive(e, now)
      BY <2>1, <2>2 DEF Matches, Untimed, Alive
    <3>2. Changed(e, k, cmd, now) = Changed(r, k, cmd, 0)
      BY <1>0, <1>5, <3>1, ChangedBy
    <3>3. Untimed(Changed(r, k, cmd, 0))
      BY <1>0, <1>5, <2>2, ChangedBy DEF Untimed
    <3> QED
      BY <3>2, <3>3 DEF Matches
  <2>3. CASE ~Untimed(r)
    <3>1. Changed(r, k, cmd, 0) =
              IF r[1].value \in Int
              THEN <<[value |-> r[1].value + 1, expiresAt |-> r[1].expiresAt]>> ELSE r
      BY <1>0, <1>5, <2>3, ChangedBy DEF Untimed
    <3>2. ~Untimed(Changed(r, k, cmd, 0))
      <4>1. r # <<>> /\ r[1].expiresAt # NoExpiry
        BY <2>3 DEF Untimed
      <4>2. Changed(r, k, cmd, 0) # <<>> /\ Changed(r, k, cmd, 0)[1].expiresAt = r[1].expiresAt
        BY <3>1, <4>1
      <4> QED
        BY <4>1, <4>2 DEF Untimed
    <3>3. CASE e = <<>> \/ ~Alive(e, now)
      <4>1. Changed(e, k, cmd, now) = <<[value |-> 1, expiresAt |-> NoExpiry]>>
        BY <1>5, <3>3, ChangedBy
      <4> QED
        BY <3>2, <4>1 DEF Matches
    <3>4. CASE e # <<>> /\ Alive(e, now)
      <4>1. Changed(e, k, cmd, now) =
                IF e[1].value \in Int
                THEN <<[value |-> e[1].value + 1, expiresAt |-> e[1].expiresAt]>> ELSE e
        BY <1>5, <3>4, ChangedBy
      <4>2. CASE e[1].expiresAt = NoExpiry
        BY <3>2, <4>1, <4>2 DEF Matches
      <4>3. CASE e[1].expiresAt # NoExpiry
        <5>1. e[1].value = r[1].value /\ e[1].expiresAt <= now + r[1].expiresAt
          BY <2>1, <2>3, <3>4, <4>3 DEF Matches, Alive
        <5> QED
          BY <3>1, <3>2, <4>1, <5>1 DEF Matches
      <4> QED
        BY <4>2, <4>3
    <3> QED
      BY <3>3, <3>4
  <2> QED
    BY <2>2, <2>3
<1> QED
  BY <1>1, <1>2, <1>3, <1>4, <1>5, CommandKinds

\* What a recovery has put in place stays there.
LEMMA ChangedInPlace ==
    ASSUME NEW cmd \in Command, NEW k, NEW e \in Maybe, NEW r \in Maybe,
           NEW now \in Nat, NEW at \in Nat, at <= now,
           Alive(r, 0), InPlace(e, r, now, at) \/ k \in Renewed(cmd)
    PROVE  InPlace(Changed(e, k, cmd, now), Changed(r, k, cmd, 0), now, at)
<1>0. "SET" # "DEL" /\ "SET" # "INCR" /\ "DEL" # "INCR" /\ 0 \in Nat
  OBVIOUS
<1>1. CASE cmd.name = "SET" /\ cmd.key = k
  <2>1. cmd.ex \in Nat
    BY <1>1, CommandKinds, RecoveryAssumption DEF RecoveryAssumption
  <2>2. /\ Changed(e, k, cmd, now) = <<[value |-> cmd.value,
                expiresAt |-> IF cmd.ex > 0 THEN now + cmd.ex ELSE NoExpiry]>>
        /\ Changed(r, k, cmd, 0) = <<[value |-> cmd.value,
                expiresAt |-> IF cmd.ex > 0 THEN 0 + cmd.ex ELSE NoExpiry]>>
    BY <1>0, <1>1, ChangedBy
  <2> QED
    BY <2>1, <2>2 DEF InPlace, Untimed, NoExpiry
<1>2. CASE cmd.name = "SET" /\ cmd.key # k
  <2>1. InPlace(e, r, now, at)
    BY <1>0, <1>2 DEF Renewed
  <2> QED
    BY <1>0, <1>2, <2>1, ChangedBy
<1>3. CASE cmd.name = "DEL"
  <2>1. k \in ToSet(cmd.keys) \/ InPlace(e, r, now, at)
    BY <1>0, <1>3 DEF Renewed
  <2> QED
    BY <1>0, <1>3, <2>1, ChangedBy DEF InPlace, Untimed
<1>4. CASE cmd.name = "INCR" /\ cmd.key # k
  <2>1. InPlace(e, r, now, at)
    BY <1>0, <1>4 DEF Renewed
  <2> QED
    BY <1>0, <1>4, <2>1, ChangedBy
<1>5. CASE cmd.name = "INCR" /\ cmd.key = k
  <2>1. InPlace(e, r, now, at)
    BY <1>0, <1>5 DEF Renewed
  <2>2. CASE Untimed(r)
    BY <1>0, <1>5, <2>2, ChangedBy DEF Untimed, InPlace
  <2>3. CASE ~Untimed(r)
    <3>1. Changed(r, k, cmd, 0) =
              IF r[1].value \in Int
              THEN <<[value |-> r[1].value + 1, expiresAt |-> r[1].expiresAt]>> ELSE r
      BY <1>0, <1>5, <2>3, ChangedBy DEF Untimed
    <3>2. r[1].expiresAt \in Int /\ Changed(r, k, cmd, 0)[1].expiresAt = r[1].expiresAt
      BY <2>3, <3>1, MaybeFacts DEF Untimed
    <3>3. CASE now >= at + r[1].expiresAt
      BY <3>2, <3>3 DEF InPlace
    <3>4. CASE ~(now >= at + r[1].expiresAt)
      <4>1. e # <<>> /\ e[1].expiresAt # NoExpiry
            /\ e[1].value = r[1].value /\ e[1].expiresAt >= at + r[1].expiresAt
        BY <2>1, <2>3, <3>4 DEF InPlace
      <4>2. e[1].expiresAt \in Int
        BY <4>1, MaybeFacts
      <4>3. Alive(e, now)
        BY <3>2, <3>4, <4>1, <4>2 DEF Alive
      <4>4. Changed(e, k, cmd, now) =
                IF e[1].value \in Int
                THEN <<[value |-> e[1].value + 1, expiresAt |-> e[1].expiresAt]>> ELSE e
        BY <1>5, <4>1, <4>3, ChangedBy
      <4> QED
        BY <3>1, <4>1, <4>4 DEF InPlace
    <3> QED
      BY <3>3, <3>4
  <2> QED
    BY <2>2, <2>3
<1> QED
  BY <1>1, <1>2, <1>3, <1>4, <1>5, CommandKinds

\* The replay of a log has no expired entry.
LEMMA ReplayAlive ==
    ASSUME NEW l \in Seq(Command), NEW k \in Key
    PROVE  Alive(At(Said(l), k), 0)
<1>1. PICK n \in Nat : n = Len(l) /\ \A i \in 1..n : l[i] \in Command
  BY LogFacts
<1>2. PICK g : Replays(g, l) /\ Said(l) = g[n]
  BY <1>1, ReplayGoesOn
<1> DEFINE S == {i \in 0..n : Alive(At(g[i], k), 0)}
<1>3. 0 \in S
  BY <1>2, NothingStored DEF Replays, Alive
<1>4. ASSUME NEW i \in 1..n, i - 1 \in S
      PROVE  i \in S
  <2>1. g[i] = Executed(g[i - 1], l[i], 0) /\ g[i - 1] \in Stores /\ l[i] \in Command
    BY <1>1, <1>2 DEF Replays
  <2>2. At(g[i], k) = Changed(At(g[i - 1], k), k, l[i], 0)
    BY <2>1, ExecutedFacts
  <2>3. At(g[i - 1], k) \in Maybe
    BY <2>1, MaybeFacts
  <2>4. Alive(At(g[i], k), 0)
    BY <1>4, <2>1, <2>2, <2>3, ChangedAlive
  <2> QED
    BY <2>4
<1>5. \A i \in 0..n : i \in S
  <2> HIDE DEF S
  <2> QED
    BY <1>3, <1>4, Reached
<1> QED
  BY <1>2, <1>5

-----------------------------------------------------------------------------
(***************************************************************************)
(* The invariant: the store is what the part of the file it has executed   *)
(* says, and the store the server went down with what the whole file says. *)
(***************************************************************************)
Read == SubSeq(log, 1, pos)

RecoveryTypes ==
    /\ store \in Stores /\ log \in Seq(Command) /\ pos \in 0..Len(log) /\ clock \in Nat
    /\ serving \in BOOLEAN /\ (serving => pos = Len(log)) /\ lost \in SUBSET Key
    /\ before.store \in Stores /\ before.lost \in SUBSET Key
    /\ before.at \in Nat /\ before.at <= clock

StoreMatches ==
    \A k \in Key \ lost :
        /\ Matches(At(store, k), At(Said(Read), k), clock)
        /\ ~serving => InPlace(At(store, k), At(Said(Read), k), clock, before.at)

BeforeMatches ==
    ~serving =>
        \A k \in Key \ before.lost : Matches(At(before.store, k), At(Said(log), k), before.at)

\* Nothing is evicted while the engine has room for all keys the file names.
NoneLost ==
    /\ IsFiniteSet(Named) /\ DOMAIN store \subseteq Named
    /\ before.lost \cup lost = {} \/ Crowded

RecoveryInv == RecoveryTypes /\ StoreMatches /\ BeforeMatches /\ NoneLost

\* What a file says is a store.
LEMMA SaidStore == ASSUME NEW l \in Seq(Command) PROVE Said(l) \in Stores
BY ReplayGoesOn, LogFacts DEF Replays

\* The empty file says nothing.
LEMMA NothingSaid == Said(<<>>) = NoEntries
<1>1. <<>> \in Seq(Command) /\ Len(<<>>) = 0
  OBVIOUS
<1>2. PICK l \in Seq(Command) : l = <<>>
  BY <1>1
<1>3. PICK g : Replays(g, l) /\ Said(l) = g[0]
  BY <1>1, <1>2, ReplayGoesOn
<1> QED
  BY <1>2, <1>3 DEF Replays

\* The part of the file that is executed.
LEMMA ReadFacts ==
    ASSUME RecoveryTypes
    PROVE  /\ Read \in Seq(Command)
           /\ pos = Len(log) => Read = log
           /\ pos = 0 => Read = <<>>
           /\ pos < Len(log) => /\ log[pos + 1] \in Command
                                /\ SubSeq(log, 1, pos + 1) = Append(Read, log[pos + 1])
<1>1. PICK l \in Seq(Command) : l = log
  BY DEF RecoveryTypes
<1>2. PICK p \in 0..Len(l) : p = pos
  BY <1>1 DEF RecoveryTypes
<1>3. SubSeq(l, 1, p) \in Seq(Command)
  BY <1>2, SubSeqProperties
<1>4. p = Len(l) => SubSeq(l, 1, p) = l
  BY <1>2, SubSeqProperties, LenProperties
<1>5. p = 0 => SubSeq(l, 1, p) = <<>>
  BY <1>2, SubSeqProperties, LenProperties
<1>6. ASSUME p < Len(l)
      PROVE  l[p + 1] \in Command /\ SubSeq(l, 1, p + 1) = Append(SubSeq(l, 1, p), l[p + 1])
  <2>1. l[p + 1] \in Command /\ 1 \in 1..Len(l) /\ p + 1 \in 1..Len(l) /\ p + 1 - 1 = p
    BY <1>6
  <2>2. SubSeq(l, 1, p + 1) = SubSeq(l, 1, p) \o <<l[p + 1]>>
    BY <2>1, SubSeqRecursiveSecond
  <2>3. SubSeq(l, 1, p) \o <<l[p + 1]>> = Append(SubSeq(l, 1, p), l[p + 1])
    BY <1>3, <2>1, AppendIsConcat
  <2> QED
    BY <2>1, <2>2, <2>3
<1> QED
  BY <1>1, <1>2, <1>3, <1>4, <1>5, <1>6 DEF Read

\* The keys a command makes entries of.
Makes(cmd) == IF cmd.name = "DEL" THEN {} ELSE {cmd.key}

\* A command makes entries of no other keys.
LEMMA MadeFacts ==
    ASSUME NEW s, NEW cmd \in Command, NEW now
    PROVE  DOMAIN Executed(s, cmd, now) \subseteq DOMAIN s \cup Makes(cmd)
<1>0. "SET" # "DEL" /\ "SET" # "INCR" /\ "DEL" # "INCR"
  OBVIOUS
<1>1. CASE cmd.name = "SET"
  BY <1>0, <1>1 DEF Executed, With, Makes
<1>2. CASE cmd.name = "DEL"
  BY <1>0, <1>2 DEF Executed, Without, Makes
<1>3. CASE cmd.name = "INCR"
  BY <1>0, <1>3 DEF Executed, With, Makes
<1> QED
  BY <1>1, <1>2, <1>3, CommandKinds

\* What is executed of the file, or executed and logged, keeps store and file together.
LEMMA CommandMatches ==
    ASSUME RecoveryTypes, StoreMatches, NEW cmd \in Command, Executes(cmd, Renewed(cmd)),
           Read' = Append(Read, cmd), clock' = clock, serving' = serving, before' = before
    PROVE  store' \in Stores /\ lost' \in SUBSET Key /\ StoreMatches'
<1>1. /\ store \in Stores /\ lost \in SUBSET Key /\ clock \in Nat
      /\ before.at \in Nat /\ before.at <= clock /\ Read \in Seq(Command)
  BY ReadFacts DEF RecoveryTypes
<1>2. PICK V \in Victims(store, cmd, clock) :
          /\ store' = Without(Executed(store, cmd, clock), V)
          /\ lost' = (lost \ Renewed(cmd)) \cup V
  BY DEF Executes
<1>3. /\ Executed(store, cmd, clock) \in Stores
      /\ \A k \in Key : At(Executed(store, cmd, clock), k) = Changed(At(store, k), k, cmd, clock)
  BY <1>1, ExecutedFacts
<1>4. V \subseteq Key
  BY <1>3, StoreFacts DEF Victims
<1>5. store' \in Stores
  BY <1>2, <1>3, WithoutFacts
<1>6. lost' \in SUBSET Key
  BY <1>1, <1>2, <1>4
<1>7. Said(Read') = Executed(Said(Read), cmd, 0) /\ Said(Read) \in Stores
  BY <1>1, ReplayAppends
<1>8. ASSUME NEW k \in Key \ lost'
      PROVE  /\ Matches(At(store', k), At(Said(Read'), k), clock')
             /\ ~serving' => InPlace(At(store', k), At(Said(Read'), k), clock', before'.at)
  <2>1. k \notin V /\ (k \notin lost \/ k \in Renewed(cmd))
    BY <1>2
  <2>2. At(store', k) = Changed(At(store, k), k, cmd, clock)
    BY <1>2, <1>3, <2>1, WithoutFacts
  <2>3. At(Said(Read'), k) = Changed(At(Said(Read), k), k, cmd, 0)
    BY <1>7, ExecutedFacts
  <2>4. At(store, k) \in Maybe /\ At(Said(Read), k) \in Maybe
    BY <1>1, <1>7, MaybeFacts
  <2>5. Alive(At(Said(Read), k), 0)
    BY <1>1, ReplayAlive
  <2>6. Matches(At(store, k), At(Said(Read), k), clock) \/ k \in Renewed(cmd)
    BY <2>1 DEF StoreMatches
  <2>7. ~serving => InPlace(At(store, k), At(Said(Read), k), clock, before.at) \/ k \in Renewed(cmd)
    BY <2>1 DEF StoreMatches
  <2>8. Matches(Changed(At(store, k), k, cmd, clock), Changed(At(Said(Read), k), k, cmd, 0), clock)
    BY <1>1, <2>4, <2>5, <2>6, ChangedMatches
  <2>9. ~serving => InPlace(Changed(At(store, k), k, cmd, clock),
                            Changed(At(Said(Read), k), k, cmd, 0), clock, before.at)
    BY <1>1, <2>4, <2>5, <2>7, ChangedInPlace
  <2> QED
    BY <2>2, <2>3, <2>8, <2>9
<1> QED
  BY <1>5, <1>6, <1>8 DEF StoreMatches

\* An eviction needs more keys than the engine keeps, all named by the file.
LEMMA CommandLoses ==
    ASSUME RecoveryTypes, NoneLost, NEW cmd \in Command, NEW renewed, Executes(cmd, renewed),
           before' = before, Named \cup Makes(cmd) \subseteq Named', IsFiniteSet(Named')
    PROVE  NoneLost'
<1>1. PICK V \in Victims(store, cmd, clock) :
          /\ store' = Without(Executed(store, cmd, clock), V)
          /\ lost' = (lost \ renewed) \cup V
  BY DEF Executes
<1> DEFINE after == DOMAIN Executed(store, cmd, clock)
<1>2. after \subseteq Named' /\ DOMAIN store' \subseteq after
  BY <1>1, MadeFacts DEF NoneLost, Without
<1>3. IsFiniteSet(after)
  BY <1>2, FS_Subset
<1>4. Crowded => Crowded'
  <2>1. Cardinality(Named) <= Cardinality(Named') /\ Cardinality(Named) \in Nat
        /\ Cardinality(Named') \in Nat
    BY FS_Subset, FS_CardinalityType DEF NoneLost
  <2> QED
    BY <2>1, RecoveryAssumption DEF Crowded, RecoveryAssumption
<1>5. CASE V = {}
  BY <1>1, <1>2, <1>4, <1>5 DEF NoneLost
<1>6. CASE V # {}
  <2>1. V \subseteq after
        /\ (MemoryLimit \/ (MaxKeys > 0 /\ Cardinality(after \ V) = MaxKeys))
    BY <1>1, <1>6 DEF Victims
  <2>2. CASE MemoryLimit
    BY <1>2, <2>2 DEF NoneLost, Crowded
  <2>3. CASE MaxKeys > 0 /\ Cardinality(after \ V) = MaxKeys
    <3>1. after \ V \in SUBSET after /\ after \ V # after
      BY <1>6, <2>1
    <3>2. Cardinality(after \ V) <= Cardinality(after) /\ Cardinality(after \ V) # Cardinality(after)
      BY <1>3, <3>1, FS_Subset
    <3>3. Cardinality(after) <= Cardinality(Named')
      BY <1>2, FS_Subset
    <3>4. Cardinality(after) \in Nat /\ Cardinality(Named') \in Nat /\ MaxKeys \in Nat
      BY <1>3, FS_CardinalityType, RecoveryAssumption DEF RecoveryAssumption
    <3>5. Crowded'
      BY <2>3, <3>2, <3>3, <3>4 DEF Crowded
    <3> QED
      BY <1>2, <3>5 DEF NoneLost
  <2> QED
    BY <2>1, <2>2, <2>3
<1> QED
  BY <1>5, <1>6

\* The keys of a file with one command more.
LEMMA NamedAppends ==
    ASSUME log \in Seq(Command), NEW cmd \in Command, log' = Append(log, cmd)
    PROVE  Named' = Named \cup Makes(cmd)
<1>1. PICK n \in Nat : n = Len(log) /\ DOMAIN log = 1..n
  BY LogFacts
<1>2. /\ DOMAIN log' = 1..n + 1 /\ log'[n + 1] = cmd
      /\ \A i \in 1..n : log'[i] = log[i]
  BY <1>1
<1>3. \A i : i \in 1..n + 1 <=> i \in 1..n \/ i = n + 1
  BY <1>1
<1>4. Makes(cmd) \subseteq Key
  BY CommandKinds DEF Makes
<1>5. \A k \in Makes(cmd) : cmd.name # "DEL" /\ cmd.key = k
  BY DEF Makes
<1>6. \A k : cmd.name # "DEL" /\ cmd.key = k => k \in Makes(cmd)
  BY DEF Makes
<1>7. \A k \in Named' : k \in Named \/ k \in Makes(cmd)
  BY <1>1, <1>2, <1>3, <1>6 DEF Named
<1>8. \A k \in Named : k \in Named'
  BY <1>1, <1>2, <1>3 DEF Named
<1>9. \A k \in Makes(cmd) : k \in Named'
  BY <1>2, <1>3, <1>4, <1>5 DEF Named
<1> QED
  BY <1>7, <1>8, <1>9
-----------------------------------------------------------------------------
\* The empty store is what the empty file says.
LEMMA RecoveryStarts == ASSUME Init PROVE RecoveryInv
<1>1. RecoveryTypes
  BY NothingStored DEF Init, RecoveryTypes, NotDown
<1>2. Read = <<>>
  BY <1>1, ReadFacts DEF Init
<1>3. StoreMatches
  BY <1>2, NothingSaid, NothingStored DEF Init, StoreMatches, Matches, Untimed
<1>4. Named = {} /\ DOMAIN store = {} /\ before.lost \cup lost = {}
  BY DEF Init, Named, NoEntries, NotDown
<1>5. NoneLost
  BY <1>4, FS_EmptySet DEF NoneLost
<1> QED
  BY <1>1, <1>3, <1>5 DEF RecoveryInv, BeforeMatches, Init

\* A command that is not logged changes nothing that has not expired.
LEMMA UnloggedMatches ==
    ASSUME RecoveryInv, NEW cmd \in Command, ~Logged(store, cmd, clock), Executes(cmd, {}),
           UNCHANGED <<log, pos, serving, clock, before>>, serving
    PROVE  RecoveryInv'
<1>0. "SET" # "DEL" /\ "SET" # "INCR" /\ "DEL" # "INCR"
  OBVIOUS
<1>1. store \in Stores /\ clock \in Nat /\ lost \in SUBSET Key
  BY DEF RecoveryInv, RecoveryTypes
<1>2. ~MakesRoom(store, cmd, clock)
  BY <1>0 DEF Logged, MakesRoom, Fails
<1>3. store' = Without(Executed(store, cmd, clock), {}) /\ lost' = lost
  BY <1>2 DEF Executes, Victims
<1>4. /\ Executed(store, cmd, clock) \in Stores
      /\ \A k \in Key : At(Executed(store, cmd, clock), k) = Changed(At(store, k), k, cmd, clock)
  BY <1>1, ExecutedFacts
<1>5. /\ store' \in Stores
      /\ \A k \in Key : At(store', k) = Changed(At(store, k), k, cmd, clock)
  BY <1>3, <1>4, WithoutFacts
<1>6. Read' = Read
  BY DEF Read
<1>7. ASSUME NEW k \in Key \ lost
      PROVE  Matches(At(store', k), At(Said(Read), k), clock)
  <2>0. Matches(At(store, k), At(Said(Read), k), clock) /\ At(store, k) \in Maybe
    BY <1>1, MaybeFacts DEF RecoveryInv, StoreMatches
  <2>1. CASE At(store', k) = At(store, k)
    BY <2>0, <2>1
  <2>2. CASE At(store', k) # At(store, k)
    <3>1. cmd.name # "SET"
      BY DEF Logged
    <3>2. cmd.name # "INCR"
      <4>1. cmd.name = "INCR" => Executed(store, cmd, clock) = store
        BY <1>0 DEF Logged, Executed
      <4>2. At(store', k) = At(Executed(store, cmd, clock), k)
        BY <1>4, <1>5
      <4> QED
        BY <2>2, <4>1, <4>2
    <3>3. cmd.name = "DEL" /\ k \in ToSet(cmd.keys) /\ At(store', k) = <<>>
      BY <1>1, <1>5, <2>0, <2>2, <3>1, <3>2, CommandKinds, ChangedBy
    <3>4. ~Live(store, k, clock)
      BY <3>3 DEF Logged
    <3>5. At(store, k) # <<>> /\ ~Alive(At(store, k), clock)
      BY <2>2, <3>3, <3>4 DEF At, Live, Alive
    <3>6. ~Untimed(At(Said(Read), k))
      BY <2>0, <3>5 DEF Matches, Untimed, Alive
    <3> QED
      BY <3>3, <3>6 DEF Matches
  <2> QED
    BY <2>1, <2>2
<1>8. DOMAIN store' \subseteq DOMAIN store
  <2>1. cmd.name = "DEL" => Executed(store, cmd, clock) = Without(store, ToSet(cmd.keys))
    BY <1>0 DEF Executed
  <2>2. cmd.name = "INCR" => Executed(store, cmd, clock) = store
    BY <1>0 DEF Logged, Executed
  <2>3. cmd.name # "SET"
    BY DEF Logged
  <2> QED
    BY <1>3, <2>1, <2>2, <2>3, CommandKinds DEF Without
<1>9. Named' = Named /\ (Crowded' <=> Crowded)
  BY DEF Named, Crowded
<1>10. RecoveryTypes' /\ BeforeMatches'
  BY <1>3, <1>5 DEF RecoveryInv, RecoveryTypes, BeforeMatches
<1>11. StoreMatches'
  BY <1>3, <1>6, <1>7 DEF StoreMatches
<1>12. NoneLost'
  BY <1>3, <1>8, <1>9 DEF RecoveryInv, NoneLost
<1> QED
  BY <1>10, <1>11, <1>12 DEF RecoveryInv

\* A client's command keeps the invariant.
LEMMA ExecuteKeeps == ASSUME RecoveryInv, NEW cmd \in Command, execute(cmd) PROVE RecoveryInv'
<1>1. CASE ~Logged(store, cmd, clock)
  BY <1>1, UnloggedMatches DEF execute
<1>2. CASE Logged(store, cmd, clock)
  <2>1. /\ Executes(cmd, Renewed(cmd)) /\ log' = Append(log, cmd) /\ pos' = pos + 1
        /\ serving /\ serving' = serving /\ clock' = clock /\ before' = before
    BY <1>2 DEF execute
  <2>2. RecoveryTypes /\ StoreMatches /\ NoneLost /\ log \in Seq(Command) /\ pos = Len(log)
    BY <2>1 DEF RecoveryInv, RecoveryTypes
  <2>3. log' \in Seq(Command) /\ pos' = Len(log') /\ pos' \in 0..Len(log')
    BY <2>1, <2>2, AppendProperties, LenProperties
  <2>4. Read = log /\ Read' = log'
    <3>1. SubSeq(log', 1, pos') = log'
      BY <2>3, SubSeqFull
    <3> QED
      BY <2>2, <3>1, ReadFacts DEF Read
  <2>5. store' \in Stores /\ lost' \in SUBSET Key /\ StoreMatches'
    BY <2>1, <2>2, <2>4, CommandMatches
  <2>6. RecoveryTypes'
    BY <2>1, <2>2, <2>3, <2>5 DEF RecoveryTypes
  <2>7. NoneLost'
    <3>1. Named' = Named \cup Makes(cmd)
      BY <2>1, <2>2, NamedAppends
    <3>2. IsFiniteSet(Makes(cmd)) /\ IsFiniteSet(Named)
      BY <2>2, FS_EmptySet, FS_Singleton DEF Makes, NoneLost
    <3>3. IsFiniteSet(Named')
      BY <3>1, <3>2, FS_Union
    <3> QED
      BY <2>1, <2>2, <3>1, <3>3, CommandLoses
  <2> QED
    BY <2>1, <2>5, <2>6, <2>7 DEF RecoveryInv, BeforeMatches
<1> QED
  BY <1>1, <1>2

\* The recovery's commands keep it.
LEMMA RestoreKeeps == ASSUME RecoveryInv, restore PROVE RecoveryInv'
<1>1. PICK cmd : cmd = log[pos + 1]
  OBVIOUS
<1>2. /\ Executes(cmd, Renewed(cmd)) /\ pos' = pos + 1 /\ pos < Len(log)
      /\ log' = log /\ serving' = serving /\ ~serving /\ clock' = clock /\ before' = before
  BY <1>1 DEF restore
<1>3. RecoveryTypes /\ StoreMatches /\ NoneLost /\ BeforeMatches
  BY DEF RecoveryInv
<1>4. cmd \in Command /\ Read' = Append(Read, cmd)
  BY <1>1, <1>2, <1>3, ReadFacts DEF Read
<1>5. store' \in Stores /\ lost' \in SUBSET Key /\ StoreMatches'
  BY <1>2, <1>3, <1>4, CommandMatches
<1>6. RecoveryTypes'
  BY <1>2, <1>3, <1>5 DEF RecoveryTypes
<1>7. NoneLost'
  <2>1. Named' = Named
    BY <1>2 DEF Named
  <2>2. Makes(cmd) \subseteq Named
    <3>1. pos + 1 \in DOMAIN log
      BY <1>2, <1>3, LogFacts DEF RecoveryTypes
    <3>2. Makes(cmd) \subseteq Key
      BY <1>4, CommandKinds DEF Makes
    <3> QED
      BY <1>1, <3>1, <3>2 DEF Makes, Named
  <2> QED
    BY <1>2, <1>3, <1>4, <2>1, <2>2, CommandLoses DEF NoneLost
<1>8. BeforeMatches'
  BY <1>2, <1>3 DEF BeforeMatches
<1> QED
  BY <1>5, <1>6, <1>7, <1>8 DEF RecoveryInv

\* An expired entry has a deadline in the file, and nothing more is asked of it.
LEMMA ExpireKeeps == ASSUME RecoveryInv, NEW k \in Key, Expire(k) PROVE RecoveryInv'
<1>1. /\ store \in Stores /\ clock \in Nat /\ log \in Seq(Command) /\ before.at \in Nat
      /\ k \in DOMAIN store /\ ~Live(store, k, clock) /\ store' = Without(store, {k})
      /\ UNCHANGED <<log, pos, serving, clock, lost, before>>
  BY DEF RecoveryInv, RecoveryTypes, Expire
<1>2. /\ store' \in Stores
      /\ \A j \in Key : At(store', j) = IF j = k THEN <<>> ELSE At(store, j)
  BY <1>1, WithoutFacts
<1>3. Read' = Read /\ Read \in Seq(Command)
  BY <1>1, ReadFacts DEF Read, RecoveryInv
<1>4. ASSUME NEW j \in Key \ lost
      PROVE  /\ Matches(At(store', j), At(Said(Read), j), clock)
             /\ ~serving => InPlace(At(store', j), At(Said(Read), j), clock, before.at)
  <2> DEFINE e == At(store, j)
             r == At(Said(Read), j)
  <2>1. Matches(e, r, clock) /\ (~serving => InPlace(e, r, clock, before.at))
    BY DEF RecoveryInv, StoreMatches
  <2>2. CASE j # k
    BY <1>2, <2>1, <2>2
  <2>3. CASE j = k
    <3>1. e # <<>> /\ e[1].expiresAt # NoExpiry /\ ~(clock < e[1].expiresAt) /\ e[1].expiresAt \in Int
      BY <1>1, <2>3, StoreFacts DEF At, Live
    <3>2. r \in Maybe
      BY <1>3, SaidStore, MaybeFacts
    <3>3. At(store', j) = <<>>
      BY <1>2, <2>3
    <3> HIDE DEF e, r
    <3>4. ~Untimed(r)
      BY <2>1, <3>1 DEF Matches, Untimed
    <3>5. r[1].expiresAt \in Int
      BY <3>2, <3>4, MaybeFacts DEF Untimed
    <3>6. ~serving => clock >= before.at + r[1].expiresAt
      BY <1>1, <2>1, <3>1, <3>4, <3>5 DEF InPlace
    <3>7. Matches(<<>>, r, clock) /\ (~serving => InPlace(<<>>, r, clock, before.at))
      BY <3>4, <3>6 DEF Matches, InPlace
    <3> QED
      BY <3>3, <3>7 DEF r
  <2> QED
    BY <2>2, <2>3
<1>5. StoreMatches'
  BY <1>1, <1>3, <1>4 DEF StoreMatches
<1>6. NoneLost'
  <2>1. Named' = Named /\ (Crowded' <=> Crowded) /\ DOMAIN store' \subseteq DOMAIN store
    BY <1>1 DEF Named, Crowded, Without
  <2> QED
    BY <1>1, <2>1 DEF RecoveryInv, NoneLost
<1> QED
  BY <1>1, <1>2, <1>5, <1>6 DEF RecoveryInv, RecoveryTypes, BeforeMatches

\* Less and less is asked of entries with deadlines as time goes on.
LEMMA TickKeeps == ASSUME RecoveryInv, Tick PROVE RecoveryInv'
<1>1. /\ store \in Stores /\ clock \in Nat /\ before.at \in Nat /\ before.at <= clock
      /\ clock' = clock + 1 /\ UNCHANGED <<store, log, pos, serving, lost, before>>
  BY DEF RecoveryInv, RecoveryTypes, Tick
<1>2. Read' = Read /\ Read \in Seq(Command)
  BY <1>1, ReadFacts DEF Read, RecoveryInv
<1>3. ASSUME NEW k \in Key \ lost
      PROVE  /\ Matches(At(store, k), At(Said(Read), k), clock')
             /\ ~serving => InPlace(At(store, k), At(Said(Read), k), clock', before.at)
  <2> DEFINE e == At(store, k)
             r == At(Said(Read), k)
  <2>1. Matches(e, r, clock) /\ (~serving => InPlace(e, r, clock, before.at))
    BY DEF RecoveryInv, StoreMatches
  <2>2. e \in Maybe /\ r \in Maybe
    BY <1>1, <1>2, SaidStore, MaybeFacts
  <2> HIDE DEF e, r
  <2>3. r # <<>> => r[1].expiresAt \in Int
    BY <2>2, MaybeFacts
  <2>4. e # <<>> => e[1].expiresAt \in Int
    BY <2>2, MaybeFacts
  <2>5. Matches(e, r, clock')
    BY <1>1, <2>1, <2>3, <2>4 DEF Matches, Untimed
  <2>6. ~serving => InPlace(e, r, clock', before.at)
    BY <1>1, <2>1, <2>3 DEF InPlace, Untimed
  <2> QED
    BY <2>5, <2>6 DEF e, r
<1>4. StoreMatches'
  BY <1>1, <1>2, <1>3 DEF StoreMatches
<1>5. NoneLost'
  BY <1>1 DEF RecoveryInv, NoneLost, Named, Crowded
<1> QED
  BY <1>1, <1>4, <1>5 DEF RecoveryInv, RecoveryTypes, BeforeMatches

\* The server goes down with what the file says, and its successor begins with nothing.
LEMMA GoingDownKeeps == ASSUME RecoveryInv, restart PROVE RecoveryInv'
<1>1. /\ RecoveryTypes /\ StoreMatches /\ BeforeMatches /\ NoneLost
      /\ store' = NoEntries /\ pos' = 0 /\ serving' = FALSE /\ lost' = {}
      /\ log' = log /\ clock' = clock
      /\ before' = IF serving THEN [store |-> store, lost |-> lost, at |-> clock] ELSE before
  BY DEF RecoveryInv, restart
<1>2. RecoveryTypes'
  <2>1. /\ log \in Seq(Command) /\ clock \in Nat /\ store \in Stores /\ lost \in SUBSET Key
        /\ before.store \in Stores /\ before.lost \in SUBSET Key
        /\ before.at \in Nat /\ before.at <= clock
    BY <1>1 DEF RecoveryTypes
  <2>2. /\ before'.store \in Stores /\ before'.lost \in SUBSET Key
        /\ before'.at \in Nat /\ before'.at <= clock
    BY <1>1, <2>1
  <2>3. 0 \in 0..Len(log)
    BY <2>1, LogFacts
  <2> QED
    BY <1>1, <2>1, <2>2, <2>3, NothingStored DEF RecoveryTypes
<1>3. Read' = <<>>
  <2>1. SubSeq(log, 1, 0) = <<>>
    BY <1>1, SubSeqEmpty DEF RecoveryTypes
  <2> QED
    BY <1>1, <2>1 DEF Read
<1>4. StoreMatches'
  BY <1>1, <1>3, NothingSaid, NothingStored DEF StoreMatches, Matches, InPlace, Untimed
<1>5. BeforeMatches'
  <2>1. CASE serving
    <3>1. Read = log
      BY <1>1, <2>1, ReadFacts DEF RecoveryTypes
    <3> QED
      BY <1>1, <2>1, <3>1 DEF StoreMatches, BeforeMatches
  <2>2. CASE ~serving
    BY <1>1, <2>2 DEF BeforeMatches
  <2> QED
    BY <2>1, <2>2
<1>6. NoneLost'
  <2>1. Named' = Named /\ (Crowded' <=> Crowded) /\ DOMAIN store' = {}
    BY <1>1 DEF Named, Crowded, NoEntries
  <2>2. before'.lost \cup lost' \subseteq before.lost \cup lost
    BY <1>1
  <2> QED
    BY <1>1, <2>1, <2>2 DEF NoneLost
<1> QED
  BY <1>2, <1>4, <1>5, <1>6 DEF RecoveryInv

\* The port opens on a store that has executed the whole file.
LEMMA ListenKeeps == ASSUME RecoveryInv, listen PROVE RecoveryInv'
<1>1. /\ RecoveryTypes /\ StoreMatches /\ NoneLost
      /\ pos = Len(log) /\ serving' = TRUE /\ before' = NotDown
      /\ UNCHANGED <<store, log, pos, clock, lost>>
  BY DEF RecoveryInv, listen, Restored
<1>2. RecoveryTypes'
  BY <1>1, NothingStored DEF RecoveryTypes, NotDown
<1>3. StoreMatches'
  BY <1>1 DEF StoreMatches, Read
<1>4. NoneLost'
  BY <1>1 DEF NoneLost, Named, Crowded, NotDown
<1> QED
  BY <1>1, <1>2, <1>3, <1>4 DEF RecoveryInv, BeforeMatches

\* Every step keeps the invariant.
LEMMA RecoveryStep == ASSUME RecoveryInv, [Next]_vars PROVE RecoveryInv'
<1>1. CASE \E k \in Key : INCR(k)
  <2>1. PICK k \in Key : execute([name |-> "INCR", key |-> k])
    BY <1>1 DEF INCR
  <2>2. [name |-> "INCR", key |-> k] \in Command
    BY DEF Command
  <2> QED
    BY <2>1, <2>2, ExecuteKeeps
<1>2. CASE \E k \in Key, v \in Text \cup 0..MaxInt, ex \in Ttl : SET(k, v, ex)
  <2>1. PICK k \in Key, v \in Value, ex \in Ttl :
            execute([name |-> "SET", key |-> k, value |-> v, ex |-> ex])
    BY <1>2 DEF SET, Value
  <2>2. [name |-> "SET", key |-> k, value |-> v, ex |-> ex] \in Command
    BY DEF Command
  <2> QED
    BY <2>1, <2>2, ExecuteKeeps
<1>3. CASE \E keys \in DelLists : DEL(keys)
  <2>1. PICK keys \in Seq(Key) : execute([name |-> "DEL", keys |-> keys])
    BY <1>3, RecoveryAssumption DEF DEL, RecoveryAssumption
  <2>2. [name |-> "DEL", keys |-> keys] \in Command
    BY DEF Command
  <2> QED
    BY <2>1, <2>2, ExecuteKeeps
<1>4. CASE UNCHANGED vars
  BY <1>4 DEF vars, RecoveryInv, RecoveryTypes, StoreMatches, BeforeMatches, NoneLost, Read,
              Named, Crowded
<1> QED
  BY <1>1, <1>2, <1>3, <1>4, ExpireKeeps, TickKeeps, GoingDownKeeps, RestoreKeeps, ListenKeeps
  DEF Next

\* When the whole file is executed, store and file say the same.
LEMMA RestoredKeeps == ASSUME RecoveryInv PROVE RestartKeeps
<1> SUFFICES ASSUME Restored
             PROVE  /\ \A k \in Key \ (before.lost \cup lost) :
                          IF Timed(k) THEN DeadlineSurvives(k) ELSE SameAsBefore(k)
                    /\ before.lost \cup lost = {} \/ Crowded
  BY DEF RestartKeeps
<1>1. /\ ~serving /\ Read = log /\ log \in Seq(Command) /\ store \in Stores /\ before.store \in Stores
      /\ clock \in Nat /\ before.at \in Nat /\ before.at <= clock
  BY ReadFacts DEF RecoveryInv, RecoveryTypes, Restored
<1>2. ASSUME NEW k \in Key \ (before.lost \cup lost)
      PROVE  IF Timed(k) THEN DeadlineSurvives(k) ELSE SameAsBefore(k)
  <2> DEFINE e == At(store, k)
             b == At(before.store, k)
             r == At(Said(log), k)
  <2>1. /\ Matches(e, r, clock) /\ InPlace(e, r, clock, before.at)
        /\ Matches(b, r, before.at)
    BY <1>1 DEF RecoveryInv, StoreMatches, BeforeMatches
  <2>2. r \in Maybe
    BY <1>1, SaidStore, MaybeFacts
  <2>3. Timed(k) <=> ~Untimed(r)
    BY DEF Timed, Untimed, At
  <2>4. CASE Untimed(r)
    <3>1. At(store, k) = At(before.store, k)
      BY <2>1, <2>4 DEF Matches
    <3>2. k \in DOMAIN store <=> k \in DOMAIN before.store
      BY <3>1 DEF At
    <3>3. k \in DOMAIN store => store[k] = before.store[k]
      BY <3>1, <3>2 DEF At
    <3>4. SameAsBefore(k)
      BY <3>2, <3>3 DEF SameAsBefore, LiveValues, Live
    <3> QED
      BY <2>3, <2>4, <3>4
  <2>5. CASE ~Untimed(r)
    <3>1. SUFFICES ASSUME Live(before.store, k, clock), before.store[k].expiresAt # NoExpiry
                   PROVE  /\ k \in DOMAIN store
                          /\ store[k].value = before.store[k].value
                          /\ store[k].expiresAt >= before.store[k].expiresAt
      BY <2>3, <2>5 DEF DeadlineSurvives
    <3>2. /\ b = <<before.store[k]>> /\ clock < before.store[k].expiresAt
          /\ before.store[k].expiresAt \in Int
      BY <1>1, <3>1, StoreFacts DEF Live, At
    <3>3. r[1].expiresAt \in Int
      BY <2>2, <2>5, MaybeFacts DEF Untimed
    <3>4. /\ before.store[k].value = r[1].value
          /\ before.store[k].expiresAt <= before.at + r[1].expiresAt
      <4> HIDE DEF r
      <4> QED
        BY <1>1, <2>1, <2>5, <3>1, <3>2 DEF Matches
    <3>5. ~(clock >= before.at + r[1].expiresAt)
      <4> HIDE DEF r
      <4> QED
        BY <1>1, <3>2, <3>3, <3>4
    <3>6. /\ e # <<>> /\ e[1].value = r[1].value
          /\ e[1].expiresAt >= before.at + r[1].expiresAt
      BY <2>1, <2>5, <3>5 DEF InPlace
    <3>7. k \in DOMAIN store /\ e = <<store[k]>> /\ store[k].expiresAt \in Int
      BY <1>1, <3>6, StoreFacts DEF At
    <3>8. e[1] = store[k]
      BY <3>7
    <3> HIDE DEF e, r, b
    <3> QED
      BY <1>1, <3>2, <3>3, <3>4, <3>6, <3>7, <3>8
  <2> QED
    BY <2>4, <2>5
<1> QED
  BY <1>2 DEF RecoveryInv, NoneLost

\* For any keys, values, deadlines and limits and any number of commands and restarts: when
\* the port opens again, clients see of a key whose last SET had no EX what they saw before,
\* and an entry that would still be going to expire is back with its value and expires no
\* earlier (aof-recovery.ts:15) - unless the engine evicted the key before the server went
\* down, or the recovery evicted it; and neither happens in an engine with room for all keys
\* the file names.
THEOREM RestartsKeep == Spec => []RestartKeeps
<1>1. Init => RecoveryInv
  BY RecoveryStarts
<1>2. RecoveryInv /\ [Next]_vars => RecoveryInv'
  BY RecoveryStep
<1>3. RecoveryInv => RestartKeeps
  BY RestoredKeeps
<1> QED
  BY <1>1, <1>2, <1>3, PTL DEF Spec
=============================================================================
