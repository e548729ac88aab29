------------------------ MODULE ClusterServerProofs -------------------------
(***************************************************************************)
(* What the connections of a cluster and its telemetry promise: replies    *)
(* keep the order of the requests, no command is lost or counted twice     *)
(* between two ticks, and snapshots come out in the order of their ticks.  *)
(***************************************************************************)
EXTENDS ClusterServer, LeastNumber, TLAPS

(***************************************************************************)
(* The numbers of requests.                                                *)
(***************************************************************************)
\* The requests of q are numbered from m + 1 on.
From(q, m) == \A i \in DOMAIN q : q[i].n = m + i

\* The chunks of q have the requests m + 1 to n, and chunk j those behind b[j].
Chunked(q, m, n) ==
    \E b \in [1..Len(q) + 1 -> Nat] :
        /\ b[1] = m /\ b[Len(q) + 1] = n
        /\ \A j \in DOMAIN q : b[j + 1] = b[j] + Len(q[j]) /\ From(q[j], b[j])

\* The replies written are the first ones, and none is behind that of QUIT.
Replied(k) ==
    \A i \in DOMAIN k.out : k.out[i].n = i /\ (k.out[i].kind = "quit" => i = Len(k.out))

\* While more can be written, the requests under way and in the queue are the next ones.
GoesOn(k) ==
    k.writable =>
        /\ \A i \in DOMAIN k.out : k.out[i].kind # "quit"
        /\ From(k.rest, Len(k.out))
        /\ Chunked(k.queue, Len(k.out) + Len(k.rest), k.sent)

Good(k) == k \in Connection /\ Replied(k) /\ GoesOn(k)

\* The fields of a connection.
LEMMA Fields ==
    ASSUME NEW k \in Connection
    PROVE  /\ k.out \in Seq(Request) /\ k.rest \in Seq(Request)
           /\ k.queue \in Seq(Seq(Request)) /\ k.sent \in Nat
           /\ k.writable \in BOOLEAN /\ k.readable \in BOOLEAN
           /\ k.state \in {"new", "open", "closed"}
BY DEF Connection

\* Sequences that get an element at the end or lose their first.
LEMMA Moved ==
    ASSUME NEW T, NEW q \in Seq(T)
    PROVE  /\ Len(q) \in Nat /\ DOMAIN q = 1..Len(q)
           /\ \A x \in T : /\ Append(q, x) \in Seq(T) /\ Len(Append(q, x)) = Len(q) + 1
                           /\ \A i \in 1..Len(q) : Append(q, x)[i] = q[i]
                           /\ Append(q, x)[Len(q) + 1] = x
           /\ q # <<>> => /\ Head(q) = q[1] /\ Head(q) \in T /\ Tail(q) \in Seq(T)
                          /\ Len(q) \in Nat \ {0} /\ Len(Tail(q)) = Len(q) - 1
                          /\ \A i \in 1..Len(q) - 1 : Tail(q)[i] = q[i + 1]
OBVIOUS

\* destroy keeps a connection and its replies.
LEMMA DestroyKeeps ==
    ASSUME NEW k, Good(k)
    PROVE  Good(destroy(k)) /\ destroy(k).rest = k.rest /\ destroy(k).state = k.state
<1>1. k \in Connection
  BY DEF Good
<1> DEFINE j == destroy(k)
<1>2. /\ j \in Connection /\ j.out = k.out /\ j.rest = k.rest /\ j.state = k.state
      /\ j.writable = FALSE
  BY <1>1 DEF Connection, destroy
<1> HIDE DEF j
<1>3. Replied(j) /\ GoesOn(j)
  BY <1>2 DEF Good, Replied, GoesOn
<1> QED
  BY <1>2, <1>3 DEF Good, j

\* A reply to the request at the head of those under way.
LEMMA AnsweredKeeps ==
    ASSUME NEW k, Good(k), k.rest # <<>>
    PROVE  /\ Answered(k) \in Connection /\ Replied(Answered(k))
           /\ Head(k.rest).kind # "quit" => GoesOn(Answered(k))
           /\ Answered(k).rest = Tail(k.rest) /\ Answered(k).state = k.state
<1> DEFINE l == [k EXCEPT !.rest = Tail(@)]
           j == Answered(k)
           x == Head(k.rest)
<1>1. k \in Connection
  BY DEF Good
<1>2. x \in Request /\ Tail(k.rest) \in Seq(Request)
  BY <1>1, Fields, Moved
<1>3. /\ l \in Connection /\ l.out = k.out /\ l.rest = Tail(k.rest) /\ l.queue = k.queue
      /\ l.sent = k.sent /\ l.state = k.state /\ l.writable = k.writable
  BY <1>1, <1>2 DEF Connection
<1>4. j = write(l, x)
  BY DEF Answered
<1> HIDE DEF l, j
<1>5. CASE ~k.writable
  <2>1. j = destroy(l)
    BY <1>3, <1>4, <1>5 DEF write
  <2>2. Good(l)
    BY <1>3, <1>5 DEF Good, Replied, GoesOn
  <2>3. Good(j) /\ j.rest = l.rest /\ j.state = l.state
    BY <2>1, <2>2, DestroyKeeps
  <2> QED
    BY <1>3, <2>3 DEF Good, j
<1>6. CASE k.writable
  <2>1. j = [l EXCEPT !.out = Append(@, x)]
    BY <1>3, <1>4, <1>6 DEF write
  <2>2. k.out \in Seq(Request) /\ k.rest \in Seq(Request) /\ Append(k.out, x) \in Seq(Request)
    BY <1>1, <1>2, Fields, Moved
  <2>3. /\ j \in Connection /\ j.out = Append(k.out, x) /\ j.rest = Tail(k.rest)
        /\ j.queue = k.queue /\ j.sent = k.sent /\ j.state = k.state /\ j.writable = k.writable
    BY <1>3, <2>1, <2>2 DEF Connection
  <2>4. /\ \A i \in DOMAIN k.out : k.out[i].n = i /\ k.out[i].kind # "quit"
        /\ From(k.rest, Len(k.out)) /\ Chunked(k.queue, Len(k.out) + Len(k.rest), k.sent)
    BY <1>6 DEF Good, Replied, GoesOn
  <2> DEFINE m == Len(k.out)
             r == Len(k.rest)
             q == j.out
  <2>5. /\ m \in Nat /\ r \in Nat \ {0} /\ DOMAIN k.out = 1..m /\ DOMAIN k.rest = 1..r
        /\ DOMAIN q = 1..m + 1 /\ Len(q) = m + 1
        /\ DOMAIN j.rest = 1..r - 1 /\ Len(j.rest) = r - 1
        /\ \A i \in 1..m : q[i] = k.out[i]
        /\ q[m + 1] = x /\ x = k.rest[1]
        /\ \A i \in 1..r - 1 : j.rest[i] = k.rest[i + 1]
    BY <1>2, <2>2, <2>3, Moved
  <2> HIDE DEF m, r, q
  <2>6. x.n = m + 1
    <3>1. 1 \in 1..r
      BY <2>5
    <3>2. k.rest[1].n = m + 1
      BY <2>4, <2>5, <3>1 DEF From, m
    <3> QED
      BY <2>5, <3>2
  <2>7. \A i \in 1..m + 1 : q[i].n = i /\ (q[i].kind = "quit" => i = m + 1)
    <3>1. \A i \in 1..m : q[i].n = i /\ q[i].kind # "quit"
      BY <2>4, <2>5
    <3>2. \A i \in 1..m + 1 : i \in 1..m \/ i = m + 1
      BY <2>5
    <3> QED
      BY <2>5, <2>6, <3>1, <3>2
  <2>8. Replied(j)
    BY <2>5, <2>7 DEF Replied, q
  <2>9. ASSUME x.kind # "quit"
        PROVE  GoesOn(j)
    <3>1. \A i \in DOMAIN q : q[i].kind # "quit"
      BY <2>5, <2>7, <2>9
    <3>2. From(j.rest, m + 1)
      <4>1. ASSUME NEW i \in 1..r - 1
            PROVE  j.rest[i].n = m + 1 + i
        <5>1. i + 1 \in 1..r
          BY <2>5
        <5>2. k.rest[i + 1].n = m + (i + 1)
          BY <2>4, <2>5, <5>1 DEF From, m
        <5> QED
          BY <2>5, <5>2
      <4> QED
        BY <2>5, <4>1 DEF From
    <3>3. m + 1 + (r - 1) = m + r
      BY <2>5
    <3>4. Chunked(j.queue, m + 1 + (r - 1), j.sent)
      BY <2>3, <2>4, <3>3 DEF m, r
    <3> QED
      BY <2>5, <3>1, <3>2, <3>4 DEF GoesOn, q
  <2> QED
    BY <2>3, <2>8, <2>9 DEF j
<1>7. k.writable \in BOOLEAN
  BY <1>1, Fields
<1> QED
  BY <1>5, <1>6, <1>7

\* The next chunk of the queue begins, or ends the connection.
LEMMA BegunKeeps ==
    ASSUME NEW k, Good(k), k.rest = <<>>, k.queue # <<>>
    PROVE  Good(Begun(k)) /\ Begun(k).state = k.state
<1>1. k \in Connection
  BY DEF Good
<1>2. /\ k.queue \in Seq(Seq(Request)) /\ k.out \in Seq(Request)
      /\ Head(k.queue) \in Seq(Request) /\ Tail(k.queue) \in Seq(Seq(Request))
  BY <1>1, Fields, Moved
<1> DEFINE m == Len(k.out)
           l == Len(k.queue)
           q == Tail(k.queue)
<1>3. CASE Malformed(Head(k.queue))
  <2> DEFINE j == [k EXCEPT !.queue = Tail(@), !.readable = FALSE, !.writable = FALSE]
  <2>1. Begun(k) = j
    BY <1>1, <1>3 DEF Begun, Caught, destroy, Connection
  <2>2. j \in Connection /\ j.out = k.out /\ j.state = k.state /\ j.writable = FALSE
    BY <1>1, <1>2 DEF Connection
  <2> HIDE DEF j
  <2> QED
    BY <2>1, <2>2 DEF Good, Replied, GoesOn
<1>4. CASE ~Malformed(Head(k.queue))
  <2> DEFINE j == Begun(k)
  <2>1. j = [k EXCEPT !.rest = Head(k.queue), !.queue = Tail(@)]
    BY <1>4 DEF Begun
  <2>2. /\ j \in Connection /\ j.out = k.out /\ j.rest = Head(k.queue) /\ j.queue = q
        /\ j.state = k.state /\ j.writable = k.writable /\ j.sent = k.sent
    BY <1>1, <1>2, <2>1 DEF Connection
  <2>3. /\ l \in Nat \ {0} /\ DOMAIN k.queue = 1..l /\ Head(k.queue) = k.queue[1]
        /\ DOMAIN q = 1..l - 1 /\ Len(q) = l - 1
        /\ \A i \in 1..l - 1 : q[i] = k.queue[i + 1]
        /\ m \in Nat /\ Len(Head(k.queue)) \in Nat
    BY <1>2, Moved
  <2> HIDE DEF j, m, l, q
  <2>4. Replied(j)
    BY <2>2 DEF Good, Replied
  <2>5. ASSUME k.writable
        PROVE  GoesOn(j)
    <3>1. PICK b \in [1..l + 1 -> Nat] :
            /\ b[1] = m + 0 /\ b[l + 1] = k.sent
            /\ \A i \in 1..l : b[i + 1] = b[i] + Len(k.queue[i]) /\ From(k.queue[i], b[i])
      <4>1. Chunked(k.queue, m + Len(k.rest), k.sent) /\ Len(k.rest) = 0
        BY <2>5 DEF Good, GoesOn, m
      <4>2. Chunked(k.queue, m + 0, k.sent)
        BY <4>1
      <4> QED
        BY <2>3, <4>2 DEF Chunked, l
    <3>2. \A i \in 1..l : i + 1 \in 1..l + 1
      BY <2>3
    <3> DEFINE d == [i \in 1..l |-> b[i + 1]]
    <3>3. d \in [1..l -> Nat]
      BY <3>1, <3>2
    <3>4. 1 \in 1..l /\ l \in 1..l
      BY <2>3
    <3>5. d[1] = m + Len(j.rest) /\ From(j.rest, m)
      <4>1. b[1] = m
        BY <2>3, <3>1
      <4>2. b[2] = b[1] + Len(k.queue[1]) /\ From(k.queue[1], b[1]) /\ d[1] = b[2]
        BY <3>1, <3>4
      <4> QED
        BY <2>2, <2>3, <4>1, <4>2
    <3>6. d[l] = k.sent
      BY <3>1, <3>4
    <3>7. ASSUME NEW i \in 1..l - 1
          PROVE  d[i + 1] = d[i] + Len(q[i]) /\ From(q[i], d[i])
      <4>1. i \in 1..l /\ i + 1 \in 1..l
        BY <2>3
      <4>2. d[i + 1] = b[i + 1 + 1] /\ d[i] = b[i + 1]
        BY <4>1
      <4>4. q[i] = k.queue[i + 1]
        BY <2>3
      <4>3. b[i + 1 + 1] = b[i + 1] + Len(k.queue[i + 1]) /\ From(k.queue[i + 1], b[i + 1])
        BY <3>1, <4>1
      <4> QED
        BY <4>2, <4>3, <4>4
    <3> HIDE DEF d
    <3>8. l - 1 + 1 = l
      BY <2>3
    <3>9. Chunked(q, m + Len(j.rest), k.sent)
      BY <2>3, <3>3, <3>5, <3>6, <3>7, <3>8 DEF Chunked
    <3> QED
      BY <2>2, <2>5, <3>5, <3>9 DEF Good, GoesOn, m
  <2> QED
    BY <2>2, <2>4, <2>5 DEF Good, GoesOn, j
<1> QED
  BY <1>3, <1>4

\* Running on keeps the order, and counts what it answers.
LEMMA RunOnKeeps ==
    ASSUME NEW k, Good(k)
    PROVE  /\ Good(RunOn(k).conn) /\ RunOn(k).odd \in Nat
           /\ RunOn(k).conn.state = k.state
<1> DEFINE Chain == [conn : Connection, odd : Nat]
           X == {at \in Chain : Good(at.conn) /\ at.conn.state = k.state}
           x == [conn |-> k, odd |-> 0]
           n == 2 * k.sent
<1>1. k \in Connection /\ n \in Nat
  BY Fields DEF Good
<1>2. x \in X
  BY <1>1
<1>3. ASSUME NEW at \in X
      PROVE  Turn[at] \in X
  <2> DEFINE j == at.conn
  <2>1. at \in Chain /\ Good(j) /\ j.state = k.state /\ at.odd \in Nat
    OBVIOUS
  <2>2. Turn[at] = IF j.rest # <<>>
                   THEN IF Head(j.rest).kind = "odd"
                        THEN [conn |-> Answered(j), odd |-> at.odd + 1] ELSE at
                   ELSE IF j.queue = <<>> THEN at ELSE [at EXCEPT !.conn = Begun(j)]
    BY <2>1 DEF Turn
  <2> HIDE DEF j
  <2>3. CASE j.rest # <<>> /\ Head(j.rest).kind = "odd"
    <3>1. Good(Answered(j)) /\ Answered(j).state = k.state
      BY <2>1, <2>3, AnsweredKeeps DEF Good
    <3> QED
      BY <2>1, <2>2, <2>3, <3>1 DEF Good
  <2>4. CASE j.rest = <<>> /\ j.queue # <<>>
    <3>1. Good(Begun(j)) /\ Begun(j).state = k.state
      BY <2>1, <2>4, BegunKeeps
    <3>2. Turn[at] = [conn |-> Begun(j), odd |-> at.odd]
      BY <2>1, <2>2, <2>4 DEF j
    <3> QED
      BY <2>1, <3>1, <3>2 DEF Good
  <2>5. CASE Turn[at] = at
    BY <2>5
  <2> QED
    BY <2>2, <2>3, <2>4, <2>5
<1> DEFINE f[i \in 0..n] == IF i = 0 THEN x ELSE Turn[f[i - 1]]
<1>4. RunOn(k) = f[n]
  BY DEF RunOn
<1> HIDE DEF X, x, n
<1>5. f \in [0..n -> X]
  <2>1. \E g : Iterates(g, x, Turn, n)
    BY <1>1, <1>2, <1>3, Iterated
  <2>2. Iterates(f, x, Turn, n)
    BY <2>1 DEF Iterates
  <2> HIDE DEF f
  <2> QED
    BY <1>1, <1>2, <1>3, <2>2, Iterated
<1>6. f[n] \in X
  <2> HIDE DEF f
  <2> QED
    BY <1>1, <1>5
<1> QED
  BY <1>4, <1>6 DEF X
-----------------------------------------------------------------------------
(***************************************************************************)
(* The ports: who has a message there, and in front of whom.               *)
(***************************************************************************)
\* Whoever awaits a shard has one message on its port, and nobody else has one there.
Mail(ports, owe) ==
    /\ ports \in [Shard -> Seq(Caller)] /\ owe \in [Caller -> SUBSET Shard]
    /\ \A s \in Shard : \A i, j \in DOMAIN ports[s] : ports[s][i] = ports[s][j] => i = j
    /\ \A s \in Shard : \A x \in Caller :
          s \in owe[x] <=> \E i \in DOMAIN ports[s] : ports[s][i] = x

InFront(q, x, y) == \E i, j \in DOMAIN q : i < j /\ q[i] = x /\ q[j] = y

Posted(ports, x, S) == [s \in Shard |-> IF s \in S THEN Append(ports[s], x) ELSE ports[s]]
Without(ports, s) == [ports EXCEPT ![s] = Tail(@)]

\* Callers of one kind are not of another.
LEMMA Kinds ==
    /\ Client \subseteq Caller /\ Viewer \subseteq Caller /\ Tick \subseteq Caller
    /\ api \in Caller /\ traffic \in Caller /\ api # traffic
    /\ \A c \in Client : c \notin Viewer /\ c \notin Tick /\ c # api /\ c # traffic
    /\ \A v \in Viewer : v \notin Tick /\ v # api /\ v # traffic
    /\ api \notin Tick /\ traffic \notin Tick
    /\ Shard # {} /\ Tick = 1..MaxTicks /\ MaxTicks \in Nat
<1>1. 0 \in Shard
  BY TelemetryAssumption DEF Shard
<1> QED
  BY <1>1, CallerAssumption, TelemetryAssumption DEF Caller, Tick

\* An answer takes the oldest message from a port; the others keep their order.
LEMMA AnswerKeeps ==
    ASSUME NEW ports, NEW owe, Mail(ports, owe), NEW s \in Shard, ports[s] # <<>>
    PROVE  LET x == Head(ports[s])
               p == Without(ports, s)
               o == [owe EXCEPT ![x] = @ \ {s}]
           IN  /\ x \in Caller /\ s \in owe[x] /\ Mail(p, o)
               /\ \A r \in Shard : \A y, z \in Caller :
                     r \in o[y] /\ InFront(ports[r], y, z) => InFront(p[r], y, z)
               /\ \A y \in Caller : ~InFront(ports[s], y, x)
<1> DEFINE q == ports[s]
           n == Len(q)
           x == Head(q)
           p == Without(ports, s)
           o == [owe EXCEPT ![x] = @ \ {s}]
<1>1. q \in Seq(Caller) /\ ports \in [Shard -> Seq(Caller)] /\ owe \in [Caller -> SUBSET Shard]
  BY DEF Mail
<1>2. /\ n \in Nat \ {0} /\ DOMAIN q = 1..n /\ x = q[1] /\ x \in Caller
      /\ Tail(q) \in Seq(Caller) /\ DOMAIN Tail(q) = 1..n - 1
      /\ \A i \in 1..n - 1 : Tail(q)[i] = q[i + 1]
  BY <1>1, Moved
<1>3. /\ p \in [Shard -> Seq(Caller)] /\ p[s] = Tail(q)
      /\ \A r \in Shard : r # s => p[r] = ports[r]
  BY <1>1, <1>2 DEF Without
<1>4. /\ o \in [Caller -> SUBSET Shard] /\ o[x] = owe[x] \ {s}
      /\ \A y \in Caller : y # x => o[y] = owe[y]
  BY <1>1, <1>2
<1>5. \A i, j \in 1..n : q[i] = q[j] => i = j
  BY <1>2 DEF Mail
<1>6. \A y \in Caller : s \in owe[y] <=> \E i \in 1..n : q[i] = y
  BY <1>2 DEF Mail
<1>7. 1 \in 1..n /\ \A i \in 1..n - 1 : i + 1 \in 1..n /\ i + 1 # 1
  BY <1>2
<1>8. \A i \in 1..n : i # 1 => i - 1 \in 1..n - 1 /\ i - 1 + 1 = i
  BY <1>2
<1>9. s \in owe[x]
  BY <1>2, <1>6, <1>7
<1> HIDE DEF q, n, x, p, o
<1>10. ASSUME NEW y \in Caller
       PROVE  s \in o[y] <=> \E i \in 1..n - 1 : Tail(q)[i] = y
  <2>1. CASE y = x
    <3>1. s \notin o[y]
      BY <1>4, <2>1
    <3>2. ASSUME NEW i \in 1..n - 1
          PROVE  Tail(q)[i] # y
      BY <1>2, <1>5, <1>7, <2>1
    <3> QED
      BY <3>1, <3>2
  <2>2. CASE y # x
    <3>1. s \in o[y] <=> \E i \in 1..n : q[i] = y
      BY <1>4, <1>6, <2>2
    <3>2. ASSUME NEW i \in 1..n, q[i] = y
          PROVE  i - 1 \in 1..n - 1 /\ Tail(q)[i - 1] = y
      BY <1>2, <1>8, <2>2, <3>2
    <3>3. ASSUME NEW i \in 1..n - 1, Tail(q)[i] = y
          PROVE  i + 1 \in 1..n /\ q[i + 1] = y
      BY <1>2, <1>7, <3>3
    <3> QED
      BY <3>1, <3>2, <3>3
  <2> QED
    BY <2>1, <2>2
<1>11. Mail(p, o)
  <2>1. ASSUME NEW r \in Shard, NEW i \in DOMAIN p[r], NEW j \in DOMAIN p[r], p[r][i] = p[r][j]
        PROVE  i = j
    <3>1. CASE r = s
      <4>1. i \in 1..n - 1 /\ j \in 1..n - 1 /\ q[i + 1] = q[j + 1]
        BY <1>2, <1>3, <2>1, <3>1
      <4>2. i + 1 = j + 1
        BY <1>5, <1>7, <4>1
      <4> QED
        BY <1>2, <4>1, <4>2
    <3>2. CASE r # s
      BY <1>3, <2>1, <3>2 DEF Mail
    <3> QED
      BY <3>1, <3>2
  <2>2. ASSUME NEW r \in Shard, NEW y \in Caller
        PROVE  r \in o[y] <=> \E i \in DOMAIN p[r] : p[r][i] = y
    <3>1. CASE r = s
      BY <1>2, <1>3, <1>10, <3>1
    <3>2. CASE r # s
      <4>1. r \in o[y] <=> r \in owe[y]
        BY <1>4, <3>2
      <4> QED
        BY <1>3, <3>2, <4>1 DEF Mail
    <3> QED
      BY <3>1, <3>2
  <2> QED
    BY <1>3, <1>4, <2>1, <2>2 DEF Mail
<1>12. ASSUME NEW r \in Shard, NEW y \in Caller, NEW z \in Caller,
              r \in o[y], InFront(ports[r], y, z)
       PROVE  InFront(p[r], y, z)
  <2>1. CASE r = s
    <3>1. PICK i \in 1..n, j \in 1..n : i < j /\ q[i] = y /\ q[j] = z
      BY <1>2, <1>12, <2>1 DEF InFront, q
    <3>2. y # x
      BY <1>4, <1>12, <2>1
    <3>3. i # 1 /\ j # 1
      BY <1>2, <3>1, <3>2
    <3>4. /\ i - 1 \in 1..n - 1 /\ j - 1 \in 1..n - 1 /\ i - 1 < j - 1
          /\ Tail(q)[i - 1] = y /\ Tail(q)[j - 1] = z
      <4>1. i - 1 \in 1..n - 1 /\ i - 1 + 1 = i /\ j - 1 \in 1..n - 1 /\ j - 1 + 1 = j
        BY <1>8, <3>3
      <4>2. i - 1 < j - 1
        BY <3>1
      <4> QED
        BY <1>2, <3>1, <4>1, <4>2
    <3>5. DOMAIN p[r] = 1..n - 1 /\ p[r] = Tail(q)
      BY <1>2, <1>3, <2>1
    <3> QED
      BY <3>4, <3>5 DEF InFront
  <2>2. CASE r # s
    BY <1>3, <1>12, <2>2
  <2> QED
    BY <2>1, <2>2
<1>13. ASSUME NEW y \in Caller, InFront(q, y, x)
       PROVE  FALSE
  <2>1. PICK i \in 1..n, j \in 1..n : i < j /\ q[j] = x
    BY <1>2, <1>13 DEF InFront
  <2>2. j = 1
    BY <1>2, <1>5, <1>7, <2>1
  <2> QED
    BY <1>2, <2>1, <2>2
<1> QED
  BY <1>2, <1>9, <1>11, <1>12, <1>13 DEF q, x, p, o

\* A call posts its messages behind everybody's.
LEMMA PostKeeps ==
    ASSUME NEW ports, NEW owe, Mail(ports, owe),
           NEW x \in Caller, owe[x] = {}, NEW S \in SUBSET Shard
    PROVE  LET p == Posted(ports, x, S)
               o == [owe EXCEPT ![x] = S]
           IN  /\ Mail(p, o)
               /\ \A r \in Shard : \A y, z \in Caller :
                     InFront(ports[r], y, z) => InFront(p[r], y, z)
               /\ \A r \in S : \A y \in Caller : r \in owe[y] => InFront(p[r], y, x)
<1> DEFINE p == Posted(ports, x, S)
           o == [owe EXCEPT ![x] = S]
<1>1. ports \in [Shard -> Seq(Caller)] /\ owe \in [Caller -> SUBSET Shard]
  BY DEF Mail
<1>2. o \in [Caller -> SUBSET Shard] /\ o[x] = S /\ \A y \in Caller : y # x => o[y] = owe[y]
  BY <1>1
<1>3. p \in [Shard -> Seq(Caller)] /\ \A r \in Shard : r \notin S => p[r] = ports[r]
  BY <1>1, Moved DEF Posted
<1>4. ASSUME NEW r \in S
      PROVE  LET n == Len(ports[r])
             IN  /\ n \in Nat /\ DOMAIN ports[r] = 1..n /\ DOMAIN p[r] = 1..n + 1
                 /\ \A i \in 1..n : p[r][i] = ports[r][i]
                 /\ p[r][n + 1] = x
                 /\ \A i \in 1..n : ports[r][i] # x
  <2>1. r \in Shard /\ ports[r] \in Seq(Caller) /\ p[r] = Append(ports[r], x)
    BY <1>1 DEF Posted
  <2>2. r \notin owe[x]
    OBVIOUS
  <2> HIDE DEF p
  <2>3. \A i \in DOMAIN ports[r] : ports[r][i] # x
    BY <2>1, <2>2 DEF Mail
  <2>4. DOMAIN ports[r] = 1..Len(ports[r]) /\ Len(p[r]) = Len(ports[r]) + 1
        /\ DOMAIN p[r] = 1..Len(p[r])
    BY <1>3, <2>1, Moved
  <2> QED
    BY <2>1, <2>3, <2>4, Moved
<1> HIDE DEF p, o
<1>5. Mail(p, o)
  <2>1. ASSUME NEW r \in Shard, NEW i \in DOMAIN p[r], NEW j \in DOMAIN p[r], p[r][i] = p[r][j]
        PROVE  i = j
    <3>1. CASE r \in S
      <4> DEFINE n == Len(ports[r])
      <4>1. /\ n \in Nat /\ i \in 1..n + 1 /\ j \in 1..n + 1
            /\ \A l \in 1..n : p[r][l] = ports[r][l] /\ p[r][l] # x
            /\ p[r][n + 1] = x
        BY <1>4, <3>1
      <4>2. \A l, m \in 1..n : ports[r][l] = ports[r][m] => l = m
        BY <1>4, <3>1 DEF Mail
      <4> HIDE DEF n
      <4>3. (i \in 1..n \/ i = n + 1) /\ (j \in 1..n \/ j = n + 1)
        BY <4>1
      <4> QED
        BY <2>1, <4>1, <4>2, <4>3
    <3>2. CASE r \notin S
      BY <1>3, <2>1, <3>2 DEF Mail
    <3> QED
      BY <3>1, <3>2
  <2>2. ASSUME NEW r \in Shard, NEW y \in Caller
        PROVE  r \in o[y] <=> \E i \in DOMAIN p[r] : p[r][i] = y
    <3>1. CASE r \in S
      <4> DEFINE n == Len(ports[r])
      <4>1. /\ n \in Nat /\ DOMAIN p[r] = 1..n + 1
            /\ \A l \in 1..n : p[r][l] = ports[r][l] /\ p[r][l] # x
            /\ p[r][n + 1] = x
        BY <1>4, <3>1
      <4>2. r \in owe[y] <=> \E i \in 1..n : ports[r][i] = y
        BY <1>4, <3>1 DEF Mail
      <4> HIDE DEF n
      <4>3. n + 1 \in 1..n + 1 /\ \A i \in 1..n + 1 : i \in 1..n \/ i = n + 1
        BY <4>1
      <4>4. \A i \in 1..n : i \in 1..n + 1
        BY <4>1
      <4>5. CASE y = x
        BY <1>2, <3>1, <4>1, <4>3, <4>5
      <4>6. CASE y # x
        BY <1>2, <4>1, <4>2, <4>3, <4>4, <4>6
      <4> QED
        BY <4>5, <4>6
    <3>2. CASE r \notin S
      <4>1. r \in o[y] <=> r \in owe[y]
        BY <1>2, <3>2
      <4> QED
        BY <1>3, <3>2, <4>1 DEF Mail
    <3> QED
      BY <3>1, <3>2
  <2> QED
    BY <1>2, <1>3, <2>1, <2>2 DEF Mail
<1>6. ASSUME NEW r \in Shard, NEW y \in Caller, NEW z \in Caller, InFront(ports[r], y, z)
      PROVE  InFront(p[r], y, z)
  <2>1. PICK i \in DOMAIN ports[r], j \in DOMAIN ports[r] :
          i < j /\ ports[r][i] = y /\ ports[r][j] = z
    BY <1>6 DEF InFront
  <2>2. CASE r \in S
    <3> DEFINE n == Len(ports[r])
    <3>1. /\ n \in Nat /\ i \in 1..n /\ j \in 1..n /\ DOMAIN p[r] = 1..n + 1
          /\ p[r][i] = y /\ p[r][j] = z
      BY <1>4, <2>1, <2>2
    <3> HIDE DEF n
    <3>2. i \in DOMAIN p[r] /\ j \in DOMAIN p[r]
      BY <3>1
    <3> QED
      BY <2>1, <3>1, <3>2 DEF InFront
  <2>3. CASE r \notin S
    BY <1>3, <1>6, <2>3
  <2> QED
    BY <2>2, <2>3
<1>7. ASSUME NEW r \in S, NEW y \in Caller, r \in owe[y]
      PROVE  InFront(p[r], y, x)
  <2>1. PICK i \in DOMAIN ports[r] : ports[r][i] = y
    BY <1>7 DEF Mail
  <2> DEFINE n == Len(ports[r])
  <2>2. /\ n \in Nat /\ i \in 1..n /\ DOMAIN p[r] = 1..n + 1
        /\ p[r][i] = y /\ p[r][n + 1] = x
    BY <1>4, <2>1
  <2> HIDE DEF n
  <2>3. i \in DOMAIN p[r] /\ n + 1 \in DOMAIN p[r] /\ i < n + 1
    BY <2>2
  <2> QED
    BY <2>2, <2>3 DEF InFront
<1> QED
  BY <1>5, <1>6, <1>7 DEF p, o
-----------------------------------------------------------------------------
(***************************************************************************)
(* The ticks: an earlier one is never behind a later one.                  *)
(***************************************************************************)
SnapshotRecord == [tick : Nat, commands : Int, since : Int, total : Int]
TickRecord == [phase : {"stats", "keys", "done"}, commands : Int, since : Int]

\* A tick that is not done awaits answers.
Owing(tk, owe) ==
    \A t \in Tick : owe[t] # {} <=> t \in DOMAIN tk /\ tk[t].phase # "done"

\* Of two ticks the earlier one is further, or its messages are in front.
Ahead(tk, ports, owe, t, u) ==
    /\ tk[u].phase = "done" => tk[t].phase = "done"
    /\ tk[u].phase = "keys" => tk[t].phase # "stats"
    /\ tk[t].phase = tk[u].phase /\ tk[t].phase # "done" =>
          \A s \in owe[t] : InFront(ports[s], t, u)

TickOrder(tk, ports, owe) ==
    /\ tk \in Seq(TickRecord) /\ Len(tk) <= MaxTicks
    /\ Owing(tk, owe)
    /\ \A t, u \in DOMAIN tk : t < u => Ahead(tk, ports, owe, t, u)

\* What the ticks are.
LEMMA TickFacts ==
    ASSUME NEW tk \in Seq(TickRecord), Len(tk) <= MaxTicks
    PROVE  /\ Len(tk) \in Nat /\ DOMAIN tk = 1..Len(tk) /\ DOMAIN tk \subseteq Tick
           /\ \A t \in DOMAIN tk : /\ t \in Caller /\ t \in Nat /\ tk[t] \in TickRecord
                                   /\ tk[t].phase \in {"stats", "keys", "done"}
                                   /\ tk[t].commands \in Int /\ tk[t].since \in Int
<1>1. \A t \in DOMAIN tk : tk[t] \in TickRecord
  OBVIOUS
<1>2. \A r \in TickRecord : /\ r.phase \in {"stats", "keys", "done"}
                            /\ r.commands \in Int /\ r.since \in Int
  BY DEF TickRecord
<1>3. Len(tk) \in Nat /\ DOMAIN tk = 1..Len(tk)
  OBVIOUS
<1>4. DOMAIN tk \subseteq Tick /\ \A t \in DOMAIN tk : t \in Nat
  BY <1>3, Kinds
<1> QED
  BY <1>1, <1>2, <1>3, <1>4, Kinds

Further(tk, t, p) == [tk EXCEPT ![t].phase = p]

\* A tick gets the phase p, and nothing else changes.
LEMMA PhaseChanged ==
    ASSUME NEW tk \in Seq(TickRecord), NEW t \in DOMAIN tk, NEW p \in {"keys", "done"}
    PROVE  LET k == Further(tk, t, p)
           IN  /\ k \in Seq(TickRecord) /\ Len(k) = Len(tk) /\ DOMAIN k = DOMAIN tk
               /\ k[t].phase = p
               /\ \A u \in DOMAIN tk : u # t => k[u] = tk[u]
               /\ \A u \in DOMAIN tk :
                     k[u].since = tk[u].since /\ k[u].commands = tk[u].commands
<1> DEFINE k == Further(tk, t, p)
           r == [tk[t] EXCEPT !.phase = p]
<1>1. /\ r \in TickRecord /\ r.phase = p /\ r.since = tk[t].since
      /\ r.commands = tk[t].commands
  <2>1. tk[t] \in TickRecord
    OBVIOUS
  <2> QED
    BY <2>1 DEF TickRecord
<1> HIDE DEF r
<1>2. k = [tk EXCEPT ![t] = r]
  BY DEF r, Further
<1> HIDE DEF k
<1>3. /\ k \in Seq(TickRecord) /\ Len(k) = Len(tk) /\ DOMAIN k = DOMAIN tk
      /\ k[t] = r /\ \A u \in DOMAIN tk : u # t => k[u] = tk[u]
  BY <1>1, <1>2
<1>4. \A u \in DOMAIN tk : k[u].since = tk[u].since /\ k[u].commands = tk[u].commands
  BY <1>1, <1>3
<1> QED
  BY <1>1, <1>3, <1>4 DEF k

\* Messages of others change nothing between two ticks.
LEMMA OrderKept ==
    ASSUME NEW tk, NEW ports, NEW owe, TickOrder(tk, ports, owe), NEW p, NEW o,
           \A t \in Tick : o[t] \subseteq owe[t] /\ (o[t] = {} <=> owe[t] = {}),
           \A t, u \in Tick : \A s \in o[t] : InFront(ports[s], t, u) => InFront(p[s], t, u)
    PROVE  TickOrder(tk, p, o)
<1>1. tk \in Seq(TickRecord) /\ Len(tk) <= MaxTicks /\ DOMAIN tk \subseteq Tick
  BY TickFacts DEF TickOrder
<1>2. Owing(tk, o)
  BY DEF TickOrder, Owing
<1>3. ASSUME NEW t \in DOMAIN tk, NEW u \in DOMAIN tk, t < u
      PROVE  Ahead(tk, p, o, t, u)
  <2>1. Ahead(tk, ports, owe, t, u) /\ t \in Tick /\ u \in Tick
    BY <1>1, <1>3 DEF TickOrder
  <2>2. ASSUME tk[t].phase = tk[u].phase, tk[t].phase # "done", NEW s \in o[t]
        PROVE  InFront(p[s], t, u)
    <3>1. s \in owe[t]
      BY <2>1
    <3>2. InFront(ports[s], t, u)
      BY <2>1, <2>2, <3>1 DEF Ahead
    <3> QED
      BY <2>1, <3>2
  <2> QED
    BY <2>1, <2>2 DEF Ahead
<1> QED
  BY <1>1, <1>2, <1>3 DEF TickOrder

\* A tick that gets its last answer is the earliest of its phase.
LEMMA Foremost ==
    ASSUME NEW tk, NEW ports, NEW owe, TickOrder(tk, ports, owe), Mail(ports, owe),
           NEW s \in Shard, ports[s] # <<>>, NEW t \in DOMAIN tk, tk[t].phase # "done",
           Head(ports[s]) = t, owe[t] = {s}, NEW r \in DOMAIN tk, r < t
    PROVE  tk[r].phase # tk[t].phase
<1>1. SUFFICES ASSUME tk[r].phase = tk[t].phase
               PROVE  FALSE
  OBVIOUS
<1>2. r \in Tick /\ t \in Tick /\ r \in Caller /\ t \in Caller
  BY TickFacts DEF TickOrder
<1>3. PICK z \in owe[r] : TRUE
  BY <1>1, <1>2 DEF TickOrder, Owing
<1>4. z \in Shard
  BY <1>2, <1>3 DEF Mail
<1>5. InFront(ports[z], r, t)
  BY <1>1, <1>3 DEF TickOrder, Ahead
<1>6. z \in owe[t]
  <2>1. \E j \in DOMAIN ports[z] : ports[z][j] = t
    BY <1>5 DEF InFront
  <2> QED
    BY <1>2, <1>4, <2>1 DEF Mail
<1>7. InFront(ports[s], r, t)
  BY <1>5, <1>6
<1>8. ~InFront(ports[s], r, t)
  BY <1>2, AnswerKeeps
<1> QED
  BY <1>7, <1>8

\* A new tick is behind all others.
LEMMA StartKeepsOrder ==
    ASSUME NEW tk, NEW ports, NEW owe, TickOrder(tk, ports, owe), Mail(ports, owe),
           Len(tk) + 1 <= MaxTicks, NEW r \in TickRecord, r.phase = "stats"
    PROVE  LET n == Len(tk) + 1
           IN  /\ owe[n] = {} /\ n \in Tick
               /\ TickOrder(Append(tk, r), Posted(ports, n, Shard), [owe EXCEPT ![n] = Shard])
<1> DEFINE n == Len(tk) + 1
           k == Append(tk, r)
           p == Posted(ports, n, Shard)
           o == [owe EXCEPT ![n] = Shard]
<1>1. /\ tk \in Seq(TickRecord) /\ Len(tk) \in Nat /\ DOMAIN tk = 1..Len(tk)
      /\ DOMAIN tk \subseteq Tick
  BY TickFacts DEF TickOrder
<1>2. /\ k \in Seq(TickRecord) /\ Len(k) = n /\ DOMAIN k = 1..n /\ k[n] = r
      /\ \A t \in DOMAIN tk : k[t] = tk[t]
  BY <1>1, Moved
<1>3. /\ n \in Nat /\ n \in Tick /\ n \in Caller /\ n \notin DOMAIN tk
      /\ \A t \in 1..n : t \in DOMAIN tk \/ t = n
      /\ n \in 1..n /\ \A t \in DOMAIN tk : t \in 1..n /\ t < n
  BY <1>1, Kinds
<1>4. owe[n] = {} /\ owe \in [Caller -> SUBSET Shard]
  BY <1>3 DEF TickOrder, Owing, Mail
<1>5. o[n] = Shard /\ \A t \in Tick : t # n => o[t] = owe[t]
  BY <1>3, <1>4, Kinds
<1>6. /\ \A s \in Shard : \A y, z \in Caller : InFront(ports[s], y, z) => InFront(p[s], y, z)
      /\ \A s \in Shard : \A y \in Caller : s \in owe[y] => InFront(p[s], y, n)
  BY <1>3, <1>4, PostKeeps
<1> HIDE DEF k, p, o
<1>7. Owing(k, o)
  <2>1. ASSUME NEW t \in Tick
        PROVE  o[t] # {} <=> t \in DOMAIN k /\ k[t].phase # "done"
    <3>1. CASE t = n
      BY <1>2, <1>3, <1>5, <3>1, Kinds
    <3>2. CASE t # n
      <4>1. t \in DOMAIN k <=> t \in DOMAIN tk
        BY <1>2, <1>3, <3>2
      <4>2. owe[t] # {} <=> t \in DOMAIN tk /\ tk[t].phase # "done"
        BY DEF TickOrder, Owing
      <4> QED
        BY <1>2, <1>5, <3>2, <4>1, <4>2
    <3> QED
      BY <3>1, <3>2
  <2> QED
    BY <2>1 DEF Owing
<1>8. ASSUME NEW t \in DOMAIN k, NEW u \in DOMAIN k, t < u
      PROVE  Ahead(k, p, o, t, u)
  <2>1. t \in DOMAIN tk /\ t # n /\ t \in Tick /\ t \in Caller
    BY <1>1, <1>2, <1>3, <1>8, Kinds
  <2>2. k[t] = tk[t] /\ o[t] = owe[t] /\ \A s \in o[t] : s \in Shard
    BY <1>2, <1>4, <1>5, <2>1
  <2>3. CASE u = n
    <3>1. k[u].phase = "stats"
      BY <1>2, <2>3
    <3>2. \A s \in o[t] : InFront(p[s], t, u)
      BY <1>6, <2>1, <2>2, <2>3
    <3> QED
      BY <3>1, <3>2 DEF Ahead
  <2>4. CASE u # n
    <3>1. u \in DOMAIN tk /\ k[u] = tk[u] /\ u \in Caller
      BY <1>1, <1>2, <1>3, <2>4, Kinds
    <3>2. Ahead(tk, ports, owe, t, u)
      BY <1>8, <2>1, <3>1 DEF TickOrder
    <3>3. \A s \in o[t] : InFront(ports[s], t, u) => InFront(p[s], t, u)
      BY <1>6, <2>1, <2>2, <3>1
    <3> QED
      BY <2>2, <3>1, <3>2, <3>3 DEF Ahead
  <2> QED
    BY <2>3, <2>4
<1> QED
  BY <1>2, <1>3, <1>4, <1>7, <1>8 DEF TickOrder, k, p, o

\* A tick that asks for the keys is behind those that did, and in front of the others.
LEMMA StatsKeepOrder ==
    ASSUME NEW tk, NEW ports, NEW owe, TickOrder(tk, ports, owe), Mail(ports, owe),
           NEW s \in Shard, ports[s] # <<>>, NEW t \in DOMAIN tk, tk[t].phase = "stats",
           Head(ports[s]) = t, owe[t] = {s}
    PROVE  TickOrder(Further(tk, t, "keys"), Posted(Without(ports, s), t, Shard),
                     [owe EXCEPT ![t] = Shard])
<1> DEFINE k == Further(tk, t, "keys")
           w == Without(ports, s)
           e == [owe EXCEPT ![t] = @ \ {s}]
           p == Posted(w, t, Shard)
           o == [owe EXCEPT ![t] = Shard]
<1>1. /\ tk \in Seq(TickRecord) /\ Len(tk) <= MaxTicks
      /\ \A u \in DOMAIN tk : /\ u \in Nat /\ u \in Tick /\ u \in Caller
                              /\ tk[u].phase \in {"stats", "keys", "done"}
  BY TickFacts DEF TickOrder
<1>2. /\ k \in Seq(TickRecord) /\ Len(k) = Len(tk) /\ DOMAIN k = DOMAIN tk
      /\ k[t].phase = "keys" /\ \A u \in DOMAIN tk : u # t => k[u] = tk[u]
  BY <1>1, PhaseChanged
<1>3. owe \in [Caller -> SUBSET Shard]
  BY DEF Mail
<1>4. /\ o[t] = Shard /\ e[t] = {}
      /\ \A u \in Caller : u # t => o[u] = owe[u] /\ e[u] = owe[u]
      /\ o = [e EXCEPT ![t] = Shard]
  BY <1>1, <1>3
<1>5. /\ Mail(w, e)
      /\ \A r \in Shard : \A y, z \in Caller :
            r \in e[y] /\ InFront(ports[r], y, z) => InFront(w[r], y, z)
  BY AnswerKeeps
<1> HIDE DEF w, e, k, o
<1>6. /\ \A r \in Shard : \A y, z \in Caller : InFront(w[r], y, z) => InFront(p[r], y, z)
      /\ \A r \in Shard : \A y \in Caller : r \in e[y] => InFront(p[r], y, t)
  <2>1. t \in Caller
    BY <1>1
  <2> QED
    BY <1>4, <1>5, <2>1, PostKeeps
<1> HIDE DEF p
<1>7. Owing(k, o)
  <2>1. ASSUME NEW u \in Tick
        PROVE  o[u] # {} <=> u \in DOMAIN k /\ k[u].phase # "done"
    <3>1. owe[u] # {} <=> u \in DOMAIN tk /\ tk[u].phase # "done"
      BY DEF TickOrder, Owing
    <3> QED
      BY <1>2, <1>4, <3>1, Kinds
  <2> QED
    BY <2>1 DEF Owing
<1>8. ASSUME NEW r \in DOMAIN k, NEW u \in DOMAIN k, r < u
      PROVE  Ahead(k, p, o, r, u)
  <2>1. /\ r \in DOMAIN tk /\ u \in DOMAIN tk /\ r \in Caller /\ u \in Caller /\ r # u
        /\ Ahead(tk, ports, owe, r, u)
    BY <1>1, <1>2, <1>8 DEF TickOrder
  <2>2. CASE r = t
    BY <1>2, <2>1, <2>2 DEF Ahead
  <2>3. CASE u = t
    <3>1. tk[r].phase # "stats"
      BY <1>2, <1>8, <2>3, Foremost
    <3>2. \A z \in o[r] : z \in Shard /\ InFront(p[z], r, t)
      BY <1>3, <1>4, <1>6, <2>1, <2>3
    <3> QED
      BY <1>2, <2>1, <2>3, <3>1, <3>2 DEF Ahead
  <2>4. CASE r # t /\ u # t
    <3>1. k[r] = tk[r] /\ k[u] = tk[u] /\ o[r] = owe[r] /\ e[r] = owe[r]
      BY <1>2, <1>4, <2>1, <2>4
    <3>2. ASSUME NEW z \in o[r], InFront(ports[z], r, u)
          PROVE  InFront(p[z], r, u)
      <4>1. z \in Shard /\ z \in e[r]
        BY <1>3, <2>1, <3>1
      <4>2. InFront(w[z], r, u)
        BY <1>5, <2>1, <3>2, <4>1
      <4> QED
        BY <1>6, <2>1, <4>1, <4>2
    <3> QED
      BY <2>1, <3>1, <3>2 DEF Ahead
  <2> QED
    BY <2>2, <2>3, <2>4
<1> QED
  BY <1>1, <1>2, <1>7, <1>8 DEF TickOrder, k, p, o, w

\* A tick that has ended leaves the others in their order, and is behind no earlier one.
LEMMA EndKeepsOrder ==
    ASSUME NEW tk, NEW ports, NEW owe, TickOrder(tk, ports, owe), Mail(ports, owe),
           NEW s \in Shard, ports[s] # <<>>, NEW t \in DOMAIN tk, tk[t].phase = "keys",
           Head(ports[s]) = t, owe[t] = {s}
    PROVE  /\ TickOrder(Further(tk, t, "done"), Without(ports, s),
                        [owe EXCEPT ![t] = {}])
           /\ \A r \in DOMAIN tk : r < t => tk[r].phase = "done"
           /\ \A r \in DOMAIN tk : t < r => tk[r].phase # "done"
<1> DEFINE k == Further(tk, t, "done")
           p == Without(ports, s)
           o == [owe EXCEPT ![t] = {}]
<1>1. /\ tk \in Seq(TickRecord) /\ Len(tk) <= MaxTicks
      /\ \A u \in DOMAIN tk : /\ u \in Nat /\ u \in Tick /\ u \in Caller
                              /\ tk[u].phase \in {"stats", "keys", "done"}
  BY TickFacts DEF TickOrder
<1>2. /\ k \in Seq(TickRecord) /\ Len(k) = Len(tk) /\ DOMAIN k = DOMAIN tk
      /\ k[t].phase = "done" /\ \A u \in DOMAIN tk : u # t => k[u] = tk[u]
  BY <1>1, PhaseChanged
<1>3. owe \in [Caller -> SUBSET Shard]
  BY DEF Mail
<1>4. o[t] = {} /\ \A u \in Caller : u # t => o[u] = owe[u]
  BY <1>1, <1>3
<1>5. \A r \in Shard : \A y, z \in Caller :
         r \in o[y] /\ InFront(ports[r], y, z) => InFront(p[r], y, z)
  <2>1. o = [owe EXCEPT ![Head(ports[s])] = @ \ {s}]
    BY <1>1, <1>3
  <2> HIDE DEF o, p
  <2> QED
    BY <2>1, AnswerKeeps DEF p
<1> HIDE DEF k, p, o
<1>6. ASSUME NEW r \in DOMAIN tk, r < t
      PROVE  tk[r].phase = "done"
  <2>1. tk[r].phase # "stats"
    BY <1>6 DEF TickOrder, Ahead
  <2>2. tk[r].phase # "keys"
    BY <1>6, Foremost
  <2> QED
    BY <1>1, <2>1, <2>2
<1>7. ASSUME NEW r \in DOMAIN tk, t < r
      PROVE  tk[r].phase # "done"
  BY <1>7 DEF TickOrder, Ahead
<1>8. Owing(k, o)
  <2>1. ASSUME NEW u \in Tick
        PROVE  o[u] # {} <=> u \in DOMAIN k /\ k[u].phase # "done"
    <3>1. owe[u] # {} <=> u \in DOMAIN tk /\ tk[u].phase # "done"
      BY DEF TickOrder, Owing
    <3> QED
      BY <1>2, <1>4, <3>1, Kinds
  <2> QED
    BY <2>1 DEF Owing
<1>9. ASSUME NEW r \in DOMAIN k, NEW u \in DOMAIN k, r < u
      PROVE  Ahead(k, p, o, r, u)
  <2>1. /\ r \in DOMAIN tk /\ u \in DOMAIN tk /\ r \in Caller /\ u \in Caller /\ r # u
        /\ Ahead(tk, ports, owe, r, u)
    BY <1>1, <1>2, <1>9 DEF TickOrder
  <2>2. CASE r = t
    BY <1>2, <2>1, <2>2 DEF Ahead
  <2>3. CASE u = t
    BY <1>2, <1>6, <1>9, <2>1, <2>3 DEF Ahead
  <2>4. CASE r # t /\ u # t
    <3>1. k[r] = tk[r] /\ k[u] = tk[u] /\ o[r] = owe[r]
      BY <1>2, <1>4, <2>1, <2>4
    <3>2. ASSUME NEW z \in o[r], InFront(ports[z], r, u)
          PROVE  InFront(p[z], r, u)
      <4>1. z \in Shard
        BY <1>3, <2>1, <3>1
      <4> QED
        BY <1>5, <2>1, <3>2, <4>1
    <3> QED
      BY <2>1, <3>1, <3>2 DEF Ahead
  <2> QED
    BY <2>2, <2>3, <2>4
<1> QED
  BY <1>1, <1>2, <1>6, <1>7, <1>8, <1>9 DEF TickOrder, k, p, o
-----------------------------------------------------------------------------
(***************************************************************************)
(* The calls: what each of them does to the ports, and to the ticks by it. *)
(***************************************************************************)
MailInv == Mail(port, owed) /\ TickOrder(tick, port, owed)

\* What a call of x, which is no tick, leaves: the ticks' messages in their order.
Called(x, S) ==
    /\ Mail(port', owed') /\ TickOrder(tick, port', owed')
    /\ owed'[x] = S /\ \A y \in Caller : y # x => owed'[y] = owed[y]

\* A caller that awaits nothing asks some shards.
LEMMA Asks ==
    ASSUME MailInv, NEW x \in Caller, x \notin Tick, owed[x] = {}, NEW S \in SUBSET Shard,
           Post(port, x, S)
    PROVE  Called(x, S)
<1>1. owed \in [Caller -> SUBSET Shard]
  BY DEF MailInv, Mail
<1>2. port' = Posted(port, x, S) /\ owed' = [owed EXCEPT ![x] = S]
  BY DEF Post, Posted
<1>3. /\ Mail(port', owed')
      /\ \A r \in Shard : \A y, z \in Caller : InFront(port[r], y, z) => InFront(port'[r], y, z)
  BY <1>2, PostKeeps DEF MailInv
<1>4. owed'[x] = S /\ \A y \in Caller : y # x => owed'[y] = owed[y]
  BY <1>1, <1>2
<1>5. \A t \in Tick : t \in Caller /\ owed'[t] = owed[t] /\ \A s \in owed[t] : s \in Shard
  BY <1>1, <1>4, Kinds
<1>6. TickOrder(tick, port', owed')
  BY <1>3, <1>5, OrderKept DEF MailInv
<1> QED
  BY <1>3, <1>4, <1>6 DEF Called

\* A caller that gets its last answer goes on to ask, or is settled (with S empty).
LEMMA AnswerAsks ==
    ASSUME Mail(port, owed), NEW s \in Shard, NEW x \in Caller, Completes(s, x),
           NEW S \in SUBSET Shard, Post(Popped(s), x, S) \/ (S = {} /\ Settle(Popped(s), x))
    PROVE  /\ Mail(port', owed')
           /\ owed'[x] = S /\ \A y \in Caller : y # x => owed'[y] = owed[y]
           /\ \A r \in Shard : \A y, z \in Caller :
                 y # x /\ r \in owed[y] /\ InFront(port[r], y, z) => InFront(port'[r], y, z)
<1> DEFINE w == Without(port, s)
           e == [owed EXCEPT ![x] = @ \ {s}]
<1>1. owed \in [Caller -> SUBSET Shard] /\ port \in [Shard -> Seq(Caller)]
  BY DEF Mail
<1>2. port[s] # <<>> /\ x = Head(port[s]) /\ owed[x] = {s}
  BY DEF Completes, Answerable
<1>3. w = Popped(s) /\ owed' = [owed EXCEPT ![x] = S]
  BY DEF Popped, Without, Post, Settle
<1>4. /\ owed'[x] = S /\ e[x] = {}
      /\ \A y \in Caller : y # x => owed'[y] = owed[y] /\ e[y] = owed[y]
      /\ owed' = [e EXCEPT ![x] = S]
  BY <1>1, <1>2, <1>3
<1>5. /\ Mail(w, e)
      /\ \A r \in Shard : \A y, z \in Caller :
            r \in e[y] /\ InFront(port[r], y, z) => InFront(w[r], y, z)
  BY <1>2, AnswerKeeps
<1>6. \A r \in Shard : w[r] \in Seq(Caller)
  BY <1>5 DEF Mail
<1> HIDE DEF w, e
<1>7. /\ Mail(port', owed')
      /\ \A r \in Shard : \A y, z \in Caller : InFront(w[r], y, z) => InFront(port'[r], y, z)
  <2>1. CASE Post(Popped(s), x, S)
    <3>1. port' = Posted(w, x, S)
      BY <1>3, <2>1 DEF Post, Posted
    <3>2. /\ Mail(Posted(w, x, S), [e EXCEPT ![x] = S])
          /\ \A r \in Shard : \A y, z \in Caller :
                InFront(w[r], y, z) => InFront(Posted(w, x, S)[r], y, z)
      BY <1>4, <1>5, PostKeeps
    <3> QED
      BY <1>4, <3>1, <3>2
  <2>2. CASE S = {} /\ Settle(Popped(s), x)
    <3>1. port' = w
      BY <1>3, <2>2 DEF Settle
    <3>2. owed' = e
      <4>1. owed' \in [Caller -> SUBSET Shard] /\ e \in [Caller -> SUBSET Shard]
        BY <1>1, <1>3, <1>5 DEF Mail
      <4>2. \A y \in Caller : owed'[y] = e[y]
        BY <1>4, <2>2
      <4> QED
        BY <4>1, <4>2
    <3> QED
      BY <1>5, <3>1, <3>2
  <2> QED
    BY <2>1, <2>2
<1> QED
  BY <1>4, <1>5, <1>7

\* If it is no tick, the ticks' messages stay in their order.
LEMMA GoesOnToAsk ==
    ASSUME MailInv, NEW s \in Shard, NEW x \in Caller, x \notin Tick, Completes(s, x),
           NEW S \in SUBSET Shard, Post(Popped(s), x, S) \/ (S = {} /\ Settle(Popped(s), x))
    PROVE  Called(x, S)
<1>1. /\ Mail(port', owed')
      /\ owed'[x] = S /\ \A y \in Caller : y # x => owed'[y] = owed[y]
      /\ \A r \in Shard : \A y, z \in Caller :
            y # x /\ r \in owed[y] /\ InFront(port[r], y, z) => InFront(port'[r], y, z)
  BY AnswerAsks DEF MailInv
<1>2. ASSUME NEW t \in Tick
      PROVE  t \in Caller /\ t # x /\ owed'[t] = owed[t] /\ owed[t] \subseteq Shard
  BY <1>1, Kinds DEF MailInv, Mail
<1>3. \A t, u \in Tick : \A r \in owed'[t] : InFront(port[r], t, u) => InFront(port'[r], t, u)
  BY <1>1, <1>2
<1>4. TickOrder(tick, port', owed')
  BY <1>2, <1>3, OrderKept DEF MailInv
<1> QED
  BY <1>1, <1>4 DEF Called

\* An answer after which a call still waits for others settles nothing.
LEMMA PartKeeps ==
    ASSUME MailInv, NEW s \in Shard, PartAnswered(s)
    PROVE  /\ Mail(port', owed') /\ TickOrder(tick, port', owed')
           /\ \A y \in Caller : owed'[y] = {} <=> owed[y] = {}
<1> DEFINE x == Head(port[s])
<1>1. owed \in [Caller -> SUBSET Shard]
  BY DEF MailInv, Mail
<1>2. port[s] # <<>> /\ owed[x] # {s}
  BY DEF PartAnswered, Answerable
<1>3. port' = Without(port, s) /\ owed' = [owed EXCEPT ![x] = @ \ {s}]
  BY DEF PartAnswered, Popped, Without
<1>4. /\ x \in Caller /\ s \in owed[x] /\ Mail(port', owed')
      /\ \A r \in Shard : \A y, z \in Caller :
            r \in owed'[y] /\ InFront(port[r], y, z) => InFront(port'[r], y, z)
  BY <1>2, <1>3, AnswerKeeps DEF MailInv
<1> HIDE DEF x
<1>5. ASSUME NEW y \in Caller
      PROVE  /\ owed'[y] = {} <=> owed[y] = {}
             /\ owed'[y] \subseteq owed[y] /\ owed[y] \subseteq Shard
  BY <1>1, <1>2, <1>3, <1>4
<1>6. \A t, u \in Tick : \A r \in owed'[t] : InFront(port[r], t, u) => InFront(port'[r], t, u)
  <2>1. ASSUME NEW t \in Tick, NEW u \in Tick, NEW r \in owed'[t]
        PROVE  r \in Shard /\ t \in Caller /\ u \in Caller
    BY <1>5, Kinds
  <2> QED
    BY <1>4, <2>1
<1>7. \A t \in Tick : owed'[t] \subseteq owed[t] /\ (owed'[t] = {} <=> owed[t] = {})
  BY <1>5, Kinds
<1>8. TickOrder(tick, port', owed')
  BY <1>6, <1>7, OrderKept DEF MailInv
<1> QED
  BY <1>4, <1>5, <1>8

-----------------------------------------------------------------------------
(***************************************************************************)
(* The connections and the synthetic traffic.                              *)
(***************************************************************************)
\* The head of what is under way is what a connection awaits.
Served(c) ==
    /\ Good(conn[c])
    /\ conn[c].state = "new" => conn[c] = NewConn
    /\ owed[c] # {} <=> conn[c].rest # <<>>

ConnInv == conn \in [Client -> Connection] /\ \A c \in Client : Served(c)

TrafficInv == trafficLeft \in Nat /\ (trafficLeft = 0 => owed[traffic] = {})

\* Nobody else's call touches a connection.
LEMMA OthersServed ==
    ASSUME ConnInv, conn' = conn, \A c \in Client : owed'[c] = {} <=> owed[c] = {}
    PROVE  ConnInv'
BY DEF ConnInv, Served

\* A connection changes, and the ports do not.
LEMMA OneServed ==
    ASSUME ConnInv, NEW c \in Client, NEW k, Good(k), k.state # "new",
           conn' = [conn EXCEPT ![c] = k],
           owed'[c] # {} <=> k.rest # <<>>,
           \A d \in Client : d # c => owed'[d] = owed[d]
    PROVE  ConnInv'
<1>1. k \in Connection
  BY DEF Good
<1>2. /\ conn' \in [Client -> Connection] /\ conn'[c] = k
      /\ \A d \in Client : d # c => conn'[d] = conn[d]
  BY <1>1 DEF ConnInv
<1>3. ASSUME NEW d \in Client
      PROVE  Served(d)'
  <2>1. CASE d = c
    BY <1>2, <2>1 DEF Served
  <2>2. CASE d # c
    BY <1>2, <2>2 DEF ConnInv, Served
  <2> QED
    BY <2>1, <2>2
<1> QED
  BY <1>2, <1>3 DEF ConnInv

\* The chain runs on, whether it waited for an answer or not.
LEMMA ProceedKeeps ==
    ASSUME MailInv, ConnInv, TrafficInv, NEW c \in Client, NEW k, Good(k), k.state # "new",
           NEW ports, NEW answered \in Nat, Proceed(c, k, ports, answered),
           \/ ports = port /\ owed[c] = {}
           \/ \E s \in Shard : ports = Popped(s) /\ Completes(s, c)
    PROVE  /\ MailInv' /\ ConnInv' /\ TrafficInv'
           /\ \E n \in Nat : recordCommands(n)
           /\ UNCHANGED <<cast, ticks, viewer>>
<1> DEFINE r == RunOn(k)
<1>1. Good(r.conn) /\ r.conn.state # "new" /\ r.odd \in Nat
  BY RunOnKeeps
<1> HIDE DEF r
<1>2. /\ conn' = [conn EXCEPT ![c] = r.conn] /\ recordCommands(answered + r.odd)
      /\ IF r.conn.rest = <<>> THEN Settle(ports, c)
                               ELSE \E s \in Shard : Post(ports, c, {s})
      /\ UNCHANGED <<ticks, viewer, synthetic, phase>>
  BY DEF Proceed, r
<1>3. c \in Caller /\ c \notin Tick /\ c # traffic
  BY Kinds
<1>4. PICK S \in SUBSET Shard :
        /\ Post(ports, c, S) \/ (S = {} /\ Settle(ports, c))
        /\ S # {} <=> r.conn.rest # <<>>
  <2>1. CASE r.conn.rest = <<>>
    BY <1>2, <2>1
  <2>2. CASE r.conn.rest # <<>>
    <3>1. PICK s \in Shard : Post(ports, c, {s})
      BY <1>2, <2>2
    <3> QED
      BY <2>2, <3>1
  <2> QED
    BY <2>1, <2>2
<1>5. cast' = cast
  BY <1>4 DEF Post, Settle
<1>6. Called(c, S)
  <2>1. CASE ports = port /\ owed[c] = {}
    <3>1. CASE Post(ports, c, S)
      BY <1>3, <2>1, <3>1, Asks
    <3>2. CASE S = {} /\ Settle(ports, c)
      <4>1. port' = port /\ owed' = owed
        <5>1. owed \in [Caller -> SUBSET Shard]
          BY DEF MailInv, Mail
        <5> QED
          BY <2>1, <3>2, <5>1 DEF Settle
      <4> QED
        BY <2>1, <3>2, <4>1 DEF Called, MailInv
    <3> QED
      BY <1>4, <3>1, <3>2
  <2>2. CASE \E s \in Shard : ports = Popped(s) /\ Completes(s, c)
    BY <1>3, <1>4, <2>2, GoesOnToAsk
  <2> QED
    BY <2>1, <2>2
<1>7. tick' = tick /\ trafficLeft' = trafficLeft
  BY <1>2 DEF ticks, synthetic
<1>8. MailInv'
  BY <1>6, <1>7 DEF Called, MailInv
<1>9. ConnInv'
  <2>1. owed'[c] = S /\ \A d \in Client : d # c => owed'[d] = owed[d]
    BY <1>6, Kinds DEF Called
  <2> QED
    BY <1>1, <1>2, <1>4, <2>1, OneServed
<1>10. TrafficInv'
  BY <1>3, <1>6, <1>7, Kinds DEF Called, TrafficInv
<1>11. answered + r.odd \in Nat
  BY <1>1
<1> QED
  BY <1>2, <1>5, <1>8, <1>9, <1>10, <1>11

\* A chunk goes behind the queue.
LEMMA QueuedKeeps ==
    ASSUME NEW k, Good(k), NEW chunk \in Chunks
    PROVE  Good(Queued(k, chunk)) /\ Queued(k, chunk).state = k.state
           /\ Queued(k, chunk).rest = k.rest
<1> DEFINE x == [i \in DOMAIN chunk |-> [n |-> k.sent + i, kind |-> chunk[i]]]
           j == Queued(k, chunk)
           l == Len(k.queue)
<1>1. k \in Connection /\ chunk \in Seq(Kind)
  BY ServerAssumption DEF Good
<1>2. k.queue \in Seq(Seq(Request)) /\ k.sent \in Nat
  BY <1>1, Fields
<1>3. Len(chunk) \in Nat /\ DOMAIN chunk = 1..Len(chunk) /\ \A i \in DOMAIN chunk : chunk[i] \in Kind
  BY <1>1
<1>4. x \in Seq(Request) /\ Len(x) = Len(chunk) /\ From(x, k.sent)
  <2>1. x \in [1..Len(chunk) -> Request]
    BY <1>2, <1>3 DEF Request
  <2>2. x \in Seq(Request) /\ Len(x) = Len(chunk) /\ DOMAIN x = DOMAIN chunk
    BY <1>3, <2>1
  <2> QED
    BY <2>2 DEF From
<1>5. j = [k EXCEPT !.queue = Append(@, x), !.sent = @ + Len(chunk)]
  BY DEF Queued
<1> HIDE DEF x, j
<1>6. Append(k.queue, x) \in Seq(Seq(Request)) /\ k.sent + Len(chunk) \in Nat
  BY <1>2, <1>3, <1>4, Moved
<1>7. /\ j \in Connection /\ j.queue = Append(k.queue, x) /\ j.sent = k.sent + Len(chunk)
      /\ j.out = k.out /\ j.rest = k.rest /\ j.writable = k.writable /\ j.state = k.state
  BY <1>1, <1>5, <1>6 DEF Connection
<1>8. Replied(j)
  BY <1>7 DEF Good, Replied
<1>9. ASSUME k.writable
      PROVE  GoesOn(j)
  <2> DEFINE m == Len(k.out) + Len(k.rest)
  <2>1. /\ \A i \in DOMAIN k.out : k.out[i].kind # "quit"
        /\ From(k.rest, Len(k.out)) /\ Chunked(k.queue, m, k.sent)
    BY <1>9 DEF Good, GoesOn
  <2>2. /\ l \in Nat /\ DOMAIN k.queue = 1..l
        /\ Len(j.queue) = l + 1 /\ DOMAIN j.queue = 1..l + 1
        /\ \A i \in 1..l : j.queue[i] = k.queue[i]
        /\ j.queue[l + 1] = x
    BY <1>2, <1>4, <1>6, <1>7, Moved
  <2> HIDE DEF l, m
  <2>3. PICK b \in [1..l + 1 -> Nat] :
          /\ b[1] = m /\ b[l + 1] = k.sent
          /\ \A i \in 1..l : b[i + 1] = b[i] + Len(k.queue[i]) /\ From(k.queue[i], b[i])
    BY <2>1, <2>2 DEF Chunked, l
  <2> DEFINE d == [i \in 1..l + 1 + 1 |-> IF i = l + 1 + 1 THEN j.sent ELSE b[i]]
  <2>4. /\ \A i \in 1..l + 1 + 1 : i \in 1..l + 1 \/ i = l + 1 + 1
        /\ \A i \in 1..l + 1 : i \in 1..l + 1 + 1 /\ i # l + 1 + 1
        /\ 1 \in 1..l + 1 /\ l + 1 \in 1..l + 1 /\ l + 1 + 1 \in 1..l + 1 + 1
        /\ \A i \in 1..l : i \in 1..l + 1 /\ i + 1 \in 1..l + 1
        /\ \A i \in 1..l + 1 : i \in 1..l \/ i = l + 1
    BY <2>2
  <2>5. d \in [1..l + 1 + 1 -> Nat]
    BY <1>6, <1>7, <2>3, <2>4
  <2>6. /\ \A i \in 1..l + 1 : d[i] = b[i]
        /\ d[l + 1 + 1] = j.sent
    BY <2>4
  <2> HIDE DEF d
  <2>7. ASSUME NEW i \in 1..l + 1
        PROVE  d[i + 1] = d[i] + Len(j.queue[i]) /\ From(j.queue[i], d[i])
    <3>1. CASE i \in 1..l
      BY <2>2, <2>3, <2>4, <2>6, <3>1
    <3>2. CASE i = l + 1
      <4>1. d[i] = k.sent /\ j.queue[i] = x /\ d[i + 1] = k.sent + Len(chunk)
        BY <1>7, <2>2, <2>3, <2>4, <2>6, <3>2
      <4> QED
        BY <1>4, <4>1
    <3> QED
      BY <2>4, <3>1, <3>2
  <2>8. Chunked(j.queue, m, j.sent)
    <3>1. d[1] = m
      BY <2>3, <2>4, <2>6
    <3> QED
      BY <2>2, <2>5, <2>6, <2>7, <3>1 DEF Chunked
  <2> QED
    BY <1>7, <2>1, <2>8 DEF GoesOn, m
<1> QED
  BY <1>7, <1>8, <1>9 DEF Good, GoesOn, j
-----------------------------------------------------------------------------
(***************************************************************************)
(* The steps.                                                              *)
(***************************************************************************)
Counters == totalCommands \in Int /\ commandCountInterval \in Int
ViewerRecord == [state : {"new", "open", "closed"}, seen : Seq(Nat)]

Base ==
    /\ MailInv /\ ConnInv /\ TrafficInv /\ Counters
    /\ cast \in Casts /\ viewer \in [Viewer -> ViewerRecord] /\ history \in Seq(SnapshotRecord)

\* A dashboard stays as it is, comes and gets the history, or goes.
Watched ==
    \A v \in Viewer : viewer'[v] \in {viewer[v], [state |-> "open", seen |-> InitialState],
                                      [state |-> "closed", seen |-> <<>>]}

\* Commands are counted, or none.
Counted == \E n \in Nat : recordCommands(n)

\* What a step does to the counters, the ticks and the dashboards.
Effect ==
    \/ UNCHANGED <<tick, history>> /\ Counted /\ Watched
    \/ TickStarts
    \/ \E s \in Shard : \E t \in DOMAIN tick : StatsDone(s, t) \/ TickDone(s, t)

\* The ticks of the history are a sequence of numbers.
LEMMA HistoryTicks ==
    ASSUME NEW h \in Seq(SnapshotRecord)
    PROVE  LET numbers == [i \in DOMAIN h |-> h[i].tick]
           IN  numbers \in Seq(Nat) /\ Len(numbers) = Len(h)
               /\ \A i \in 1..Len(h) : numbers[i] = h[i].tick
<1>1. Len(h) \in Nat /\ DOMAIN h = 1..Len(h) /\ \A i \in DOMAIN h : h[i] \in SnapshotRecord
  OBVIOUS
<1>2. \A i \in DOMAIN h : h[i].tick \in Nat
  BY <1>1 DEF SnapshotRecord
<1> QED
  BY <1>1, <1>2

\* Nothing but the counters changes.
LEMMA NothingCounted ==
    ASSUME Counters, UNCHANGED counters
    PROVE  Counted /\ Counters'
<1>1. totalCommands' = totalCommands + 0 /\ commandCountInterval' = commandCountInterval + 0
  BY DEF Counters, counters
<1> QED
  BY <1>1 DEF Counted, recordCommands, Counters, counters

\* Counting keeps the counters numbers.
LEMMA CountedKeeps ==
    ASSUME Counters, Counted
    PROVE  Counters'
BY DEF Counters, Counted, recordCommands

\* Dashboards that stay have watched.
LEMMA ViewersStay ==
    ASSUME viewer' = viewer
    PROVE  Watched
BY DEF Watched

\* The calls and the connections stay as they are.
LEMMA CallsStay ==
    ASSUME Base, UNCHANGED <<cast, port, owed, counters, tick, history, trafficLeft>>,
           viewer' \in [Viewer -> ViewerRecord], Watched,
           ConnInv'
    PROVE  Base' /\ Effect
<1>1. Counted /\ Counters'
  BY NothingCounted DEF Base
<1>2. MailInv' /\ TrafficInv'
  BY DEF Base, MailInv, TrafficInv
<1> QED
  BY <1>1, <1>2 DEF Base, Effect

\* A dashboard, the API or the traffic asks, asks again or gets its answer.
LEMMA CalledKeeps ==
    ASSUME Base, NEW x \in Caller, x \notin Client, NEW S, Called(x, S),
           UNCHANGED <<cast, tick, history, viewer, conn>>, Counted,
           trafficLeft' \in Nat, x # traffic => trafficLeft' = trafficLeft,
           x = traffic => (trafficLeft' = 0 => S = {})
    PROVE  Base' /\ Effect
<1>1. MailInv'
  BY DEF Called, MailInv
<1>2. \A c \in Client : owed'[c] = owed[c]
  BY Kinds DEF Called
<1>3. ConnInv'
  BY <1>2, OthersServed DEF Base
<1>4. TrafficInv'
  BY Kinds DEF Called, TrafficInv, Base
<1>5. Counters'
  BY CountedKeeps DEF Base
<1>6. Watched
  BY ViewersStay
<1> QED
  BY <1>1, <1>3, <1>4, <1>5, <1>6 DEF Base, Effect

\* A step of the connections alone.
LEMMA ConnStep ==
    ASSUME Base, UNCHANGED <<cast, port, owed, counters, ticks, viewer, synthetic>>, ConnInv'
    PROVE  Base' /\ Effect
<1>1. Watched /\ viewer' \in [Viewer -> ViewerRecord]
  BY ViewersStay DEF Base
<1> QED
  BY <1>1, CallsStay DEF ticks, synthetic

\* A dashboard that has gone.
LEMMA ClosedViewer == [state |-> "closed", seen |-> <<>>] \in ViewerRecord
BY DEF ViewerRecord

\* Requests of dashboards and switches of the traffic.
LEMMA RequestsStep ==
    ASSUME Base, Requests
    PROVE  Base' /\ Effect
<1>1. conn' = conn
  BY DEF Requests
<1>2. ASSUME startSyntheticTraffic \/ stopSyntheticTraffic
      PROVE  Base' /\ Effect
  <2>1. UNCHANGED <<cast, port, owed, counters, tick, history, trafficLeft, viewer>>
    BY <1>2 DEF startSyntheticTraffic, stopSyntheticTraffic, rpc, ticks
  <2>2. ConnInv'
    BY <1>1, <2>1, OthersServed DEF Base
  <2> QED
    BY <2>1, <2>2, CallsStay, ViewersStay DEF Base
<1>3. ASSUME NEW x \in Viewer \cup {api}, NEW s \in Shard, Ask(x, s)
      PROVE  Base' /\ Effect
  <2>1. /\ x \in Caller /\ x \notin Tick /\ x \notin Client /\ x # traffic
        /\ owed[x] = {} /\ Post(port, x, {s})
        /\ UNCHANGED <<cast, counters, ticks, viewer, synthetic>>
    BY <1>3, Kinds DEF Ask, Post
  <2>2. Called(x, {s})
    BY <2>1, Asks DEF Base
  <2>3. /\ UNCHANGED <<cast, tick, history, viewer, conn, trafficLeft>>
        /\ trafficLeft' \in Nat
    BY <1>1, <2>1 DEF ticks, synthetic, Base, TrafficInv
  <2>4. Counted
    BY <2>1, NothingCounted DEF Base
  <2> QED
    BY <2>1, <2>2, <2>3, <2>4, CalledKeeps
<1>4. ASSUME NEW v \in Viewer, ViewerConnects(v) \/ ViewerCloses(v)
      PROVE  Base' /\ Effect
  <2>1. UNCHANGED <<cast, port, owed, counters, tick, history, trafficLeft>>
    BY <1>4 DEF ViewerConnects, ViewerCloses, rpc, ticks, synthetic
  <2>2. ConnInv'
    BY <1>1, <2>1, OthersServed DEF Base
  <2>3. InitialState \in Seq(Nat)
    BY HistoryTicks DEF Base, InitialState
  <2>4. PICK w \in {[state |-> "open", seen |-> InitialState], [state |-> "closed", seen |-> <<>>]} :
          viewer' = [viewer EXCEPT ![v] = w]
    BY <1>4 DEF ViewerConnects, ViewerCloses
  <2>5. w \in ViewerRecord
    <3>1. \A q \in Seq(Nat) : [state |-> "open", seen |-> q] \in ViewerRecord
      BY DEF ViewerRecord
    <3> QED
      BY <2>3, <2>4, <3>1, ClosedViewer
  <2>6. viewer' \in [Viewer -> ViewerRecord] /\ Watched
    BY <2>4, <2>5 DEF Base, Watched
  <2> QED
    BY <2>1, <2>2, <2>6, CallsStay
<1> QED
  BY <1>2, <1>3, <1>4 DEF Requests, ApiCommand, ViewerCommand

\* Intervals fire.
LEMMA TimersStep ==
    ASSUME Base, Timers
    PROVE  Base' /\ Effect
<1>1. conn' = conn
  BY DEF Timers
<1>2. ASSUME NEW s \in Shard, TrafficTick(s)
      PROVE  Base' /\ Effect
  <2>1. /\ owed[traffic] = {} /\ Post(port, traffic, {s})
        /\ trafficLeft' = TrafficBatch
        /\ UNCHANGED <<cast, counters, ticks, viewer>>
    BY <1>2 DEF TrafficTick, Base, TrafficInv, Post
  <2>2. Called(traffic, {s})
    BY <2>1, Kinds, Asks DEF Base
  <2>3. UNCHANGED <<cast, tick, history, viewer, conn>>
    BY <1>1, <2>1 DEF ticks
  <2>4. Counted
    BY <2>1, NothingCounted DEF Base
  <2> QED
    BY <2>1, <2>2, <2>3, <2>4, CalledKeeps, Kinds, TelemetryAssumption
<1>3. ASSUME TickStarts
      PROVE  Base' /\ Effect
  <2> DEFINE n == Len(tick) + 1
             r == [phase |-> "stats", commands |-> commandCountInterval, since |-> totalCommands]
  <2>0. tick \in Seq(TickRecord) /\ r \in TickRecord /\ r.phase = "stats"
    BY DEF Base, MailInv, TickOrder, Counters, TickRecord
  <2>1. /\ tick' = Append(tick, r) /\ n \in cast /\ Post(port, Len(tick'), Shard)
        /\ UNCHANGED <<totalCommands, history, viewer, synthetic>>
        /\ commandCountInterval' = 0
    BY <1>3 DEF TickStarts, ResetInterval
  <2> HIDE DEF r
  <2>2. Len(tick) \in Nat /\ Len(tick') = n
    BY <2>0, <2>1, Moved
  <2>3. n <= MaxTicks
    <3>1. n \in Caller
      BY <2>1, CallerAssumption DEF Base
    <3>2. n \notin Client \cup Viewer \cup {api, traffic}
      BY <2>2, CallerAssumption
    <3> QED
      BY <3>1, <3>2, Kinds DEF Caller
  <2> HIDE DEF n
  <2>4. port' = Posted(port, n, Shard) /\ owed' = [owed EXCEPT ![n] = Shard] /\ cast' = cast
    BY <2>1, <2>2 DEF Post, Posted
  <2>5. owed[n] = {} /\ n \in Tick /\ n \in Caller /\ TickOrder(tick', port', owed')
    <3>1. TickOrder(tick, port, owed) /\ Mail(port, owed)
      BY DEF Base, MailInv
    <3> QED
      BY <2>0, <2>1, <2>3, <2>4, <3>1, StartKeepsOrder, Kinds DEF n
  <2>6. Mail(port', owed')
    BY <2>4, <2>5, PostKeeps DEF Base, MailInv
  <2>7. \A x \in Caller : x # n => owed'[x] = owed[x]
    BY <2>4 DEF Base, MailInv, Mail
  <2>8. ConnInv'
    BY <1>1, <2>5, <2>7, OthersServed, Kinds DEF Base
  <2>9. TrafficInv'
    BY <2>1, <2>5, <2>7, Kinds DEF Base, TrafficInv, synthetic
  <2>10. MailInv' /\ Counters'
    BY <2>1, <2>5, <2>6 DEF Base, MailInv, Counters
  <2> QED
    BY <1>3, <2>1, <2>4, <2>8, <2>9, <2>10 DEF Base, Effect
<1> QED
  BY <1>2, <1>3 DEF Timers

\* A connection that is not open yet.
LEMMA NewConnection ==
    /\ NewConn \in Connection /\ NewConn.out = <<>> /\ NewConn.rest = <<>>
    /\ NewConn.queue = <<>> /\ NewConn.sent = 0 /\ NewConn.state = "new"
    /\ NewConn.readable = FALSE /\ NewConn.writable = FALSE
<1> DEFINE e == <<>>
<1>1. /\ e \in Seq(Request) /\ e \in Seq(Seq(Request))
      /\ NewConn = [state |-> "new", readable |-> FALSE, writable |-> FALSE,
                    queue |-> e, rest |-> e, sent |-> 0, out |-> e]
  BY DEF NewConn
<1> SUFFICES /\ NewConn \in Connection /\ NewConn.out = e /\ NewConn.rest = e
             /\ NewConn.queue = e /\ NewConn.sent = 0 /\ NewConn.state = "new"
             /\ NewConn.readable = FALSE /\ NewConn.writable = FALSE
  OBVIOUS
<1> HIDE DEF e
<1> QED
  BY <1>1 DEF Connection

\* A connection that has sent nothing is in order.
LEMMA FreshGood ==
    ASSUME NEW k \in Connection, k.out = <<>>, k.rest = <<>>, k.queue = <<>>, k.sent = 0
    PROVE  Good(k)
<1> DEFINE b == [i \in 1..0 + 1 |-> 0]
<1>1. Len(k.out) = 0 /\ Len(k.rest) = 0 /\ Len(k.queue) = 0
      /\ DOMAIN k.out = {} /\ DOMAIN k.rest = {} /\ DOMAIN k.queue = {}
  OBVIOUS
<1>2. b \in [1..0 + 1 -> Nat] /\ b[1] = 0 /\ b[0 + 1] = 0
  OBVIOUS
<1> HIDE DEF b
<1>3. Chunked(k.queue, 0 + 0, k.sent)
  BY <1>1, <1>2 DEF Chunked
<1> QED
  BY <1>1, <1>3 DEF Good, Replied, GoesOn, From

\* The reply to the command under way, after which the chain goes on or ends with QUIT.
LEMMA WrittenGood ==
    ASSUME NEW k, Good(k), k.rest # <<>>
    PROVE  LET w == write(k, Head(k.rest))
               j == IF Head(w.rest).kind = "quit" THEN AfterQuit(w) ELSE [w EXCEPT !.rest = Tail(@)]
           IN  Good(j) /\ j.state = k.state
<1> DEFINE x == Head(k.rest)
           w == write(k, x)
           a == Answered(k)
           j == [w EXCEPT !.rest = Tail(@)]
           q == AfterQuit(w)
<1>1. k \in Connection
  BY DEF Good
<1>2. x \in Request /\ k.out \in Seq(Request) /\ Tail(k.rest) \in Seq(Request)
      /\ k.rest \in Seq(Request)
  BY <1>1, Fields, Moved
<1>3. Append(k.out, x) \in Seq(Request)
  BY <1>2, Moved
<1>4. a \in Connection /\ Replied(a) /\ (x.kind # "quit" => GoesOn(a)) /\ a.state = k.state
  BY AnsweredKeeps
<1> DEFINE m == IF k.writable THEN Append(k.out, x) ELSE k.out
<1>5. /\ w \in Connection /\ w.rest = k.rest /\ w.state = k.state /\ w.out = m
      /\ w.queue = k.queue /\ w.sent = k.sent
      /\ w.readable = (k.writable /\ k.readable) /\ w.writable = k.writable
  BY <1>1, <1>2, <1>3 DEF write, destroy, Connection
<1>6. /\ a.rest = Tail(k.rest) /\ a.out = m /\ a.queue = k.queue /\ a.sent = k.sent
      /\ a.readable = (k.writable /\ k.readable) /\ a.writable = k.writable
  BY <1>1, <1>2, <1>3 DEF Answered, write, destroy, Connection
<1>7. j \in Connection
  BY <1>2, <1>5 DEF Connection
<1>8. /\ j.rest = Tail(k.rest) /\ j.state = k.state /\ j.out = m
      /\ j.queue = k.queue /\ j.sent = k.sent
      /\ j.readable = (k.writable /\ k.readable) /\ j.writable = k.writable
  BY <1>2, <1>5 DEF Connection
<1>9. q \in Connection /\ q.out = m /\ q.state = k.state /\ q.writable = FALSE
  <2> DEFINE e == <<>>
  <2>1. e \in Seq(Request) /\ q = [w EXCEPT !.rest = e, !.writable = FALSE]
    BY <1>5 DEF AfterQuit, end, Connection
  <2> HIDE DEF e, w, q, m
  <2> QED
    BY <1>5, <2>1 DEF Connection
<1> HIDE DEF w, a, j, q, m, x
<1>10. j = a
  <2>1. ASSUME NEW y \in Connection
        PROVE  y = [state |-> y.state, readable |-> y.readable, writable |-> y.writable,
                    queue |-> y.queue, rest |-> y.rest, sent |-> y.sent, out |-> y.out]
    BY DEF Connection
  <2>2. a = [state |-> a.state, readable |-> a.readable, writable |-> a.writable,
             queue |-> a.queue, rest |-> a.rest, sent |-> a.sent, out |-> a.out]
    BY <1>4, <2>1
  <2>3. j = [state |-> j.state, readable |-> j.readable, writable |-> j.writable,
             queue |-> j.queue, rest |-> j.rest, sent |-> j.sent, out |-> j.out]
    BY <1>7, <2>1
  <2> QED
    BY <1>4, <1>6, <1>8, <2>2, <2>3
<1>11. x.kind # "quit" => Good(j)
  BY <1>4, <1>10 DEF Good
<1>12. Good(q)
  BY <1>4, <1>6, <1>9 DEF Good, Replied, GoesOn
<1>13. Head(w.rest) = x
  BY <1>5 DEF x
<1> QED
  BY <1>8, <1>9, <1>11, <1>12, <1>13 DEF w, x, j, q

\* What Proceed does, for a connection that may go on.
LEMMA ProceedStep ==
    ASSUME Base, NEW c \in Client, NEW k, Good(k), k.state # "new",
           NEW ports, NEW answered \in Nat, Proceed(c, k, ports, answered),
           \/ ports = port /\ owed[c] = {}
           \/ \E s \in Shard : ports = Popped(s) /\ Completes(s, c)
    PROVE  Base' /\ Effect
<1>1. /\ MailInv' /\ ConnInv' /\ TrafficInv' /\ Counted
      /\ UNCHANGED <<cast, ticks, viewer>>
  BY ProceedKeeps DEF Base, Counted
<1>2. Counters'
  BY <1>1, CountedKeeps DEF Base
<1>3. Watched
  BY <1>1, ViewersStay
<1> QED
  BY <1>1, <1>2, <1>3 DEF Base, Effect, ticks

\* Clients come, send and end.
LEMMA ClientsStep ==
    ASSUME Base, Clients
    PROVE  Base' /\ Effect
<1>1. PICK c \in Client : Connects(c) \/ ClientEnds(c) \/ \E chunk \in Chunks : Data(c, chunk)
  BY DEF Clients
<1>2. Served(c) /\ Good(conn[c]) /\ conn[c] \in Connection /\ c \in Caller
  BY Kinds DEF Base, ConnInv, Served, Good
<1>3. ASSUME NEW k, Good(k), k.state # "new", conn' = [conn EXCEPT ![c] = k],
             k.rest = conn[c].rest, UNCHANGED telemetry
      PROVE  Base' /\ Effect
  <2>1. UNCHANGED <<cast, port, owed, counters, ticks, viewer, synthetic>>
    BY <1>3 DEF telemetry, rpc
  <2>2. ConnInv'
    BY <1>2, <1>3, <2>1, OneServed DEF Base, Served
  <2> QED
    BY <2>1, <2>2, ConnStep
<1>4. conn[c].readable => conn[c].state # "new"
  BY <1>2 DEF Served, NewConn
<1>5. CASE Connects(c)
  <2> DEFINE k == [NewConn EXCEPT !.state = "open", !.readable = TRUE, !.writable = TRUE]
  <2>1. conn[c] = NewConn
    BY <1>2, <1>5 DEF Connects, Served
  <2>2. /\ k \in Connection /\ k.out = <<>> /\ k.rest = <<>> /\ k.queue = <<>> /\ k.sent = 0
        /\ k.state = "open"
    BY NewConnection DEF Connection
  <2>3. Good(k) /\ k.rest = conn[c].rest
    BY <2>1, <2>2, FreshGood, NewConnection
  <2>4. conn' = [conn EXCEPT ![c] = k] /\ UNCHANGED telemetry
    BY <1>5 DEF Connects
  <2> HIDE DEF k
  <2> QED
    BY <1>3, <2>2, <2>3, <2>4
<1>6. CASE ClientEnds(c)
  <2> DEFINE k == destroy(conn[c])
  <2>1. Good(k) /\ k.rest = conn[c].rest /\ k.state # "new"
    BY <1>2, <1>4, <1>6, DestroyKeeps DEF ClientEnds
  <2>2. conn' = [conn EXCEPT ![c] = k] /\ UNCHANGED telemetry
    BY <1>6 DEF ClientEnds
  <2> HIDE DEF k
  <2> QED
    BY <1>3, <2>1, <2>2
<1>7. ASSUME NEW chunk \in Chunks, Data(c, chunk)
      PROVE  Base' /\ Effect
  <2> DEFINE k == Queued(conn[c], chunk)
  <2>1. Good(k) /\ k.state # "new" /\ k.rest = conn[c].rest
    BY <1>2, <1>4, <1>7, QueuedKeeps DEF Data
  <2>2. IF Busy(c) THEN conn' = [conn EXCEPT ![c] = k] /\ UNCHANGED telemetry
                   ELSE Proceed(c, k, port, 0)
    BY <1>7 DEF Data
  <2> HIDE DEF k
  <2>3. CASE Busy(c)
    BY <1>3, <2>1, <2>2, <2>3
  <2>4. CASE ~Busy(c)
    BY <2>1, <2>2, <2>4, ProceedStep DEF Busy
  <2> QED
    BY <2>3, <2>4
<1> QED
  BY <1>1, <1>5, <1>6, <1>7

\* Sockets close, the telemetry and the server stop.
LEMMA EventsStep ==
    ASSUME Base, Events
    PROVE  Base' /\ Effect
<1>1. CASE TelemetryStopped
  <2>1. conn' = [c \in Client |-> Dropped(conn[c])] /\ UNCHANGED telemetry
    BY <1>1 DEF TelemetryStopped
  <2>2. UNCHANGED <<cast, port, owed, counters, ticks, viewer, synthetic>>
    BY <2>1 DEF telemetry, rpc
  <2>3. ASSUME NEW c \in Client
        PROVE  conn'[c] \in Connection /\ Served(c)'
    <3>1. Served(c) /\ conn'[c] = destroy(conn[c])
      BY <2>1 DEF Base, ConnInv, Dropped
    <3>2. /\ Good(conn'[c]) /\ conn'[c].rest = conn[c].rest /\ conn'[c].state = conn[c].state
      BY <3>1, DestroyKeeps DEF Served
    <3>3. destroy(NewConn) = NewConn
      BY NewConnection DEF destroy, Connection
    <3> QED
      BY <2>2, <3>1, <3>2, <3>3 DEF Served, Good
  <2>4. ConnInv'
    BY <2>1, <2>3 DEF ConnInv
  <2> QED
    BY <2>2, <2>4, ConnStep
<1>2. CASE AllClosed
  <2>1. UNCHANGED <<cast, port, owed, counters, ticks, viewer, synthetic, conn>>
    BY <1>2 DEF AllClosed
  <2>2. ConnInv'
    BY <2>1, OthersServed DEF Base
  <2> QED
    BY <2>1, <2>2, ConnStep
<1>3. ASSUME NEW c \in Client, OnClose(c)
      PROVE  Base' /\ Effect
  <2> DEFINE k == [conn[c] EXCEPT !.state = "closed"]
  <2>1. Served(c) /\ conn[c] \in Connection /\ c \in Caller
    BY Kinds DEF Base, ConnInv, Served, Good
  <2>2. /\ k \in Connection /\ k.out = conn[c].out /\ k.rest = conn[c].rest
        /\ k.queue = conn[c].queue /\ k.sent = conn[c].sent /\ k.writable = conn[c].writable
        /\ k.state = "closed"
    BY <2>1 DEF Connection
  <2>3. conn' = [conn EXCEPT ![c] = k] /\ UNCHANGED telemetry
    BY <1>3 DEF OnClose
  <2> HIDE DEF k
  <2>4. Good(k)
    BY <2>1, <2>2 DEF Served, Good, Replied, GoesOn
  <2>5. UNCHANGED <<cast, port, owed, counters, ticks, viewer, synthetic>>
    BY <2>3 DEF telemetry, rpc
  <2>6. ConnInv'
    BY <2>1, <2>2, <2>3, <2>4, <2>5, OneServed DEF Base, Served
  <2> QED
    BY <2>5, <2>6, ConnStep
<1> QED
  BY <1>1, <1>2, <1>3 DEF Events

\* stop clears the timers and terminates the dashboards.
LEMMA StopStep ==
    ASSUME Base, stop
    PROVE  Base' /\ Effect
<1>1. /\ UNCHANGED <<cast, port, owed, counters, tick, history, trafficLeft, conn>>
      /\ viewer' = [v \in Viewer |-> [state |-> "closed", seen |-> <<>>]]
  BY DEF stop, stopTelemetry, rpc
<1>2. ConnInv'
  BY <1>1, OthersServed DEF Base
<1>4. viewer' \in [Viewer -> ViewerRecord] /\ Watched
  BY <1>1, ClosedViewer DEF Watched
<1> QED
  BY <1>1, <1>2, <1>4, CallsStay

\* A thread ends.
LEMMA DeathStep ==
    ASSUME Base, NEW s \in Shard, WorkerDies(s), UNCHANGED conn
    PROVE  Base' /\ Effect
<1>1. UNCHANGED <<cast, port, owed, counters, ticks, viewer, synthetic>>
  BY DEF WorkerDies
<1>2. ConnInv'
  BY <1>1, OthersServed DEF Base
<1> QED
  BY <1>1, <1>2, ConnStep

\* The phase of a tick changes.
LEMMA TickStep ==
    ASSUME Base, NEW s \in Shard, NEW t \in DOMAIN tick, StatsDone(s, t) \/ TickDone(s, t),
           UNCHANGED conn
    PROVE  /\ MailInv' /\ ConnInv' /\ TrafficInv' /\ cast' = cast
           /\ TickDone(s, t) => /\ \A r \in DOMAIN tick : r < t => tick[r].phase = "done"
                                /\ \A r \in DOMAIN tick : t < r => tick[r].phase # "done"
<1>1. TickOrder(tick, port, owed) /\ Mail(port, owed) /\ t \in Tick /\ t \in Caller
  BY TickFacts DEF Base, MailInv, TickOrder
<1>2. Completes(s, t) /\ port[s] # <<>> /\ Head(port[s]) = t /\ owed[t] = {s}
  BY DEF StatsDone, TickDone, Completes, Answerable
<1>3. PICK S \in SUBSET Shard :
        /\ Post(Popped(s), t, S) \/ (S = {} /\ Settle(Popped(s), t))
        /\ StatsDone(s, t) => S = Shard /\ Post(Popped(s), t, S)
        /\ TickDone(s, t) => S = {} /\ Settle(Popped(s), t)
  <2>1. ~(StatsDone(s, t) /\ TickDone(s, t))
    BY DEF StatsDone, TickDone
  <2>2. CASE StatsDone(s, t)
    <3>1. Post(Popped(s), t, Shard) /\ ~TickDone(s, t) /\ Shard \in SUBSET Shard
      BY <2>1, <2>2 DEF StatsDone
    <3> QED
      BY <3>1
  <2>3. CASE TickDone(s, t)
    <3>1. Settle(Popped(s), t) /\ ~StatsDone(s, t) /\ {} \in SUBSET Shard
      BY <2>1, <2>3 DEF TickDone
    <3> QED
      BY <3>1
  <2> QED
    BY <2>2, <2>3
<1>4. /\ Mail(port', owed') /\ owed'[t] = S
      /\ \A y \in Caller : y # t => owed'[y] = owed[y]
  <2>1. /\ Mail(port, owed) /\ t \in Caller /\ Completes(s, t)
        /\ Post(Popped(s), t, S) \/ (S = {} /\ Settle(Popped(s), t))
    BY <1>1, <1>2, <1>3
  <2> QED
    BY <2>1, AnswerAsks
<1>5. ConnInv'
  <2>1. \A c \in Client : owed'[c] = owed[c]
    BY <1>1, <1>4, Kinds
  <2> QED
    BY <2>1, OthersServed DEF Base
<1>6. cast' = cast /\ trafficLeft' = trafficLeft
  BY DEF StatsDone, TickDone, Post, Settle, synthetic
<1>7. TrafficInv'
  BY <1>1, <1>4, <1>6, Kinds DEF Base, TrafficInv
<1>8. CASE StatsDone(s, t)
  <2>1. /\ tick' = Further(tick, t, "keys") /\ owed' = [owed EXCEPT ![t] = Shard]
        /\ port' = Posted(Without(port, s), t, Shard)
    BY <1>3, <1>8 DEF StatsDone, Further, Post, Posted, Popped, Without
  <2>2. tick[t].phase = "stats"
    BY <1>8 DEF StatsDone
  <2>3. TickOrder(tick', port', owed')
    BY <1>1, <1>2, <2>1, <2>2, StatsKeepOrder
  <2>4. ~TickDone(s, t)
    BY <2>2 DEF TickDone
  <2> QED
    BY <1>4, <1>5, <1>6, <1>7, <2>3, <2>4 DEF MailInv
<1>9. CASE TickDone(s, t)
  <2>1. /\ tick' = Further(tick, t, "done") /\ owed' = [owed EXCEPT ![t] = {}]
        /\ port' = Without(port, s)
    BY <1>3, <1>9 DEF TickDone, Further, Settle, Popped, Without
  <2>2. tick[t].phase = "keys"
    BY <1>9 DEF TickDone
  <2>3. /\ TickOrder(Further(tick, t, "done"), Without(port, s), [owed EXCEPT ![t] = {}])
        /\ \A r \in DOMAIN tick : r < t => tick[r].phase = "done"
        /\ \A r \in DOMAIN tick : t < r => tick[r].phase # "done"
    BY <1>1, <1>2, <2>2, EndKeepsOrder
  <2> QED
    BY <1>4, <1>5, <1>6, <1>7, <2>1, <2>3 DEF MailInv
<1> QED
  BY <1>8, <1>9

\* What a snapshot holds, and what the history is with it.
LEMMA PushedFacts ==
    ASSUME history \in Seq(SnapshotRecord), NEW x \in SnapshotRecord
    PROVE  /\ Pushed(x) \in Seq(SnapshotRecord) /\ Pushed(x) # <<>> /\ Last(Pushed(x)) = x
           /\ \A i \in DOMAIN Pushed(x) :
                 Pushed(x)[i] = x \/ \E j \in DOMAIN history : Pushed(x)[i] = history[j]
           /\ \A i \in 1..Len(Pushed(x)) - 1 :
                 \/ /\ i = Len(Pushed(x)) - 1 /\ history # <<>>
                    /\ Pushed(x)[i] = Last(history) /\ Pushed(x)[i + 1] = x
                 \/ \E j \in 1..Len(history) - 1 :
                       Pushed(x)[i] = history[j] /\ Pushed(x)[i + 1] = history[j + 1]
<1> DEFINE n == Len(history)
           all == Append(history, x)
           p == Pushed(x)
           d == IF n + 1 > HistoryLength THEN 1 ELSE 0
<1>1. /\ n \in Nat /\ DOMAIN history = 1..n
      /\ all \in Seq(SnapshotRecord) /\ Len(all) = n + 1
      /\ \A i \in 1..n : all[i] = history[i]
      /\ all[n + 1] = x /\ (history # <<>> <=> n # 0)
  BY Moved
<1>2. HistoryLength \in Nat \ {0}
  BY TelemetryAssumption
<1>3. p = IF n + 1 > HistoryLength THEN Tail(all) ELSE all
  BY <1>1 DEF Pushed
<1> HIDE DEF p
<1>4. /\ all # <<>> /\ Tail(all) \in Seq(SnapshotRecord) /\ Len(Tail(all)) = n
      /\ \A i \in 1..n : Tail(all)[i] = all[i + 1]
  <2>1. all # <<>>
    BY <1>1
  <2> HIDE DEF all
  <2>2. Len(all) - 1 = n
    BY <1>1
  <2> QED
    BY <1>1, <2>1, <2>2, Moved
<1>5. /\ d \in {0, 1} /\ n + 1 - d \in Nat \ {0}
      /\ p \in Seq(SnapshotRecord) /\ Len(p) = n + 1 - d
      /\ \A i \in 1..n + 1 - d : p[i] = all[i + d]
  <2>1. CASE n + 1 > HistoryLength
    BY <1>1, <1>2, <1>3, <1>4, <2>1
  <2>2. CASE ~(n + 1 > HistoryLength)
    BY <1>1, <1>2, <1>3, <2>2
  <2> QED
    BY <2>1, <2>2
<1> HIDE DEF d, all, n
<1>6. DOMAIN p = 1..n + 1 - d /\ p # <<>>
  BY <1>5
<1>7. Last(p) = x
  <2>1. Last(p) = p[n + 1 - d] /\ n + 1 - d \in 1..n + 1 - d
    BY <1>1, <1>5 DEF Last
  <2>2. n + 1 - d + d = n + 1
    BY <1>1, <1>5
  <2> QED
    BY <1>1, <1>5, <2>1, <2>2
<1>8. ASSUME NEW i \in 1..n + 1 - d
      PROVE  p[i] = x \/ \E j \in 1..n : p[i] = history[j]
  <2>1. i + d \in 1..n \/ i + d = n + 1
    BY <1>1, <1>5
  <2> QED
    BY <1>1, <1>5, <2>1
<1>9. ASSUME NEW i \in 1..Len(p) - 1
      PROVE  \/ /\ i = Len(p) - 1 /\ n # 0
                /\ p[i] = history[n] /\ p[i + 1] = x
             \/ \E j \in 1..n - 1 : p[i] = history[j] /\ p[i + 1] = history[j + 1]
  <2>1. i \in 1..n + 1 - d /\ i + 1 \in 1..n + 1 - d /\ i + 1 + d = i + d + 1
    BY <1>1, <1>5
  <2>2. p[i] = all[i + d] /\ p[i + 1] = all[i + d + 1]
    BY <1>5, <2>1
  <2>3. CASE i + d = n
    <3>1. n \in 1..n /\ n # 0 /\ i = Len(p) - 1
      <4> DEFINE m == Len(p)
      <4>1. m = n + 1 - d /\ n \in Nat /\ d \in {0, 1} /\ i \in 1..m - 1
        BY <1>1, <1>5
      <4> SUFFICES n \in 1..n /\ n # 0 /\ i = m - 1
        OBVIOUS
      <4> HIDE DEF m
      <4> QED
        BY <2>3, <4>1
    <3>2. p[i] = history[n] /\ p[i + 1] = x
      BY <1>1, <2>2, <2>3, <3>1
    <3> QED
      BY <3>1, <3>2
  <2>4. CASE i + d # n
    <3>1. i + d \in 1..n - 1 /\ i + d \in 1..n /\ i + d + 1 \in 1..n
      BY <1>1, <1>5, <2>4
    <3> QED
      BY <1>1, <2>2, <3>1
  <2> QED
    BY <2>3, <2>4
<1>10. Last(history) = history[n]
  BY DEF Last, n
<1>11. \A i \in 1..Len(p) - 1 :
          \/ /\ i = Len(p) - 1 /\ history # <<>>
             /\ p[i] = Last(history) /\ p[i + 1] = x
          \/ \E j \in 1..Len(history) - 1 : p[i] = history[j] /\ p[i + 1] = history[j + 1]
  BY <1>1, <1>9, <1>10 DEF n
<1>12. \A i \in DOMAIN p : p[i] = x \/ \E j \in DOMAIN history : p[i] = history[j]
  BY <1>1, <1>6, <1>8
<1> QED
  BY <1>5, <1>6, <1>7, <1>11, <1>12 DEF p

\* A tick is pushed and sent.
LEMMA SnapshotType ==
    ASSUME Base, NEW t \in DOMAIN tick
    PROVE  Snapshot(t) \in SnapshotRecord /\ Snapshot(t).tick = t
           /\ Snapshot(t).since = tick[t].since /\ Snapshot(t).total = totalCommands
<1>1. t \in Nat /\ tick[t].commands \in Int /\ tick[t].since \in Int /\ totalCommands \in Int
  BY TickFacts DEF Base, MailInv, TickOrder, Counters
<1> QED
  BY <1>1 DEF Snapshot, SnapshotRecord

\* A worker answers.
LEMMA AnswersStep ==
    ASSUME Base, NEW s \in Shard, Answers(s)
    PROVE  Base' /\ Effect
<1>1. ASSUME NEW c \in Client, CommandAnswered(s, c)
      PROVE  Base' /\ Effect
  <2> DEFINE w == write(conn[c], Head(conn[c].rest))
             k == IF Head(w.rest).kind = "quit" THEN AfterQuit(w) ELSE [w EXCEPT !.rest = Tail(@)]
  <2>1. Completes(s, c) /\ Proceed(c, k, Popped(s), 1)
    BY <1>1 DEF CommandAnswered
  <2>2. Served(c) /\ c \in Caller /\ owed[c] # {}
    BY <2>1, Kinds DEF Base, ConnInv, Completes
  <2>3. conn[c].rest # <<>> /\ conn[c].state # "new" /\ Good(conn[c])
    BY <2>2, NewConnection DEF Served
  <2>4. Good(k) /\ k.state # "new"
    BY <2>3, WrittenGood
  <2> HIDE DEF k
  <2> QED
    BY <2>1, <2>4, ProceedStep
<1>2. ASSUME PartAnswered(s), UNCHANGED conn
      PROVE  Base' /\ Effect
  <2>1. /\ Mail(port', owed') /\ TickOrder(tick, port', owed')
        /\ \A y \in Caller : owed'[y] = {} <=> owed[y] = {}
    BY <1>2, PartKeeps DEF Base
  <2>2. UNCHANGED <<cast, alive, counters, ticks, viewer, synthetic>>
    BY <1>2 DEF PartAnswered
  <2>3. MailInv' /\ ConnInv' /\ TrafficInv'
    BY <1>2, <2>1, <2>2, OthersServed, Kinds
    DEF Base, MailInv, TrafficInv, ticks, synthetic
  <2>4. Counted /\ Counters' /\ Watched
    BY <2>2, NothingCounted, ViewersStay DEF Base
  <2> QED
    BY <2>2, <2>3, <2>4 DEF Base, Effect, ticks
<1>3. ASSUME recordCommand
      PROVE  Counted
  <2>1. recordCommands(1)
    BY <1>3 DEF recordCommand
  <2> QED
    BY <2>1 DEF Counted
<1>4. ASSUME TrafficAnswered(s), UNCHANGED conn
      PROVE  Base' /\ Effect
  <2>1. /\ Completes(s, traffic) /\ Counted /\ trafficLeft' = trafficLeft - 1
        /\ UNCHANGED <<ticks, viewer, isSyntheticTrafficRunning>>
    BY <1>3, <1>4 DEF TrafficAnswered
  <2>2. trafficLeft' \in Nat
    BY <2>1 DEF Base, TrafficInv, Completes
  <2>3. PICK S \in SUBSET Shard :
          /\ Post(Popped(s), traffic, S) \/ (S = {} /\ Settle(Popped(s), traffic))
          /\ trafficLeft' = 0 => S = {}
    <3>1. CASE trafficLeft' = 0
      BY <1>4, <3>1 DEF TrafficAnswered
    <3>2. CASE trafficLeft' # 0
      <4>1. PICK r \in Shard : Post(Popped(s), traffic, {r})
        BY <1>4, <3>2 DEF TrafficAnswered
      <4> QED
        BY <3>2, <4>1
    <3> QED
      BY <3>1, <3>2
  <2>4. Called(traffic, S) /\ cast' = cast
    BY <2>1, <2>3, GoesOnToAsk, Kinds DEF Base, Post, Settle
  <2>5. UNCHANGED <<cast, tick, history, viewer, conn>>
    BY <1>4, <2>1, <2>4 DEF ticks
  <2> QED
    BY <2>1, <2>2, <2>3, <2>4, <2>5, CalledKeeps, Kinds
<1>5. ASSUME NEW x \in Viewer \cup {api}, CommandDone(s, x), UNCHANGED conn
      PROVE  Base' /\ Effect
  <2>1. /\ Completes(s, x) /\ Counted /\ Settle(Popped(s), x)
        /\ UNCHANGED <<ticks, viewer, synthetic>>
    BY <1>3, <1>5 DEF CommandDone
  <2>2. x \in Caller /\ x \notin Client /\ x \notin Tick /\ x # traffic
    BY Kinds
  <2>3. Called(x, {}) /\ cast' = cast
    <3>1. {} \in SUBSET Shard
      OBVIOUS
    <3>2. Called(x, {})
      BY <2>1, <2>2, <3>1, GoesOnToAsk DEF Base
    <3> QED
      BY <2>1, <3>2 DEF Settle
  <2>4. UNCHANGED <<cast, tick, history, viewer, conn, trafficLeft>> /\ trafficLeft' \in Nat
    BY <1>5, <2>1, <2>3 DEF ticks, synthetic, Base, TrafficInv
  <2> QED
    BY <2>1, <2>2, <2>3, <2>4, CalledKeeps
<1>6. ASSUME NEW t \in DOMAIN tick, StatsDone(s, t), UNCHANGED conn
      PROVE  Base' /\ Effect
  <2>1. MailInv' /\ ConnInv' /\ TrafficInv' /\ cast' = cast
    BY <1>6, TickStep
  <2>2. UNCHANGED <<counters, ticker, history, viewer, synthetic>>
    BY <1>6 DEF StatsDone
  <2>3. Counters'
    BY <2>2, NothingCounted DEF Base
  <2> QED
    BY <1>6, <2>1, <2>2, <2>3 DEF Base, Effect
<1>7. ASSUME NEW t \in DOMAIN tick, TickDone(s, t), UNCHANGED conn
      PROVE  Base' /\ Effect
  <2>1. MailInv' /\ ConnInv' /\ TrafficInv' /\ cast' = cast
    BY <1>7, TickStep
  <2>2. /\ UNCHANGED <<counters, ticker, synthetic>> /\ history' = Pushed(Snapshot(t))
        /\ Broadcast(t)
    BY <1>7 DEF TickDone
  <2>3. Counters'
    BY <2>2, NothingCounted DEF Base
  <2>4. history' \in Seq(SnapshotRecord)
    BY <2>2, SnapshotType, PushedFacts DEF Base
  <2>5. viewer' \in [Viewer -> ViewerRecord]
    <3>1. t \in Nat
      BY TickFacts DEF Base, MailInv, TickOrder
    <3>2. ASSUME NEW v \in Viewer
          PROVE  [viewer[v] EXCEPT !.seen = Append(@, t)] \in ViewerRecord
      <4>1. viewer[v] \in ViewerRecord
        BY DEF Base
      <4>2. viewer[v].seen \in Seq(Nat)
        BY <4>1 DEF ViewerRecord
      <4>3. Append(viewer[v].seen, t) \in Seq(Nat)
        BY <3>1, <4>2, Moved
      <4> QED
        BY <4>1, <4>3 DEF ViewerRecord
    <3> QED
      BY <2>2, <3>2 DEF Broadcast, Base
  <2> QED
    BY <1>7, <2>1, <2>3, <2>4, <2>5 DEF Base, Effect
<1> QED
  BY <1>1, <1>2, <1>4, <1>5, <1>6, <1>7 DEF Answers

\* The server starts in order.
LEMMA BaseStart ==
    ASSUME ServerInit
    PROVE  Base
<1>1. TelemetryInit /\ conn = [c \in Client |-> NewConn]
  BY DEF ServerInit
<1>2. /\ port = [s \in Shard |-> <<>>] /\ owed = [x \in Caller |-> {}] /\ tick = <<>>
      /\ history = <<>> /\ totalCommands = 0 /\ commandCountInterval = 0 /\ trafficLeft = 0
      /\ cast \in Casts /\ viewer = [v \in Viewer |-> [state |-> "new", seen |-> <<>>]]
  BY <1>1 DEF TelemetryInit
<1>3. Mail(port, owed)
  <2>1. /\ \A s \in Shard : port[s] = <<>> /\ DOMAIN port[s] = {} /\ port[s] \in Seq(Caller)
        /\ \A x \in Caller : owed[x] = {}
    BY <1>2
  <2>2. port \in [Shard -> Seq(Caller)] /\ owed \in [Caller -> SUBSET Shard]
    BY <1>2, <2>1
  <2> QED
    BY <2>1, <2>2 DEF Mail
<1>4. TickOrder(tick, port, owed)
  <2>1. tick \in Seq(TickRecord) /\ Len(tick) = 0 /\ DOMAIN tick = {}
    BY <1>2
  <2>2. \A t \in Tick : owed[t] = {}
    BY <1>2, Kinds
  <2> QED
    BY <2>1, <2>2, Kinds DEF TickOrder, Owing
<1>5. ConnInv
  <2>1. Good(NewConn)
    BY NewConnection, FreshGood
  <2>2. ASSUME NEW c \in Client
        PROVE  conn[c] = NewConn /\ owed[c] = {}
    BY <1>1, <1>2, Kinds
  <2> QED
    BY <1>1, <2>1, <2>2, NewConnection DEF ConnInv, Served
<1>6. TrafficInv /\ Counters
  BY <1>2, Kinds DEF TrafficInv, Counters
<1>7. viewer \in [Viewer -> ViewerRecord]
  <2>1. [state |-> "new", seen |-> <<>>] \in ViewerRecord
    BY DEF ViewerRecord
  <2> QED
    BY <1>2, <2>1
<1>8. history \in Seq(SnapshotRecord)
  BY <1>2
<1> QED
  BY <1>2, <1>3, <1>4, <1>5, <1>6, <1>7, <1>8 DEF Base, MailInv

\* Every step keeps what the steps rest on, and has one of the effects.
LEMMA BaseStep ==
    ASSUME Base, [Next]_serverVars
    PROVE  Base' /\ Effect
<1>1. CASE UNCHANGED serverVars
  <2>1. UNCHANGED <<cast, port, owed, counters, ticks, viewer, synthetic, conn>>
    BY <1>1 DEF serverVars, telemetry, rpc
  <2>2. ConnInv'
    BY <2>1, OthersServed DEF Base
  <2> QED
    BY <2>1, <2>2, ConnStep
<1>2. CASE Next
  <2>1. CASE Requests
    BY <2>1, RequestsStep
  <2>2. CASE Timers
    BY <2>2, TimersStep
  <2>3. CASE Clients
    BY <2>3, ClientsStep
  <2>4. CASE Events
    BY <2>4, EventsStep
  <2>5. CASE stop
    BY <2>5, StopStep
  <2>6. ASSUME NEW s \in Shard, Answers(s) \/ (WorkerDies(s) /\ UNCHANGED <<conn, phase>>)
        PROVE  Base' /\ Effect
    BY <2>6, AnswersStep, DeathStep
  <2> QED
    BY <1>2, <2>1, <2>2, <2>3, <2>4, <2>5, <2>6 DEF Next
<1> QED
  BY <1>1, <1>2

-----------------------------------------------------------------------------
\* What was counted before a tick was taken by it or by an earlier one.
CountInv == CountsPartition /\ \A t \in DOMAIN tick : tick[t].since <= totalCommands

\* Every effect keeps the counts.
LEMMA CountStep ==
    ASSUME Base, CountInv, Effect
    PROVE  CountInv'
<1>1. PICK n \in Nat :
        /\ n = Len(tick) /\ tick \in Seq(TickRecord) /\ DOMAIN tick = 1..n
        /\ \A t \in 1..n : tick[t].commands \in Int /\ tick[t].since \in Int
  BY TickFacts DEF Base, MailInv, TickOrder
<1>2. totalCommands \in Int /\ commandCountInterval \in Int
  BY DEF Base, Counters
<1>3. ASSUME NEW t \in 0..n
      PROVE  Before(t) \in Int
  <2>1. t = 0 \/ t \in 1..n
    BY <1>1
  <2> QED
    BY <1>1, <2>1 DEF Before
<1>4. /\ \A t \in 1..n : tick[t].commands = tick[t].since - Before(t - 1)
      /\ commandCountInterval = totalCommands - Before(n)
      /\ \A i \in DOMAIN history : history[i].since <= history[i].total
      /\ \A t \in 1..n : tick[t].since <= totalCommands
  BY <1>1 DEF CountInv, CountsPartition
<1>5. ASSUME UNCHANGED <<tick, history>>, Counted
      PROVE  CountInv'
  <2>1. PICK m \in Nat : /\ totalCommands' = totalCommands + m
                         /\ commandCountInterval' = commandCountInterval + m
    BY <1>5 DEF Counted, recordCommands
  <2>2. \A t : Before(t)' = Before(t)
    BY <1>5 DEF Before
  <2>3. n \in 0..n
    BY <1>1
  <2>4. commandCountInterval' = totalCommands' - Before(n)'
    BY <1>2, <1>3, <1>4, <2>1, <2>2, <2>3
  <2>5. \A t \in 1..n : tick[t].since <= totalCommands'
    BY <1>1, <1>2, <1>4, <2>1
  <2> QED
    BY <1>1, <1>4, <1>5, <2>2, <2>4, <2>5 DEF CountInv, CountsPartition
<1>6. ASSUME TickStarts
      PROVE  CountInv'
  <2> DEFINE r == [phase |-> "stats", commands |-> commandCountInterval, since |-> totalCommands]
  <2>1. /\ tick' = Append(tick, r) /\ commandCountInterval' = 0
        /\ UNCHANGED <<totalCommands, history>>
    BY <1>6 DEF TickStarts, ResetInterval
  <2>2. r.commands = commandCountInterval /\ r.since = totalCommands /\ r \in TickRecord
    BY <1>2 DEF TickRecord
  <2> HIDE DEF r
  <2>3. /\ Len(tick') = n + 1 /\ DOMAIN tick' = 1..n + 1 /\ tick'[n + 1] = r
        /\ \A t \in 1..n : tick'[t] = tick[t]
    <3>1. tick' \in Seq(TickRecord)
      BY <1>1, <2>1, <2>2, Moved
    <3> QED
      BY <1>1, <2>1, <2>2, <3>1, Moved
  <2>4. ASSUME NEW t \in 0..n
        PROVE  Before(t)' = Before(t)
    <3>1. t = 0 \/ (t # 0 /\ t \in 1..n)
      BY <1>1
    <3> QED
      BY <2>3, <3>1 DEF Before
  <2>5. Before(n + 1)' = totalCommands
    <3>1. n + 1 # 0
      BY <1>1
    <3> QED
      BY <2>2, <2>3, <3>1 DEF Before
  <2>6. \A t \in 1..n + 1 : tick'[t].commands = tick'[t].since - Before(t - 1)'
    <3>1. ASSUME NEW t \in 1..n
          PROVE  tick'[t].commands = tick'[t].since - Before(t - 1)'
      <4>1. t - 1 \in 0..n
        BY <1>1
      <4> QED
        BY <1>4, <2>3, <2>4, <4>1
    <3>2. tick'[n + 1].commands = tick'[n + 1].since - Before(n)'
      <4>1. n \in 0..n
        BY <1>1
      <4> QED
        BY <1>4, <2>2, <2>3, <2>4, <4>1
    <3>3. n + 1 - 1 = n /\ \A t \in 1..n + 1 : t \in 1..n \/ t = n + 1
      BY <1>1
    <3> QED
      BY <3>1, <3>2, <3>3
  <2>7. commandCountInterval' = totalCommands' - Before(n + 1)'
    BY <1>2, <2>1, <2>5
  <2>8. \A t \in 1..n + 1 : tick'[t].since <= totalCommands'
    <3>1. \A t \in 1..n + 1 : t \in 1..n \/ t = n + 1
      BY <1>1
    <3> QED
      BY <1>2, <1>4, <2>1, <2>2, <2>3, <3>1
  <2> QED
    BY <1>4, <2>1, <2>3, <2>6, <2>7, <2>8 DEF CountInv, CountsPartition
<1>7. ASSUME NEW s \in Shard, NEW t \in DOMAIN tick, StatsDone(s, t) \/ TickDone(s, t)
      PROVE  CountInv'
  <2>1. PICK p \in {"keys", "done"} : tick' = Further(tick, t, p)
    BY <1>7 DEF StatsDone, TickDone, Further
  <2>2. /\ Len(tick') = n /\ DOMAIN tick' = 1..n
        /\ \A u \in 1..n : tick'[u].since = tick[u].since /\ tick'[u].commands = tick[u].commands
    <3> DEFINE k == Further(tick, t, p)
    <3>1. /\ Len(k) = Len(tick) /\ DOMAIN k = DOMAIN tick
          /\ \A u \in DOMAIN tick :
                k[u].since = tick[u].since /\ k[u].commands = tick[u].commands
      <4>1. tick \in Seq(TickRecord) /\ t \in DOMAIN tick /\ p \in {"keys", "done"}
        BY <1>1, <1>7, <2>1
      <4>2. CASE p = "keys"
        BY <4>1, <4>2, PhaseChanged
      <4>3. CASE p = "done"
        BY <4>1, <4>3, PhaseChanged
      <4> QED
        BY <4>1, <4>2, <4>3
    <3> HIDE DEF k
    <3>2. tick' = k
      BY <2>1 DEF k
    <3> QED
      BY <1>1, <3>1, <3>2
  <2>3. UNCHANGED <<totalCommands, commandCountInterval>>
    BY <1>7 DEF StatsDone, TickDone, counters
  <2>4. ASSUME NEW u \in 0..n
        PROVE  Before(u)' = Before(u)
    <3>1. u = 0 \/ (u # 0 /\ u \in 1..n)
      BY <1>1
    <3> QED
      BY <2>2, <3>1 DEF Before
  <2>5. \A u \in 1..n : tick'[u].commands = tick'[u].since - Before(u - 1)'
    <3>1. \A u \in 1..n : u - 1 \in 0..n
      BY <1>1
    <3> QED
      BY <1>4, <2>2, <2>4, <3>1
  <2>6. commandCountInterval' = totalCommands' - Before(n)'
    <3>1. n \in 0..n
      BY <1>1
    <3> QED
      BY <1>4, <2>3, <2>4, <3>1
  <2>7. \A i \in DOMAIN history' : history'[i].since <= history'[i].total
    <3>1. CASE StatsDone(s, t)
      BY <1>4, <3>1 DEF StatsDone
    <3>2. CASE TickDone(s, t)
      <4> DEFINE x == Snapshot(t)
      <4>1. /\ history' = Pushed(x) /\ x \in SnapshotRecord /\ x.since <= x.total
        BY <1>1, <1>4, <3>2, SnapshotType DEF TickDone
      <4>2. \A i \in DOMAIN Pushed(x) :
               Pushed(x)[i] = x \/ \E j \in DOMAIN history : Pushed(x)[i] = history[j]
        BY <4>1, PushedFacts DEF Base
      <4> HIDE DEF x
      <4> QED
        BY <1>4, <4>1, <4>2
    <3> QED
      BY <1>7, <3>1, <3>2
  <2> QED
    BY <1>4, <2>2, <2>3, <2>5, <2>6, <2>7 DEF CountInv, CountsPartition
<1> QED
  BY <1>5, <1>6, <1>7 DEF Effect

-----------------------------------------------------------------------------
\* The ticks that are done are those up to the last one in the history.
DoneUpTo(tk, h) ==
    /\ \A t \in DOMAIN tk : tk[t].phase = "done" <=> h # <<>> /\ t <= Last(h).tick
    /\ h # <<>> => Last(h).tick \in DOMAIN tk

\* A dashboard that is open has come as far as the history.
Shown(x, h) ==
    x.state = "open" =>
        /\ Consecutive(x.seen)
        /\ h = <<>> => x.seen = <<>>
        /\ h # <<>> => x.seen # <<>> /\ Last(x.seen) = Last(h).tick

SnapshotInv ==
    /\ \A i \in 1..Len(history) - 1 : history[i + 1].tick = history[i].tick + 1
    /\ DoneUpTo(tick, history)
    /\ \A v \in Viewer : Shown(viewer[v], history)

\* A sequence that gets its next number stays without a gap.
LEMMA NextNumber ==
    ASSUME NEW q \in Seq(Nat), Consecutive(q), NEW t \in Nat,
           q # <<>> => t = Last(q) + 1
    PROVE  /\ Consecutive(Append(q, t)) /\ Append(q, t) # <<>>
           /\ Last(Append(q, t)) = t
<1> DEFINE n == Len(q)
           p == Append(q, t)
<1>1. /\ n \in Nat /\ p \in Seq(Nat) /\ Len(p) = n + 1 /\ p[n + 1] = t
      /\ \A i \in 1..n : p[i] = q[i]
      /\ q # <<>> <=> n # 0
  BY Moved
<1> HIDE DEF p
<1>2. Last(p) = t /\ p # <<>>
  BY <1>1 DEF Last
<1>3. Last(q) = q[n] /\ \A i \in 1..n - 1 : q[i + 1] = q[i] + 1
  BY DEF Last, Consecutive
<1> HIDE DEF n
<1>4. ASSUME NEW i \in 1..n + 1 - 1
      PROVE  p[i + 1] = p[i] + 1
  <2>1. CASE i = n
    <3>1. n # 0 /\ n \in 1..n
      BY <1>1, <2>1
    <3> QED
      BY <1>1, <1>3, <2>1, <3>1
  <2>2. CASE i # n
    <3>1. i \in 1..n - 1 /\ i \in 1..n /\ i + 1 \in 1..n
      BY <1>1, <2>2
    <3> QED
      BY <1>1, <1>3, <3>1
  <2> QED
    BY <2>1, <2>2
<1>5. Consecutive(p)
  BY <1>1, <1>4 DEF Consecutive
<1> QED
  BY <1>2, <1>5 DEF p

\* Who comes gets the history, which shows everything that is done.
LEMMA ArrivalShown ==
    ASSUME Base, SnapshotInv
    PROVE  Shown([state |-> "open", seen |-> InitialState], history)
<1> DEFINE q == InitialState
           n == Len(history)
<1>1. q \in Seq(Nat) /\ Len(q) = n /\ \A i \in 1..n : q[i] = history[i].tick
  BY HistoryTicks DEF Base, InitialState
<1>2. n \in Nat /\ (history = <<>> <=> n = 0)
  BY DEF Base
<1> HIDE DEF q
<1>3. q = <<>> <=> n = 0
  BY <1>1
<1>4. Last(q) = q[n] /\ Last(history) = history[n]
  BY <1>1 DEF Last
<1>5. \A i \in 1..n - 1 : q[i + 1] = q[i] + 1
  <2>1. \A i \in 1..n - 1 : i \in 1..n /\ i + 1 \in 1..n
    BY <1>2
  <2> QED
    BY <1>1, <2>1 DEF SnapshotInv
<1>6. Consecutive(q)
  BY <1>1, <1>5 DEF Consecutive
<1>7. n # 0 => n \in 1..n
  BY <1>2
<1> QED
  BY <1>1, <1>2, <1>3, <1>4, <1>6, <1>7 DEF Shown, q

\* Every effect keeps the order of the snapshots.
LEMMA SnapshotStep ==
    ASSUME Base, SnapshotInv, Effect
    PROVE  SnapshotInv'
<1> DEFINE n == Len(tick)
<1>1. /\ tick \in Seq(TickRecord) /\ n \in Nat /\ DOMAIN tick = 1..n
      /\ \A t \in 1..n : t \in Nat
  BY TickFacts DEF Base, MailInv, TickOrder
<1>2. ASSUME UNCHANGED <<tick, history>>, Watched
      PROVE  SnapshotInv'
  <2>1. ASSUME NEW v \in Viewer
        PROVE  Shown(viewer'[v], history)
    <3>1. CASE viewer'[v] = viewer[v]
      BY <3>1 DEF SnapshotInv
    <3>2. CASE viewer'[v] = [state |-> "open", seen |-> InitialState]
      BY <3>2, ArrivalShown
    <3>3. CASE viewer'[v] = [state |-> "closed", seen |-> <<>>]
      BY <3>3 DEF Shown
    <3> QED
      BY <1>2, <3>1, <3>2, <3>3 DEF Watched
  <2> QED
    BY <1>2, <2>1 DEF SnapshotInv
<1>3. ASSUME TickStarts
      PROVE  SnapshotInv'
  <2> DEFINE r == [phase |-> "stats", commands |-> commandCountInterval, since |-> totalCommands]
  <2>1. tick' = Append(tick, r) /\ history' = history /\ viewer' = viewer
    BY <1>3 DEF TickStarts
  <2>2. r.phase = "stats" /\ r \in TickRecord
    BY DEF TickRecord, Base, Counters
  <2> HIDE DEF r
  <2>3. /\ DOMAIN tick' = 1..n + 1 /\ tick'[n + 1] = r
        /\ \A t \in 1..n : tick'[t] = tick[t]
    <3>1. tick' \in Seq(TickRecord) /\ Len(tick') = n + 1
      BY <1>1, <2>1, <2>2, Moved
    <3> QED
      BY <1>1, <2>1, <2>2, <3>1, Moved DEF n
  <2>4. /\ \A t \in 1..n : tick[t].phase = "done" <=> history # <<>> /\ t <= Last(history).tick
        /\ history # <<>> => Last(history).tick \in 1..n
    BY <1>1 DEF SnapshotInv, DoneUpTo
  <2> HIDE DEF n
  <2>5. ASSUME NEW t \in 1..n + 1
        PROVE  tick'[t].phase = "done" <=> history # <<>> /\ t <= Last(history).tick
    <3>1. CASE t \in 1..n
      BY <2>3, <2>4, <3>1
    <3>2. CASE t = n + 1
      <4>1. history # <<>> => ~(t <= Last(history).tick)
        BY <1>1, <2>4, <3>2
      <4> QED
        BY <2>2, <2>3, <3>2, <4>1
    <3> QED
      BY <1>1, <3>1, <3>2
  <2>6. history # <<>> => Last(history).tick \in 1..n + 1
    BY <1>1, <2>4
  <2> QED
    BY <2>1, <2>3, <2>5, <2>6 DEF SnapshotInv, DoneUpTo
<1>4. ASSUME NEW s \in Shard, NEW t \in DOMAIN tick, StatsDone(s, t)
      PROVE  SnapshotInv'
  <2>1. /\ tick' = Further(tick, t, "keys") /\ tick[t].phase = "stats"
        /\ history' = history /\ viewer' = viewer
    BY <1>4 DEF StatsDone, Further
  <2>2. DOMAIN tick' = DOMAIN tick
        /\ \A u \in DOMAIN tick : tick'[u].phase = "done" <=> tick[u].phase = "done"
    <3>1. /\ DOMAIN tick' = DOMAIN tick /\ tick'[t].phase = "keys"
          /\ \A u \in DOMAIN tick : u # t => tick'[u] = tick[u]
      BY <1>1, <2>1, PhaseChanged
    <3> QED
      BY <2>1, <3>1
  <2> QED
    BY <2>1, <2>2 DEF SnapshotInv, DoneUpTo
<1>5. ASSUME NEW s \in Shard, NEW t \in DOMAIN tick, TickDone(s, t)
      PROVE  SnapshotInv'
  <2> DEFINE x == Snapshot(t)
             p == Pushed(x)
  <2>1. /\ tick' = Further(tick, t, "done") /\ tick[t].phase = "keys"
        /\ history' = p /\ Broadcast(t)
        /\ Completes(s, t)
    BY <1>5 DEF TickDone, Further
  <2>2. x \in SnapshotRecord /\ x.tick = t /\ history \in Seq(SnapshotRecord)
    BY SnapshotType DEF Base
  <2>3. /\ p # <<>> /\ Last(p) = x
        /\ \A i \in 1..Len(p) - 1 :
              \/ history # <<>> /\ p[i] = Last(history) /\ p[i + 1] = x
              \/ \E j \in 1..Len(history) - 1 : p[i] = history[j] /\ p[i + 1] = history[j + 1]
    BY <2>2, PushedFacts
  <2> HIDE DEF x, p
  <2>4. /\ DOMAIN tick' = DOMAIN tick /\ tick'[t].phase = "done"
        /\ \A u \in DOMAIN tick : u # t => tick'[u] = tick[u]
    BY <1>1, <2>1, PhaseChanged
  <2>5. /\ \A r \in DOMAIN tick : r < t => tick[r].phase = "done"
        /\ \A r \in DOMAIN tick : t < r => tick[r].phase # "done"
    <3>1. /\ TickOrder(tick, port, owed) /\ Mail(port, owed)
          /\ port[s] # <<>> /\ Head(port[s]) = t /\ owed[t] = {s}
      BY <2>1 DEF Base, MailInv, Completes, Answerable
    <3>2. /\ TickOrder(Further(tick, t, "done"), Without(port, s), [owed EXCEPT ![t] = {}])
          /\ \A r \in DOMAIN tick : r < t => tick[r].phase = "done"
          /\ \A r \in DOMAIN tick : t < r => tick[r].phase # "done"
      BY <2>1, <3>1, EndKeepsOrder
    <3> QED
      BY <3>2
  <2>6. ASSUME history # <<>>
        PROVE  t = Last(history).tick + 1
    <3> DEFINE l == Last(history).tick
    <3>1. /\ l \in 1..n /\ t \in 1..n
          /\ \A r \in 1..n : tick[r].phase = "done" <=> r <= l
      BY <1>1, <2>6 DEF SnapshotInv, DoneUpTo
    <3> HIDE DEF l, n
    <3>2. l < t
      BY <1>1, <2>1, <3>1
    <3>3. ~(l + 1 < t)
      <4>1. SUFFICES ASSUME l + 1 < t
                     PROVE  FALSE
        OBVIOUS
      <4>2. l + 1 \in 1..n
        BY <1>1, <3>1, <4>1
      <4>3. tick[l + 1].phase = "done"
        BY <1>1, <2>5, <4>1, <4>2
      <4>4. l + 1 <= l
        BY <3>1, <4>2, <4>3
      <4> QED
        BY <3>1, <4>4
    <3>4. t = l + 1
      BY <1>1, <3>1, <3>2, <3>3
    <3> QED
      BY <3>4 DEF l
  <2>7. \A i \in 1..Len(p) - 1 : p[i + 1].tick = p[i].tick + 1
    BY <2>2, <2>3, <2>6 DEF SnapshotInv
  <2>8. DoneUpTo(tick', p)
    <3>1. ASSUME NEW u \in DOMAIN tick
          PROVE  tick'[u].phase = "done" <=> u <= t
      <4>1. u \in Nat /\ t \in Nat
        BY <1>1
      <4>2. u < t \/ u = t \/ t < u
        BY <4>1
      <4>3. CASE u < t
        BY <2>4, <2>5, <4>1, <4>3
      <4>4. CASE u = t
        BY <2>4, <4>1, <4>4
      <4>5. CASE t < u
        BY <2>4, <2>5, <4>1, <4>5
      <4> QED
        BY <4>2, <4>3, <4>4, <4>5
    <3> QED
      BY <2>2, <2>3, <2>4, <3>1 DEF DoneUpTo
  <2>9. ASSUME NEW v \in Viewer
        PROVE  Shown(viewer'[v], p)
    <3>1. CASE viewer[v].state = "open"
      <4> DEFINE q == viewer[v].seen
      <4>1. viewer[v] \in ViewerRecord /\ q \in Seq(Nat) /\ t \in Nat
        BY <1>1 DEF Base, ViewerRecord
      <4>2. /\ Consecutive(q) /\ (history = <<>> => q = <<>>)
            /\ history # <<>> => q # <<>> /\ Last(q) = Last(history).tick
        BY <3>1 DEF SnapshotInv, Shown
      <4>3. viewer'[v].seen = Append(q, t)
        BY <2>1, <3>1, <4>1 DEF Broadcast, ViewerRecord
      <4> HIDE DEF q
      <4>4. q # <<>> => t = Last(q) + 1
        BY <2>6, <4>2
      <4>5. Consecutive(Append(q, t)) /\ Append(q, t) # <<>> /\ Last(Append(q, t)) = t
        BY <4>1, <4>2, <4>4, NextNumber
      <4> QED
        BY <2>2, <2>3, <4>3, <4>5 DEF Shown
    <3>2. CASE viewer[v].state # "open"
      BY <2>1, <3>2 DEF Broadcast, Shown
    <3> QED
      BY <3>1, <3>2
  <2> QED
    BY <2>1, <2>7, <2>8, <2>9 DEF SnapshotInv
<1> QED
  BY <1>2, <1>3, <1>4, <1>5 DEF Effect

\* The history is without a gap, and so is what a dashboard has seen.
LEMMA SnapshotsByInvariant ==
    ASSUME Base, SnapshotInv
    PROVE  SnapshotsInOrder
<1> DEFINE numbers == [i \in DOMAIN history |-> history[i].tick]
<1>1. /\ Len(numbers) = Len(history) /\ Len(history) \in Nat
      /\ \A i \in 1..Len(history) : numbers[i] = history[i].tick
  BY HistoryTicks DEF Base
<1> HIDE DEF numbers
<1>2. \A i \in 1..Len(history) - 1 : i \in 1..Len(history) /\ i + 1 \in 1..Len(history)
  BY <1>1
<1>3. Consecutive(numbers)
  BY <1>1, <1>2 DEF Consecutive, SnapshotInv
<1>4. \A v \in Viewer : viewer[v].state = "open" =>
         /\ Consecutive(viewer[v].seen)
         /\ history # <<>> => viewer[v].seen # <<>> /\ Last(viewer[v].seen) = Last(history).tick
  BY DEF SnapshotInv, Shown
<1> QED
  BY <1>3, <1>4 DEF SnapshotsInOrder, numbers

-----------------------------------------------------------------------------
\* For any clients, chunks, shards, dashboards and deaths of workers, no command is lost
\* between two ticks or counted in both (telemetry-collector.ts, recordCommand and tick).
THEOREM NothingCountedTwice == ServerSpec => []CountsPartition
<1>1. ServerInit => Base /\ CountInv
  <2>1. ASSUME ServerInit
        PROVE  CountInv
    <3>1. /\ tick = <<>> /\ history = <<>> /\ totalCommands = 0 /\ commandCountInterval = 0
      BY <2>1 DEF ServerInit, TelemetryInit
    <3>2. Len(tick) = 0 /\ DOMAIN tick = {} /\ DOMAIN history = {} /\ Before(0) = 0
      BY <3>1 DEF Before
    <3> QED
      BY <3>1, <3>2 DEF CountInv, CountsPartition
  <2> QED
    BY <2>1, BaseStart
<1>2. Base /\ CountInv /\ [Next]_serverVars => (Base /\ CountInv)'
  BY BaseStep, CountStep
<1>3. CountInv => CountsPartition
  BY DEF CountInv
<1> QED
  BY <1>1, <1>2, <1>3, PTL DEF ServerSpec

\* Snapshots come out in the order of their ticks, and every dashboard that is open gets
\* each once, however the ticks overlap (telemetry-collector.ts, tick).
THEOREM TicksEndInOrder == ServerSpec => []SnapshotsInOrder
<1>1. ServerInit => Base /\ SnapshotInv
  <2>1. ASSUME ServerInit
        PROVE  SnapshotInv
    <3>1. /\ tick = <<>> /\ history = <<>>
          /\ viewer = [v \in Viewer |-> [state |-> "new", seen |-> <<>>]]
      BY <2>1 DEF ServerInit, TelemetryInit
    <3>2. Len(history) = 0 /\ DOMAIN tick = {} /\ \A v \in Viewer : viewer[v].state = "new"
      BY <3>1
    <3> QED
      BY <3>1, <3>2 DEF SnapshotInv, DoneUpTo, Shown
  <2> QED
    BY <2>1, BaseStart
<1>2. Base /\ SnapshotInv /\ [Next]_serverVars => (Base /\ SnapshotInv)'
  BY BaseStep, SnapshotStep
<1>3. Base /\ SnapshotInv => SnapshotsInOrder
  BY SnapshotsByInvariant
<1> QED
  BY <1>1, <1>2, <1>3, PTL DEF ServerSpec

\* A client of a cluster reads the answers to its first requests, each once and in their
\* order, and none behind that of QUIT (cluster-server.ts, handleClient).
THEOREM AnswersKeepOrder == ServerSpec => []RepliesInOrder
<1>1. ServerInit => Base
  BY BaseStart
<1>2. Base /\ [Next]_serverVars => Base'
  BY BaseStep
<1>3. Base => RepliesInOrder
  BY DEF Base, ConnInv, Served, Good, Replied, RepliesInOrder
<1> QED
  BY <1>1, <1>2, <1>3, PTL DEF ServerSpec
=============================================================================
