--------------------------- MODULE RespServerProofs ---------------------------
(***************************************************************************)
(* The order of requests and replies of the TCP server, the end of its     *)
(* pauses, its hold on socket errors and the quiet after stop, for every   *)
(* number of connections, high-water mark and chunk a client may send.     *)
(*                                                                         *)
(* What a connection was asked is in five places: on the wire, in the      *)
(* queue, in the turn under way, among the turn's replies and among those  *)
(* written.  Ordered says that the numbers go on from each place to the    *)
(* next; it holds while the socket is open.  Afterwards only InLine is     *)
(* left, which the replies keep when output is thrown away.                *)
(***************************************************************************)
EXTENDS RespServer, SequenceTheorems, LeastNumber

Sockets == {"none", "open", "ended", "destroyed", "closed"}
Turn == [on : BOOLEAN, todo : Seq(Request), replies : Seq(Nat), logging : BOOLEAN]
Record ==
    [socket : Sockets, wire : Seq(Seq(Request)), sent : Nat, paused : BOOLEAN, readEnded : BOOLEAN,
     outbox : Seq(Nat), needDrain : BOOLEAN, failed : BOOLEAN, delivered : Seq(Nat),
     isClosing : BOOLEAN, isDestroyed : BOOLEAN, isDraining : BOOLEAN,
     processingQueue : Seq(Seq(Request)), running : Turn, stuck : BOOLEAN,
     listening : BOOLEAN, executed : Seq(Request)]

\* While the client can be heard, so can the socket's errors.
Heard(x) ==
    /\ Reads(x) => x.listening
    /\ x.failed => x.listening /\ x.socket = "destroyed"

\* Where a connection is on its way to the end.
Ends(x) ==
    /\ x.socket = "ended" => x.isClosing
    /\ x.socket \in {"none", "open"} => ~x.isClosing
    /\ x.isDestroyed => x.isClosing /\ Gone(x)

\* Reading is paused for output that is still to come.
Paused(x) ==
    x.socket = "open" =>
        /\ x.paused => x.isDraining
        /\ x.isDraining => x.needDrain /\ x.outbox # <<>>

\* A turn has something to do, and so will every later one.
Turns(x) ==
    /\ x.running.on \/ x.running = Idle
    /\ x.running.on => x.running.todo # <<>>
    /\ \A i \in DOMAIN x.processingQueue : x.processingQueue[i] # <<>>

Basic(x) == x \in Record /\ Heard(x) /\ Ends(x) /\ Paused(x) /\ Turns(x)

\* It was connected, and nobody but its own methods has ended it.
Going(x) == x.socket = "open" \/ x.isClosing

\* QUIT closes the connection and ends the turn.
Quits(x) ==
    \A i \in DOMAIN x.executed :
        x.executed[i].kind = "quit" => i = Len(x.executed) /\ x.isClosing /\ ~x.running.on

-----------------------------------------------------------------------------
(***************************************************************************)
(* The numbers of requests and replies.                                    *)
(***************************************************************************)
\* Up to the first error the n-th reply answers request n; others answer a later one
\* than all before them.
InLine(s) ==
    \A i \in DOMAIN s :
        /\ (\A j \in 1..i : s[j] # ErrorReply) => s[i] = i
        /\ \A j \in 1..i - 1 : s[i] # ErrorReply => s[j] < s[i]

\* No reply answers a request behind r, and without an error all up to r have one.
UpTo(s, r) ==
    /\ \A i \in DOMAIN s : s[i] <= r
    /\ (\A i \in DOMAIN s : s[i] # ErrorReply) => Len(s) = r

\* What a turn has not written yet and what it has not executed are requests r+1 to m.
Piece(t, r, m) ==
    /\ \A i \in DOMAIN t.replies : t.replies[i] = r + i
    /\ \A i \in DOMAIN t.todo : t.todo[i].id = r + Len(t.replies) + i
    /\ m = r + Len(t.replies) + Len(t.todo)

\* Chunk j of q has the requests behind b[j], up to b[j + 1].
Cuts(q, b) ==
    \A j \in DOMAIN q :
        /\ b[j + 1] = b[j] + Len(q[j])
        /\ \A i \in DOMAIN q[j] : q[j][i].id = b[j] + i

\* The chunks of q have the requests m+1 to n.
Chunked(q, m, n) ==
    \E b \in [1..Len(q) + 1 -> Nat] : b[1] = m /\ b[Len(q) + 1] = n /\ Cuts(q, b)

\* r were answered, m had their turn, k have left the wire.
Ordered(x) ==
    x.socket = "open" =>
        \E r, m, k \in Nat :
            /\ UpTo(Sent(x), r)
            /\ Piece(x.running, r, m)
            /\ Chunked(x.processingQueue, m, k)
            /\ Chunked(x.wire, k, x.sent)

Sane(x) == Basic(x) /\ Quits(x) /\ InLine(Sent(x)) /\ Ordered(x)

\* What the prover has to know of two sequences of replies in a row.
LEMMA Concatenated ==
    ASSUME NEW s \in Seq(Nat), NEW t \in Seq(Nat)
    PROVE  /\ s \o t \in Seq(Nat) /\ Len(s \o t) = Len(s) + Len(t)
           /\ Len(s) \in Nat /\ Len(t) \in Nat
           /\ DOMAIN s = 1..Len(s) /\ DOMAIN t = 1..Len(t)
           /\ DOMAIN (s \o t) = 1..Len(s) + Len(t)
           /\ \A i \in 1..Len(s) : (s \o t)[i] = s[i]
           /\ \A i \in 1..Len(t) : (s \o t)[Len(s) + i] = t[i]
           /\ \A i \in 1..Len(s) + Len(t) : i \in 1..Len(s) \/ i - Len(s) \in 1..Len(t)
           /\ \A i \in 1..Len(s) + Len(t) :
                 (s \o t)[i] = IF i <= Len(s) THEN s[i] ELSE t[i - Len(s)]
<1>1. Len(s) \in Nat /\ Len(t) \in Nat /\ DOMAIN s = 1..Len(s) /\ DOMAIN t = 1..Len(t)
  BY LenProperties
<1>2. /\ s \o t \in Seq(Nat) /\ Len(s \o t) = Len(s) + Len(t)
      /\ \A i \in 1..Len(s) + Len(t) : (s \o t)[i] = IF i <= Len(s) THEN s[i] ELSE t[i - Len(s)]
  BY ConcatProperties
<1> QED
  BY <1>1, <1>2, LenProperties

\* Replies to the next requests keep their order.
LEMMA RepliesFollow ==
    ASSUME NEW s \in Seq(Nat), NEW t \in Seq(Nat), NEW r \in Nat, InLine(s), UpTo(s, r),
           \A i \in DOMAIN t : t[i] = r + i
    PROVE  InLine(s \o t) /\ UpTo(s \o t, r + Len(t))
<1> DEFINE u == s \o t
<1>1. /\ u \in Seq(Nat) /\ Len(u) = Len(s) + Len(t)
      /\ Len(s) \in Nat /\ Len(t) \in Nat
      /\ DOMAIN s = 1..Len(s) /\ DOMAIN t = 1..Len(t) /\ DOMAIN u = 1..Len(s) + Len(t)
      /\ \A i \in 1..Len(s) + Len(t) : u[i] = IF i <= Len(s) THEN s[i] ELSE t[i - Len(s)]
      /\ \A i \in 1..Len(s) : s[i] \in Nat
  BY Concatenated, ElementOfSeq
<1>2. ASSUME NEW i \in 1..Len(s) + Len(t), i > Len(s)
      PROVE  u[i] = r + (i - Len(s))
  <2>1. i - Len(s) \in DOMAIN t /\ ~(i <= Len(s))
    BY <1>1, <1>2
  <2> QED
    BY <1>1, <2>1
<1>3. \A i \in 1..Len(s) : i \in 1..Len(s) + Len(t) /\ u[i] = s[i]
  BY <1>1
<1> HIDE DEF u
<1> DEFINE a == Len(s)
           b == Len(t)
<1>4. /\ a \in Nat /\ b \in Nat /\ DOMAIN s = 1..a /\ DOMAIN u = 1..a + b
      /\ \A i \in 1..a : s[i] \in Nat /\ u[i] = s[i]
      /\ \A i \in 1..a + b : i > a => u[i] = r + (i - a)
  BY <1>1, <1>2, <1>3
<1>5. /\ \A i \in 1..a : s[i] <= r
      /\ (\A i \in 1..a : s[i] # ErrorReply) => a = r
  BY <1>1 DEF UpTo
<1>6. \A i \in 1..a : /\ (\A j \in 1..i : s[j] # ErrorReply) => s[i] = i
                      /\ \A j \in 1..i - 1 : s[i] # ErrorReply => s[j] < s[i]
  BY <1>1 DEF InLine
<1> HIDE DEF a, b
<1>7. UpTo(u, r + b)
  <2>1. \A i \in 1..a + b : u[i] <= r + b
    <3> SUFFICES ASSUME NEW i \in 1..a + b PROVE u[i] <= r + b
      OBVIOUS
    <3>1. CASE i <= a
      BY <1>4, <1>5, <3>1
    <3>2. CASE i > a
      BY <1>4, <3>2
    <3> QED
      BY <1>4, <3>1, <3>2
  <2>2. ASSUME \A i \in DOMAIN u : u[i] # ErrorReply
        PROVE  a = r
    <3>1. ASSUME NEW i \in 1..a
          PROVE  s[i] # ErrorReply
      <4>1. i \in DOMAIN u /\ u[i] = s[i]
        BY <1>4
      <4> QED
        BY <2>2, <4>1
    <3> QED
      BY <1>5, <3>1
  <2>3. Len(u) = a + b
    BY <1>1 DEF a, b, u
  <2>4. \A i \in DOMAIN u : u[i] <= r + b
    BY <1>4, <2>1
  <2>5. ASSUME \A i \in DOMAIN u : u[i] # ErrorReply
        PROVE  Len(u) = r + b
    <3>1. a = r
      BY <2>2, <2>5
    <3> QED
      BY <2>3, <3>1
  <2> QED
    BY <2>4, <2>5 DEF UpTo
<1>8. ASSUME NEW i \in 1..a + b, \A j \in 1..i : u[j] # ErrorReply
      PROVE  u[i] = i
  <2>1. CASE i <= a
    <3>1. i \in 1..a /\ u[i] = s[i]
      BY <1>4, <2>1
    <3>2. ASSUME NEW j \in 1..i
          PROVE  s[j] # ErrorReply
      <4>1. j \in 1..a /\ u[j] = s[j]
        BY <1>4, <2>1
      <4> QED
        BY <1>8, <4>1
    <3> QED
      BY <1>6, <3>1, <3>2
  <2>2. CASE i > a
    <3>1. ASSUME NEW j \in 1..a
          PROVE  s[j] # ErrorReply
      <4>1. j \in 1..i /\ u[j] = s[j]
        BY <1>4, <2>2
      <4> QED
        BY <1>8, <4>1
    <3>2. a = r
      BY <1>5, <3>1
    <3> QED
      BY <1>4, <2>2, <3>2
  <2> QED
    BY <1>4, <2>1, <2>2
<1>9. ASSUME NEW i \in 1..a + b, NEW j \in 1..i - 1, u[i] # ErrorReply
      PROVE  u[j] < u[i]
  <2>1. CASE i <= a
    <3>1. i \in 1..a /\ j \in 1..a /\ u[i] = s[i] /\ u[j] = s[j]
      BY <1>4, <2>1
    <3> QED
      BY <1>6, <1>9, <3>1
  <2>2. CASE i > a /\ j <= a
    <3>1. j \in 1..a /\ u[j] = s[j] /\ u[i] = r + (i - a)
      BY <1>4, <2>2
    <3> QED
      BY <1>4, <1>5, <2>2, <3>1
  <2>3. CASE i > a /\ j > a
    <3>1. j \in 1..a + b /\ u[j] = r + (j - a) /\ u[i] = r + (i - a)
      BY <1>4, <2>3
    <3> QED
      BY <1>4, <2>3, <3>1
  <2> QED
    BY <1>4, <2>1, <2>2, <2>3
<1>10. InLine(u)
  BY <1>4, <1>8, <1>9 DEF InLine
<1> QED
  BY <1>7, <1>10 DEF u, b

\* So does an error, whatever requests it leaves without a reply.
LEMMA ErrorFollows ==
    ASSUME NEW s \in Seq(Nat), NEW r \in Nat, NEW m \in Nat, r <= m, InLine(s), UpTo(s, r)
    PROVE  InLine(s \o <<ErrorReply>>) /\ UpTo(s \o <<ErrorReply>>, m)
<1> DEFINE u == s \o <<ErrorReply>>
<1>1. <<ErrorReply>> \in Seq(Nat) /\ Len(<<ErrorReply>>) = 1
  BY DEF ErrorReply
<1>2. /\ u \in Seq(Nat) /\ Len(u) = Len(s) + 1
      /\ Len(s) \in Nat /\ DOMAIN s = 1..Len(s) /\ DOMAIN u = 1..Len(s) + 1
      /\ \A i \in 1..Len(s) + 1 : u[i] = IF i <= Len(s) THEN s[i] ELSE <<ErrorReply>>[i - Len(s)]
      /\ \A i \in 1..Len(s) : s[i] \in Nat
  BY <1>1, Concatenated, ElementOfSeq
<1>3. \A i \in 1..Len(s) + 1 : u[i] = IF i <= Len(s) THEN s[i] ELSE ErrorReply
  BY <1>2
<1> HIDE DEF u
<1>4. UpTo(u, m)
  <2>1. ASSUME NEW i \in DOMAIN u
        PROVE  u[i] <= m
    <3>1. CASE i <= Len(s)
      <4>1. i \in DOMAIN s /\ u[i] = s[i] /\ s[i] \in Nat
        BY <1>2, <1>3, <3>1
      <4> QED
        BY <4>1 DEF UpTo
    <3>2. CASE i > Len(s)
      BY <1>2, <1>3, <3>2 DEF ErrorReply
    <3> QED
      BY <1>2, <3>1, <3>2
  <2>2. Len(s) + 1 \in DOMAIN u /\ u[Len(s) + 1] = ErrorReply
    BY <1>2, <1>3
  <2> QED
    BY <2>1, <2>2 DEF UpTo
<1>5. InLine(u)
  BY <1>2, <1>3 DEF InLine
<1> QED
  BY <1>4, <1>5 DEF u

\* What is cut off the end of the replies leaves the others in line.
LEMMA PrefixInLine ==
    ASSUME NEW s \in Seq(Nat), NEW t \in Seq(Nat), InLine(s \o t)
    PROVE  InLine(s)
<1>1. /\ Len(s) \in Nat /\ Len(t) \in Nat
      /\ DOMAIN s = 1..Len(s) /\ DOMAIN (s \o t) = 1..Len(s) + Len(t)
      /\ \A i \in 1..Len(s) : (s \o t)[i] = s[i]
  BY Concatenated
<1> QED
  BY <1>1 DEF InLine

-----------------------------------------------------------------------------
(***************************************************************************)
(* Chunks on their way.                                                    *)
(***************************************************************************)
\* No chunk, no request.
LEMMA NoChunks ==
    ASSUME NEW m \in Nat
    PROVE  Chunked(<<>>, m, m)
<1> DEFINE b == [j \in 1..1 |-> m]
<1>1. Len(<<>>) + 1 = 1 /\ DOMAIN <<>> = {}
  OBVIOUS
<1>2. b \in [1..1 -> Nat] /\ b[1] = m
  OBVIOUS
<1>3. Cuts(<<>>, b)
  BY <1>1 DEF Cuts
<1> HIDE DEF b
<1> QED
  BY <1>1, <1>2, <1>3 DEF Chunked

\* A chunk is sent, or gets into the queue.
LEMMA ChunkJoins ==
    ASSUME NEW q \in Seq(Seq(Request)), NEW m \in Nat, NEW n \in Nat, Chunked(q, m, n),
           NEW chunk \in Seq(Request), \A i \in DOMAIN chunk : chunk[i].id = n + i
    PROVE  Chunked(Append(q, chunk), m, n + Len(chunk))
<1> DEFINE l == Len(q)
           p == Append(q, chunk)
<1>1. PICK b \in [1..l + 1 -> Nat] : b[1] = m /\ b[l + 1] = n /\ Cuts(q, b)
  BY DEF Chunked
<1>2. l \in Nat /\ DOMAIN q = 1..l /\ Len(chunk) \in Nat
  BY LenProperties
<1>3. /\ Len(p) = l + 1 /\ DOMAIN p = 1..l + 1
      /\ \A j \in 1..l : p[j] = q[j]
      /\ p[l + 1] = chunk
  BY <1>2, AppendProperties, LenProperties
<1> HIDE DEF l, p
<1> DEFINE d == [j \in 1..l + 2 |-> IF j = l + 2 THEN n + Len(chunk) ELSE b[j]]
<1>4. /\ d \in [1..Len(p) + 1 -> Nat]
      /\ d[1] = m /\ d[l + 1] = n /\ d[Len(p) + 1] = n + Len(chunk)
      /\ \A j \in 1..l : d[j] = b[j] /\ d[j + 1] = b[j + 1]
  BY <1>1, <1>2, <1>3
<1> HIDE DEF d
<1>5. ASSUME NEW j \in DOMAIN p
      PROVE  /\ d[j + 1] = d[j] + Len(p[j])
             /\ \A i \in DOMAIN p[j] : p[j][i].id = d[j] + i
  <2>1. CASE j \in 1..l
    <3>1. j \in DOMAIN q /\ p[j] = q[j] /\ d[j] = b[j] /\ d[j + 1] = b[j + 1]
      BY <1>2, <1>3, <1>4, <2>1
    <3>2. /\ b[j + 1] = b[j] + Len(q[j])
          /\ \A i \in DOMAIN q[j] : q[j][i].id = b[j] + i
      BY <1>1, <3>1 DEF Cuts
    <3> QED
      BY <3>1, <3>2
  <2>2. CASE j = l + 1
    <3>1. p[j] = chunk /\ d[j] = n /\ j + 1 = Len(p) + 1
      BY <1>2, <1>3, <1>4, <2>2
    <3> QED
      BY <1>4, <3>1
  <2> QED
    BY <1>2, <1>3, <2>1, <2>2
<1>6. Cuts(p, d)
  BY <1>5 DEF Cuts
<1> QED
  BY <1>4, <1>6 DEF Chunked, p

\* The first chunk leaves.
LEMMA ChunkLeaves ==
    ASSUME NEW q \in Seq(Seq(Request)), q # <<>>, NEW m \in Nat, NEW n \in Nat, Chunked(q, m, n)
    PROVE  /\ \A i \in DOMAIN Head(q) : Head(q)[i].id = m + i
           /\ Chunked(Tail(q), m + Len(Head(q)), n)
<1> DEFINE l == Len(q)
           p == Tail(q)
<1>1. PICK b \in [1..l + 1 -> Nat] : b[1] = m /\ b[l + 1] = n /\ Cuts(q, b)
  BY DEF Chunked
<1>2. l \in Nat \ {0} /\ DOMAIN q = 1..l /\ q[1] = Head(q)
  BY LenProperties, EmptySeq, HeadTailProperties
<1>3. Len(p) = l - 1 /\ DOMAIN p = 1..l - 1 /\ \A j \in 1..l - 1 : p[j] = q[j + 1]
  BY <1>2, HeadTailProperties, LenProperties
<1>4. b[2] = m + Len(Head(q)) /\ \A i \in DOMAIN Head(q) : Head(q)[i].id = m + i
  <2>1. 1 \in DOMAIN q
    BY <1>2
  <2>2. b[1 + 1] = b[1] + Len(q[1]) /\ \A i \in DOMAIN q[1] : q[1][i].id = b[1] + i
    BY <1>1, <2>1 DEF Cuts
  <2>3. 1 + 1 = 2
    OBVIOUS
  <2> QED
    BY <1>1, <1>2, <2>2, <2>3
<1> HIDE DEF l, p
<1> DEFINE d == [j \in 1..l |-> b[j + 1]]
<1>5. /\ d \in [1..Len(p) + 1 -> Nat]
      /\ d[1] = b[2] /\ d[Len(p) + 1] = n
      /\ \A j \in 1..l - 1 : d[j] = b[j + 1] /\ d[j + 1] = b[(j + 1) + 1]
  BY <1>1, <1>2, <1>3
<1> HIDE DEF d
<1>6. ASSUME NEW j \in 1..l - 1
      PROVE  /\ d[j + 1] = d[j] + Len(p[j])
             /\ \A i \in DOMAIN p[j] : p[j][i].id = d[j] + i
  <2>1. j + 1 \in DOMAIN q
    BY <1>2
  <2>3. p[j] = q[j + 1] /\ d[j] = b[j + 1] /\ d[j + 1] = b[(j + 1) + 1]
    BY <1>3, <1>5, <2>1
  <2>2. /\ b[(j + 1) + 1] = b[j + 1] + Len(q[j + 1])
        /\ \A i \in DOMAIN q[j + 1] : q[j + 1][i].id = b[j + 1] + i
    BY <1>1, <2>1 DEF Cuts
  <2> QED
    BY <2>2, <2>3
<1>7. Cuts(p, d)
  BY <1>3, <1>6 DEF Cuts
<1> QED
  BY <1>4, <1>5, <1>7 DEF Chunked, p

\* The waiting chunks and those on the wire follow each other.
LEMMA ChunksJoin ==
    ASSUME NEW p \in Seq(Seq(Request)), NEW q \in Seq(Seq(Request)),
           NEW m \in Nat, NEW k \in Nat, NEW n \in Nat, Chunked(p, m, k), Chunked(q, k, n)
    PROVE  Chunked(p \o q, m, n)
<1> DEFINE l == Len(p)
           h == Len(q)
           u == p \o q
<1>1. PICK b \in [1..l + 1 -> Nat] : b[1] = m /\ b[l + 1] = k /\ Cuts(p, b)
  BY DEF Chunked
<1>2. PICK d \in [1..h + 1 -> Nat] : d[1] = k /\ d[h + 1] = n /\ Cuts(q, d)
  BY DEF Chunked
<1>3. l \in Nat /\ h \in Nat /\ DOMAIN p = 1..l /\ DOMAIN q = 1..h
  BY LenProperties
<1>4. /\ u \in Seq(Seq(Request)) /\ Len(u) = l + h /\ DOMAIN u = 1..l + h
      /\ \A j \in 1..l + h : u[j] = IF j <= l THEN p[j] ELSE q[j - l]
  BY ConcatProperties, LenProperties
<1> HIDE DEF l, h, u
<1> DEFINE e == [j \in 1..(l + h) + 1 |-> IF j <= l THEN b[j] ELSE d[j - l]]
<1>5. e \in [1..(l + h) + 1 -> Nat]
  <2>1. ASSUME NEW j \in 1..(l + h) + 1
        PROVE  (IF j <= l THEN b[j] ELSE d[j - l]) \in Nat
    <3>1. CASE j <= l
      BY <1>1, <1>3, <3>1
    <3>2. CASE j > l
      <4>1. j - l \in 1..h + 1
        BY <1>3, <3>2
      <4> QED
        BY <1>2, <1>3, <3>2, <4>1
    <3> QED
      BY <1>3, <3>1, <3>2
  <2> QED
    BY <2>1
<1>6. /\ \A j \in 1..l + 1 : e[j] = b[j]
      /\ \A j \in 1..h + 1 : e[l + j] = d[j]
  <2>1. ASSUME NEW j \in 1..h + 1
        PROVE  e[l + j] = d[j]
    <3>1. l + j \in 1..(l + h) + 1 /\ ~(l + j <= l) /\ (l + j) - l = j
      BY <1>3
    <3> QED
      BY <3>1
  <2>2. ASSUME NEW j \in 1..l + 1
        PROVE  e[j] = b[j]
    <3>1. CASE j <= l
      BY <1>3, <3>1
    <3>2. CASE j = l + 1
      BY <1>1, <1>2, <1>3, <2>1, <3>2
    <3> QED
      BY <1>3, <3>1, <3>2
  <2> QED
    BY <2>1, <2>2
<1> HIDE DEF e
<1>7. e[1] = m /\ e[Len(u) + 1] = n
  <2>1. 1 \in 1..l + 1 /\ h + 1 \in 1..h + 1 /\ l + (h + 1) = (l + h) + 1
    BY <1>3
  <2> QED
    BY <1>1, <1>2, <1>4, <1>6, <2>1
<1>8. ASSUME NEW j \in 1..l + h
      PROVE  /\ e[j + 1] = e[j] + Len(u[j])
             /\ \A i \in DOMAIN u[j] : u[j][i].id = e[j] + i
  <2>1. CASE j <= l
    <3>3. j \in 1..l /\ j \in 1..l + h /\ j \in 1..l + 1 /\ j + 1 \in 1..l + 1
      BY <1>3, <2>1
    <3>1. j \in DOMAIN p /\ u[j] = p[j] /\ e[j] = b[j] /\ e[j + 1] = b[j + 1]
      BY <1>3, <1>4, <1>6, <2>1, <3>3
    <3>2. b[j + 1] = b[j] + Len(p[j]) /\ \A i \in DOMAIN p[j] : p[j][i].id = b[j] + i
      BY <1>1, <3>1 DEF Cuts
    <3> QED
      BY <3>1, <3>2
  <2>2. CASE j > l
    <3> DEFINE g == j - l
    <3>4. j \in 1..l + h /\ ~(j <= l)
      BY <1>3, <2>2
    <3>5. g \in 1..h /\ j = l + g /\ j + 1 = l + (g + 1)
      BY <1>3, <3>4
    <3>1. g \in DOMAIN q /\ u[j] = q[g] /\ j = l + g /\ j + 1 = l + (g + 1)
      BY <1>3, <1>4, <3>4, <3>5
    <3>2. e[j] = d[g] /\ e[j + 1] = d[g + 1]
      <4>1. g \in 1..h + 1 /\ g + 1 \in 1..h + 1
        BY <1>3, <3>1
      <4> QED
        BY <1>6, <3>1, <4>1
    <3>3. d[g + 1] = d[g] + Len(q[g]) /\ \A i \in DOMAIN q[g] : q[g][i].id = d[g] + i
      BY <1>2, <3>1 DEF Cuts
    <3> QED
      BY <3>1, <3>2, <3>3
  <2> QED
    BY <1>3, <1>4, <2>1, <2>2
<1>9. Cuts(u, e)
  BY <1>4, <1>8 DEF Cuts
<1>10. e \in [1..Len(u) + 1 -> Nat]
  BY <1>4, <1>5
<1> QED
  BY <1>7, <1>9, <1>10 DEF Chunked, u

\* Flattening is defined by recursion; that it has a first value and goes on is shown
\* by a least number at which it would not.
Flattens(q, f, n) ==
    \A i \in 1..n : f[i] = IF i = 1 THEN q[1] ELSE f[i - 1] \o q[i]

\* The sums that FlattenSeq is made of exist: a shortest queue without them cannot be.
LEMMA FlattenDefined ==
    ASSUME NEW T, NEW q \in Seq(Seq(T)), q # <<>>
    PROVE  \E f \in [1..Len(q) -> Seq(T)] : Flattens(q, f, Len(q))
<1> DEFINE l == Len(q)
           Stuck == {n \in 1..l : ~ \E f \in [1..n -> Seq(T)] : Flattens(q, f, n)}
<1>1. l \in Nat \ {0} /\ \A i \in 1..l : q[i] \in Seq(T)
  BY EmptySeq, ElementOfSeq
<1> HIDE DEF l
<1>2. SUFFICES ASSUME Stuck # {}
               PROVE  FALSE
  <2>1. l \in 1..l
    BY <1>1
  <2> QED
    BY <1>2, <2>1 DEF l
<1>3. PICK n \in Stuck : \A j \in Stuck : n <= j
  <2>1. Stuck \in SUBSET Nat
    BY <1>1
  <2> HIDE DEF Stuck
  <2> QED
    BY <1>2, <2>1, Least
<1>4. n \in 1..l /\ n \in Nat /\ ~ \E f \in [1..n -> Seq(T)] : Flattens(q, f, n)
  BY <1>1, <1>3
<1>5. CASE n = 1
  <2> DEFINE f == [i \in 1..1 |-> q[1]]
  <2>1. f \in [1..n -> Seq(T)] /\ Flattens(q, f, n)
    BY <1>1, <1>5 DEF Flattens
  <2> QED
    BY <1>4, <2>1
<1>6. CASE n > 1
  <2>0. n - 1 \in 1..l
    BY <1>1, <1>4, <1>6
  <2>1. n - 1 \notin Stuck
    <3> HIDE DEF Stuck
    <3> QED
      BY <1>3, <1>4
  <2>2. PICK g \in [1..n - 1 -> Seq(T)] : Flattens(q, g, n - 1)
    BY <2>0, <2>1
  <2> DEFINE f == [i \in 1..n |-> IF i = n THEN g[n - 1] \o q[n] ELSE g[i]]
  <2>3. g[n - 1] \o q[n] \in Seq(T)
    <3>1. n - 1 \in 1..n - 1
      BY <1>4, <1>6
    <3>2. g[n - 1] \in Seq(T) /\ q[n] \in Seq(T)
      BY <1>1, <1>4, <2>2, <3>1
    <3> QED
      BY <3>2, ConcatProperties
  <2>4. f \in [1..n -> Seq(T)]
    BY <1>4, <2>2, <2>3
  <2>5. ASSUME NEW i \in 1..n
        PROVE  f[i] = IF i = 1 THEN q[1] ELSE f[i - 1] \o q[i]
    <3>1. CASE i = n
      <4>1. n - 1 \in 1..n /\ n - 1 # n /\ i # 1
        BY <1>4, <1>6, <3>1
      <4> QED
        BY <3>1, <4>1
    <3>2. CASE i < n
      <4>1. i \in 1..n - 1 /\ i \in 1..n /\ i # n /\ (i # 1 => i - 1 \in 1..n /\ i - 1 # n)
        BY <1>4, <3>2
      <4>2. g[i] = IF i = 1 THEN q[1] ELSE g[i - 1] \o q[i]
        BY <2>2, <4>1 DEF Flattens
      <4>3. f[i] = g[i] /\ (i # 1 => f[i - 1] = g[i - 1])
        BY <4>1
      <4> HIDE DEF f
      <4> QED
        BY <4>2, <4>3
    <3> QED
      BY <1>4, <3>1, <3>2
  <2>6. Flattens(q, f, n)
    BY <2>5 DEF Flattens
  <2> HIDE DEF f
  <2> QED
    BY <1>4, <2>4, <2>6
<1> QED
  BY <1>4, <1>5, <1>6

\* FlattenSeq is the last of those sums.
LEMMA FlattenFirst ==
    ASSUME NEW T, NEW q \in Seq(Seq(T)), q # <<>>
    PROVE  \E f : Flattens(q, f, Len(q)) /\ FlattenSeq(q) = f[Len(q)]
<1> DEFINE Unfolds(f) == f = [i \in 1..Len(q) |-> IF i = 1 THEN q[i] ELSE f[i - 1] \o q[i]]
           F == CHOOSE f : Unfolds(f)
<1>1. Len(q) \in Nat \ {0}
  BY EmptySeq
<1>2. PICK f \in [1..Len(q) -> Seq(T)] : Flattens(q, f, Len(q))
  BY FlattenDefined
<1>3. Unfolds(f)
  <2> DEFINE g == [i \in 1..Len(q) |-> IF i = 1 THEN q[i] ELSE f[i - 1] \o q[i]]
  <2>1. \A i \in 1..Len(q) : f[i] = g[i]
    BY <1>2 DEF Flattens
  <2> QED
    BY <1>2, <2>1
<1>4. Unfolds(F)
  <2> HIDE DEF Unfolds
  <2> QED
    BY <1>3
<1>5. FlattenSeq(q) = F[Len(q)]
  BY <1>1 DEF FlattenSeq
<1> HIDE DEF F
<1>6. \A i \in 1..Len(q) : F[i] = IF i = 1 THEN q[i] ELSE F[i - 1] \o q[i]
  BY <1>4
<1>7. Flattens(q, F, Len(q))
  BY <1>6 DEF Flattens
<1> QED
  BY <1>5, <1>7

Numbers(s, m, n) ==
    s \in Seq(Request) /\ m + Len(s) = n /\ \A i \in DOMAIN s : s[i].id = m + i

\* All requests of chunks that follow each other are requests m+1 to n.
LEMMA FlattenNumbers ==
    ASSUME NEW q \in Seq(Seq(Request)), NEW m \in Nat, NEW n \in Nat, Chunked(q, m, n)
    PROVE  Numbers(FlattenSeq(q), m, n)
<1> DEFINE l == Len(q)
<1>1. PICK b \in [1..l + 1 -> Nat] : b[1] = m /\ b[l + 1] = n /\ Cuts(q, b)
  BY DEF Chunked
<1>2. l \in Nat /\ DOMAIN q = 1..l /\ \A i \in 1..l : q[i] \in Seq(Request) /\ Len(q[i]) \in Nat
  BY LenProperties, ElementOfSeq
<1>3. CASE q = <<>>
  <2>1. FlattenSeq(q) = <<>> /\ m = n
    BY <1>1, <1>3 DEF FlattenSeq
  <2>2. <<>> \in Seq(Request) /\ Len(<<>>) = 0 /\ DOMAIN <<>> = {}
    BY EmptySeq
  <2> QED
    BY <2>1, <2>2 DEF Numbers
<1>4. CASE q # <<>>
  <2>1. PICK f : Flattens(q, f, l) /\ FlattenSeq(q) = f[l]
    BY <1>4, FlattenFirst
  <2>2. l # 0
    BY <1>4, EmptySeq
  <2> HIDE DEF l
  <2> DEFINE Wrong == {i \in 1..l : ~Numbers(f[i], m, b[i + 1])}
  <2>3. SUFFICES ASSUME Wrong # {}
                 PROVE  FALSE
    <3>1. l \in 1..l
      BY <1>2, <2>2
    <3>2. ASSUME Wrong = {}
          PROVE  Numbers(f[l], m, n)
      BY <1>1, <3>1, <3>2
    <3> QED
      BY <2>1, <2>3, <3>2
  <2>4. PICK i \in Wrong : \A j \in Wrong : i <= j
    <3>1. Wrong \in SUBSET Nat
      BY <1>2
    <3> HIDE DEF Wrong
    <3> QED
      BY <2>3, <3>1, Least
  <2>5. i \in 1..l /\ i \in Nat /\ ~Numbers(f[i], m, b[i + 1])
    BY <1>2, <2>4
  <2>6. /\ b[i + 1] = b[i] + Len(q[i])
        /\ \A k \in DOMAIN q[i] : q[i][k].id = b[i] + k
    BY <1>1, <1>2, <2>5 DEF Cuts
  <2>7. q[i] \in Seq(Request) /\ b[i] \in Nat
    BY <1>1, <1>2, <2>5
  <2>8. CASE i = 1
    <3>1. f[i] = q[i] /\ b[i] = m
      BY <1>1, <2>1, <2>5, <2>8 DEF Flattens
    <3> QED
      BY <2>5, <2>6, <2>7, <3>1 DEF Numbers
  <2>9. CASE i # 1
    <3> DEFINE s == f[i - 1]
    <3>1. f[i] = s \o q[i]
      BY <2>1, <2>5, <2>9 DEF Flattens
    <3>2. i - 1 \in 1..l /\ (i - 1) + 1 = i
      BY <1>2, <2>5, <2>9
    <3>3. i - 1 \notin Wrong
      <4> HIDE DEF Wrong
      <4> QED
        BY <2>4, <2>5
    <3>4. Numbers(s, m, b[i])
      BY <3>2, <3>3
    <3> HIDE DEF s, Wrong
    <3>5. /\ s \in Seq(Request) /\ Len(s) \in Nat /\ DOMAIN s = 1..Len(s) /\ b[i] = m + Len(s)
          /\ Len(q[i]) \in Nat /\ DOMAIN q[i] = 1..Len(q[i])
      BY <2>7, <3>4, LenProperties DEF Numbers
    <3> DEFINE u == f[i]
    <3>6. /\ u \in Seq(Request) /\ Len(u) = Len(s) + Len(q[i])
          /\ DOMAIN u = 1..Len(s) + Len(q[i])
          /\ \A k \in 1..Len(s) + Len(q[i]) :
                u[k] = IF k <= Len(s) THEN s[k] ELSE q[i][k - Len(s)]
      BY <2>7, <3>1, <3>5, ConcatProperties, LenProperties
    <3> HIDE DEF u
    <3>7. ASSUME NEW k \in 1..Len(s) + Len(q[i])
          PROVE  u[k].id = m + k
      <4>1. CASE k <= Len(s)
        <5>1. k \in DOMAIN s
          BY <3>5, <4>1
        <5>2. s[k].id = m + k
          BY <3>4, <5>1 DEF Numbers
        <5> QED
          BY <3>6, <4>1, <5>2
      <4>2. CASE k > Len(s)
        <5>1. k - Len(s) \in DOMAIN q[i] /\ ~(k <= Len(s))
          BY <3>5, <4>2
        <5>2. q[i][k - Len(s)].id = b[i] + (k - Len(s))
          BY <2>6, <5>1
        <5>3. b[i] + (k - Len(s)) = m + k
          BY <3>5
        <5> QED
          BY <3>6, <5>1, <5>2, <5>3
      <4> QED
        BY <3>5, <4>1, <4>2
    <3>8. m + Len(u) = b[i + 1]
      <4> DEFINE x == Len(s)
                 y == Len(q[i])
                 z == b[i]
      <4>3. x \in Nat /\ y \in Nat /\ z = m + x
        BY <3>5
      <4> HIDE DEF x, y, z
      <4>4. z + y = m + (x + y)
        BY <4>3
      <4>1. b[i] + Len(q[i]) = m + (Len(s) + Len(q[i]))
        BY <4>4 DEF x, y, z
      <4>2. Len(u) = Len(s) + Len(q[i])
        BY <3>6
      <4> QED
        BY <2>6, <4>1, <4>2
    <3>9. Numbers(u, m, b[i + 1])
      BY <3>6, <3>7, <3>8 DEF Numbers
    <3> QED
      BY <2>5, <3>9 DEF u
  <2> QED
    BY <2>8, <2>9
<1> QED
  BY <1>3, <1>4

-----------------------------------------------------------------------------
(***************************************************************************)
(* The methods of a connection.                                            *)
(***************************************************************************)
\* Nothing happens to its requests, and it does not come back.
SameWork(x, y) ==
    /\ y.running = x.running /\ y.processingQueue = x.processingQueue
    /\ y.wire = x.wire /\ y.sent = x.sent /\ y.executed = x.executed
    /\ y.delivered = x.delivered
    /\ x.isClosing => y.isClosing

\* The replies are behind those of before, or the socket is not open any more.
Says(x, y, replies) ==
    /\ SameWork(x, y)
    /\ \/ x.socket = "open" /\ y.socket = "open" /\ y.outbox = x.outbox \o replies
       \/ y.socket # "open" /\ y.outbox \in {<<>>, x.outbox}

\* Replies are added to the output; with as many as HighWater it is not empty.
LEMMA Growing ==
    ASSUME NEW s \in Seq(Nat), NEW t \in Seq(Nat)
    PROVE  /\ s \o t \in Seq(Nat)
           /\ s # <<>> => s \o t # <<>>
           /\ Len(s \o t) \in Nat
           /\ Len(s \o t) >= HighWater => s \o t # <<>>
<1>1. s \o t \in Seq(Nat) /\ Len(s \o t) \in Nat
  BY ConcatProperties, LenProperties
<1>2. s # <<>> => s \o t # <<>>
  BY ConcatEqualIffEmpty
<1>3. Len(s \o t) >= HighWater => s \o t # <<>>
  BY <1>1, HighWaterAssumption, EmptySeq
<1> QED
  BY <1>1, <1>2, <1>3

\* A write to the socket of a connection that can still be heard.
LEMMA SocketWriteKeeps ==
    ASSUME NEW x, Basic(x), NEW replies \in Seq(Nat), Reads(x)
    PROVE  LET y == socketWrite(x, replies)
           IN  Basic(y) /\ Going(y) /\ Says(x, y, replies)
<1> DEFINE y == socketWrite(x, replies)
<1>1. x \in Record /\ x.outbox \in Seq(Nat)
  BY DEF Record, Basic
<1>2. /\ x.outbox \o replies \in Seq(Nat)
      /\ x.outbox # <<>> => x.outbox \o replies # <<>>
  BY <1>1, Growing
<1>3. y \in Record
  BY <1>1, <1>2, EmptySeq DEF Record, Sockets, socketWrite
<1>4. Heard(y) /\ Ends(y)
  BY <1>1 DEF Record, Basic, Heard, Ends, socketWrite, Reads, Gone
<1>5. Paused(y)
  BY <1>1, <1>2 DEF Record, Basic, Paused, socketWrite, Reads
<1>6. Turns(y)
  BY <1>1 DEF Record, Basic, Turns, socketWrite
<1>7. Going(y)
  BY <1>1 DEF Record, Basic, Ends, Going, Reads, socketWrite
<1>8. Says(x, y, replies)
  BY <1>1 DEF Record, Says, SameWork, Reads, socketWrite
<1> QED
  BY <1>3, <1>4, <1>5, <1>6, <1>7, <1>8 DEF Basic

\* Replies are written, held back or dropped.
LEMMA WriteKeeps ==
    ASSUME NEW x, Basic(x), Going(x), NEW replies \in Seq(Nat)
    PROVE  LET y == write(x, replies)
           IN  Basic(y) /\ Going(y) /\ Says(x, y, replies)
<1> DEFINE y == write(x, replies)
           z == socketWrite(x, replies)
<1>0. x \in Record
  BY DEF Basic
<1>1. CASE x.isDestroyed \/ Gone(x)
  <2>1. y = x /\ x.socket # "open"
    BY <1>0, <1>1 DEF write, Gone, Basic, Ends
  <2> QED
    BY <2>1 DEF Says, SameWork
<1>2. CASE ~(x.isDestroyed \/ Gone(x))
  <2>0. Reads(x)
    BY <1>0, <1>2 DEF Record, Sockets, Reads, Gone, Basic, Ends, Going
  <2>1. Basic(z) /\ Going(z) /\ Says(x, z, replies) /\ z \in Record
    BY <2>0, SocketWriteKeeps DEF Basic
  <2>3. CASE accepted(x, replies) \/ x.isDraining
    BY <1>2, <2>1, <2>3 DEF write
  <2>4. CASE ~(accepted(x, replies) \/ x.isDraining)
    <3>1. y = [z EXCEPT !.isDraining = TRUE, !.paused = TRUE]
      BY <1>2, <2>4 DEF write
    <3>2. y \in Record
      BY <2>1, <3>1 DEF Record
    <3>3. Heard(y) /\ Ends(y) /\ Turns(y)
      BY <2>1, <3>1 DEF Record, Basic, Heard, Ends, Turns, Reads, Gone
    <3>4. Paused(y)
      <4>1. SUFFICES ASSUME x.socket = "open"
                     PROVE  z.needDrain /\ z.outbox # <<>>
        BY <1>0, <2>0, <3>1 DEF Paused, socketWrite, Reads, Record
      <4>2. x.outbox \in Seq(Nat)
        BY <1>0 DEF Record
      <4>3. Len(x.outbox \o replies) \in Nat /\ HighWater \in Nat
        BY <4>2, Growing, HighWaterAssumption
      <4>4. Len(x.outbox \o replies) >= HighWater
        BY <2>4, <4>1, <4>3 DEF accepted
      <4>5. x.outbox \o replies # <<>>
        BY <4>2, <4>4, Growing
      <4> QED
        BY <1>0, <4>1, <4>4, <4>5 DEF socketWrite, Record
    <3>5. Going(y) /\ Says(x, y, replies)
      BY <2>1, <3>1 DEF Record, Going, Says, SameWork
    <3> QED
      BY <3>2, <3>3, <3>4, <3>5 DEF Basic
  <2> QED
    BY <2>3, <2>4
<1> QED
  BY <1>1, <1>2

\* An error is answered unless the connection is closing.
LEMMA ErrorKeeps ==
    ASSUME NEW x, Basic(x), Going(x)
    PROVE  LET y == handleParsingError(x)
           IN  Basic(y) /\ Going(y) /\ Says(x, y, <<ErrorReply>>)
<1>1. CASE x.isClosing \/ x.isDestroyed
  <2>1. handleParsingError(x) = x /\ x.socket # "open"
    BY <1>1 DEF handleParsingError, Basic, Ends, Gone
  <2> QED
    BY <2>1 DEF Says, SameWork
<1>2. CASE ~(x.isClosing \/ x.isDestroyed)
  <2>1. <<ErrorReply>> \in Seq(Nat)
    BY DEF ErrorReply
  <2>2. Reads(x)
    BY <1>2 DEF Reads, Going
  <2> QED
    BY <1>2, <2>1, <2>2, SocketWriteKeeps DEF handleParsingError
<1> QED
  BY <1>1, <1>2

\* Once the connection ends or is destroyed it stays so.
LEMMA GracefulCloseKeeps ==
    ASSUME NEW x, Basic(x), Going(x)
    PROVE  LET y == gracefulClose(x)
           IN  /\ Basic(y) /\ Says(x, y, <<>>)
               /\ y.isClosing /\ y.failed = x.failed /\ ~(y.socket = "open")
<1> DEFINE y == gracefulClose(x)
<1>0. x \in Record
  BY DEF Basic
<1>1. y \in Record
  <2>1. CASE x.isClosing \/ x.isDestroyed
    BY <1>0, <2>1 DEF gracefulClose
  <2>2. CASE ~(x.isClosing \/ x.isDestroyed)
    <3>1. y = [x EXCEPT !.isClosing = TRUE, !.socket = "ended"]
      BY <2>2 DEF gracefulClose
    <3> QED
      BY <1>0, <3>1 DEF Record, Sockets
  <2> QED
    BY <2>1, <2>2
<1>2. Heard(y) /\ Ends(y)
  BY <1>0 DEF Record, Basic, Heard, Ends, gracefulClose, Reads, Gone, Going
<1>3. Paused(y)
  BY <1>0 DEF Record, Basic, Paused, Ends, gracefulClose, Gone
<1>4. Turns(y)
  BY <1>0 DEF Record, Basic, Turns, gracefulClose
<1>5. y.isClosing /\ y.failed = x.failed
  BY <1>0 DEF Record, Basic, Ends, gracefulClose
<1>6. Says(x, y, <<>>) /\ y.socket # "open"
  BY <1>0 DEF Record, Basic, Ends, gracefulClose, Says, SameWork, Gone
<1> QED
  BY <1>1, <1>2, <1>3, <1>4, <1>5, <1>6 DEF Basic

\* A connection without an error to come can be destroyed.
LEMMA DestroyKeeps ==
    ASSUME NEW x, Basic(x), ~x.failed
    PROVE  LET y == destroy(x)
           IN  Basic(y) /\ Says(x, y, <<>>) /\ ~y.failed /\ y.isClosing
<1> DEFINE y == destroy(x)
<1>0. x \in Record
  BY DEF Basic
<1>1. y \in Record
  BY <1>0, EmptySeq DEF Record, Sockets, destroy, cleanup
<1>2. Heard(y) /\ Ends(y)
  BY <1>0 DEF Record, Basic, Heard, Ends, destroy, cleanup, Reads, Gone
<1>3. Paused(y)
  BY <1>0 DEF Record, Basic, Paused, Ends, destroy, cleanup, Gone
<1>4. Turns(y)
  BY <1>0 DEF Record, Basic, Turns, destroy, cleanup
<1>5. ~y.failed /\ y.isClosing
  BY <1>0 DEF Record, Basic, Ends, destroy, cleanup
<1>6. Says(x, y, <<>>)
  BY <1>0 DEF Record, Basic, Ends, destroy, cleanup, Says, SameWork, Gone
<1> QED
  BY <1>1, <1>2, <1>3, <1>4, <1>5, <1>6 DEF Basic

\* Ready for more output, and reading again unless it closes.
LEMMA DrainKeeps ==
    ASSUME NEW x \in Record, Heard(x), Ends(x), Turns(x)
    PROVE  LET y == handleDrain(x)
           IN  /\ Basic(y) /\ SameWork(x, y)
               /\ y.failed = x.failed /\ y.outbox = x.outbox /\ y.socket = x.socket
<1> DEFINE y == handleDrain(x)
<1>1. y \in Record
  BY DEF Record, handleDrain
<1>2. Heard(y) /\ Ends(y)
  BY DEF Record, Heard, Ends, handleDrain, Reads, Gone
<1>3. Paused(y)
  BY DEF Record, Paused, Ends, handleDrain, Gone
<1>4. Turns(y)
  BY DEF Record, Turns, handleDrain
<1>5. SameWork(x, y) /\ y.failed = x.failed /\ y.outbox = x.outbox /\ y.socket = x.socket
  BY DEF Record, SameWork, handleDrain
<1> QED
  BY <1>1, <1>2, <1>3, <1>4, <1>5 DEF Basic

\* The end of a turn.
LEMMA IdleKeeps ==
    ASSUME NEW x, Basic(x)
    PROVE  LET y == [x EXCEPT !.running = Idle]
           IN  /\ Basic(y) /\ y.running = Idle
               /\ \A f \in DOMAIN x \ {"running"} : y[f] = x[f]
<1> DEFINE y == [x EXCEPT !.running = Idle]
<1>0. x \in Record
  BY DEF Basic
<1>1. Idle \in Turn
  BY EmptySeq DEF Idle, Turn
<1>2. y \in Record /\ y.running = Idle /\ \A f \in DOMAIN x \ {"running"} : y[f] = x[f]
  BY <1>0, <1>1 DEF Record
<1>3. Heard(y) /\ Ends(y) /\ Paused(y)
  BY <1>0 DEF Record, Basic, Heard, Ends, Paused, Reads, Gone
<1>4. Turns(y)
  BY <1>0, <1>2 DEF Record, Basic, Turns, Idle
<1> QED
  BY <1>2, <1>3, <1>4 DEF Basic

-----------------------------------------------------------------------------
(***************************************************************************)
(* The order of the replies.                                               *)
(***************************************************************************)
\* The replies in the outbox, and new ones, behind those delivered.
LEMMA Associated ==
    ASSUME NEW s \in Seq(Nat), NEW t \in Seq(Nat), NEW u \in Seq(Nat)
    PROVE  (s \o t) \o u = s \o (t \o u)
BY ConcatAssociative

\* The replies of a turn are written behind those of the turns before.
LEMMA SaysInLine ==
    ASSUME NEW x \in Record, NEW y \in Record, NEW t \in Seq(Nat), NEW r \in Nat,
           Says(x, y, t), InLine(Sent(x)),
           x.socket = "open" => UpTo(Sent(x), r) /\ \A i \in DOMAIN t : t[i] = r + i
    PROVE  /\ InLine(Sent(y))
           /\ y.socket = "open" => UpTo(Sent(y), r + Len(t)) /\ x.socket = "open"
<1>1. /\ x.delivered \in Seq(Nat) /\ x.outbox \in Seq(Nat) /\ y.delivered = x.delivered
      /\ Sent(x) = x.delivered \o x.outbox /\ Sent(y) = x.delivered \o y.outbox
      /\ Sent(x) \in Seq(Nat)
  BY ConcatProperties DEF Record, Says, SameWork, Sent
<1>2. CASE x.socket = "open" /\ y.outbox = x.outbox \o t
  <2>1. Sent(y) = Sent(x) \o t
    <3>2. x.delivered \in Seq(Nat) /\ x.outbox \in Seq(Nat) /\ t \in Seq(Nat)
      BY <1>1
    <3>1. (x.delivered \o x.outbox) \o t = x.delivered \o (x.outbox \o t)
      BY <3>2, Associated
    <3> QED
      BY <1>1, <1>2, <3>1
  <2> QED
    BY <1>1, <1>2, <2>1, RepliesFollow
<1>3. CASE y.socket # "open" /\ y.outbox \in {<<>>, x.outbox}
  <2>1. CASE y.outbox = x.outbox
    BY <1>1, <1>3, <2>1
  <2>2. CASE y.outbox = <<>>
    <3>1. Sent(y) = x.delivered
      BY <1>1, <2>2, ConcatEmptySeq
    <3> QED
      BY <1>1, <1>3, <3>1, PrefixInLine
  <2> QED
    BY <1>3, <2>1, <2>2
<1> QED
  BY <1>2, <1>3 DEF Says

\* An error reply is written: the requests up to m have no other reply to come.
LEMMA ErrorInLine ==
    ASSUME NEW x \in Record, NEW y \in Record, NEW r \in Nat, NEW m \in Nat, r <= m,
           Says(x, y, <<ErrorReply>>), InLine(Sent(x)),
           x.socket = "open" => UpTo(Sent(x), r)
    PROVE  /\ InLine(Sent(y))
           /\ y.socket = "open" => UpTo(Sent(y), m) /\ x.socket = "open"
<1>1. /\ x.delivered \in Seq(Nat) /\ x.outbox \in Seq(Nat) /\ y.delivered = x.delivered
      /\ Sent(x) = x.delivered \o x.outbox /\ Sent(y) = x.delivered \o y.outbox
      /\ Sent(x) \in Seq(Nat)
  BY ConcatProperties DEF Record, Says, SameWork, Sent
<1>2. CASE x.socket = "open" /\ y.outbox = x.outbox \o <<ErrorReply>>
  <2>1. <<ErrorReply>> \in Seq(Nat)
    BY DEF ErrorReply
  <2>2. Sent(y) = Sent(x) \o <<ErrorReply>>
    <3>2. x.delivered \in Seq(Nat) /\ x.outbox \in Seq(Nat) /\ <<ErrorReply>> \in Seq(Nat)
      BY <2>1, <1>1
    <3>1. (x.delivered \o x.outbox) \o <<ErrorReply>> = x.delivered \o (x.outbox \o <<ErrorReply>>)
      BY <3>2, Associated
    <3> QED
      BY <1>1, <1>2, <3>1
  <2> QED
    BY <1>1, <1>2, <2>2, ErrorFollows
<1>3. CASE y.socket # "open" /\ y.outbox \in {<<>>, x.outbox}
  <2>1. CASE y.outbox = x.outbox
    BY <1>1, <1>3, <2>1
  <2>2. CASE y.outbox = <<>>
    <3>1. Sent(y) = x.delivered
      BY <1>1, <2>2, ConcatEmptySeq
    <3> QED
      BY <1>1, <1>3, <3>1, PrefixInLine
  <2> QED
    BY <1>3, <2>1, <2>2
<1> QED
  BY <1>2, <1>3 DEF Says

\* What only ends or destroys the socket leaves the replies in line.
LEMMA SilenceInLine ==
    ASSUME NEW x \in Record, NEW y \in Record, Says(x, y, <<>>), InLine(Sent(x))
    PROVE  InLine(Sent(y))
<1>1. /\ x.delivered \in Seq(Nat) /\ x.outbox \in Seq(Nat)
      /\ Sent(x) = x.delivered \o x.outbox /\ Sent(y) = x.delivered \o y.outbox
  BY DEF Record, Says, SameWork, Sent
<1>2. x.outbox \o <<>> = x.outbox /\ x.delivered \o <<>> = x.delivered
  BY <1>1, ConcatEmptySeq
<1>3. y.outbox \in {<<>>, x.outbox}
  BY <1>2 DEF Says
<1>4. Sent(y) \in {Sent(x), x.delivered}
  BY <1>1, <1>2, <1>3
<1> QED
  BY <1>1, <1>4, PrefixInLine

\* A turn that is over has nothing left to answer.
LEMMA NothingLeft ==
    ASSUME NEW m \in Nat
    PROVE  Piece(Idle, m, m)
<1>1. Len(<<>>) = 0 /\ DOMAIN <<>> = {}
  OBVIOUS
<1> QED
  BY <1>1 DEF Piece, Idle

\* What a turn holds when it is on.
LEMMA TurnHolds ==
    ASSUME NEW x, Basic(x), x.running.on
    PROVE  /\ x.running \in Turn /\ x.running.todo # <<>>
           /\ x.running.todo \in Seq(Request) /\ x.running.replies \in Seq(Nat)
           /\ Len(x.running.todo) \in Nat \ {0} /\ Len(x.running.replies) \in Nat
           /\ DOMAIN x.running.todo = 1..Len(x.running.todo)
           /\ DOMAIN x.running.replies = 1..Len(x.running.replies)
           /\ Current(x) = x.running.todo[1] /\ Current(x) \in Request /\ Current(x).id \in Nat
<1>1. /\ x.running \in Turn /\ x.running.todo # <<>>
      /\ x.running.todo \in Seq(Request) /\ x.running.replies \in Seq(Nat)
  BY DEF Basic, Record, Turn, Turns
<1>2. /\ Len(x.running.todo) \in Nat \ {0} /\ Len(x.running.replies) \in Nat
      /\ DOMAIN x.running.todo = 1..Len(x.running.todo)
      /\ DOMAIN x.running.replies = 1..Len(x.running.replies)
  BY <1>1, EmptySeq, LenProperties
<1>3. Current(x) = x.running.todo[1] /\ Current(x) \in Request
  BY <1>1, <1>2, HeadTailProperties DEF Current
<1> QED
  BY <1>1, <1>2, <1>3 DEF Request

\* With its answer the current command moves from one part of the turn to the other.
LEMMA PieceAnswered ==
    ASSUME NEW x, Basic(x), x.running.on, NEW r \in Nat, NEW m \in Nat, Piece(x.running, r, m),
           NEW t \in Turn, t.todo = Tail(x.running.todo),
           t.replies = Append(x.running.replies, Current(x).id)
    PROVE  /\ Piece(t, r, m)
           /\ Len(t.replies) = Len(x.running.replies) + 1
           /\ Len(t.todo) = Len(x.running.todo) - 1
           /\ \A i \in DOMAIN t.replies : t.replies[i] = r + i
<1> DEFINE a == Len(x.running.replies)
           l == Len(x.running.todo)
<1>1. /\ x.running.todo # <<>>
      /\ x.running.todo \in Seq(Request) /\ x.running.replies \in Seq(Nat)
      /\ l \in Nat \ {0} /\ a \in Nat
      /\ DOMAIN x.running.todo = 1..l /\ DOMAIN x.running.replies = 1..a
      /\ Current(x) = x.running.todo[1] /\ Current(x).id \in Nat
  BY TurnHolds
<1>2. /\ Len(t.replies) = a + 1 /\ DOMAIN t.replies = 1..a + 1
      /\ \A i \in 1..a : t.replies[i] = x.running.replies[i]
      /\ t.replies[a + 1] = Current(x).id
  BY <1>1, AppendProperties, LenProperties
<1>3. /\ Len(t.todo) = l - 1 /\ DOMAIN t.todo = 1..l - 1
      /\ \A i \in 1..l - 1 : t.todo[i] = x.running.todo[i + 1]
  BY <1>1, HeadTailProperties, LenProperties
<1>4. /\ \A i \in 1..a : x.running.replies[i] = r + i
      /\ \A i \in 1..l : x.running.todo[i].id = (r + a) + i
      /\ m = (r + a) + l
  BY <1>1 DEF Piece
<1> HIDE DEF a, l
<1>5. Current(x).id = r + (a + 1)
  <2>1. 1 \in 1..l
    BY <1>1
  <2> QED
    BY <1>1, <1>4, <2>1
<1>6. \A i \in 1..a + 1 : t.replies[i] = r + i
  <2> SUFFICES ASSUME NEW i \in 1..a + 1 PROVE t.replies[i] = r + i
    OBVIOUS
  <2>1. CASE i \in 1..a
    BY <1>2, <1>4, <2>1
  <2>2. CASE i = a + 1
    BY <1>2, <1>5, <2>2
  <2> QED
    BY <1>1, <2>1, <2>2
<1>7. \A i \in 1..l - 1 : t.todo[i].id = (r + (a + 1)) + i
  <2> SUFFICES ASSUME NEW i \in 1..l - 1 PROVE t.todo[i].id = (r + (a + 1)) + i
    OBVIOUS
  <2>1. i + 1 \in 1..l /\ t.todo[i] = x.running.todo[i + 1]
    BY <1>1, <1>3
  <2>2. t.todo[i].id = (r + a) + (i + 1)
    BY <1>4, <2>1
  <2> QED
    BY <1>1, <2>2
<1>8. m = (r + (a + 1)) + (l - 1)
  BY <1>1, <1>4
<1>9. Piece(t, r, m)
  BY <1>2, <1>3, <1>6, <1>7, <1>8 DEF Piece
<1> QED
  BY <1>2, <1>3, <1>6, <1>9 DEF a, l

\* The requests a connection knows are those of before without the turn's.
LEMMA TurnEnds ==
    ASSUME NEW x, NEW y, SameWork([x EXCEPT !.running = Idle], y), x \in Record,
           NEW m \in Nat, NEW k \in Nat, UpTo(Sent(y), m),
           Chunked(x.processingQueue, m, k), Chunked(x.wire, k, x.sent)
    PROVE  Ordered(y)
<1>1. /\ y.running = Idle /\ y.processingQueue = x.processingQueue
      /\ y.wire = x.wire /\ y.sent = x.sent
  BY DEF SameWork, Record
<1>2. Piece(y.running, m, m)
  BY <1>1, NothingLeft
<1> QED
  BY <1>1, <1>2 DEF Ordered

\* A command that is answered ends the turn, or leaves the rest of it.
LEMMA AnswerKeeps ==
    ASSUME NEW x, Basic(x), x.running.on, Going(x), InLine(Sent(x)), Ordered(x),
           \A i \in DOMAIN x.executed :
               x.executed[i].kind = "quit" => i = Len(x.executed) /\ Current(x).kind = "quit"
    PROVE  LET y == answer(x)
           IN  Sane(y) /\ Going(y) /\ y.sent = x.sent
<1> DEFINE todo == x.running.todo
           replies == Append(x.running.replies, Current(x).id)
           last == Len(todo) = 1 \/ Current(x).kind = "quit"
           rest == [x EXCEPT !.running.todo = Tail(@), !.running.replies = replies,
                             !.running.logging = FALSE]
           turn == [x.running EXCEPT !.todo = Tail(@), !.replies = replies, !.logging = FALSE]
           idle == [x EXCEPT !.running = Idle]
           done == write(idle, replies)
<1>0. x \in Record
  BY DEF Basic
<1>1. /\ x.running \in Turn /\ todo # <<>> /\ todo \in Seq(Request)
      /\ x.running.replies \in Seq(Nat) /\ Len(todo) \in Nat \ {0}
      /\ Len(x.running.replies) \in Nat /\ Current(x).id \in Nat
  BY TurnHolds
<1>2. Tail(todo) \in Seq(Request) /\ Len(Tail(todo)) = Len(todo) - 1 /\ replies \in Seq(Nat)
  BY <1>1, HeadTailProperties, AppendProperties
<1>3. turn \in Turn /\ turn.on /\ turn.todo = Tail(todo) /\ turn.replies = replies
  BY <1>1, <1>2 DEF Turn
<1>4. x.sent \in Nat /\ Sent(x) \in Seq(Nat)
  BY <1>0, ConcatProperties DEF Record, Sent
<1>5. PICK r, m, k \in Nat :
         x.socket = "open" =>
            /\ UpTo(Sent(x), r)
            /\ Piece(turn, r, m)
            /\ Len(turn.todo) = Len(todo) - 1 /\ Len(turn.replies) = Len(replies)
            /\ \A i \in DOMAIN replies : replies[i] = r + i
            /\ Chunked(x.processingQueue, m, k) /\ Chunked(x.wire, k, x.sent)
  <2>1. CASE x.socket = "open"
    <3>1. PICK r, m, k \in Nat :
            /\ UpTo(Sent(x), r) /\ Piece(x.running, r, m)
            /\ Chunked(x.processingQueue, m, k) /\ Chunked(x.wire, k, x.sent)
      BY <2>1 DEF Ordered
    <3> HIDE DEF turn, replies
    <3>2. /\ Piece(turn, r, m)
          /\ Len(turn.todo) = Len(todo) - 1
          /\ \A i \in DOMAIN turn.replies : turn.replies[i] = r + i
      <4>1. /\ turn \in Turn /\ turn.todo = Tail(x.running.todo)
            /\ turn.replies = Append(x.running.replies, Current(x).id)
        BY <1>3 DEF replies
      <4>2. Piece(x.running, r, m)
        BY <3>1
      <4> QED
        BY <4>1, <4>2, PieceAnswered
    <3> QED
      BY <1>3, <3>1, <3>2, Zenon
  <2>2. CASE x.socket # "open"
    BY <2>2
  <2> QED
    BY <2>1, <2>2
<1>6. CASE ~last
  <2>1. Tail(todo) # <<>>
    <3>1. Len(todo) - 1 # 0
      BY <1>1, <1>6
    <3>2. Len(<<>>) = 0
      OBVIOUS
    <3> QED
      BY <1>2, <3>1, <3>2
  <2>2. rest = [x EXCEPT !.running = turn]
    BY <1>0, <1>1 DEF Record, Turn
  <2> HIDE DEF turn, replies
  <2>3. rest \in Record /\ rest.running = turn
    <3>1. turn \in Turn
      BY <1>3
    <3> HIDE DEF rest
    <3> QED
      BY <1>0, <2>2, <3>1 DEF Record
  <2>4. Heard(rest) /\ Ends(rest) /\ Paused(rest)
    BY <1>0, <2>2 DEF Record, Basic, Heard, Ends, Paused, Reads, Gone
  <2>5. Turns(rest)
    BY <1>0, <1>3, <2>1, <2>2 DEF Record, Basic, Turns
  <2>6. Quits(rest)
    BY <1>0, <1>6, <2>2 DEF Record, Quits
  <2>7. Going(rest) /\ rest.sent = x.sent /\ Sent(rest) = Sent(x)
    BY <1>0, <2>2 DEF Record, Going, Sent
  <2>8. Ordered(rest)
    <3>1. /\ rest.socket = x.socket /\ rest.processingQueue = x.processingQueue
          /\ rest.wire = x.wire
      BY <1>0, <2>2 DEF Record
    <3> HIDE DEF rest
    <3> QED
      BY <1>5, <2>3, <2>7, <3>1 DEF Ordered
  <2> QED
    BY <1>6, <2>3, <2>4, <2>5, <2>6, <2>7, <2>8 DEF answer, Sane, Basic, replies
<1>7. CASE last
  <2>1. /\ Basic(idle) /\ idle.running = Idle
        /\ \A f \in DOMAIN x \ {"running"} : idle[f] = x[f]
    BY IdleKeeps
  <2>2. idle \in Record /\ Going(idle) /\ Sent(idle) = Sent(x) /\ idle.socket = x.socket
    BY <1>0, <2>1 DEF Record, Going, Sent, Basic
  <2>3. Basic(done) /\ Going(done) /\ Says(idle, done, replies)
    BY <1>2, <2>1, <2>2, WriteKeeps
  <2>4. done \in Record /\ SameWork(idle, done)
    BY <2>3 DEF Basic, Says
  <2>5. /\ InLine(Sent(done))
        /\ done.socket = "open" => UpTo(Sent(done), r + Len(replies)) /\ x.socket = "open"
    <3> HIDE DEF replies, done, idle, turn
    <3>1. /\ InLine(Sent(idle))
          /\ idle.socket = "open" => UpTo(Sent(idle), r) /\ \A i \in DOMAIN replies : replies[i] = r + i
      BY <1>5, <2>2
    <3> QED
      BY <1>2, <2>2, <2>3, <2>4, <3>1, SaysInLine
  <2>6. done.running = Idle /\ done.sent = x.sent /\ done.executed = x.executed
    BY <1>0, <2>4 DEF SameWork, Record
  <2>7. CASE Current(x).kind # "quit"
    <3>1. answer(x) = done
      BY <1>7, <2>7 DEF answer
    <3>2. Quits(done)
      BY <2>6, <2>7 DEF Quits
    <3>3. ASSUME done.socket = "open"
          PROVE  Ordered(done)
      <4>1. x.socket = "open" /\ UpTo(Sent(done), r + Len(replies))
        BY <2>5, <3>3
      <4>2. Len(turn.todo) = 0
        BY <1>1, <1>5, <1>7, <2>7, <4>1
      <4>3. m = r + Len(replies)
        <5>1. m = r + Len(turn.replies) + Len(turn.todo) /\ Len(turn.replies) = Len(replies)
          BY <1>5, <4>1 DEF Piece
        <5>2. Len(replies) \in Nat
          BY <1>2, LenProperties
        <5> HIDE DEF replies, turn
        <5>3. Len(replies) + 0 = Len(replies)
          BY <5>2
        <5> QED
          BY <4>2, <5>1, <5>2, <5>3
      <4> HIDE DEF done, replies, turn
      <4>4. UpTo(Sent(done), m) /\ Chunked(x.processingQueue, m, k) /\ Chunked(x.wire, k, x.sent)
        BY <1>5, <4>1, <4>3
      <4> QED
        BY <1>0, <2>4, <4>4, TurnEnds
    <3>4. Ordered(done)
      BY <3>3 DEF Ordered
    <3> QED
      BY <2>3, <2>5, <2>6, <3>1, <3>2, <3>4 DEF Sane
  <2>8. CASE Current(x).kind = "quit"
    <3> DEFINE y == gracefulClose(done)
    <3>1. answer(x) = y
      BY <1>7, <2>8 DEF answer
    <3>2. Basic(y) /\ Says(done, y, <<>>) /\ y.isClosing /\ y.socket # "open"
      BY <2>3, GracefulCloseKeeps
    <3>3. y \in Record /\ InLine(Sent(y))
      BY <2>4, <2>5, <3>2, SilenceInLine DEF Basic
    <3>4. y.running = Idle /\ y.sent = x.sent /\ y.executed = x.executed
      BY <2>6, <3>2 DEF Says, SameWork
    <3> HIDE DEF y
    <3>5. Quits(y)
      BY <3>2, <3>4 DEF Quits, Idle
    <3> QED
      BY <3>1, <3>2, <3>3, <3>4, <3>5 DEF Sane, Ordered, Going
  <2> QED
    BY <2>7, <2>8
<1> QED
  BY <1>6, <1>7

\* A connection with a turn under way has not met QUIT.
NoQuit(x) == \A i \in DOMAIN x.executed : x.executed[i].kind # "quit"

\* A command that throws takes the replies of its turn with it.
LEMMA ThrowsKeeps ==
    ASSUME NEW x, Basic(x), Going(x), InLine(Sent(x)), Ordered(x), NoQuit(x)
    PROVE  LET y == throws(x)
           IN  Sane(y) /\ Going(y) /\ y.sent = x.sent
<1> DEFINE idle == [x EXCEPT !.running = Idle]
           y == handleParsingError(idle)
<1>0. x \in Record /\ throws(x) = y
  BY DEF Basic, throws
<1>1. /\ Basic(idle) /\ idle.running = Idle
      /\ \A f \in DOMAIN x \ {"running"} : idle[f] = x[f]
  BY IdleKeeps
<1>2. idle \in Record /\ Going(idle) /\ Sent(idle) = Sent(x) /\ idle.socket = x.socket
  BY <1>0, <1>1 DEF Record, Going, Sent, Basic
<1>3. Basic(y) /\ Going(y) /\ Says(idle, y, <<ErrorReply>>)
  BY <1>1, <1>2, ErrorKeeps
<1>4. y \in Record /\ SameWork(idle, y)
  BY <1>3 DEF Basic, Says
<1>5. y.sent = x.sent /\ y.executed = x.executed
  BY <1>0, <1>4 DEF SameWork, Record
<1>6. Quits(y)
  BY <1>5 DEF NoQuit, Quits
<1>7. PICK r, m, k \in Nat :
         x.socket = "open" =>
            /\ UpTo(Sent(x), r) /\ Piece(x.running, r, m)
            /\ Chunked(x.processingQueue, m, k) /\ Chunked(x.wire, k, x.sent)
  BY DEF Ordered
<1>8. r <= m \/ x.socket # "open"
  <2>1. Len(x.running.replies) \in Nat /\ Len(x.running.todo) \in Nat
    BY <1>0, LenProperties DEF Record, Turn
  <2>2. x.socket = "open" => m = r + Len(x.running.replies) + Len(x.running.todo)
    BY <1>7 DEF Piece
  <2> DEFINE a == Len(x.running.replies)
             b == Len(x.running.todo)
  <2>3. a \in Nat /\ b \in Nat /\ (x.socket = "open" => m = r + a + b)
    BY <2>1, <2>2
  <2> HIDE DEF a, b
  <2> QED
    BY <2>3
<1> HIDE DEF y, idle
<1>9. InLine(Sent(y)) /\ (y.socket = "open" => UpTo(Sent(y), m) /\ x.socket = "open")
  <2>1. CASE x.socket = "open"
    BY <1>2, <1>3, <1>4, <1>7, <1>8, <2>1, ErrorInLine
  <2>2. CASE x.socket # "open"
    BY <1>2, <1>3, <1>4, <2>2, ErrorInLine
  <2> QED
    BY <2>1, <2>2
<1>10. Ordered(y)
  <2>1. CASE y.socket = "open"
    BY <1>0, <1>4, <1>7, <1>9, <2>1, TurnEnds DEF idle
  <2> QED
    BY <2>1 DEF Ordered
<1> QED
  BY <1>0, <1>3, <1>5, <1>6, <1>9, <1>10 DEF Sane

\* The turn would have ended with QUIT.
LEMMA NoQuitYet ==
    ASSUME NEW x, Quits(x), x.running.on
    PROVE  NoQuit(x)
BY DEF Quits, NoQuit

\* The log refuses the command of the turn.
LEMMA RejectedKeeps ==
    ASSUME NEW x, Basic(x), Going(x), InLine(Sent(x)), Ordered(x), NoQuit(x), x.running.on
    PROVE  LET y == rejected(x)
           IN  Sane(y) /\ Going(y) /\ y.sent = x.sent
<1>1. CASE Current(x).kind = "set"
  BY <1>1, ThrowsKeeps DEF rejected
<1>2. CASE Current(x).kind # "set"
  BY <1>2, AnswerKeeps DEF rejected, NoQuit
<1> QED
  BY <1>1, <1>2

\* The next command of a turn is executed.
LEMMA ExecuteKeeps ==
    ASSUME NEW x, Sane(x), Going(x), x.running.on, NEW log, NEW z \in execute(x, log)
    PROVE  Sane(z) /\ Going(z) /\ z.sent = x.sent
<1> DEFINE y == Executed(x)
<1>0. x \in Record /\ NoQuit(x)
  BY NoQuitYet DEF Sane, Basic
<1>1. Current(x) \in Request
  BY TurnHolds DEF Sane
<1>2. /\ x.executed \in Seq(Request)
      /\ Append(x.executed, Current(x)) \in Seq(Request)
      /\ Len(x.executed) \in Nat
      /\ DOMAIN Append(x.executed, Current(x)) = 1..Len(x.executed) + 1
      /\ Len(Append(x.executed, Current(x))) = Len(x.executed) + 1
      /\ \A i \in 1..Len(x.executed) : Append(x.executed, Current(x))[i] = x.executed[i]
      /\ Append(x.executed, Current(x))[Len(x.executed) + 1] = Current(x)
      /\ DOMAIN x.executed = 1..Len(x.executed)
  <2>1. x.executed \in Seq(Request)
    BY <1>0 DEF Record
  <2> QED
    BY <1>1, <2>1, AppendProperties, LenProperties
<1>3. /\ y \in Record /\ y.executed = Append(x.executed, Current(x))
      /\ y.running = x.running /\ y.socket = x.socket /\ y.isClosing = x.isClosing
      /\ y.outbox = x.outbox /\ y.delivered = x.delivered /\ y.sent = x.sent
      /\ y.processingQueue = x.processingQueue /\ y.wire = x.wire
  BY <1>0, <1>2 DEF Record, Executed
<1>4. Heard(y) /\ Ends(y) /\ Paused(y) /\ Turns(y)
  BY <1>0 DEF Sane, Basic, Record, Executed, Heard, Ends, Paused, Turns, Reads, Gone
<1>5. Current(y) = Current(x) /\ Sent(y) = Sent(x) /\ Going(y)
  BY <1>3 DEF Current, Sent, Going
<1>6. \A i \in DOMAIN y.executed :
         y.executed[i].kind = "quit" => i = Len(y.executed) /\ Current(y).kind = "quit"
  <2> SUFFICES ASSUME NEW i \in 1..Len(x.executed) + 1, y.executed[i].kind = "quit"
               PROVE  i = Len(x.executed) + 1 /\ Current(y).kind = "quit"
    BY <1>2, <1>3
  <2>1. CASE i \in 1..Len(x.executed)
    BY <1>0, <1>2, <1>3, <2>1 DEF NoQuit
  <2>2. CASE i = Len(x.executed) + 1
    BY <1>2, <1>3, <1>5, <2>2
  <2> QED
    BY <1>2, <2>1, <2>2
<1>7. Ordered(y)
  BY <1>3, <1>5 DEF Sane, Ordered
<1>8. Basic(y) /\ InLine(Sent(y)) /\ y.running.on
  BY <1>3, <1>4, <1>5 DEF Sane, Basic
<1> HIDE DEF y
<1>9. Sane(answer(y)) /\ Going(answer(y)) /\ answer(y).sent = x.sent
  BY <1>3, <1>5, <1>6, <1>7, <1>8, AnswerKeeps
<1>10. CASE z = answer(y)
  BY <1>9, <1>10
<1>11. CASE z # answer(y)
  <2>1. Current(x).kind \in {"set", "incr"}
    BY <1>11 DEF execute, y
  <2>2. NoQuit(y)
    BY <1>5, <1>6, <2>1 DEF NoQuit
  <2>3. CASE z = rejected(y)
    BY <1>3, <1>5, <1>7, <1>8, <2>2, <2>3, RejectedKeeps
  <2>4. CASE z = [y EXCEPT !.running.logging = TRUE]
    <3> DEFINE turn == [y.running EXCEPT !.logging = TRUE]
    <3>1. y.running \in Turn
      BY <1>3 DEF Record
    <3>2. /\ turn \in Turn /\ turn.on /\ turn.todo = y.running.todo
          /\ turn.replies = y.running.replies
      BY <1>8, <3>1 DEF Turn
    <3>3. z = [y EXCEPT !.running = turn]
      BY <1>3, <2>4, <3>1 DEF Record, Turn
    <3> HIDE DEF turn
    <3>4. /\ z \in Record /\ z.running = turn /\ z.socket = y.socket /\ z.isClosing = y.isClosing
          /\ z.outbox = y.outbox /\ z.delivered = y.delivered /\ z.sent = y.sent
          /\ z.processingQueue = y.processingQueue /\ z.wire = y.wire /\ z.executed = y.executed
      BY <1>3, <3>2, <3>3 DEF Record
    <3>5. Heard(z) /\ Ends(z) /\ Paused(z) /\ Turns(z)
      BY <1>3, <1>8, <3>2, <3>3 DEF Basic, Record, Heard, Ends, Paused, Turns, Reads, Gone
    <3>6. Sent(z) = Sent(y) /\ Going(z)
      BY <1>5, <3>4 DEF Sent, Going
    <3>8. ASSUME z.socket = "open"
          PROVE  Ordered(z)
      <4>1. PICK r, m, k \in Nat :
              /\ UpTo(Sent(y), r) /\ Piece(y.running, r, m)
              /\ Chunked(y.processingQueue, m, k) /\ Chunked(y.wire, k, y.sent)
        BY <1>7, <3>4, <3>8 DEF Ordered
      <4>2. Piece(z.running, r, m)
        BY <3>2, <3>4, <4>1 DEF Piece
      <4>3. UpTo(Sent(z), r)
        BY <3>6, <4>1
      <4>4. Chunked(z.processingQueue, m, k) /\ Chunked(z.wire, k, z.sent)
        BY <3>4, <4>1
      <4> QED
        BY <4>2, <4>3, <4>4 DEF Ordered
    <3>9. Ordered(z)
      BY <3>8 DEF Ordered
    <3>7. Quits(z)
      BY <2>2, <3>4 DEF NoQuit, Quits
    <3> QED
      BY <1>3, <1>8, <3>4, <3>5, <3>6, <3>7, <3>9 DEF Sane, Basic
  <2> QED
    BY <1>11, <2>3, <2>4 DEF execute, y
<1> QED
  BY <1>10, <1>11

\* The oldest chunk that waits is parsed.
LEMMA ParsedKeeps ==
    ASSUME NEW x, Sane(x), Going(x), ~x.running.on, x.processingQueue # <<>>,
           NEW z \in Parsed(x)
    PROVE  Sane(z) /\ Going(z) /\ z.sent = x.sent
<1> DEFINE chunk == Head(x.processingQueue)
           y == [x EXCEPT !.processingQueue = Tail(@)]
<1>0. x \in Record /\ x.processingQueue \in Seq(Seq(Request)) /\ x.running = Idle
  BY DEF Sane, Basic, Record, Turns
<1>1. /\ chunk \in Seq(Request) /\ chunk # <<>>
      /\ Tail(x.processingQueue) \in Seq(Seq(Request))
      /\ \A i \in DOMAIN Tail(x.processingQueue) : Tail(x.processingQueue)[i] # <<>>
  <2>1. Len(x.processingQueue) \in Nat \ {0} /\ DOMAIN x.processingQueue = 1..Len(x.processingQueue)
    BY <1>0, EmptySeq, LenProperties
  <2>2. /\ chunk \in Seq(Request) /\ chunk = x.processingQueue[1]
        /\ Tail(x.processingQueue) \in Seq(Seq(Request))
        /\ Len(Tail(x.processingQueue)) = Len(x.processingQueue) - 1
        /\ \A i \in 1..Len(x.processingQueue) - 1 :
              Tail(x.processingQueue)[i] = x.processingQueue[i + 1]
    BY <1>0, HeadTailProperties
  <2>3. DOMAIN Tail(x.processingQueue) = 1..Len(x.processingQueue) - 1
    BY <2>2, LenProperties
  <2>4. \A i \in 1..Len(x.processingQueue) : x.processingQueue[i] # <<>>
    BY <2>1 DEF Sane, Basic, Turns
  <2>5. ASSUME NEW i \in 1..Len(x.processingQueue) - 1
        PROVE  Tail(x.processingQueue)[i] # <<>>
    <3>1. i + 1 \in 1..Len(x.processingQueue)
      BY <2>1
    <3> QED
      BY <2>2, <2>4, <3>1
  <2>6. 1 \in 1..Len(x.processingQueue)
    BY <2>1
  <2> QED
    BY <2>2, <2>3, <2>4, <2>5, <2>6
<1>2. /\ y \in Record /\ y.processingQueue = Tail(x.processingQueue)
      /\ \A f \in DOMAIN x \ {"processingQueue"} : y[f] = x[f]
  BY <1>0, <1>1 DEF Record
<1>3. Heard(y) /\ Ends(y) /\ Paused(y) /\ Turns(y)
  BY <1>0, <1>1 DEF Sane, Basic, Record, Heard, Ends, Paused, Turns, Reads, Gone
<1>4. Sent(y) = Sent(x) /\ Going(y) /\ y.running = Idle /\ y.sent = x.sent /\ y.executed = x.executed
  BY <1>0, <1>2 DEF Sent, Going, Record
<1>5. Quits(y) /\ InLine(Sent(y))
  BY <1>0, <1>2, <1>4 DEF Sane, Quits, Record
<1>6. PICK r, k \in Nat :
         x.socket = "open" =>
            /\ UpTo(Sent(x), r)
            /\ \A i \in DOMAIN chunk : chunk[i].id = r + i
            /\ Chunked(Tail(x.processingQueue), r + Len(chunk), k)
            /\ Chunked(x.wire, k, x.sent)
  <2>1. CASE x.socket = "open"
    <3>1. PICK r, m, k \in Nat :
            /\ UpTo(Sent(x), r) /\ Piece(x.running, r, m)
            /\ Chunked(x.processingQueue, m, k) /\ Chunked(x.wire, k, x.sent)
      BY <2>1 DEF Sane, Ordered
    <3>2. r = m
      <4>1. Len(<<>>) = 0
        OBVIOUS
      <4> QED
        BY <1>0, <3>1, <4>1 DEF Piece, Idle
    <3> QED
      BY <1>0, <3>1, <3>2, ChunkLeaves
  <2> QED
    BY <2>1
<1>7. Len(chunk) \in Nat
  BY <1>1, LenProperties
<1> HIDE DEF chunk
<1>8. ASSUME y.socket # "open"
      PROVE  Ordered(y)
  BY <1>8 DEF Ordered
<1>9. CASE z = y /\ Ignored(x)
  <2>3. x.socket # "open"
    BY <1>9 DEF Sane, Basic, Ends, Ignored, Gone
  <2>2. y.socket = x.socket
    BY <1>0, <1>2 DEF Record
  <2>1. y.socket # "open"
    BY <2>2, <2>3
  <2> HIDE DEF y
  <2> QED
    BY <1>2, <1>3, <1>4, <1>5, <1>8, <1>9, <2>1 DEF Sane, Basic
<1>10. ASSUME NEW s \in BOOLEAN, z = handleParsingError([y EXCEPT !.stuck = s])
       PROVE  Sane(z) /\ Going(z) /\ z.sent = x.sent
  <2> DEFINE w == [y EXCEPT !.stuck = s]
  <2>1. w \in Record /\ \A f \in DOMAIN y \ {"stuck"} : w[f] = y[f]
    BY <1>2 DEF Record
  <2>2. Heard(w) /\ Ends(w) /\ Paused(w) /\ Turns(w) /\ Going(w)
    BY <1>2, <1>3, <1>4 DEF Record, Heard, Ends, Paused, Turns, Reads, Gone, Going
  <2>3. Sent(w) = Sent(x) /\ w.executed = x.executed /\ w.running = Idle /\ w.sent = x.sent
    BY <1>2, <1>4, <2>1 DEF Record, Sent
  <2>4. /\ w.socket = x.socket /\ w.isClosing = x.isClosing /\ w.wire = x.wire
        /\ w.processingQueue = Tail(x.processingQueue)
    BY <1>0, <1>2, <2>1 DEF Record
  <2> HIDE DEF w, y
  <2>5. Basic(z) /\ Going(z) /\ Says(w, z, <<ErrorReply>>)
    BY <1>10, <2>1, <2>2, ErrorKeeps DEF Basic, w
  <2>6. z \in Record /\ SameWork(w, z)
    BY <2>5 DEF Basic, Says
  <2>7. r <= r + Len(chunk) /\ r + Len(chunk) \in Nat
    BY <1>7
  <2>8. /\ InLine(Sent(z))
        /\ z.socket = "open" => UpTo(Sent(z), r + Len(chunk)) /\ x.socket = "open"
    BY <1>4, <1>5, <1>6, <2>1, <2>3, <2>4, <2>5, <2>6, <2>7, ErrorInLine
  <2>9. /\ z.running = Idle /\ z.executed = x.executed /\ z.sent = x.sent /\ z.wire = x.wire
        /\ z.processingQueue = Tail(x.processingQueue)
        /\ x.isClosing => z.isClosing
    BY <2>3, <2>4, <2>6 DEF SameWork
  <2>10. Quits(z)
    BY <1>0, <2>9 DEF Sane, Quits, Idle
  <2>11. Ordered(z)
    <3>1. Piece(Idle, r + Len(chunk), r + Len(chunk))
      BY <2>7, NothingLeft
    <3> QED
      BY <1>6, <2>7, <2>8, <2>9, <3>1 DEF Ordered
  <2> QED
    BY <2>5, <2>8, <2>9, <2>10, <2>11 DEF Sane
<1>11. CASE z = [y EXCEPT !.running = [Idle EXCEPT !.on = TRUE, !.todo = chunk]] /\ ~Ignored(x)
  <2> DEFINE turn == [Idle EXCEPT !.on = TRUE, !.todo = chunk]
  <2>1. turn \in Turn /\ turn.on /\ turn.todo = chunk /\ turn.replies = <<>>
    BY <1>1, EmptySeq DEF Turn, Idle, chunk
  <2> HIDE DEF turn
  <2>2. z \in Record /\ z.running = turn /\ \A f \in DOMAIN y \ {"running"} : z[f] = y[f]
    BY <1>2, <1>11, <2>1 DEF Record, turn
  <2>7. /\ z.socket = y.socket /\ z.listening = y.listening /\ z.failed = y.failed
        /\ z.isClosing = y.isClosing /\ z.isDestroyed = y.isDestroyed
        /\ z.paused = y.paused /\ z.isDraining = y.isDraining /\ z.needDrain = y.needDrain
        /\ z.outbox = y.outbox /\ z.processingQueue = y.processingQueue
    <3> HIDE DEF y
    <3> QED
      BY <1>2, <2>2 DEF Record
  <2>8. chunk # <<>>
    BY <1>1 DEF chunk
  <2>3. Heard(z) /\ Ends(z) /\ Paused(z) /\ Turns(z) /\ Going(z)
    <3> HIDE DEF y
    <3>1. Heard(z) /\ Ends(z) /\ Going(z)
      BY <1>3, <1>4, <2>7 DEF Heard, Ends, Reads, Gone, Going
    <3>2. Paused(z)
      BY <1>3, <2>7 DEF Paused
    <3>3. Turns(z)
      BY <1>3, <2>1, <2>2, <2>7, <2>8 DEF Turns
    <3> QED
      BY <3>1, <3>2, <3>3
  <2>4. /\ Sent(z) = Sent(x) /\ z.executed = x.executed /\ z.sent = x.sent /\ z.wire = x.wire
        /\ z.socket = x.socket /\ z.processingQueue = Tail(x.processingQueue)
        /\ ~x.isClosing
    BY <1>0, <1>2, <1>4, <1>11, <2>2 DEF Record, Sent, Ignored
  <2>5. Quits(z)
    BY <2>4 DEF Sane, Quits
  <2>6. Ordered(z)
    <3>1. ASSUME x.socket = "open"
          PROVE  Piece(turn, r, r + Len(chunk))
      <4>1. Len(<<>>) = 0 /\ DOMAIN <<>> = {}
        OBVIOUS
      <4> QED
        BY <1>6, <1>7, <2>1, <3>1, <4>1 DEF Piece
    <3>2. r + Len(chunk) \in Nat
      BY <1>7
    <3> QED
      BY <1>6, <2>2, <2>4, <3>1, <3>2 DEF Ordered
  <2> QED
    BY <1>5, <1>4, <2>2, <2>3, <2>4, <2>5, <2>6 DEF Sane, Basic
<1> QED
  <2>1. x.stuck \in BOOLEAN
    BY <1>0 DEF Record
  <2> QED
    BY <1>9, <1>10, <1>11, <2>1 DEF Parsed, chunk

\* A connection whose socket is no longer open keeps its replies in line.
LEMMA SilenceKeeps ==
    ASSUME NEW x \in Record, Quits(x), InLine(Sent(x)),
           NEW y, Basic(y), Says(x, y, <<>>), y.socket # "open"
    PROVE  Sane(y) /\ y.sent = x.sent
<1>1. y \in Record /\ InLine(Sent(y))
  BY SilenceInLine DEF Basic
<1>2. Quits(y) /\ y.sent = x.sent
  BY DEF Says, SameWork, Quits
<1> QED
  BY <1>1, <1>2 DEF Sane, Ordered

\* The connection ends its side.
LEMMA CloseKeeps ==
    ASSUME NEW x, Basic(x), Going(x), Quits(x), InLine(Sent(x))
    PROVE  LET y == gracefulClose(x)
           IN  Sane(y) /\ Going(y) /\ y.sent = x.sent
<1> DEFINE y == gracefulClose(x)
<1>1. Basic(y) /\ Says(x, y, <<>>) /\ y.isClosing /\ y.socket # "open"
  BY GracefulCloseKeeps
<1>2. x \in Record
  BY DEF Basic
<1> HIDE DEF y
<1> QED
  BY <1>1, <1>2, SilenceKeeps DEF Going, y

\* A connection is destroyed while no error of its socket is still to come.
LEMMA DestroyedKeeps ==
    ASSUME NEW x, Basic(x), Quits(x), InLine(Sent(x)), ~x.failed
    PROVE  LET y == destroy(x)
           IN  Sane(y) /\ Going(y) /\ y.sent = x.sent /\ y.isClosing
<1> DEFINE y == destroy(x)
<1>1. Basic(y) /\ Says(x, y, <<>>) /\ y.isClosing
  BY DestroyKeeps
<1>2. x \in Record
  BY DEF Basic
<1>3. y.socket # "open"
  BY <1>1 DEF Basic, Ends
<1> HIDE DEF y
<1> QED
  BY <1>1, <1>2, <1>3, SilenceKeeps DEF Going, y

\* Requests get on the wire, and so does the end of the connection.
LEMMA SendKeeps ==
    ASSUME NEW x, Sane(x), Going(x), NEW chunk \in Seq(Request),
           \A i \in DOMAIN chunk : chunk[i].id = x.sent + i,
           NEW y, y = [x EXCEPT !.wire = Append(@, chunk), !.sent = @ + Len(chunk)]
    PROVE  Sane(y) /\ Going(y) /\ y.sent = x.sent + Len(chunk)
<1>1. x \in Record /\ x.wire \in Seq(Seq(Request)) /\ x.sent \in Nat
  BY DEF Sane, Basic, Record
<1>2. Len(chunk) \in Nat
  BY LenProperties
<1>3. Append(x.wire, chunk) \in Seq(Seq(Request)) /\ x.sent + Len(chunk) \in Nat
  BY <1>1, <1>2, AppendProperties
<1>4. /\ y \in Record /\ y.wire = Append(x.wire, chunk) /\ y.sent = x.sent + Len(chunk)
      /\ \A f \in DOMAIN x \ {"wire", "sent"} : y[f] = x[f]
  BY <1>1, <1>3 DEF Record
<1>5. Basic(y) /\ Quits(y) /\ Going(y)
  BY <1>1, <1>4 DEF Sane, Basic, Record, Heard, Ends, Paused, Turns, Reads, Gone, Quits, Going
<1>6. /\ Sent(y) = Sent(x) /\ y.socket = x.socket /\ y.running = x.running
      /\ y.processingQueue = x.processingQueue
  BY <1>1, <1>4 DEF Sent, Record
<1>7. ASSUME y.socket = "open"
      PROVE  Ordered(y)
  <2>1. PICK r, m, k \in Nat :
          /\ UpTo(Sent(x), r) /\ Piece(x.running, r, m)
          /\ Chunked(x.processingQueue, m, k) /\ Chunked(x.wire, k, x.sent)
    BY <1>6, <1>7 DEF Sane, Ordered
  <2>2. Chunked(y.wire, k, y.sent)
    BY <1>1, <1>4, <2>1, ChunkJoins
  <2> QED
    BY <1>6, <2>1, <2>2 DEF Ordered
<1>8. InLine(Sent(y)) /\ Ordered(y)
  BY <1>6, <1>7 DEF Sane, Ordered
<1> QED
  BY <1>4, <1>5, <1>8 DEF Sane

\* The client ends its side: FIN is a chunk without requests.
LEMMA FinishKeeps ==
    ASSUME NEW x, Sane(x), Going(x), NEW y, y = [x EXCEPT !.wire = Append(@, FIN)]
    PROVE  Sane(y) /\ Going(y) /\ y.sent = x.sent
<1>1. x \in Record /\ x.sent \in Nat
  BY DEF Sane, Basic, Record
<1>2. FIN \in Seq(Request) /\ Len(FIN) = 0 /\ DOMAIN FIN = {}
  BY EmptySeq DEF FIN
<1>3. x.sent + Len(FIN) = x.sent
  BY <1>1, <1>2
<1>4. y = [x EXCEPT !.wire = Append(@, FIN), !.sent = @ + Len(FIN)]
  BY <1>1, <1>3 DEF Record
<1> QED
  BY <1>2, <1>3, <1>4, SendKeeps

\* The client takes a reply: it is the next one of those it was sent.
LEMMA ReplyTaken ==
    ASSUME NEW s \in Seq(Nat), NEW t \in Seq(Nat), t # <<>>
    PROVE  /\ Head(t) \in Nat /\ Tail(t) \in Seq(Nat) /\ Append(s, Head(t)) \in Seq(Nat)
           /\ Append(s, Head(t)) \o Tail(t) = s \o t
<1>1. Head(t) \in Nat /\ Tail(t) \in Seq(Nat) /\ Len(Tail(t)) = Len(t) - 1
      /\ \A i \in 1..Len(Tail(t)) : Tail(t)[i] = t[i + 1]
  BY HeadTailProperties
<1>2. Append(s, Head(t)) \in Seq(Nat) /\ Append(s, Head(t)) = s \o <<Head(t)>>
      /\ <<Head(t)>> \in Seq(Nat)
  BY <1>1, AppendProperties, AppendIsConcat
<1>3. (s \o <<Head(t)>>) \o Tail(t) = s \o (<<Head(t)>> \o Tail(t))
  BY <1>1, <1>2, Associated
<1>4. <<Head(t)>> \o Tail(t) = t
  BY <1>1
<1> QED
  BY <1>1, <1>2, <1>3, <1>4

\* The client takes the oldest reply; the last one drains, and the error reply destroys.
LEMMA ReceiveKeeps ==
    ASSUME NEW x, Sane(x), Going(x), ~x.failed, x.outbox # <<>>
    PROVE  LET reply == Head(x.outbox)
               w == [x EXCEPT !.outbox = Tail(@), !.delivered = Append(@, reply)]
               drained == w.outbox = <<>> /\ w.needDrain /\ w.socket = "open"
               y == IF drained THEN handleDrain([w EXCEPT !.needDrain = FALSE]) ELSE w
               z == IF reply = ErrorReply THEN destroy(y) ELSE y
           IN  Sane(z) /\ Going(z) /\ z.sent = x.sent
<1> DEFINE reply == Head(x.outbox)
           w == [x EXCEPT !.outbox = Tail(@), !.delivered = Append(@, reply)]
           drained == w.outbox = <<>> /\ w.needDrain /\ w.socket = "open"
           v == [w EXCEPT !.needDrain = FALSE]
           y == IF drained THEN handleDrain(v) ELSE w
<1>1. x \in Record /\ x.outbox \in Seq(Nat) /\ x.delivered \in Seq(Nat)
  BY DEF Sane, Basic, Record
<1>2. /\ Tail(x.outbox) \in Seq(Nat) /\ Append(x.delivered, reply) \in Seq(Nat)
      /\ Append(x.delivered, reply) \o Tail(x.outbox) = x.delivered \o x.outbox
  BY <1>1, ReplyTaken
<1>3. /\ w \in Record /\ w.outbox = Tail(x.outbox) /\ w.delivered = Append(x.delivered, reply)
      /\ \A f \in DOMAIN x \ {"outbox", "delivered"} : w[f] = x[f]
  BY <1>1, <1>2 DEF Record
<1>4. Heard(w) /\ Ends(w) /\ Turns(w) /\ Quits(w) /\ Going(w)
  BY <1>1, <1>3 DEF Sane, Basic, Record, Heard, Ends, Turns, Reads, Gone, Quits, Going
<1>5. /\ w.socket = x.socket /\ w.running = x.running /\ w.processingQueue = x.processingQueue
      /\ w.wire = x.wire /\ w.sent = x.sent /\ w.failed = x.failed
  BY <1>1, <1>3 DEF Record
<1>6. Sent(w) = Sent(x)
  BY <1>2, <1>3 DEF Sent
<1>7. InLine(Sent(w)) /\ Ordered(w)
  BY <1>5, <1>6 DEF Sane, Ordered
<1>8. ASSUME drained
      PROVE  Sane(y) /\ Going(y) /\ y.sent = x.sent /\ ~y.failed
  <2>1. /\ v \in Record /\ v.outbox = w.outbox /\ v.delivered = w.delivered
        /\ \A f \in DOMAIN w \ {"needDrain"} : v[f] = w[f]
    BY <1>3 DEF Record
  <2>2. Heard(v) /\ Ends(v) /\ Turns(v) /\ Quits(v) /\ Going(v)
    <3> HIDE DEF w
    <3> QED
      BY <1>3, <1>4 DEF Record, Heard, Ends, Turns, Reads, Gone, Quits, Going
  <2> HIDE DEF v, w
  <2>3. /\ v.socket = w.socket /\ v.running = w.running /\ v.processingQueue = w.processingQueue
        /\ v.wire = w.wire /\ v.sent = w.sent /\ v.failed = w.failed /\ v.isClosing = w.isClosing
        /\ v.executed = w.executed
    BY <1>3, <2>1 DEF Record
  <2>4. y = handleDrain(v)
    BY <1>8
  <2> HIDE DEF y, drained
  <2>5. Basic(y) /\ SameWork(v, y) /\ y.failed = v.failed /\ y.outbox = v.outbox /\ y.socket = v.socket
    BY <2>1, <2>2, <2>4, DrainKeeps
  <2>6. Sent(y) = Sent(w)
    BY <2>1, <2>5 DEF Sent, SameWork
  <2>7. /\ y.socket = w.socket /\ y.running = w.running /\ y.processingQueue = w.processingQueue
        /\ y.wire = w.wire /\ y.sent = w.sent /\ y.failed = w.failed /\ y.executed = w.executed
        /\ w.isClosing => y.isClosing
    BY <2>3, <2>5 DEF SameWork
  <2>8. Quits(y) /\ Going(y)
    BY <1>4, <2>7 DEF Quits, Going
  <2>9. InLine(Sent(y)) /\ Ordered(y)
    BY <1>7, <2>6, <2>7 DEF Ordered
  <2> QED
    BY <1>5, <2>5, <2>7, <2>8, <2>9 DEF Sane
<1>9. ASSUME ~drained
      PROVE  Sane(y) /\ Going(y) /\ y.sent = x.sent /\ ~y.failed
  <2>1. y = w
    BY <1>9
  <2>2. Paused(w)
    BY <1>1, <1>3, <1>9 DEF Sane, Basic, Record, Paused
  <2> HIDE DEF y, w, drained
  <2> QED
    BY <1>3, <1>4, <1>5, <1>7, <2>1, <2>2 DEF Sane, Basic
<1>10. Sane(y) /\ Going(y) /\ y.sent = x.sent /\ ~y.failed
  BY <1>8, <1>9
<1> HIDE DEF y
<1> DEFINE z == IF reply = ErrorReply THEN destroy(y) ELSE y
<1>11. Sane(z) /\ Going(z) /\ z.sent = x.sent
  BY <1>10, DestroyedKeeps DEF Sane
<1> QED
  BY <1>11 DEF y

\* A chunk leaves the wire for the queue, or is dropped.
LEMMA DataKeeps ==
    ASSUME NEW x, Sane(x), Reads(x), x.wire # <<>>, Head(x.wire) # FIN
    PROVE  LET y == handleData([x EXCEPT !.wire = Tail(@)], Head(x.wire))
           IN  Sane(y) /\ Going(y) /\ y.sent = x.sent
<1> DEFINE chunk == Head(x.wire)
           w == [x EXCEPT !.wire = Tail(@)]
           y == handleData(w, chunk)
<1>1. /\ x \in Record /\ x.wire \in Seq(Seq(Request)) /\ x.processingQueue \in Seq(Seq(Request))
      /\ Going(x)
  BY DEF Sane, Basic, Record, Going, Reads, Ends
<1>2. /\ chunk \in Seq(Request) /\ Tail(x.wire) \in Seq(Seq(Request)) /\ chunk # <<>>
      /\ Append(x.processingQueue, chunk) \in Seq(Seq(Request))
  BY <1>1, HeadTailProperties, AppendProperties DEF FIN
<1>3. w \in Record /\ w.wire = Tail(x.wire) /\ \A f \in DOMAIN x \ {"wire"} : w[f] = x[f]
  BY <1>1, <1>2 DEF Record
<1>4. Basic(w) /\ Quits(w) /\ Going(w)
  BY <1>1, <1>3 DEF Sane, Basic, Record, Heard, Ends, Paused, Turns, Reads, Gone, Quits, Going
<1>5. /\ Sent(w) = Sent(x) /\ w.socket = x.socket /\ w.running = x.running
      /\ w.processingQueue = x.processingQueue /\ w.sent = x.sent
  BY <1>1, <1>3 DEF Sent, Record
<1> HIDE DEF w
<1>6. InLine(Sent(w))
  BY <1>5 DEF Sane
<1>7. ASSUME Ignored(w)
      PROVE  Sane(y) /\ Going(y) /\ y.sent = x.sent
  <2>1. y = w
    BY <1>7 DEF handleData, Ignored
  <2>2. w.socket # "open"
    BY <1>4, <1>7 DEF Basic, Ends, Ignored, Gone
  <2> HIDE DEF y
  <2> QED
    BY <1>4, <1>5, <1>6, <2>1, <2>2 DEF Sane, Ordered
<1>8. ASSUME ~Ignored(w)
      PROVE  Sane(y) /\ Going(y) /\ y.sent = x.sent
  <2>1. y = [w EXCEPT !.processingQueue = Append(@, chunk)]
    BY <1>8 DEF handleData, Ignored
  <2> HIDE DEF chunk
  <2>2. /\ y \in Record /\ y.processingQueue = Append(x.processingQueue, chunk)
        /\ \A f \in DOMAIN w \ {"processingQueue"} : y[f] = w[f]
    <3> DEFINE q == Append(x.processingQueue, chunk)
    <3>1. q \in Seq(Seq(Request))
      BY <1>2
    <3>2. y = [w EXCEPT !.processingQueue = q]
      BY <1>5, <2>1
    <3>3. w \in Record
      BY <1>3
    <3> HIDE DEF q, y
    <3>4. /\ y \in Record /\ y.processingQueue = q
          /\ \A f \in DOMAIN w \ {"processingQueue"} : y[f] = w[f]
      BY <3>1, <3>2, <3>3 DEF Record
    <3> QED
      BY <3>4 DEF q
  <2>3. Turns(y)
    <3>1. \A i \in DOMAIN x.processingQueue : x.processingQueue[i] # <<>>
      BY DEF Sane, Basic, Turns
    <3> DEFINE q == x.processingQueue
               l == Len(q)
    <3>4. l \in Nat /\ DOMAIN q = 1..l /\ \A i \in 1..l : q[i] # <<>>
      BY <1>1, <3>1, LenProperties
    <3>5. /\ DOMAIN Append(q, chunk) = 1..l + 1
          /\ \A i \in 1..l : Append(q, chunk)[i] = q[i]
          /\ Append(q, chunk)[l + 1] = chunk
      BY <1>1, <1>2, AppendProperties, LenProperties
    <3> HIDE DEF q, l
    <3>6. ASSUME NEW i \in 1..l + 1
          PROVE  Append(q, chunk)[i] # <<>>
      <4>1. CASE i \in 1..l
        BY <3>4, <3>5, <4>1
      <4>2. CASE i = l + 1
        BY <1>2, <3>5, <4>2
      <4> QED
        BY <3>4, <4>1, <4>2
    <3>2. \A i \in DOMAIN Append(x.processingQueue, chunk) :
             Append(x.processingQueue, chunk)[i] # <<>>
      BY <3>5, <3>6 DEF q
    <3>3. y.running = w.running
      BY <1>3, <2>2 DEF Record
    <3> QED
      BY <1>4, <2>2, <3>2, <3>3 DEF Basic, Turns
  <2>4. Heard(y) /\ Ends(y) /\ Paused(y) /\ Quits(y) /\ Going(y)
    <3>1. w \in Record
      BY <1>3
    <3> HIDE DEF y
    <3>2. /\ y.socket = w.socket /\ y.listening = w.listening /\ y.failed = w.failed
          /\ y.isClosing = w.isClosing /\ y.isDestroyed = w.isDestroyed
          /\ y.paused = w.paused /\ y.isDraining = w.isDraining
          /\ y.needDrain = w.needDrain /\ y.outbox = w.outbox
          /\ y.executed = w.executed /\ y.running = w.running
      BY <2>2, <3>1 DEF Record
    <3>3. Heard(y) /\ Ends(y) /\ Paused(y)
      BY <1>4, <3>2 DEF Basic, Heard, Ends, Paused, Reads, Gone
    <3> QED
      BY <1>4, <3>2, <3>3 DEF Quits, Going
  <2>5. /\ y.socket = x.socket /\ y.running = x.running /\ y.wire = Tail(x.wire)
        /\ y.sent = x.sent /\ Sent(y) = Sent(x)
    BY <1>3, <1>5, <2>2 DEF Record, Sent
  <2> HIDE DEF y
  <2>6. ASSUME y.socket = "open"
        PROVE  Ordered(y)
    <3>1. PICK r, m, k \in Nat :
            /\ UpTo(Sent(x), r) /\ Piece(x.running, r, m)
            /\ Chunked(x.processingQueue, m, k) /\ Chunked(x.wire, k, x.sent)
      BY <2>5, <2>6 DEF Sane, Ordered
    <3>2. x.sent \in Nat
      BY <1>1 DEF Record
    <3>3. /\ \A i \in DOMAIN chunk : chunk[i].id = k + i
          /\ Chunked(Tail(x.wire), k + Len(chunk), x.sent)
      BY <1>1, <3>1, <3>2, ChunkLeaves DEF chunk
    <3>4. Chunked(Append(x.processingQueue, chunk), m, k + Len(chunk))
      BY <1>1, <1>2, <3>1, <3>3, ChunkJoins
    <3>5. k + Len(chunk) \in Nat
      BY <1>2, LenProperties
    <3>6. /\ UpTo(Sent(y), r) /\ Piece(y.running, r, m)
          /\ Chunked(y.processingQueue, m, k + Len(chunk))
          /\ Chunked(y.wire, k + Len(chunk), y.sent)
      BY <2>2, <2>5, <3>1, <3>3, <3>4
    <3> QED
      BY <3>5, <3>6 DEF Ordered
  <2>7. InLine(Sent(y)) /\ Ordered(y)
    BY <1>5, <1>6, <2>5, <2>6 DEF Ordered
  <2> QED
    BY <2>2, <2>3, <2>4, <2>5, <2>7 DEF Sane, Basic
<1> QED
  BY <1>7, <1>8 DEF w

\* The end of the client's side is read.
LEMMA EndKeeps ==
    ASSUME NEW x, Sane(x), Going(x)
    PROVE  LET y == gracefulClose([x EXCEPT !.wire = <<>>, !.readEnded = TRUE])
           IN  Sane(y) /\ Going(y) /\ y.sent = x.sent
<1> DEFINE w == [x EXCEPT !.wire = <<>>, !.readEnded = TRUE]
<1>1. x \in Record
  BY DEF Sane, Basic
<1>2. w \in Record /\ \A f \in DOMAIN x \ {"wire", "readEnded"} : w[f] = x[f]
  BY <1>1, EmptySeq DEF Record
<1>3. Basic(w) /\ Quits(w) /\ Going(w)
  BY <1>1, <1>2 DEF Sane, Basic, Record, Heard, Ends, Paused, Turns, Reads, Gone, Quits, Going
<1>4. Sent(w) = Sent(x) /\ w.sent = x.sent
  BY <1>1, <1>2 DEF Sent, Record
<1> HIDE DEF w
<1>5. InLine(Sent(w))
  BY <1>4 DEF Sane
<1>6. LET y == gracefulClose(w) IN Sane(y) /\ Going(y) /\ y.sent = x.sent
  BY <1>3, <1>4, <1>5, CloseKeeps
<1> QED
  BY <1>6 DEF w

\* Both sides have ended.
LEMMA AutoDestroyKeeps ==
    ASSUME NEW x, Sane(x), x.socket = "ended", NEW y, y = [x EXCEPT !.socket = "destroyed"]
    PROVE  Sane(y) /\ Going(y) /\ y.sent = x.sent
<1>1. x \in Record
  BY DEF Sane, Basic
<1>2. y \in Record /\ y.socket = "destroyed" /\ \A f \in DOMAIN x \ {"socket"} : y[f] = x[f]
  BY <1>1 DEF Record, Sockets
<1>3. Basic(y) /\ Quits(y) /\ Going(y)
  BY <1>1, <1>2 DEF Sane, Basic, Record, Heard, Ends, Paused, Turns, Reads, Gone, Quits, Going
<1>4. Sent(y) = Sent(x) /\ y.sent = x.sent
  BY <1>1, <1>2 DEF Sent, Record
<1> QED
  BY <1>2, <1>3, <1>4 DEF Sane, Ordered

\* The socket has failed: what it held is lost.
LEMMA FailureKeeps ==
    ASSUME NEW x, Sane(x),
           NEW y, y = [x EXCEPT !.failed = FALSE, !.outbox = <<>>, !.socket = "destroyed"]
    PROVE  Sane(y) /\ ~y.failed /\ y.sent = x.sent
<1>1. x \in Record
  BY DEF Sane, Basic
<1>2. /\ y \in Record /\ y.socket = "destroyed" /\ ~y.failed /\ y.outbox = <<>>
      /\ \A f \in DOMAIN x \ {"socket", "failed", "outbox"} : y[f] = x[f]
  BY <1>1, EmptySeq DEF Record, Sockets
<1>3. Basic(y) /\ Quits(y)
  BY <1>1, <1>2 DEF Sane, Basic, Record, Heard, Ends, Paused, Turns, Reads, Gone, Quits
<1>4. Says(x, y, <<>>) /\ y.socket # "open"
  BY <1>1, <1>2 DEF Record, Says, SameWork
<1> QED
  BY <1>1, <1>2, <1>3, <1>4, SilenceKeeps DEF Sane

\* 'close': what the connection had is of no use any more.
LEMMA ClosedKeeps ==
    ASSUME NEW x, Sane(x), x.socket = "destroyed", ~x.failed
    PROVE  LET y == handleClose(x)
           IN  /\ Sane(y) /\ y.sent = x.sent /\ ~y.listening
               /\ y.isClosing = x.isClosing /\ y.running = x.running
               /\ y.processingQueue = x.processingQueue
<1> DEFINE y == handleClose(x)
<1>1. x \in Record
  BY DEF Sane, Basic
<1>2. /\ y \in Record /\ y.socket = "closed" /\ ~y.listening
      /\ \A f \in DOMAIN x \ {"socket", "listening", "stuck"} : y[f] = x[f]
  BY <1>1 DEF Record, Sockets, handleClose, cleanup
<1> HIDE DEF y
<1>4. /\ y.outbox = x.outbox /\ y.delivered = x.delivered /\ y.sent = x.sent
      /\ y.isClosing = x.isClosing /\ y.isDestroyed = x.isDestroyed /\ y.failed = x.failed
      /\ y.running = x.running /\ y.processingQueue = x.processingQueue
      /\ y.executed = x.executed
  BY <1>1, <1>2 DEF Record
<1>3. Basic(y) /\ Quits(y) /\ Sent(y) = Sent(x)
  <2>1. Heard(y) /\ Ends(y) /\ Paused(y)
    BY <1>2, <1>4 DEF Sane, Basic, Heard, Ends, Paused, Reads, Gone
  <2>2. Turns(y)
    BY <1>4 DEF Sane, Basic, Turns
  <2>3. Quits(y) /\ Sent(y) = Sent(x)
    BY <1>4 DEF Sane, Quits, Sent
  <2> QED
    BY <1>2, <2>1, <2>2, <2>3 DEF Basic
<1>5. Sane(y)
  BY <1>2, <1>3, <1>4 DEF Sane, Ordered
<1> QED
  BY <1>2, <1>4, <1>5 DEF y

\* A connection that nobody made, one that was just made, and one that was refused.
LEMMA NewConnections ==
    LET x == NoConnection
        y == Connected
        z == [NoConnection EXCEPT !.socket = "destroyed"]
    IN  /\ Sane(x) /\ x.sent = 0 /\ ~x.running.on /\ x.processingQueue = <<>>
        /\ Sane(y) /\ y.sent = 0 /\ Going(y)
        /\ Sane(z) /\ z.sent = 0 /\ ~z.running.on /\ z.processingQueue = <<>>
<1> DEFINE x == NoConnection
           y == Connected
           z == [NoConnection EXCEPT !.socket = "destroyed"]
<1>1. /\ <<>> \in Seq(Nat) /\ <<>> \in Seq(Request) /\ <<>> \in Seq(Seq(Request))
      /\ DOMAIN <<>> = {} /\ Len(<<>>) = 0 /\ <<>> \o <<>> = <<>>
  BY EmptySeq, ConcatEmptySeq
<1>2. Idle \in Turn
  BY <1>1 DEF Idle, Turn
<1>3. x \in Record /\ y \in Record /\ z \in Record
  BY <1>1, <1>2 DEF Record, Sockets, NoConnection, Connected
<1>4. Basic(x) /\ Basic(y) /\ Basic(z)
  BY <1>1, <1>3 DEF Basic, Heard, Ends, Paused, Turns, Reads, Gone, NoConnection, Connected, Idle
<1>5. Quits(x) /\ Quits(y) /\ Quits(z) /\ Going(y)
  BY <1>1 DEF Quits, NoConnection, Connected, Going
<1>6. /\ Sent(x) = <<>> /\ Sent(y) = <<>> /\ Sent(z) = <<>>
      /\ x.sent = 0 /\ y.sent = 0 /\ z.sent = 0
  BY <1>1 DEF Sent, NoConnection, Connected
<1>7. InLine(<<>>) /\ UpTo(<<>>, 0)
  BY <1>1 DEF InLine, UpTo
<1>8. Piece(Idle, 0, 0) /\ Chunked(<<>>, 0, 0)
  BY NothingLeft, NoChunks
<1>9. Ordered(x) /\ Ordered(y) /\ Ordered(z)
  <2>1. Ordered(x) /\ Ordered(z)
    BY DEF Ordered, NoConnection
  <2>2. y.running = Idle /\ y.processingQueue = <<>> /\ y.wire = <<>>
    BY DEF NoConnection, Connected
  <2>3. Ordered(y)
    BY <1>6, <1>7, <1>8, <2>2 DEF Ordered
  <2> QED
    BY <2>1, <2>3
<1>10. ~x.running.on /\ x.processingQueue = <<>> /\ ~z.running.on /\ z.processingQueue = <<>>
  BY DEF NoConnection, Idle
<1> QED
  BY <1>4, <1>5, <1>6, <1>7, <1>9, <1>10 DEF Sane

-----------------------------------------------------------------------------
(***************************************************************************)
(* The server.                                                             *)
(***************************************************************************)
Busy(x) == x.running.on \/ x.processingQueue # <<>>

Kept(c, x, known) ==
    /\ Sane(x) /\ x.sent <= MaxSent[c]
    /\ Up => (Busy(x) \/ c \in known => Going(x))

Config ==
    /\ connections \subseteq Conn /\ shutdownTimer \in BOOLEAN
    /\ stage \in {"serving", "closingLog", "closing", "stopped"}
    /\ aof \in {"none", "open", "closing", "closed"}
    /\ listener \in BOOLEAN /\ process \in {"up", "crashed"}

\* A connection that works, waits or is known to the server was connected, and nobody
\* but its own methods has ended it; while one is unheard the process can crash.
ServerInv ==
    /\ conn \in [Conn -> Record]
    /\ \A c \in Conn : Kept(c, conn[c], connections)
    /\ Config
    /\ listener => Up

\* No connection is made yet.
LEMMA InitKeeps == Init => ServerInv
<1> SUFFICES ASSUME Init PROVE ServerInv
  OBVIOUS
<1>1. conn = [c \in Conn |-> NoConnection]
  BY DEF Init
<1>2. /\ NoConnection \in Record /\ Sane(NoConnection) /\ NoConnection.sent = 0
      /\ ~Busy(NoConnection)
  BY NewConnections DEF Sane, Basic, Busy
<1> HIDE DEF NoConnection
<1>3. conn \in [Conn -> Record]
  BY <1>1, <1>2
<1>4. ASSUME NEW c \in Conn
      PROVE  Kept(c, conn[c], connections)
  <2>1. MaxSent[c] \in Nat /\ c \notin connections
    BY SendAssumption DEF Init
  <2> QED
    BY <1>1, <1>2, <2>1 DEF Kept
<1>5. Config /\ Up
  BY OptionAssumption DEF Init, Config, Up
<1> QED
  BY <1>3, <1>4, <1>5 DEF ServerInv

\* A step of one connection.
LEMMA OneStepKeeps ==
    ASSUME ServerInv, NEW c \in Conn, NEW x, conn' = [conn EXCEPT ![c] = x],
           Sane(x), x.sent <= MaxSent[c], Up' => (Busy(x) \/ c \in connections' => Going(x)),
           Up' => Up, connections' \subseteq connections \cup {c},
           UNCHANGED <<stage, shutdownTimer, aof, listener>>,
           process' \in {"up", "crashed"}, listener => Up'
    PROVE  ServerInv'
<1>1. x \in Record /\ conn' \in [Conn -> Record]
  BY DEF Sane, Basic, ServerInv
<1>2. ASSUME NEW d \in Conn
      PROVE  Kept(d, conn[d], connections)'
  <2>1. CASE d = c
    <3>1. conn'[d] = x
      BY <2>1 DEF ServerInv
    <3> QED
      BY <2>1, <3>1 DEF Kept
  <2>2. CASE d # c
    <3>1. conn'[d] = conn[d] /\ Kept(d, conn[d], connections)
      BY <2>2 DEF ServerInv
    <3>2. d \in connections' => d \in connections
      BY <2>2
    <3> QED
      BY <3>1, <3>2 DEF Kept
  <2> QED
    BY <2>1, <2>2
<1>3. Config'
  BY DEF ServerInv, Config
<1> QED
  BY <1>1, <1>2, <1>3 DEF ServerInv

\* A step of one connection that touches nothing else.
LEMMA OnlyKeeps ==
    ASSUME ServerInv, NEW c \in Conn, NEW x, Only(c, x), Sane(x), Going(x), x.sent <= MaxSent[c]
    PROVE  ServerInv'
<1>1. /\ conn' = [conn EXCEPT ![c] = x] /\ connections' = connections
      /\ UNCHANGED <<stage, shutdownTimer, aof, listener, process>>
  BY DEF Only, Becomes, config
<1>2. (Up' <=> Up) /\ (listener => Up') /\ process' \in {"up", "crashed"}
  BY <1>1 DEF Up, ServerInv, Config
<1> QED
  BY <1>1, <1>2, OneStepKeeps

\* What holds of a connection while the process is up.
LEMMA Kind ==
    ASSUME ServerInv, NEW c \in Conn, Up
    PROVE  /\ conn[c] \in Record /\ Sane(conn[c]) /\ conn[c].sent <= MaxSent[c]
           /\ conn[c].sent \in Nat /\ MaxSent[c] \in Nat
           /\ Basic(conn[c]) /\ Quits(conn[c]) /\ InLine(Sent(conn[c])) /\ Ordered(conn[c])
           /\ Reads(conn[c]) => Going(conn[c])
           /\ Busy(conn[c]) => Going(conn[c])
           /\ c \in connections => Going(conn[c])
           /\ conn[c].running.logging => conn[c].running.on
<1>1. /\ conn[c] \in Record /\ Sane(conn[c]) /\ conn[c].sent <= MaxSent[c]
      /\ Busy(conn[c]) => Going(conn[c])
      /\ c \in connections => Going(conn[c])
  BY DEF ServerInv, Kept
<1>2. MaxSent[c] \in Nat /\ conn[c].sent \in Nat
  BY <1>1, SendAssumption DEF Record
<1>3. Reads(conn[c]) => Going(conn[c])
  BY <1>1 DEF Sane, Basic, Ends, Reads, Going
<1>4. conn[c].running.logging => conn[c].running.on
  BY <1>1 DEF Sane, Basic, Turns, Idle
<1> QED
  BY <1>1, <1>2, <1>3, <1>4 DEF Sane

-----------------------------------------------------------------------------
\* A connection is accepted, or refused by a server that stops.
LEMMA ConnectKeeps ==
    ASSUME ServerInv, NEW c \in Conn, handleNewConnection(c)
    PROVE  ServerInv'
<1> DEFINE refused == [NoConnection EXCEPT !.socket = "destroyed"]
<1>1. Up /\ conn[c].socket = "none" /\ UNCHANGED <<stage, shutdownTimer, aof, listener, process>>
  BY DEF handleNewConnection, Settled, config
<1>2. c \notin connections
  <2>1. ~Going(conn[c])
    BY <1>1, Kind DEF Basic, Ends, Going
  <2> QED
    BY <1>1, <2>1, Kind
<1>3. (Up' <=> Up) /\ (listener => Up') /\ process' \in {"up", "crashed"}
  BY <1>1 DEF Up, ServerInv, Config
<1>4. 0 <= MaxSent[c]
  BY SendAssumption
<1>5. CASE isShuttingDown
  <2>1. conn' = [conn EXCEPT ![c] = refused] /\ connections' = connections
    BY <1>5 DEF handleNewConnection, Becomes
  <2>2. Sane(refused) /\ refused.sent = 0 /\ ~Busy(refused)
    BY NewConnections DEF Busy
  <2> HIDE DEF refused
  <2> QED
    BY <1>1, <1>2, <1>3, <1>4, <2>1, <2>2, OneStepKeeps
<1>6. CASE ~isShuttingDown
  <2>1. conn' = [conn EXCEPT ![c] = Connected] /\ connections' = connections \cup {c}
    BY <1>6 DEF handleNewConnection, Becomes
  <2>2. Sane(Connected) /\ Connected.sent = 0 /\ Going(Connected)
    BY NewConnections
  <2> QED
    BY <1>1, <1>3, <1>4, <2>1, <2>2, OneStepKeeps
<1> QED
  BY <1>5, <1>6

\* The requests of a chunk are numbered as the client goes on.
LEMMA NumberedChunk ==
    ASSUME NEW kinds \in Chunks, NEW from \in Nat
    PROVE  /\ Numbered(kinds, from) \in Seq(Request)
           /\ Len(Numbered(kinds, from)) = Len(kinds) /\ Len(kinds) \in Nat
           /\ \A i \in DOMAIN Numbered(kinds, from) : Numbered(kinds, from)[i].id = from + i
<1> DEFINE K == {"get", "set", "incr", "quit", "bad"}
           l == Len(kinds)
           s == Numbered(kinds, from)
<1>1. kinds \in Seq(K)
  BY ChunkAssumption
<1>2. l \in Nat /\ DOMAIN kinds = 1..l /\ \A i \in 1..l : kinds[i] \in K
  BY <1>1, LenProperties, ElementOfSeq
<1>3. s = [i \in 1..l |-> [id |-> from + i, kind |-> kinds[i]]]
  BY <1>2 DEF Numbered
<1> HIDE DEF l, K, s
<1>4. \A i \in 1..l : [id |-> from + i, kind |-> kinds[i]] \in Request
  BY <1>2 DEF Request, K
<1>5. s \in Seq(Request)
  BY <1>2, <1>3, <1>4
<1>6. Len(s) = l /\ DOMAIN s = 1..l
  BY <1>2, <1>3, <1>5, LenProperties
<1> QED
  BY <1>2, <1>3, <1>5, <1>6 DEF s, l

\* The steps of a client.
LEMMA ClientKeeps ==
    ASSUME ServerInv, NEW c \in Conn, Client(c)
    PROVE  ServerInv'
<1>1. CASE handleNewConnection(c)
  BY <1>1, ConnectKeeps
<1>2. CASE Send(c)
  <2>1. PICK kinds \in Chunks :
          /\ conn[c].sent + Len(kinds) <= MaxSent[c]
          /\ Only(c, [conn[c] EXCEPT !.wire = Append(@, Numbered(kinds, conn[c].sent)),
                                     !.sent = @ + Len(kinds)])
    BY <1>2 DEF Send
  <2>2. Up /\ Reads(conn[c])
    BY <1>2 DEF Send, Settled, Open
  <2> DEFINE chunk == Numbered(kinds, conn[c].sent)
             y == [conn[c] EXCEPT !.wire = Append(@, chunk), !.sent = @ + Len(chunk)]
  <2>3. /\ chunk \in Seq(Request) /\ Len(chunk) = Len(kinds)
        /\ \A i \in DOMAIN chunk : chunk[i].id = conn[c].sent + i
    BY <2>2, Kind, NumberedChunk
  <2> HIDE DEF chunk
  <2>4. Sane(y) /\ Going(y) /\ y.sent = conn[c].sent + Len(chunk)
    BY <2>2, <2>3, Kind, SendKeeps
  <2>5. Only(c, y)
    BY <2>1, <2>3 DEF chunk
  <2> HIDE DEF y
  <2> QED
    BY <2>1, <2>3, <2>4, <2>5, OnlyKeeps
<1>3. CASE Finish(c)
  <2> DEFINE y == [conn[c] EXCEPT !.wire = Append(@, FIN)]
  <2>1. Up /\ Reads(conn[c]) /\ Only(c, y)
    BY <1>3 DEF Finish, Settled, Open
  <2>2. Sane(y) /\ Going(y) /\ y.sent = conn[c].sent
    BY <2>1, Kind, FinishKeeps
  <2> HIDE DEF y
  <2> QED
    BY <2>1, <2>2, Kind, OnlyKeeps
<1>4. CASE Receive(c)
  <2> DEFINE reply == Head(conn[c].outbox)
             x == [conn[c] EXCEPT !.outbox = Tail(@), !.delivered = Append(@, reply)]
             drained == x.outbox = <<>> /\ x.needDrain /\ x.socket = "open"
             y == IF drained THEN handleDrain([x EXCEPT !.needDrain = FALSE]) ELSE x
             z == IF reply = ErrorReply THEN destroy(y) ELSE y
  <2>1. /\ Up /\ Reads(conn[c]) /\ ~conn[c].failed /\ conn[c].outbox # <<>>
        /\ Only(c, z)
    BY <1>4 DEF Receive, Settled
  <2>2. Sane(z) /\ Going(z) /\ z.sent = conn[c].sent
    BY <2>1, Kind, ReceiveKeeps
  <2> HIDE DEF z
  <2> QED
    BY <2>1, <2>2, Kind, OnlyKeeps
<1> QED
  BY <1>1, <1>2, <1>3, <1>4 DEF Client

\* 'error': with a listener the connection is destroyed, without one the process ends.
LEMMA ErrorEventKeeps ==
    ASSUME ServerInv, NEW c \in Conn, handleSocketError(c)
    PROVE  ServerInv'
<1> DEFINE x == [conn[c] EXCEPT !.failed = FALSE, !.outbox = <<>>, !.socket = "destroyed"]
           y == destroy(x)
<1>1. /\ Up /\ UNCHANGED <<connections, stage, shutdownTimer, aof, listener>>
      /\ conn[c].failed \/ Reads(conn[c])
  BY DEF handleSocketError
<1>2. Sane(x) /\ ~x.failed /\ x.sent = conn[c].sent
  BY <1>1, Kind, FailureKeeps
<1>3. Sane(y) /\ Going(y) /\ y.sent = conn[c].sent
  <2> HIDE DEF x
  <2> QED
    BY <1>2, DestroyedKeeps DEF Sane
<1>4. conn[c].listening
  BY <1>1, Kind DEF Basic, Heard
<1>5. CASE listener
  <2>1. conn' = [conn EXCEPT ![c] = y] /\ process' = process
    BY <1>4, <1>5 DEF handleSocketError, Becomes
  <2>2. Up' /\ process' \in {"up", "crashed"}
    BY <1>1, <2>1 DEF Up
  <2> HIDE DEF y
  <2> QED
    BY <1>1, <1>3, <2>1, <2>2, Kind, OneStepKeeps
<1>6. CASE ~listener
  <2>1. conn' = [conn EXCEPT ![c] = x] /\ process' = "crashed"
    BY <1>6 DEF handleSocketError, Becomes
  <2>2. ~Up' /\ process' \in {"up", "crashed"}
    BY <2>1 DEF Up
  <2> HIDE DEF x
  <2> QED
    BY <1>1, <1>2, <1>6, <2>1, <2>2, Kind, OneStepKeeps
<1> QED
  BY <1>5, <1>6

\* 'close': the server forgets the connection if its listeners are still there.
LEMMA ClosedEventKeeps ==
    ASSUME ServerInv, NEW c \in Conn, Closed(c)
    PROVE  ServerInv'
<1> DEFINE y == handleClose(conn[c])
<1>1. /\ Up /\ conn[c].socket = "destroyed" /\ ~conn[c].failed
      /\ conn' = [conn EXCEPT ![c] = y]
      /\ connections' \subseteq connections
      /\ UNCHANGED <<stage, shutdownTimer, aof, listener, process>>
  BY DEF Closed, Settled, Becomes, config
<1>2. /\ Sane(y) /\ y.sent = conn[c].sent /\ ~y.listening
      /\ y.isClosing = conn[c].isClosing /\ y.running = conn[c].running
      /\ y.processingQueue = conn[c].processingQueue
  BY <1>1, Kind, ClosedKeeps
<1>3. Up' /\ process' \in {"up", "crashed"} /\ connections' \subseteq connections \cup {c}
  BY <1>1 DEF Up
<1> HIDE DEF y
<1>4. Busy(y) \/ c \in connections' => Going(y)
  <2>1. Busy(y) \/ c \in connections' => Going(conn[c])
    BY <1>1, <1>2, Kind DEF Busy
  <2>2. Going(conn[c]) => Going(y)
    BY <1>1, <1>2 DEF Going
  <2> QED
    BY <2>1, <2>2
<1> QED
  BY <1>1, <1>2, <1>3, <1>4, Kind, OneStepKeeps

\* A command that waited for the log no longer does.
LEMMA RefusedKeeps ==
    ASSUME ServerInv, NEW c \in Conn, Up, conn[c].running.logging
    PROVE  LET x == [conn[c] EXCEPT !.running.logging = FALSE]
           IN  /\ Basic(x) /\ Going(x) /\ NoQuit(x) /\ InLine(Sent(x)) /\ Ordered(x)
               /\ x.running.on /\ x.sent = conn[c].sent
<1> DEFINE x == [conn[c] EXCEPT !.running.logging = FALSE]
           turn == [conn[c].running EXCEPT !.logging = FALSE]
<1>2. conn[c].running.on /\ Going(conn[c]) /\ NoQuit(conn[c])
  BY Kind, NoQuitYet DEF Busy
<1>3. conn[c] \in Record /\ conn[c].running \in Turn
  BY Kind DEF Record
<1>4. /\ turn \in Turn /\ turn.on /\ turn.todo = conn[c].running.todo
      /\ turn.replies = conn[c].running.replies
  BY <1>2, <1>3 DEF Turn
<1>5. x = [conn[c] EXCEPT !.running = turn]
  BY <1>3 DEF Record, Turn
<1> HIDE DEF x, turn
<1>6. x \in Record /\ x.running = turn /\ \A f \in DOMAIN conn[c] \ {"running"} : x[f] = conn[c][f]
  BY <1>3, <1>4, <1>5 DEF Record
<1>7. Basic(x) /\ Going(x) /\ NoQuit(x) /\ x.sent = conn[c].sent /\ Sent(x) = Sent(conn[c])
  <2>1. /\ x.socket = conn[c].socket /\ x.listening = conn[c].listening
        /\ x.failed = conn[c].failed /\ x.isClosing = conn[c].isClosing
        /\ x.isDestroyed = conn[c].isDestroyed /\ x.paused = conn[c].paused
        /\ x.isDraining = conn[c].isDraining /\ x.needDrain = conn[c].needDrain
        /\ x.outbox = conn[c].outbox /\ x.processingQueue = conn[c].processingQueue
        /\ x.executed = conn[c].executed /\ x.sent = conn[c].sent
        /\ x.delivered = conn[c].delivered
    BY <1>3, <1>6 DEF Record
  <2>2. Basic(conn[c])
    BY Kind
  <2>3. Heard(x) /\ Ends(x)
    BY <2>1, <2>2 DEF Basic, Heard, Ends, Reads, Gone
  <2>4. Paused(x)
    BY <2>1, <2>2 DEF Basic, Paused
  <2>5. Turns(x)
    BY <1>2, <1>4, <1>6, <2>1, <2>2 DEF Basic, Turns
  <2> QED
    BY <1>2, <1>6, <2>1, <2>3, <2>4, <2>5 DEF Basic, Going, NoQuit, Sent
<1>8. Ordered(x)
  <2>1. /\ x.socket = conn[c].socket /\ x.processingQueue = conn[c].processingQueue
        /\ x.wire = conn[c].wire /\ x.sent = conn[c].sent
    BY <1>3, <1>6 DEF Record
  <2>2. ASSUME NEW r, NEW m, Piece(conn[c].running, r, m)
        PROVE  Piece(x.running, r, m)
    BY <1>4, <1>6, <2>2 DEF Piece
  <2>3. Ordered(conn[c])
    BY Kind
  <2> QED
    BY <1>7, <2>1, <2>2, <2>3 DEF Ordered
<1>9. InLine(Sent(x)) /\ x.running.on
  BY <1>4, <1>6, <1>7, Kind
<1> QED
  BY <1>7, <1>8, <1>9 DEF x

\* The events of a socket and of the log.
LEMMA EventKeeps ==
    ASSUME ServerInv, NEW c \in Conn, Event(c)
    PROVE  ServerInv'
<1>1. CASE Data(c)
  <2> DEFINE y == handleData([conn[c] EXCEPT !.wire = Tail(@)], Head(conn[c].wire))
  <2>1. /\ Up /\ Reads(conn[c]) /\ conn[c].wire # <<>> /\ Head(conn[c].wire) # FIN
        /\ Only(c, y)
    BY <1>1 DEF Data, Settled
  <2>2. Sane(y) /\ Going(y) /\ y.sent = conn[c].sent
    BY <2>1, Kind, DataKeeps
  <2> HIDE DEF y
  <2> QED
    BY <2>1, <2>2, Kind, OnlyKeeps
<1>2. CASE handleEnd(c)
  <2> DEFINE y == gracefulClose([conn[c] EXCEPT !.wire = <<>>, !.readEnded = TRUE])
  <2>1. Up /\ Reads(conn[c]) /\ Only(c, y)
    BY <1>2 DEF handleEnd, Settled
  <2>2. Sane(y) /\ Going(y) /\ y.sent = conn[c].sent
    BY <2>1, Kind, EndKeeps
  <2> HIDE DEF y
  <2> QED
    BY <2>1, <2>2, Kind, OnlyKeeps
<1>3. CASE handleTimeout(c)
  <2> DEFINE y == gracefulClose(conn[c])
  <2>1. Up /\ Reads(conn[c]) /\ Only(c, y)
    BY <1>3 DEF handleTimeout, Settled
  <2>2. Sane(y) /\ Going(y) /\ y.sent = conn[c].sent
    BY <2>1, Kind, CloseKeeps
  <2> HIDE DEF y
  <2> QED
    BY <2>1, <2>2, Kind, OnlyKeeps
<1>4. CASE AutoDestroy(c)
  <2> DEFINE y == [conn[c] EXCEPT !.socket = "destroyed"]
  <2>1. Up /\ conn[c].socket = "ended" /\ Only(c, y)
    BY <1>4 DEF AutoDestroy, Settled
  <2>2. Sane(y) /\ Going(y) /\ y.sent = conn[c].sent
    BY <2>1, Kind, AutoDestroyKeeps
  <2> HIDE DEF y
  <2> QED
    BY <2>1, <2>2, Kind, OnlyKeeps
<1>5. CASE Logged(c)
  <2>1. Up /\ conn[c].running.logging /\ Only(c, answer(conn[c]))
    BY <1>5 DEF Logged, Settled
  <2>2. conn[c].running.on /\ Going(conn[c]) /\ NoQuit(conn[c])
    BY <2>1, Kind, NoQuitYet DEF Busy
  <2>3. Sane(answer(conn[c])) /\ Going(answer(conn[c])) /\ answer(conn[c]).sent = conn[c].sent
    BY <2>1, <2>2, Kind, AnswerKeeps DEF NoQuit
  <2> QED
    BY <2>1, <2>3, Kind, OnlyKeeps
<1>6. CASE LogFails(c)
  <2> DEFINE x == [conn[c] EXCEPT !.running.logging = FALSE]
  <2>1. Up /\ conn[c].running.logging /\ Only(c, rejected(x))
    BY <1>6 DEF LogFails, Settled
  <2>2. /\ Basic(x) /\ Going(x) /\ NoQuit(x) /\ InLine(Sent(x)) /\ Ordered(x)
        /\ x.running.on /\ x.sent = conn[c].sent
    BY <2>1, RefusedKeeps
  <2> HIDE DEF x
  <2>3. Sane(rejected(x)) /\ Going(rejected(x)) /\ rejected(x).sent = conn[c].sent
    BY <2>2, RejectedKeeps
  <2> QED
    BY <2>1, <2>3, Kind, OnlyKeeps
<1> QED
  BY <1>1, <1>2, <1>3, <1>4, <1>5, <1>6, ErrorEventKeeps, ClosedEventKeeps DEF Event

\* A chunk gets its turn, or a command is executed.
LEMMA ContinuationKeeps ==
    ASSUME ServerInv, NEW c \in Conn, Continuation(c)
    PROVE  ServerInv'
<1>1. CASE processChunk(c)
  <2>1. Up /\ Free(conn[c])
    BY <1>1 DEF processChunk
  <2>2. PICK x \in Parsed(conn[c]) : Only(c, x)
    BY <1>1 DEF processChunk
  <2>3. Going(conn[c])
    BY <2>1, Kind DEF Busy, Free
  <2>4. Sane(x) /\ Going(x) /\ x.sent = conn[c].sent
    BY <2>1, <2>3, Kind, ParsedKeeps DEF Free
  <2> QED
    BY <2>1, <2>2, <2>4, Kind, OnlyKeeps
<1>2. CASE executeCommand(c)
  <2>1. Up /\ Ready(conn[c])
    BY <1>2 DEF executeCommand
  <2>2. PICK x \in execute(conn[c], aof) : Only(c, x)
    BY <1>2 DEF executeCommand
  <2>3. Going(conn[c])
    BY <2>1, Kind DEF Busy, Ready
  <2>4. Sane(x) /\ Going(x) /\ x.sent = conn[c].sent
    BY <2>1, <2>3, Kind, ExecuteKeeps DEF Ready
  <2> QED
    BY <2>1, <2>2, <2>4, Kind, OnlyKeeps
<1> QED
  BY <1>1, <1>2 DEF Continuation

-----------------------------------------------------------------------------
\* Every connection the server knows is closed, or destroyed, and no other is touched.
LEMMA KnownChange ==
    ASSUME ServerInv, Up, NEW y, y \in [Conn -> Record],
           \A c \in connections : Sane(y[c]) /\ Going(y[c]) /\ y[c].sent = conn[c].sent,
           conn' = [c \in Conn |-> IF c \in connections THEN y[c] ELSE conn[c]],
           connections' \subseteq connections, shutdownTimer' \in BOOLEAN,
           stage' \in {"serving", "closingLog", "closing", "stopped"},
           aof' \in {"none", "open", "closing", "closed"}, UNCHANGED <<listener, process>>
    PROVE  ServerInv'
<1>1. Up' /\ Config'
  BY DEF ServerInv, Config, Up
<1>2. ASSUME NEW c \in Conn
      PROVE  conn'[c] \in Record /\ Kept(c, conn[c], connections)'
  <2>1. Kept(c, conn[c], connections) /\ conn[c] \in Record
    BY DEF ServerInv
  <2>2. CASE c \in connections
    <3>1. conn'[c] = y[c]
      BY <2>2
    <3> QED
      BY <2>1, <2>2, <3>1 DEF Kept
  <2>3. CASE c \notin connections
    <3>1. conn'[c] = conn[c] /\ c \notin connections'
      BY <2>3
    <3> QED
      BY <2>1, <3>1 DEF Kept
  <2> QED
    BY <2>2, <2>3
<1> QED
  BY <1>1, <1>2 DEF ServerInv

\* The server ends all its connections.
LEMMA CloseConnectionsKeeps ==
    ASSUME ServerInv, Up, CloseConnections, UNCHANGED <<connections, listener, process>>,
           aof' \in {"none", "open", "closing", "closed"}
    PROVE  ServerInv'
<1> DEFINE y == [c \in Conn |-> IF c \in connections THEN gracefulClose(conn[c]) ELSE conn[c]]
<1>1. ASSUME NEW c \in connections
      PROVE  /\ c \in Conn /\ Sane(gracefulClose(conn[c])) /\ Going(gracefulClose(conn[c]))
             /\ gracefulClose(conn[c]).sent = conn[c].sent
             /\ gracefulClose(conn[c]) \in Record
  <2>1. c \in Conn
    BY DEF ServerInv, Config
  <2>2. /\ Sane(gracefulClose(conn[c])) /\ Going(gracefulClose(conn[c]))
        /\ gracefulClose(conn[c]).sent = conn[c].sent
    BY <2>1, Kind, CloseKeeps
  <2> QED
    BY <2>1, <2>2 DEF Sane, Basic
<1>2. y \in [Conn -> Record]
  BY <1>1 DEF ServerInv
<1>3. \A c \in connections : y[c] = gracefulClose(conn[c])
  BY <1>1
<1>4. conn' = [c \in Conn |-> IF c \in connections THEN y[c] ELSE conn[c]]
  BY DEF CloseConnections
<1>5. shutdownTimer' \in BOOLEAN /\ stage' \in {"serving", "closingLog", "closing", "stopped"}
  BY DEF CloseConnections
<1> HIDE DEF y
<1> QED
  BY <1>1, <1>2, <1>3, <1>4, <1>5, KnownChange

\* stop begins, and goes on when the log is closed.
LEMMA StopKeeps ==
    ASSUME ServerInv, Stop \/ LogClosed
    PROVE  ServerInv'
<1>1. Up /\ UNCHANGED <<connections, listener, process>>
  BY DEF Stop, LogClosed, Settled, config
<1>2. CASE CloseConnections
  <2>1. aof' \in {"none", "open", "closing", "closed"}
    BY DEF Stop, LogClosed, ServerInv, Config
  <2> QED
    BY <1>1, <1>2, <2>1, CloseConnectionsKeeps
<1>3. CASE ~CloseConnections
  <2>1. /\ UNCHANGED <<conn, connections, shutdownTimer, listener, process>>
        /\ aof' = "closing" /\ stage' = "closingLog"
    BY <1>3 DEF Stop, LogClosed, config
  <2> QED
    BY <2>1 DEF ServerInv, Kept, Config, Up
<1> QED
  BY <1>2, <1>3

\* The timer of stop destroys what is left.
LEMMA ShutdownTimerKeeps ==
    ASSUME ServerInv, ShutdownTimer
    PROVE  ServerInv'
<1> DEFINE y == [c \in Conn |-> IF c \in connections THEN destroy(conn[c]) ELSE conn[c]]
<1>0. Up /\ \A c \in Conn : ~conn[c].failed
  BY DEF ShutdownTimer, Settled
<1>1. ASSUME NEW c \in connections
      PROVE  /\ c \in Conn /\ Sane(destroy(conn[c])) /\ Going(destroy(conn[c]))
             /\ destroy(conn[c]).sent = conn[c].sent
             /\ destroy(conn[c]) \in Record
  <2>1. c \in Conn /\ ~conn[c].failed
    BY <1>0 DEF ServerInv, Config
  <2>2. /\ Sane(destroy(conn[c])) /\ Going(destroy(conn[c]))
        /\ destroy(conn[c]).sent = conn[c].sent
    BY <1>0, <2>1, Kind, DestroyedKeeps
  <2> QED
    BY <2>1, <2>2 DEF Sane, Basic
<1>2. y \in [Conn -> Record]
  BY <1>1 DEF ServerInv
<1>3. \A c \in connections : y[c] = destroy(conn[c])
  BY <1>1
<1>4. conn' = [c \in Conn |-> IF c \in connections THEN y[c] ELSE conn[c]]
  BY DEF ShutdownTimer
<1>5. /\ connections' \subseteq connections /\ shutdownTimer' \in BOOLEAN
      /\ stage' \in {"serving", "closingLog", "closing", "stopped"}
      /\ aof' \in {"none", "open", "closing", "closed"} /\ UNCHANGED <<listener, process>>
  BY DEF ShutdownTimer, config, ServerInv, Config
<1> HIDE DEF y
<1> QED
  BY <1>0, <1>1, <1>2, <1>3, <1>4, <1>5, KnownChange

\* server.close calls back.
LEMMA ServerClosedKeeps ==
    ASSUME ServerInv, ServerClosed
    PROVE  ServerInv'
BY DEF ServerInv, Kept, Config, Up, ServerClosed, config

\* The invariant holds in every state.
LEMMA Server == Spec => []ServerInv
<1>1. ASSUME ServerInv, [Next]_vars
      PROVE  ServerInv'
  <2>1. CASE UNCHANGED vars
    BY <1>1, <2>1 DEF vars, ServerInv, Kept, Config, Up
  <2>2. ASSUME NEW c \in Conn, Client(c) \/ Event(c) \/ Continuation(c)
        PROVE  ServerInv'
    BY <1>1, <2>2, ClientKeeps, EventKeeps, ContinuationKeeps
  <2>3. CASE Stop \/ LogClosed \/ ShutdownTimer \/ ServerClosed
    BY <1>1, <2>3, StopKeeps, ShutdownTimerKeeps, ServerClosedKeeps
  <2> QED
    BY <1>1, <2>1, <2>2, <2>3 DEF Next
<1> QED
  BY InitKeeps, <1>1, PTL DEF Spec

-----------------------------------------------------------------------------
(***************************************************************************)
(* What follows.                                                           *)
(***************************************************************************)
Counts(s, n) == s \in Seq(Nat) /\ Len(s) = n /\ \A i \in DOMAIN s : s[i] = i

\* Who counts to n and goes on with n+1 counts on.
LEMMA CountsOn ==
    ASSUME NEW s, NEW n \in Nat, Counts(s, n), NEW t \in Seq(Nat), \A i \in DOMAIN t : t[i] = n + i
    PROVE  Counts(s \o t, n + Len(t))
<1> DEFINE u == s \o t
           l == Len(t)
<1>1. /\ s \in Seq(Nat) /\ Len(s) = n /\ l \in Nat
      /\ DOMAIN s = 1..n /\ DOMAIN t = 1..l
      /\ \A i \in 1..n : s[i] = i
      /\ \A i \in 1..l : t[i] = n + i
  BY LenProperties DEF Counts
<1>2. /\ u \in Seq(Nat) /\ Len(u) = n + l /\ DOMAIN u = 1..n + l
      /\ \A i \in 1..n + l : u[i] = IF i <= n THEN s[i] ELSE t[i - n]
  <2>1. /\ u \in Seq(Nat) /\ Len(u) = Len(s) + Len(t)
        /\ \A i \in 1..Len(s) + Len(t) : u[i] = IF i <= Len(s) THEN s[i] ELSE t[i - Len(s)]
    <3>1. s \in Seq(Nat)
      BY <1>1
    <3> QED
      BY <3>1, Concatenated
  <2>2. DOMAIN u = 1..Len(u)
    BY <2>1, LenProperties
  <2> QED
    BY <1>1, <2>1, <2>2
<1> HIDE DEF u, l
<1>3. ASSUME NEW i \in 1..n + l
      PROVE  u[i] = i
  <2>1. CASE i <= n
    BY <1>1, <1>2, <2>1
  <2>2. CASE i > n
    <3>1. i - n \in 1..l /\ ~(i <= n)
      BY <1>1, <2>2
    <3>2. u[i] = t[i - n]
      BY <1>2, <3>1
    <3>3. t[i - n] = n + (i - n)
      BY <1>1, <3>1
    <3> QED
      BY <1>1, <3>2, <3>3
  <2> QED
    BY <1>1, <2>1, <2>2
<1>4. Counts(u, n + l)
  BY <1>2, <1>3 DEF Counts
<1> QED
  BY <1>4 DEF u, l

\* Requests behind each other are numbered behind each other.
LEMMA NumbersFollow ==
    ASSUME NEW s \in Seq(Request), NEW t, NEW m \in Nat, NEW n \in Nat,
           \A i \in DOMAIN s : s[i].id = m + i, Numbers(t, m + Len(s), n)
    PROVE  Numbers(s \o t, m, n)
<1> DEFINE u == s \o t
           a == Len(s)
           b == Len(t)
<1>1. /\ t \in Seq(Request) /\ a \in Nat /\ b \in Nat
      /\ DOMAIN s = 1..a /\ DOMAIN t = 1..b
      /\ \A i \in 1..a : s[i].id = m + i
      /\ \A i \in 1..b : t[i].id = (m + a) + i
      /\ (m + a) + b = n
  BY LenProperties DEF Numbers
<1>2. u \in Seq(Request) /\ Len(u) = a + b /\ \A i \in 1..a + b : u[i] = IF i <= a THEN s[i] ELSE t[i - a]
  BY <1>1, ConcatProperties
<1>3. DOMAIN u = 1..a + b
  BY <1>2, LenProperties
<1> HIDE DEF u, a, b
<1>4. ASSUME NEW i \in 1..a + b
      PROVE  u[i].id = m + i
  <2>1. CASE i <= a
    <3>1. i \in 1..a
      BY <1>1, <2>1
    <3> QED
      BY <1>1, <1>2, <2>1, <3>1
  <2>2. CASE i > a
    <3>1. i - a \in 1..b /\ ~(i <= a)
      BY <1>1, <2>2
    <3>2. u[i] = t[i - a] /\ t[i - a].id = (m + a) + (i - a)
      BY <1>1, <1>2, <3>1
    <3> QED
      BY <1>1, <3>2
  <2> QED
    BY <1>1, <2>1, <2>2
<1>5. m + Len(u) = n
  BY <1>1, <1>2
<1> QED
  BY <1>2, <1>3, <1>4, <1>5 DEF Numbers, u

\* All that an open connection was sent, without an error among its replies.
LEMMA StreamCounts ==
    ASSUME NEW x, Sane(x), x.socket = "open", ~Contains(Sent(x), ErrorReply)
    PROVE  Counts(Stream(x), x.sent)
<1> DEFINE s == Sent(x)
           t == x.running.replies
           todo == x.running.todo
           F == FlattenSeq(x.processingQueue \o x.wire)
           G == todo \o F
<1>1. /\ x \in Record /\ x.sent \in Nat /\ x.wire \in Seq(Seq(Request))
      /\ x.processingQueue \in Seq(Seq(Request))
      /\ s \in Seq(Nat) /\ t \in Seq(Nat) /\ todo \in Seq(Request)
      /\ Len(s) \in Nat /\ DOMAIN s = 1..Len(s)
      /\ Len(t) \in Nat /\ DOMAIN t = 1..Len(t)
      /\ Len(todo) \in Nat
  BY ConcatProperties, LenProperties DEF Sane, Basic, Record, Turn, Sent
<1>2. PICK r, m, k \in Nat :
        /\ UpTo(s, r) /\ Piece(x.running, r, m)
        /\ Chunked(x.processingQueue, m, k) /\ Chunked(x.wire, k, x.sent)
  BY DEF Sane, Ordered
<1>3. \A i \in 1..Len(s) : s[i] # ErrorReply
  BY <1>1 DEF Contains
<1>4. Counts(s, r)
  <2>1. Len(s) = r
    BY <1>1, <1>2, <1>3 DEF UpTo
  <2>2. InLine(s)
    BY DEF Sane
  <2> HIDE DEF s
  <2>3. ASSUME NEW i \in 1..Len(s)
        PROVE  s[i] = i
    <3>1. \A j \in 1..i : j \in 1..Len(s)
      BY <1>1
    <3> QED
      BY <1>1, <1>3, <2>2, <3>1 DEF InLine
  <2> QED
    BY <1>1, <2>1, <2>3 DEF Counts
<1> HIDE DEF s
<1>5. Counts(s \o t, r + Len(t))
  BY <1>1, <1>2, <1>4, CountsOn DEF Piece
<1>6. Chunked(x.processingQueue \o x.wire, m, x.sent)
  BY <1>1, <1>2, ChunksJoin
<1>7. Numbers(F, m, x.sent)
  <2>1. x.processingQueue \o x.wire \in Seq(Seq(Request))
    BY <1>1, ConcatProperties
  <2> QED
    BY <1>1, <1>2, <1>6, <2>1, FlattenNumbers
<1> HIDE DEF F
<1>8. Numbers(G, r + Len(t), x.sent)
  <2>1. r + Len(t) \in Nat /\ m = (r + Len(t)) + Len(todo)
    BY <1>1, <1>2 DEF Piece
  <2>2. \A i \in DOMAIN todo : todo[i].id = (r + Len(t)) + i
    BY <1>2 DEF Piece
  <2> HIDE DEF t, todo
  <2> QED
    BY <1>1, <1>7, <2>1, <2>2, NumbersFollow
<1> HIDE DEF G
<1> DEFINE h == r + Len(t)
           ids == Ids(G)
<1>9. G \in Seq(Request) /\ h \in Nat /\ h + Len(G) = x.sent /\ \A i \in DOMAIN G : G[i].id = h + i
  BY <1>1, <1>8 DEF Numbers
<1> HIDE DEF h
<1>10. ids \in Seq(Nat) /\ Len(ids) = Len(G) /\ \A i \in DOMAIN ids : ids[i] = h + i
  <2> DEFINE l == Len(G)
  <2>1. l \in Nat /\ DOMAIN G = 1..l /\ \A i \in 1..l : G[i] \in Request
    BY <1>9, LenProperties, ElementOfSeq
  <2>2. ids = [i \in 1..l |-> G[i].id]
    BY <2>1 DEF Ids
  <2> HIDE DEF l, ids
  <2>3. \A i \in 1..l : G[i].id \in Nat
    BY <2>1 DEF Request
  <2>4. ids \in Seq(Nat) /\ DOMAIN ids = 1..l
    BY <2>1, <2>2, <2>3
  <2>5. Len(ids) = l
    BY <2>1, <2>4, LenProperties
  <2> QED
    BY <1>9, <2>1, <2>2, <2>4, <2>5 DEF l
<1> HIDE DEF ids
<1>11. Counts((s \o t) \o ids, h + Len(ids))
  BY <1>5, <1>9, <1>10, CountsOn DEF h
<1>12. Stream(x) = (s \o t) \o ids
  BY DEF Stream, s, t, ids, G, F, todo
<1> QED
  BY <1>9, <1>10, <1>11, <1>12

\* A connection answers and executes its requests in their order, none twice and, while
\* it is healthy, none left out, and nothing behind QUIT: whatever chunks the clients send,
\* however the turns, the log, pauses and closing are interleaved, for any number of
\* connections and any high-water mark.
THEOREM Orderly == Spec => []InOrder
<1>1. ASSUME ServerInv
      PROVE  InOrder
  <2>1. ASSUME NEW c \in Conn
        PROVE  conn[c] \in Record /\ Sane(conn[c]) /\ conn[c].sent \in 0..MaxSent[c]
    <3>1. conn[c] \in Record /\ Sane(conn[c]) /\ conn[c].sent <= MaxSent[c]
      BY <1>1 DEF ServerInv, Kept
    <3>2. conn[c].sent \in Nat /\ MaxSent[c] \in Nat
      BY <3>1, SendAssumption DEF Record
    <3> QED
      BY <3>1, <3>2
  <2>2. TypeOK
    <3>1. ASSUME NEW c \in Conn
          PROVE  conn[c].running.on <=> conn[c].running.todo # <<>>
      BY <2>1 DEF Sane, Basic, Turns, Idle
    <3> QED
      BY <1>1, <2>1, <3>1 DEF TypeOK, ServerInv, Config, Record, Sockets, Turn, Sane, Basic, Ends
  <2>3. NothingSkipped
    <3>1. ASSUME NEW c \in Conn, conn[c].socket = "open", ~Contains(Sent(conn[c]), ErrorReply)
          PROVE  Stream(conn[c]) = [i \in 1..conn[c].sent |-> i]
      <4>1. Counts(Stream(conn[c]), conn[c].sent)
        BY <2>1, <3>1, StreamCounts
      <4> DEFINE u == Stream(conn[c])
                 n == conn[c].sent
      <4>2. u \in Seq(Nat) /\ Len(u) = n /\ \A i \in DOMAIN u : u[i] = i
        BY <4>1 DEF Counts
      <4> HIDE DEF u, n
      <4>3. DOMAIN u = 1..n /\ u = [i \in DOMAIN u |-> u[i]]
        BY <4>2, LenProperties
      <4>4. u = [i \in 1..n |-> i]
        BY <4>2, <4>3
      <4> QED
        BY <4>4 DEF u, n
    <3> QED
      BY <3>1 DEF NothingSkipped
  <2>4. RepliesInOrder
    BY <2>1 DEF RepliesInOrder, Sane, InLine
  <2>5. QuitIsLast
    BY <2>1 DEF QuitIsLast, Sane, Quits
  <2> QED
    BY <2>2, <2>3, <2>4, <2>5 DEF InOrder
<1> QED
  BY <1>1, Server, PTL

\* A connection that stopped reading has output whose 'drain' will resume it, unless it is
\* closing: no connection stays paused for output that was already taken.
THEOREM Resumed == Spec => []PauseEnds
<1>1. ServerInv => PauseEnds
  BY DEF ServerInv, Kept, Sane, Basic, Paused, PauseEnds
<1> QED
  BY <1>1, Server, PTL

\* A program that listens for the errors of its connections is not ended by one: each
\* socket that can fail, or has failed, still has the connection's listener.
THEOREM ErrorsContained == Spec => []HeardErrorsContained
<1>1. ServerInv => HeardErrorsContained
  BY DEF ServerInv, HeardErrorsContained
<1> QED
  BY <1>1, Server, PTL

-----------------------------------------------------------------------------
(***************************************************************************)
(* The stop of the server.                                                 *)
(***************************************************************************)
\* With the log closed no command waits for it.
LogState ==
    /\ stage = "serving" => aof \in {"none", "open"}
    /\ stage \in {"closing", "stopped"} => aof \in {"none", "closed"}
    /\ aof \in {"none", "closed"} => \A c \in Conn : ~conn[c].running.logging

\* The server knows every connection that can still be heard, and when it has stopped
\* there is none, and none with work to do.
Calm ==
    /\ LogState
    /\ \A c \in Conn : Reads(conn[c]) => c \in connections
    /\ stage = "stopped" => \A c \in Conn : ~Reads(conn[c]) /\ ~Busy(conn[c])

\* The connection is not opened again, and no command begins to wait for the log.
Tame(x, y) == (Reads(y) => Reads(x)) /\ (y.running.logging => x.running.logging)

\* Closing, draining and writing open nothing and do not wait for the log.
LEMMA ClosingTame ==
    ASSUME NEW x \in Record
    PROVE  /\ Going(x) => Tame(x, gracefulClose(x))
           /\ Tame(x, destroy(x)) /\ Tame(x, handleDrain(x)) /\ Tame(x, handleParsingError(x))
           /\ \A chunk : Tame(x, handleData(x, chunk))
           /\ \A replies : Tame(x, write(x, replies))
<1>1. (Going(x) => Tame(x, gracefulClose(x))) /\ Tame(x, destroy(x)) /\ Tame(x, handleDrain(x))
  BY DEF Record, Tame, Reads, Going, gracefulClose, destroy, cleanup, handleDrain
<1>2. Tame(x, handleParsingError(x))
  BY DEF Record, Tame, Reads, handleParsingError, socketWrite
<1>3. \A chunk : Tame(x, handleData(x, chunk))
  BY DEF Record, Tame, Reads, handleData
<1>4. ASSUME NEW replies
      PROVE  Tame(x, write(x, replies))
  BY DEF Record, Tame, Reads, write, socketWrite
<1> QED
  BY <1>1, <1>2, <1>3, <1>4

\* Nor does a reply, or an error.
LEMMA TurnTame ==
    ASSUME NEW x, Basic(x), Going(x), x.running.on
    PROVE  Tame(x, answer(x)) /\ Tame(x, throws(x)) /\ Tame(x, rejected(x))
<1> DEFINE idle == [x EXCEPT !.running = Idle]
           replies == Append(x.running.replies, Current(x).id)
           done == write(idle, replies)
           rest == [x EXCEPT !.running.todo = Tail(@), !.running.replies = replies,
                             !.running.logging = FALSE]
<1>1. x \in Record /\ x.running \in Turn
  BY DEF Basic, Record
<1>2. Basic(idle) /\ Going(idle) /\ Tame(x, idle) /\ idle \in Record
  <2>1. Basic(idle) /\ idle.running = Idle /\ \A f \in DOMAIN x \ {"running"} : idle[f] = x[f]
    BY IdleKeeps
  <2>2. idle.socket = x.socket /\ idle.isClosing = x.isClosing
    BY <1>1, <2>1 DEF Record
  <2> HIDE DEF idle
  <2> QED
    BY <2>1, <2>2 DEF Going, Tame, Reads, Idle, Basic
<1>3. Tame(x, rest)
  BY <1>1 DEF Tame, Reads, Record, Turn
<1>4. replies \in Seq(Nat)
  BY TurnHolds, AppendProperties
<1> HIDE DEF idle, replies, rest
<1>5. Basic(done) /\ Going(done) /\ Tame(idle, done)
  BY <1>2, <1>4, WriteKeeps, ClosingTame
<1>6. Tame(done, gracefulClose(done))
  BY <1>5, ClosingTame DEF Basic
<1>7. Tame(idle, handleParsingError(idle))
  BY <1>2, ClosingTame
<1>8. answer(x) \in {rest, done, gracefulClose(done)}
  BY DEF answer, rest, done, idle, replies
<1>9. throws(x) = handleParsingError(idle)
  BY DEF throws, idle
<1> HIDE DEF done
<1>10. Tame(x, answer(x)) /\ Tame(x, throws(x))
  BY <1>2, <1>3, <1>5, <1>6, <1>7, <1>8, <1>9 DEF Tame
<1> QED
  BY <1>10 DEF rejected

\* A step of one connection that has something to do, which no server that stopped has.
LEMMA CalmStep ==
    ASSUME Calm, NEW c \in Conn, NEW x, Only(c, x), conn \in [Conn -> Record],
           Reads(conn[c]) \/ Busy(conn[c]), Reads(x) => Reads(conn[c]),
           x.running.logging => conn[c].running.logging \/ aof = "open"
    PROVE  Calm'
<1>1. /\ UNCHANGED <<connections, stage, aof>>
      /\ conn'[c] = x /\ \A d \in Conn : d # c => conn'[d] = conn[d]
  BY DEF Only, Becomes
<1>2. stage # "stopped"
  BY DEF Calm
<1> QED
  BY <1>1, <1>2 DEF Calm, LogState, Reads

\* When the server settles with its log closed, no connection has work to do.
LEMMA SettledCalm ==
    ASSUME ServerInv, Settled, \A c \in Conn : ~conn[c].running.logging
    PROVE  \A c \in Conn : ~Busy(conn[c])
BY DEF Settled, Free, Ready, Busy

\* When all connections are ended at once, those without one are done.
LEMMA CloseConnectionsCalm ==
    ASSUME ServerInv, Calm, Settled, CloseConnections, UNCHANGED connections,
           aof' \in {"none", "closed"}, \A c \in Conn : ~conn[c].running.logging
    PROVE  Calm'
<1>1. ASSUME NEW c \in Conn
      PROVE  /\ Tame(conn[c], conn'[c])
             /\ connections = {} => conn'[c] = conn[c]
  <2>1. conn'[c] = IF c \in connections THEN gracefulClose(conn[c]) ELSE conn[c]
    BY DEF CloseConnections
  <2>2. c \in connections => Tame(conn[c], gracefulClose(conn[c]))
    BY Kind, ClosingTame DEF Settled
  <2> QED
    BY <2>1, <2>2 DEF Tame
<1>2. \A c \in Conn : ~conn'[c].running.logging /\ (Reads(conn'[c]) => c \in connections')
  BY <1>1 DEF Calm, Tame
<1>3. stage' \in {"closing", "stopped"} /\ (stage' = "stopped" => connections = {})
  BY DEF CloseConnections
<1>4. connections = {} => \A c \in Conn : ~Reads(conn'[c]) /\ ~Busy(conn'[c])
  BY <1>1, SettledCalm DEF Calm
<1>5. LogState'
  BY <1>2, <1>3 DEF LogState
<1> QED
  BY <1>2, <1>3, <1>4, <1>5 DEF Calm, Reads, Busy

\* The steps of a client.
LEMMA ClientCalm ==
    ASSUME ServerInv, Calm, NEW c \in Conn, Client(c)
    PROVE  Calm'
<1>0. conn \in [Conn -> Record] /\ conn[c] \in Record
  BY DEF ServerInv
<1>1. CASE handleNewConnection(c)
  <2>1. PICK x \in {Connected, [NoConnection EXCEPT !.socket = "destroyed"]} :
          /\ conn' = [conn EXCEPT ![c] = x]
          /\ connections \subseteq connections'
          /\ Reads(x) => c \in connections'
    BY <1>1 DEF handleNewConnection, Becomes, Reads, NoConnection
  <2>2. stage # "stopped" /\ stage' = stage /\ aof' = aof
    BY <1>1 DEF handleNewConnection
  <2>3. ~x.running.logging
    <3>1. Connected.running = Idle /\ [NoConnection EXCEPT !.socket = "destroyed"].running = Idle
      BY DEF Connected, NoConnection
    <3>2. x.running = Idle
      BY <2>1, <3>1
    <3> QED
      BY <3>2 DEF Idle
  <2>4. conn'[c] = x /\ \A d \in Conn : d # c => conn'[d] = conn[d]
    BY <1>0, <2>1
  <2> QED
    BY <2>1, <2>2, <2>3, <2>4 DEF Calm, LogState, Reads
<1>2. CASE Send(c) \/ Finish(c)
  <2>1. PICK w, n : Only(c, [conn[c] EXCEPT !.wire = w, !.sent = n])
    <3>1. CASE Send(c)
      BY <3>1 DEF Send
    <3>2. CASE Finish(c)
      <4>1. [conn[c] EXCEPT !.wire = Append(@, FIN)]
              = [conn[c] EXCEPT !.wire = Append(conn[c].wire, FIN), !.sent = conn[c].sent]
        BY <1>0 DEF Record
      <4> QED
        BY <3>2, <4>1 DEF Finish
    <3> QED
      BY <1>2, <3>1, <3>2
  <2> DEFINE y == [conn[c] EXCEPT !.wire = w, !.sent = n]
  <2>2. Tame(conn[c], y)
    BY <1>0 DEF Record, Tame, Reads
  <2>3. Reads(conn[c])
    BY <1>2 DEF Send, Finish, Open
  <2> HIDE DEF y
  <2> QED
    BY <1>0, <2>1, <2>2, <2>3, CalmStep DEF Tame, y
<1>3. CASE Receive(c)
  <2> DEFINE reply == Head(conn[c].outbox)
             x == [conn[c] EXCEPT !.outbox = Tail(@), !.delivered = Append(@, reply)]
             drained == x.outbox = <<>> /\ x.needDrain /\ x.socket = "open"
             v == [x EXCEPT !.needDrain = FALSE]
             y == IF drained THEN handleDrain(v) ELSE x
             z == IF reply = ErrorReply THEN destroy(y) ELSE y
  <2>1. Up /\ Reads(conn[c]) /\ ~conn[c].failed /\ conn[c].outbox # <<>> /\ Only(c, z)
    BY <1>3 DEF Receive, Settled
  <2>2. Tame(conn[c], x) /\ Tame(conn[c], v)
    BY <1>0 DEF Record, Tame, Reads
  <2>3. Tame(conn[c], handleDrain(v))
    <3>1. handleDrain(v).socket = v.socket /\ handleDrain(v).running = v.running
      BY <1>0 DEF Record, handleDrain
    <3> HIDE DEF v
    <3> QED
      BY <2>2, <3>1 DEF Tame, Reads
  <2>4. y \in Record \/ z = y
    <3>1. conn[c].outbox \in Seq(Nat) /\ conn[c].delivered \in Seq(Nat)
      BY <1>0 DEF Record
    <3>2. Tail(conn[c].outbox) \in Seq(Nat) /\ Append(conn[c].delivered, reply) \in Seq(Nat)
      BY <2>1, <3>1, ReplyTaken
    <3>3. x \in Record
      BY <1>0, <3>2 DEF Record
    <3>4. v \in Record
      <4> HIDE DEF x
      <4> QED
        BY <3>3 DEF Record
    <3> HIDE DEF v, x
    <3>5. handleDrain(v) \in Record
      BY <3>4 DEF Record, handleDrain
    <3> QED
      BY <3>3, <3>5
  <2>5. Tame(conn[c], y)
    <3> HIDE DEF v, x, drained
    <3> QED
      BY <2>2, <2>3
  <2> HIDE DEF y
  <2>6. Tame(conn[c], z)
    BY <2>4, <2>5, ClosingTame DEF Tame
  <2> HIDE DEF z
  <2> QED
    BY <1>0, <2>1, <2>6, CalmStep DEF Tame
<1> QED
  BY <1>1, <1>2, <1>3 DEF Client

\* A socket that fails or closes leaves the rest as it is.
LEMMA SocketCalm ==
    ASSUME Calm, NEW c \in Conn, NEW x, conn' = [conn EXCEPT ![c] = x], conn \in [Conn -> Record],
           ~Reads(x), x.running = conn[c].running, x.processingQueue = conn[c].processingQueue,
           connections \ {c} \subseteq connections', UNCHANGED <<stage, aof>>
    PROVE  Calm'
<1>1. conn'[c] = x /\ \A d \in Conn : d # c => conn'[d] = conn[d]
  OBVIOUS
<1> QED
  BY <1>1 DEF Calm, LogState, Busy, Reads

\* The events of a socket and of the log.
LEMMA EventCalm ==
    ASSUME ServerInv, Calm, NEW c \in Conn, Event(c)
    PROVE  Calm'
<1>0. conn \in [Conn -> Record] /\ conn[c] \in Record
  BY DEF ServerInv
<1>1. CASE Data(c)
  <2> DEFINE x == [conn[c] EXCEPT !.wire = Tail(@)]
             y == handleData(x, Head(conn[c].wire))
  <2>1. Reads(conn[c]) /\ conn[c].wire # <<>> /\ Only(c, y)
    BY <1>1 DEF Data
  <2>2. Tame(conn[c], x)
    BY <1>0 DEF Record, Tame, Reads
  <2>3. x \in Record
    <3>1. Tail(conn[c].wire) \in Seq(Seq(Request))
      BY <1>0, <2>1, HeadTailProperties DEF Record
    <3> QED
      BY <1>0, <3>1 DEF Record
  <2> HIDE DEF x
  <2>4. Tame(x, y)
    BY <2>3, ClosingTame
  <2> HIDE DEF y
  <2> QED
    BY <1>0, <2>1, <2>2, <2>4, CalmStep DEF Tame
<1>2. CASE handleEnd(c)
  <2> DEFINE x == [conn[c] EXCEPT !.wire = <<>>, !.readEnded = TRUE]
             y == gracefulClose(x)
  <2>1. Up /\ Reads(conn[c]) /\ Only(c, y)
    BY <1>2 DEF handleEnd, Settled
  <2>2. Tame(conn[c], x) /\ x \in Record /\ (Going(conn[c]) => Going(x))
    BY <1>0, EmptySeq DEF Record, Tame, Reads, Going
  <2> HIDE DEF x
  <2>3. Tame(x, y)
    BY <2>1, <2>2, Kind, ClosingTame
  <2> HIDE DEF y
  <2> QED
    BY <1>0, <2>1, <2>2, <2>3, CalmStep DEF Tame
<1>3. CASE handleTimeout(c)
  <2>1. Up /\ Reads(conn[c]) /\ Only(c, gracefulClose(conn[c]))
    BY <1>3 DEF handleTimeout, Settled
  <2>2. Tame(conn[c], gracefulClose(conn[c]))
    BY <1>0, <2>1, Kind, ClosingTame
  <2> QED
    BY <1>0, <2>1, <2>2, CalmStep DEF Tame
<1>4. CASE AutoDestroy(c)
  <2> DEFINE y == [conn[c] EXCEPT !.socket = "destroyed"]
  <2>1. Reads(conn[c]) /\ Only(c, y)
    BY <1>4 DEF AutoDestroy, Reads
  <2>2. Tame(conn[c], y)
    BY <1>0 DEF Record, Tame, Reads
  <2> HIDE DEF y
  <2> QED
    BY <1>0, <2>1, <2>2, CalmStep DEF Tame
<1>5. CASE handleSocketError(c)
  <2> DEFINE x == [conn[c] EXCEPT !.failed = FALSE, !.outbox = <<>>, !.socket = "destroyed"]
             y == destroy(x)
  <2>1. Up /\ connections' = connections /\ UNCHANGED <<stage, aof>>
    BY <1>5 DEF handleSocketError
  <2>2. /\ ~Reads(x) /\ x.running = conn[c].running
        /\ x.processingQueue = conn[c].processingQueue
    BY <1>0 DEF Record, Reads
  <2>3. Basic(x) /\ ~x.failed
    BY <2>1, Kind, FailureKeeps DEF Sane
  <2>4. conn' = [conn EXCEPT ![c] = x] \/ conn' = [conn EXCEPT ![c] = y]
    BY <1>5 DEF handleSocketError, Becomes
  <2> HIDE DEF x
  <2>5. /\ ~Reads(y) /\ y.running = x.running /\ y.processingQueue = x.processingQueue
    BY <2>2, <2>3, DestroyKeeps, ClosingTame DEF Says, SameWork, Tame, Basic
  <2> HIDE DEF y
  <2> QED
    BY <1>0, <2>1, <2>2, <2>4, <2>5, SocketCalm
<1>6. CASE Closed(c)
  <2> DEFINE y == handleClose(conn[c])
  <2>1. /\ conn' = [conn EXCEPT ![c] = y] /\ connections \ {c} \subseteq connections'
        /\ UNCHANGED <<stage, aof>>
    BY <1>6 DEF Closed, Becomes
  <2>2. ~Reads(y) /\ y.running = conn[c].running /\ y.processingQueue = conn[c].processingQueue
    BY <1>0 DEF Record, Reads, handleClose, cleanup
  <2> HIDE DEF y
  <2> QED
    BY <1>0, <2>1, <2>2, SocketCalm
<1>7. CASE Logged(c)
  <2>1. Up /\ conn[c].running.logging /\ Only(c, answer(conn[c]))
    BY <1>7 DEF Logged, Settled
  <2>2. Busy(conn[c]) /\ conn[c].running.on
    BY <2>1, Kind DEF Busy
  <2>3. Tame(conn[c], answer(conn[c]))
    BY <2>1, <2>2, Kind, TurnTame
  <2> QED
    BY <1>0, <2>1, <2>2, <2>3, CalmStep DEF Tame
<1>8. CASE LogFails(c)
  <2> DEFINE x == [conn[c] EXCEPT !.running.logging = FALSE]
  <2>1. Up /\ conn[c].running.logging /\ Only(c, rejected(x))
    BY <1>8 DEF LogFails, Settled
  <2>2. Busy(conn[c])
    BY <2>1, Kind DEF Busy
  <2>3. Basic(x) /\ Going(x) /\ x.running.on
    BY <2>1, RefusedKeeps
  <2>4. Tame(conn[c], x)
    BY <1>0, <2>1 DEF Record, Tame, Reads
  <2> HIDE DEF x
  <2>5. Tame(x, rejected(x))
    BY <2>3, TurnTame
  <2> QED
    BY <1>0, <2>1, <2>2, <2>4, <2>5, CalmStep DEF Tame
<1> QED
  BY <1>1, <1>2, <1>3, <1>4, <1>5, <1>6, <1>7, <1>8 DEF Event

\* A chunk gets its turn; a command waits for the log only while it is open.
LEMMA ContinuationCalm ==
    ASSUME ServerInv, Calm, NEW c \in Conn, Continuation(c)
    PROVE  Calm'
<1>0. conn \in [Conn -> Record] /\ conn[c] \in Record
  BY DEF ServerInv
<1>1. CASE processChunk(c)
  <2> DEFINE y == [conn[c] EXCEPT !.processingQueue = Tail(@)]
             chunk == Head(conn[c].processingQueue)
  <2>1. Up /\ Free(conn[c])
    BY <1>1 DEF processChunk
  <2>2. PICK x \in Parsed(conn[c]) : Only(c, x)
    BY <1>1 DEF processChunk
  <2>3. Busy(conn[c])
    BY <2>1 DEF Busy, Free
  <2>4. y \in Record
    <3>1. conn[c].processingQueue \in Seq(Seq(Request)) /\ conn[c].processingQueue # <<>>
      BY <1>0, <2>1 DEF Record, Free
    <3>2. Tail(conn[c].processingQueue) \in Seq(Seq(Request))
      BY <3>1, HeadTailProperties
    <3> QED
      BY <1>0, <3>2 DEF Record
  <2>5. Tame(conn[c], y)
    BY <1>0 DEF Record, Tame, Reads
  <2> HIDE DEF y
  <2>6. Tame(y, x)
    <3>1. CASE x = y
      BY <3>1 DEF Tame
    <3>2. ASSUME NEW s \in BOOLEAN, x = handleParsingError([y EXCEPT !.stuck = s])
          PROVE  Tame(y, x)
      <4> DEFINE w == [y EXCEPT !.stuck = s]
      <4>1. w \in Record /\ Tame(y, w)
        BY <2>4 DEF Record, Tame, Reads
      <4> HIDE DEF w
      <4>2. Tame(w, handleParsingError(w))
        BY <4>1, ClosingTame
      <4> QED
        BY <3>2, <4>1, <4>2 DEF Tame, w
    <3>3. CASE x = [y EXCEPT !.running = [Idle EXCEPT !.on = TRUE, !.todo = chunk]]
      BY <2>4, <3>3 DEF Record, Tame, Reads, Idle
    <3>4. conn[c].stuck \in BOOLEAN
      BY <1>0 DEF Record
    <3> QED
      BY <2>2, <3>1, <3>2, <3>3, <3>4 DEF Parsed, y
  <2> QED
    BY <1>0, <2>2, <2>3, <2>5, <2>6, CalmStep DEF Tame
<1>2. CASE executeCommand(c)
  <2> DEFINE y == Executed(conn[c])
  <2>1. Up /\ conn[c].running.on
    BY <1>2 DEF executeCommand, Ready
  <2>2. PICK x \in execute(conn[c], aof) : Only(c, x)
    BY <1>2 DEF executeCommand
  <2>3. Busy(conn[c]) /\ Going(conn[c])
    BY <2>1, Kind DEF Busy
  <2>4. Basic(y) /\ Going(y) /\ y.running.on /\ Tame(conn[c], y)
    <3>1. Current(conn[c]) \in Request /\ conn[c].executed \in Seq(Request)
      BY <1>0, <2>1, Kind, TurnHolds DEF Record
    <3>2. Append(conn[c].executed, Current(conn[c])) \in Seq(Request)
      BY <3>1, AppendProperties
    <3>3. y \in Record /\ \A f \in DOMAIN conn[c] \ {"executed"} : y[f] = conn[c][f]
      BY <1>0, <3>2 DEF Record, Executed
    <3>4. Basic(conn[c])
      BY <2>1, Kind
    <3> HIDE DEF y
    <3>5. /\ y.socket = conn[c].socket /\ y.listening = conn[c].listening
          /\ y.failed = conn[c].failed /\ y.isClosing = conn[c].isClosing
          /\ y.isDestroyed = conn[c].isDestroyed /\ y.paused = conn[c].paused
          /\ y.isDraining = conn[c].isDraining /\ y.needDrain = conn[c].needDrain
          /\ y.outbox = conn[c].outbox /\ y.processingQueue = conn[c].processingQueue
          /\ y.running = conn[c].running
      BY <1>0, <3>3 DEF Record
    <3>6. Heard(y) /\ Ends(y)
      BY <3>4, <3>5 DEF Basic, Heard, Ends, Reads, Gone
    <3>7. Paused(y) /\ Turns(y)
      BY <3>4, <3>5 DEF Basic, Paused, Turns
    <3> QED
      BY <2>1, <2>3, <3>3, <3>5, <3>6, <3>7 DEF Basic, Going, Reads, Tame
  <2> HIDE DEF y
  <2>5. Tame(y, answer(y)) /\ Tame(y, rejected(y))
    BY <2>4, TurnTame
  <2>6. CASE x \in {answer(y), rejected(y)}
    BY <1>0, <2>2, <2>3, <2>4, <2>5, <2>6, CalmStep DEF Tame
  <2>7. CASE x = [y EXCEPT !.running.logging = TRUE] /\ aof = "open"
    <3>1. Reads(x) => Reads(y)
      BY <2>4, <2>7 DEF Basic, Record, Reads
    <3> QED
      BY <1>0, <2>2, <2>3, <2>4, <2>7, <3>1, CalmStep DEF Tame
  <2> QED
    BY <2>2, <2>6, <2>7 DEF execute, y
<1> QED
  BY <1>1, <1>2 DEF Continuation

\* The steps of stop: it has stopped when no socket is open and no turn under way.
LEMMA StopCalm ==
    ASSUME ServerInv, Calm, Stop \/ LogClosed \/ ShutdownTimer \/ ServerClosed
    PROVE  Calm'
<1>1. CASE Stop
  <2>1. CASE aof = "open"
    BY <1>1, <2>1 DEF Stop, Calm, LogState, Busy, Reads
  <2>2. CASE aof # "open"
    <3>1. /\ Settled /\ CloseConnections /\ connections' = connections /\ aof' = aof
          /\ stage = "serving"
      BY <1>1, <2>2 DEF Stop
    <3>2. aof' \in {"none", "closed"} /\ \A c \in Conn : ~conn[c].running.logging
      BY <2>2, <3>1 DEF Calm, LogState
    <3> QED
      BY <3>1, <3>2, CloseConnectionsCalm
  <2> QED
    BY <2>1, <2>2
<1>2. CASE LogClosed
  <2>1. /\ Settled /\ CloseConnections /\ connections' = connections /\ aof' = "closed"
        /\ \A c \in Conn : ~conn[c].running.logging
    BY <1>2 DEF LogClosed
  <2> QED
    BY <2>1, CloseConnectionsCalm
<1>3. CASE ShutdownTimer
  <2>0. UNCHANGED <<stage, aof>> /\ Up /\ connections \subseteq Conn
    BY <1>3 DEF ShutdownTimer, Settled, ServerInv, Config
  <2>1. ASSUME NEW c \in Conn
        PROVE  /\ ~Reads(conn'[c])
               /\ conn'[c].running = conn[c].running
               /\ conn'[c].processingQueue = conn[c].processingQueue
    <3>1. conn'[c] = IF c \in connections THEN destroy(conn[c]) ELSE conn[c]
      BY <1>3 DEF ShutdownTimer
    <3>2. conn[c] \in Record /\ (conn[c].isDestroyed => ~Reads(conn[c]))
      BY DEF ServerInv, Kept, Sane, Basic, Ends, Gone, Reads
    <3>3. /\ ~Reads(destroy(conn[c])) /\ destroy(conn[c]).running = conn[c].running
          /\ destroy(conn[c]).processingQueue = conn[c].processingQueue
      BY <3>2 DEF Record, Reads, destroy, cleanup
    <3> QED
      BY <3>1, <3>3 DEF Calm
  <2> QED
    BY <2>0, <2>1 DEF Calm, LogState, Busy, Reads
<1>4. CASE ServerClosed
  <2>1. /\ Settled /\ stage = "closing" /\ stage' = "stopped" /\ UNCHANGED <<conn, connections, aof>>
        /\ \A c \in Conn : ~Reads(conn[c])
    BY <1>4 DEF ServerClosed, Reads
  <2>2. \A c \in Conn : ~Busy(conn[c])
    BY <2>1, SettledCalm DEF Calm, LogState
  <2> QED
    BY <2>1, <2>2 DEF Calm, LogState, Busy, Reads
<1> QED
  BY <1>1, <1>2, <1>3, <1>4

\* This invariant too holds in every state.
LEMMA ServerCalm == Spec => []Calm
<1>1. ASSUME Init
      PROVE  Calm
  <2>1. ~Reads(NoConnection) /\ NoConnection.running = Idle
    BY DEF NoConnection, Reads
  <2>2. ~NoConnection.running.logging
    BY <2>1 DEF Idle
  <2>3. \A c \in Conn : conn[c] = NoConnection
    BY <1>1 DEF Init
  <2>4. stage = "serving" /\ aof \in {"none", "open"}
    BY <1>1, OptionAssumption DEF Init
  <2> HIDE DEF NoConnection
  <2> QED
    BY <2>1, <2>2, <2>3, <2>4 DEF Calm, LogState, Reads
<1>2. ASSUME ServerInv, Calm, [Next]_vars
      PROVE  Calm'
  <2>1. CASE UNCHANGED vars
    BY <1>2, <2>1 DEF vars, Calm, LogState, Busy, Reads
  <2>2. ASSUME NEW c \in Conn, Client(c) \/ Event(c) \/ Continuation(c)
        PROVE  Calm'
    BY <1>2, <2>2, ClientCalm, EventCalm, ContinuationCalm
  <2>3. CASE Stop \/ LogClosed \/ ShutdownTimer \/ ServerClosed
    BY <1>2, <2>3, StopCalm
  <2> QED
    BY <1>2, <2>1, <2>2, <2>3 DEF Next
<1> QED
  BY <1>1, <1>2, Server, PTL DEF Spec

\* What still happens to a connection when the server has stopped executes nothing.
LEMMA StoppedStep ==
    ASSUME ServerInv, Calm, stage = "stopped", NEW d \in Conn,
           Client(d) \/ Event(d) \/ Continuation(d)
    PROVE  \A c \in Conn : conn'[c].executed = conn[c].executed
<1>1. ~Reads(conn[d]) /\ ~Busy(conn[d])
  BY DEF Calm
<1>2. conn \in [Conn -> Record] /\ conn[d] \in Record
  BY DEF ServerInv
<1>3. PICK x : conn' = [conn EXCEPT ![d] = x] /\ x.executed = conn[d].executed
  <2>1. Up
    BY DEF Client, Event, Continuation, handleNewConnection, Send, Finish, Receive, Data,
           handleEnd, handleTimeout, AutoDestroy, handleSocketError, Closed, Logged, LogFails,
           processChunk, executeCommand, Settled
  <2>2. ~conn[d].running.logging
    BY <1>1, <2>1, Kind DEF Busy
  <2>3. handleSocketError(d) \/ Closed(d)
    BY <1>1, <2>2
       DEF Client, Event, Continuation, handleNewConnection, Send, Finish, Receive, Open, Data,
           handleEnd, handleTimeout, AutoDestroy, Logged, LogFails, processChunk, executeCommand,
           Reads, Busy, Free, Ready
  <2> DEFINE y == [conn[d] EXCEPT !.failed = FALSE, !.outbox = <<>>, !.socket = "destroyed"]
  <2>4. y.executed = conn[d].executed
    BY <1>2 DEF Record
  <2>5. destroy(y).executed = conn[d].executed
    BY <1>2 DEF Record, destroy, cleanup
  <2>6. handleClose(conn[d]).executed = conn[d].executed
    BY <1>2 DEF Record, handleClose, cleanup
  <2>7. \/ conn' = [conn EXCEPT ![d] = y] \/ conn' = [conn EXCEPT ![d] = destroy(y)]
        \/ conn' = [conn EXCEPT ![d] = handleClose(conn[d])]
    BY <2>3 DEF handleSocketError, Closed, Becomes
  <2> HIDE DEF y
  <2> QED
    BY <2>4, <2>5, <2>6, <2>7
<1> QED
  BY <1>2, <1>3

\* When stop has returned no socket is open, and no command is executed any more,
\* although turns run on after the connections were ended.
THEOREM Stopped == Spec => StoppedIsQuiet
<1>1. ASSUME ServerInv, Calm, [Next]_vars
      PROVE  [stage = "stopped" => \A c \in Conn :
                 ~Reads(conn[c]) /\ conn'[c].executed = conn[c].executed]_vars
  <2>1. SUFFICES ASSUME stage = "stopped", Next, NEW c \in Conn
                 PROVE  conn'[c].executed = conn[c].executed
    BY <1>1 DEF Calm, vars
  <2>2. ASSUME NEW d \in Conn, Client(d) \/ Event(d) \/ Continuation(d)
        PROVE  conn'[c].executed = conn[c].executed
    BY <1>1, <2>1, <2>2, StoppedStep
  <2>3. CASE ShutdownTimer
    <3>1. conn[c] \in Record
      BY <1>1 DEF ServerInv
    <3>2. destroy(conn[c]).executed = conn[c].executed
      BY <3>1 DEF Record, destroy, cleanup
    <3> QED
      BY <2>3, <3>2 DEF ShutdownTimer
  <2>4. CASE Stop \/ LogClosed \/ ServerClosed
    BY <2>1, <2>4 DEF Stop, LogClosed, ServerClosed
  <2> QED
    BY <2>1, <2>2, <2>3, <2>4 DEF Next
<1> QED
  BY <1>1, Server, ServerCalm, PTL DEF Spec, StoppedIsQuiet
=============================================================================
