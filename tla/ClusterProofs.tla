---------------------------- MODULE ClusterProofs ----------------------------
(***************************************************************************)
(* The ring: what the search finds, what a node changes, and where the     *)
(* coordinator's keys go.  Then the locks of the cluster are exact, and a  *)
(* cross-shard deletion reaches every shard before one of them begins with *)
(* it; and the cluster is one store (ClusterStore).  At the end the locks  *)
(* themselves, for the threads of AtomicLock.                              *)
(***************************************************************************)
EXTENDS ClusterCoordinator, AtomicLock, LeastNumber, FiniteSetTheorems, SequenceTheorems
-----------------------------------------------------------------------------
\* Rings are kept sorted.
Rings == {ring \in Seq(Entry) : Sorted(ring)}

\* A ring is an array of hashes.
LEMMA RingShape ==
    ASSUME NEW ring \in Seq(Entry)
    PROVE  /\ Len(ring) \in Nat /\ DOMAIN ring = 1..Len(ring)
           /\ \A j \in DOMAIN ring : /\ j \in Nat /\ ring[j] \in Entry
                                     /\ ring[j].hash \in Nat /\ ring[j].node \in Node
<1>1. \A j \in DOMAIN ring : ring[j] \in Entry
  OBVIOUS
<1>2. \A e \in Entry : e.hash \in Nat /\ e.node \in Node
  BY DEF Entry
<1> QED
  BY <1>1, <1>2

\* There is one place behind the smaller and equal hashes and in front of the others.
LEMMA BehindFacts ==
    ASSUME NEW ring \in Rings, NEW entry \in Entry
    PROVE  /\ Behind(ring, entry) \in 0..Len(ring)
           /\ \A i \in DOMAIN ring : ring[i].hash <= entry.hash <=> i <= Behind(ring, entry)
<1> DEFINE S == {p \in 0..Len(ring) : p = 0 \/ ring[p].hash <= entry.hash}
           p == Max(S)
<1>1. ring \in Seq(Entry) /\ Sorted(ring) /\ entry.hash \in Nat
  BY DEF Rings, Entry
<1>2. Len(ring) \in Nat /\ S \in SUBSET (0..Len(ring)) /\ 0 \in S
  BY <1>1
<1>3. p \in S /\ \A i \in S : i <= p
  <2> HIDE DEF S
  <2> QED
    BY <1>2, Greatest
<1> HIDE DEF p
<1>4. p \in 0..Len(ring)
  BY <1>3
<1>5. ASSUME NEW i \in DOMAIN ring
      PROVE  ring[i].hash <= entry.hash <=> i <= p
  <2>1. i \in 1..Len(ring) /\ ring[i].hash \in Nat
    BY <1>1, RingShape
  <2>2. ring[i].hash <= entry.hash => i <= p
    BY <1>3, <2>1
  <2>3. ASSUME i <= p
        PROVE  ring[i].hash <= entry.hash
    <3>1. p \in DOMAIN ring /\ ring[p].hash \in Nat /\ ring[p].hash <= entry.hash
      BY <1>1, <1>3, <1>4, <2>1, <2>3, RingShape
    <3>2. ring[i].hash <= ring[p].hash
      BY <1>1, <2>1, <2>3, <3>1 DEF Sorted
    <3> QED
      BY <1>1, <2>1, <3>1, <3>2
  <2> QED
    BY <2>2, <2>3
<1> QED
  BY <1>4, <1>5 DEF Behind

\* r is ring with an entry more behind position p.
Inserted(ring, entry, p, r) ==
    /\ p \in 0..Len(ring) /\ Len(r) = Len(ring) + 1
    /\ \A i \in 1..p : r[i] = ring[i]
    /\ r[p + 1] = entry
    /\ \A i \in p + 1..Len(ring) : r[i + 1] = ring[i]

\* An insertion moves the entries behind it by one position.
LEMMA InsertMoves ==
    ASSUME NEW ring \in Rings, NEW entry \in Entry
    PROVE  /\ Insert(ring, entry) \in Seq(Entry)
           /\ Inserted(ring, entry, Behind(ring, entry), Insert(ring, entry))
<1>1. PICK p \in 0..Len(ring) : p = Behind(ring, entry)
  BY BehindFacts
<1>2. ring \in Seq(Entry) /\ Len(ring) \in Nat
  BY DEF Rings
<1> DEFINE low == SubSeq(ring, 1, (p + 1) - 1)
           high == SubSeq(ring, p + 1, Len(ring))
<1>3. /\ low \in Seq(Entry) /\ Len(low) = p /\ \A i \in 1..p : low[i] = ring[i]
      /\ high \in Seq(Entry) /\ Len(high) = Len(ring) - p
      /\ \A i \in 1..Len(ring) - p : high[i] = ring[p + i]
  BY <1>2
<1>4. Insert(ring, entry) = (low \o <<entry>>) \o high
  <2>1. Insert(ring, entry) = InsertAt(ring, p + 1, entry)
    BY <1>1 DEF Insert
  <2>2. InsertAt(ring, p + 1, entry) = (low \o <<entry>>) \o high
    BY Zenon DEF InsertAt
  <2> QED
    BY <2>1, <2>2
<1> HIDE DEF low, high
<1> DEFINE front == low \o <<entry>>
           r == front \o high
<1>5. /\ front \in Seq(Entry) /\ Len(front) = p + 1 /\ front[p + 1] = entry
      /\ \A i \in 1..p : front[i] = ring[i]
  <2>1. /\ front \in Seq(Entry) /\ Len(front) = p + 1 /\ front[p + 1] = entry
        /\ \A i \in 1..p : front[i] = low[i]
    BY <1>3
  <2> QED
    BY <1>3, <2>1
<1> HIDE DEF front
<1>6. r \in Seq(Entry) /\ Len(r) = Len(ring) + 1
  <2>1. \A a, b \in Seq(Entry) : a \o b \in Seq(Entry) /\ Len(a \o b) = Len(a) + Len(b)
    OBVIOUS
  <2>2. front \in Seq(Entry) /\ high \in Seq(Entry)
    BY <1>3, <1>5
  <2>3. Len(r) = Len(front) + Len(high) /\ r \in Seq(Entry)
    BY <2>1, <2>2
  <2>4. Len(front) = p + 1 /\ Len(high) = Len(ring) - p /\ p \in Int /\ Len(ring) \in Int
    BY <1>2, <1>3, <1>5
  <2> QED
    BY <2>3, <2>4
<1>7. (\A i \in 1..p : r[i] = ring[i]) /\ r[p + 1] = entry
  BY <1>2, <1>3, <1>5
<1>8. ASSUME NEW i \in p + 1..Len(ring)
      PROVE  r[i + 1] = ring[i]
  <2>1. PICK k \in 1..Len(ring) - p : i = p + k
    <3>1. i - p \in 1..Len(ring) - p /\ i = p + (i - p)
      BY <1>2
    <3> QED
      BY <3>1
  <2>2. r[p + 1 + k] = high[k]
    BY <1>2, <1>3, <1>5
  <2>3. i + 1 = p + 1 + k
    BY <1>2, <2>1
  <2> QED
    BY <1>3, <2>1, <2>2, <2>3
<1> HIDE DEF r
<1>9. Inserted(ring, entry, p, r)
  BY <1>6, <1>7, <1>8 DEF Inserted
<1>10. r = Insert(ring, entry)
  BY <1>4 DEF r, front
<1> QED
  BY <1>1, <1>6, <1>9, <1>10

\* Every position of the new ring is the entry's or an old one's.
LEMMA InsertedCases ==
    ASSUME NEW ring \in Seq(Entry), NEW entry, NEW p, NEW r \in Seq(Entry), Inserted(ring, entry, p, r),
           NEW j \in DOMAIN r
    PROVE  \/ j = p + 1 /\ r[j] = entry
           \/ \E i \in DOMAIN ring : /\ r[j] = ring[i]
                                     /\ (i <= p /\ j = i) \/ (i > p /\ j = i + 1)
<1>1. /\ Len(ring) \in Nat /\ DOMAIN ring = 1..Len(ring) /\ DOMAIN r = 1..Len(ring) + 1
      /\ p \in 0..Len(ring)
  BY DEF Inserted
<1>2. CASE j = p + 1
  BY <1>2 DEF Inserted
<1>3. CASE j <= p
  <2>1. j \in DOMAIN ring /\ r[j] = ring[j]
    BY <1>1, <1>3 DEF Inserted
  <2> QED
    BY <1>3, <2>1
<1>4. CASE j > p + 1
  <2>1. j - 1 \in p + 1..Len(ring) /\ j - 1 + 1 = j
    BY <1>1, <1>4
  <2>2. r[j] = ring[j - 1] /\ j - 1 \in DOMAIN ring /\ j - 1 > p
    BY <1>1, <2>1 DEF Inserted
  <2> QED
    BY <2>1, <2>2
<1> QED
  BY <1>1, <1>2, <1>3, <1>4

\* The sort puts it where the ring stays sorted.
LEMMA InsertSorts ==
    ASSUME NEW ring \in Rings, NEW entry \in Entry
    PROVE  Insert(ring, entry) \in Rings /\ Insert(ring, entry) # <<>>
<1> DEFINE p == Behind(ring, entry)
           r == Insert(ring, entry)
<1>1. ring \in Seq(Entry) /\ r \in Seq(Entry) /\ Inserted(ring, entry, p, r)
  BY InsertMoves DEF Rings
<1>2. p \in 0..Len(ring) /\ \A i \in DOMAIN ring : ring[i].hash <= entry.hash <=> i <= p
  BY BehindFacts
<1> HIDE DEF p, r
<1>3. ASSUME NEW i \in DOMAIN r, NEW j \in DOMAIN r, i < j
      PROVE  r[i].hash <= r[j].hash
  <2>1. \/ i = p + 1 /\ r[i] = entry
        \/ \E a \in DOMAIN ring : r[i] = ring[a] /\ ((a <= p /\ i = a) \/ (a > p /\ i = a + 1))
    BY <1>1, InsertedCases
  <2>2. \/ j = p + 1 /\ r[j] = entry
        \/ \E b \in DOMAIN ring : r[j] = ring[b] /\ ((b <= p /\ j = b) \/ (b > p /\ j = b + 1))
    BY <1>1, InsertedCases
  <2>3. /\ Sorted(ring) /\ entry.hash \in Nat /\ p \in Nat
        /\ \A a \in DOMAIN ring : a \in Nat /\ ring[a].hash \in Nat
    <3>1. /\ Len(ring) \in Nat
          /\ \A a \in DOMAIN ring : a \in Nat /\ ring[a].hash \in Nat
      BY <1>1, RingShape
    <3>2. Sorted(ring) /\ entry.hash \in Nat
      BY DEF Rings, Entry
    <3> QED
      BY <1>2, <3>1, <3>2
  <2>4. i \in Nat /\ j \in Nat
    BY <1>1, RingShape
  <2>5. CASE i = p + 1 /\ r[i] = entry
    BY <1>2, <1>3, <2>2, <2>3, <2>4, <2>5
  <2>6. ASSUME NEW a \in DOMAIN ring, r[i] = ring[a], (a <= p /\ i = a) \/ (a > p /\ i = a + 1)
        PROVE  r[i].hash <= r[j].hash
    <3>1. CASE j = p + 1 /\ r[j] = entry
      BY <1>2, <1>3, <2>3, <2>4, <2>6, <3>1
    <3>2. ASSUME NEW b \in DOMAIN ring, r[j] = ring[b], (b <= p /\ j = b) \/ (b > p /\ j = b + 1)
          PROVE  r[i].hash <= r[j].hash
      <4>1. a < b
        BY <1>3, <2>3, <2>4, <2>6, <3>2
      <4> QED
        BY <2>3, <2>6, <3>2, <4>1 DEF Sorted
    <3> QED
      BY <2>2, <3>1, <3>2
  <2> QED
    BY <2>1, <2>5, <2>6
<1>4. Len(r) \in Nat /\ Len(r) # 0 /\ Len(<<>>) = 0
  BY <1>1, RingShape DEF Inserted
<1>5. r \in Rings /\ r # <<>>
  BY <1>1, <1>3, <1>4 DEF Rings, Sorted
<1> QED
  BY <1>5 DEF r

\* It adds an entry of its node.
LEMMA InsertGrows ==
    ASSUME NEW ring \in Rings, NEW entry \in Entry
    PROVE  Grown(ring, Insert(ring, entry), entry.node)
<1> DEFINE p == Behind(ring, entry)
           r == Insert(ring, entry)
<1>1. ring \in Seq(Entry) /\ r \in Seq(Entry) /\ Inserted(ring, entry, p, r)
  BY InsertMoves DEF Rings
<1> HIDE DEF p, r
<1>2. /\ Len(ring) \in Nat /\ DOMAIN ring = 1..Len(ring) /\ DOMAIN r = 1..Len(ring) + 1
      /\ p \in 0..Len(ring)
  BY <1>1, RingShape DEF Inserted
<1> DEFINE f == [i \in DOMAIN ring |-> IF i <= p THEN i ELSE i + 1]
<1>3. f \in [DOMAIN ring -> DOMAIN r]
  BY <1>2
<1>4. \A i, j \in DOMAIN ring : i < j => f[i] < f[j]
  BY <1>2
<1>5. ASSUME NEW i \in DOMAIN ring
      PROVE  r[f[i]] = ring[i]
  <2>1. CASE i <= p
    <3>1. i \in 1..p /\ f[i] = i
      BY <1>2, <2>1
    <3> QED
      BY <1>1, <3>1 DEF Inserted
  <2>2. CASE i > p
    <3>1. i \in p + 1..Len(ring) /\ f[i] = i + 1
      BY <1>2, <2>2
    <3> QED
      BY <1>1, <3>1 DEF Inserted
  <2> QED
    BY <1>2, <2>1, <2>2
<1>6. ASSUME NEW j \in DOMAIN r, \A i \in DOMAIN ring : f[i] # j
      PROVE  r[j].node = entry.node
  <2>1. \/ j = p + 1 /\ r[j] = entry
        \/ \E i \in DOMAIN ring : r[j] = ring[i] /\ ((i <= p /\ j = i) \/ (i > p /\ j = i + 1))
    BY <1>1, InsertedCases
  <2>2. ASSUME NEW i \in DOMAIN ring, (i <= p /\ j = i) \/ (i > p /\ j = i + 1)
        PROVE  FALSE
    <3>1. f[i] = j
      BY <1>2, <2>2
    <3> QED
      BY <1>6, <3>1
  <2> QED
    BY <2>1, <2>2
<1> HIDE DEF f
<1>7. Grown(ring, r, entry.node)
  BY <1>3, <1>4, <1>5, <1>6 DEF Grown
<1> QED
  BY <1>7 DEF r

\* A ring has grown from itself, by nothing.
LEMMA GrownRefl ==
    ASSUME NEW ring \in Seq(Entry), NEW n
    PROVE  Grown(ring, ring, n)
<1> DEFINE f == [i \in DOMAIN ring |-> i]
<1>1. f \in [DOMAIN ring -> DOMAIN ring] /\ \A i \in DOMAIN ring : f[i] = i
  OBVIOUS
<1> HIDE DEF f
<1> QED
  BY <1>1 DEF Grown

\* A ring that has grown from a grown one has grown.
LEMMA GrownTrans ==
    ASSUME NEW a \in Seq(Entry), NEW b \in Seq(Entry), NEW c \in Seq(Entry), NEW n,
           Grown(a, b, n), Grown(b, c, n)
    PROVE  Grown(a, c, n)
<1>1. PICK f \in [DOMAIN a -> DOMAIN b] :
        /\ \A i, j \in DOMAIN a : i < j => f[i] < f[j]
        /\ \A i \in DOMAIN a : b[f[i]] = a[i]
        /\ \A p \in DOMAIN b : (\A i \in DOMAIN a : f[i] # p) => b[p].node = n
  BY DEF Grown
<1>2. PICK g \in [DOMAIN b -> DOMAIN c] :
        /\ \A i, j \in DOMAIN b : i < j => g[i] < g[j]
        /\ \A i \in DOMAIN b : c[g[i]] = b[i]
        /\ \A p \in DOMAIN c : (\A i \in DOMAIN b : g[i] # p) => c[p].node = n
  BY DEF Grown
<1> DEFINE h == [i \in DOMAIN a |-> g[f[i]]]
<1>3. h \in [DOMAIN a -> DOMAIN c] /\ \A i \in DOMAIN a : f[i] \in DOMAIN b /\ h[i] = g[f[i]]
  BY <1>1, <1>2
<1> HIDE DEF h
<1>4. \A i, j \in DOMAIN a : i < j => h[i] < h[j]
  BY <1>1, <1>2, <1>3
<1>5. \A i \in DOMAIN a : c[h[i]] = a[i]
  BY <1>1, <1>2, <1>3
<1>6. ASSUME NEW p \in DOMAIN c, \A i \in DOMAIN a : h[i] # p
      PROVE  c[p].node = n
  <2>1. CASE \A i \in DOMAIN b : g[i] # p
    BY <1>2, <2>1
  <2>2. ASSUME NEW q \in DOMAIN b, g[q] = p
        PROVE  c[p].node = n
    <3>1. \A i \in DOMAIN a : f[i] # q
      BY <1>3, <1>6, <2>2
    <3> QED
      BY <1>1, <1>2, <2>2, <3>1
  <2> QED
    BY <2>1, <2>2
<1> QED
  BY <1>3, <1>4, <1>5, <1>6 DEF Grown

\* The virtual nodes of a node.
LEMMA Vnodes ==
    ASSUME NEW n \in Node
    PROVE  /\ VnodeHashes[n] \in Seq(Nat) /\ Len(VnodeHashes[n]) \in Nat \ {0}
           /\ \A i \in 1..Len(VnodeHashes[n]) : /\ VnodeHashes[n][i] \in Nat
                                                /\ [hash |-> VnodeHashes[n][i], node |-> n] \in Entry
<1>1. VnodeHashes[n] \in Seq(Nat) /\ VnodeHashes[n] # <<>>
  BY RingAssumption
<1>2. PICK l \in Seq(Nat) : l = VnodeHashes[n]
  BY <1>1
<1>3. Len(l) \in Nat /\ Len(l) # 0 /\ \A i \in 1..Len(l) : l[i] \in Nat
  BY <1>1, <1>2
<1> QED
  BY <1>1, <1>2, <1>3 DEF Entry

\* The ring while the virtual nodes of n are inserted.
Adds(g, ring, n) ==
    LET l == VnodeHashes[n]
    IN  /\ g \in [0..Len(l) -> Rings]
        /\ g[0] = ring
        /\ \A i \in 1..Len(l) : g[i] = Insert(g[i - 1], [hash |-> l[i], node |-> n])

\* addNode inserts them one by one, in their order.
LEMMA AddGoesOn ==
    ASSUME NEW ring \in Rings, NEW n \in Node, ~HasNode(ring, n)
    PROVE  \E g : Adds(g, ring, n) /\ addNode(ring, n) = g[Len(VnodeHashes[n])]
<1>1. PICK l \in Seq(Nat), m \in Nat : l = VnodeHashes[n] /\ m = Len(l) /\ m # 0
                                      /\ DOMAIN l = 1..m /\ \A i \in 1..m : [hash |-> l[i], node |-> n] \in Entry
  BY Vnodes
<1> DEFINE step == [p \in Rings \X (1..m) |-> Insert(p[1], [hash |-> l[p[2]], node |-> n])]
           Is(h) == h = [s \in SUBSET (1..m) |->
                           IF s = {} THEN ring
                           ELSE Insert(h[s \ {Max(s)}], [hash |-> l[Max(s)], node |-> n])]
           iter == CHOOSE h : Is(h)
<1>2. \A y \in Rings, i \in 1..m : step[<<y, i>>] = Insert(y, [hash |-> l[i], node |-> n])
  OBVIOUS
<1>3. \A y \in Rings, i \in 1..m : Insert(y, [hash |-> l[i], node |-> n]) \in Rings
  BY <1>1, InsertSorts
<1> HIDE DEF step
<1>4. StaysIn(step, Rings, m)
  BY <1>2, <1>3 DEF StaysIn
<1>5. \E f : Is(f)
  <2>1. PICK f \in [SUBSET (1..m) -> Rings] : FoldsWith(f, ring, step, m)
    BY <1>1, <1>4, FoldWith
  <2>2. ASSUME NEW s \in SUBSET (1..m)
        PROVE  f[s] = IF s = {} THEN ring
                      ELSE Insert(f[s \ {Max(s)}], [hash |-> l[Max(s)], node |-> n])
    <3>1. CASE s # {}
      <4>1. /\ Max(s) \in 1..m /\ s \ {Max(s)} \in SUBSET (1..m)
            /\ f[s] = step[<<f[s \ {Max(s)}], Max(s)>>]
        BY <2>1, <3>1 DEF FoldsWith
      <4>2. f[s \ {Max(s)}] \in Rings
        BY <4>1
      <4> QED
        BY <1>2, <3>1, <4>1, <4>2
    <3> QED
      BY <2>1, <3>1 DEF FoldsWith
  <2>3. f = [s \in SUBSET (1..m) |-> f[s]]
    OBVIOUS
  <2> QED
    BY <2>2, <2>3
<1>6. Is(iter)
  <2> HIDE DEF Is
  <2> QED
    BY <1>5
<1>7. addNode(ring, n) = iter[1..m]
  BY <1>1 DEF addNode, FoldLeft, MapThenFoldSet
<1> HIDE DEF iter
<1>8. iter[{}] = ring
  BY <1>6
<1>9. FoldsWithin(iter, Rings, step, m)
  <2>1. ASSUME NEW i \in 1..m, iter[1..i - 1] \in Rings
        PROVE  iter[1..i] = step[<<iter[1..i - 1], i>>]
    <3>1. /\ 1..i \in SUBSET (1..m) /\ 1..i # {}
          /\ Max(1..i) = i /\ (1..i) \ {i} = 1..i - 1
      BY <1>1, FirstPositions
    <3>2. iter[1..i] = Insert(iter[1..i - 1], [hash |-> l[i], node |-> n])
      BY <1>6, <3>1
    <3> QED
      BY <1>2, <2>1, <3>2
  <2> QED
    BY <2>1 DEF FoldsWithin
<1>10. PICK g : Course(g, Rings, ring, step, m) /\ g[m] = iter[1..m]
  <2> HIDE DEF Is
  <2> QED
    BY <1>4, <1>8, <1>9, FoldGoesOn
<1>11. \A i \in 1..m : g[i] = Insert(g[i - 1], [hash |-> l[i], node |-> n])
  <2>1. \A i \in 1..m : g[i - 1] \in Rings /\ g[i] = step[<<g[i - 1], i>>]
    BY <1>10 DEF Course
  <2> QED
    BY <1>2, <2>1
<1>12. Adds(g, ring, n)
  BY <1>1, <1>10, <1>11 DEF Adds, Course
<1> QED
  BY <1>1, <1>7, <1>10, <1>12

\* A ring with a node more is sorted, not empty, and has the entries it had.
LEMMA AddKeeps ==
    ASSUME NEW ring \in Rings, NEW n \in Node
    PROVE  /\ addNode(ring, n) \in Rings /\ addNode(ring, n) # <<>>
           /\ Grown(ring, addNode(ring, n), n)
<1>1. CASE HasNode(ring, n)
  <2>1. addNode(ring, n) = ring /\ ring \in Seq(Entry)
    BY <1>1 DEF addNode, Rings
  <2>2. \A i : i \notin DOMAIN <<>>
    OBVIOUS
  <2>3. ring # <<>>
    BY <1>1, <2>2 DEF HasNode
  <2> QED
    BY <2>1, <2>3, GrownRefl
<1>2. CASE ~HasNode(ring, n)
  <2>1. PICK m \in Nat \ {0} : m = Len(VnodeHashes[n])
    BY Vnodes
  <2>2. PICK g : Adds(g, ring, n) /\ addNode(ring, n) = g[m]
    BY <1>2, <2>1, AddGoesOn
  <2>3. /\ g \in [0..m -> Rings] /\ g[0] = ring
        /\ \A i \in 1..m : /\ [hash |-> VnodeHashes[n][i], node |-> n] \in Entry
                           /\ g[i] = Insert(g[i - 1], [hash |-> VnodeHashes[n][i], node |-> n])
    BY <2>1, <2>2, Vnodes DEF Adds
  <2> DEFINE S == {i \in 0..m : Grown(ring, g[i], n)}
  <2>4. 0 \in S
    BY <2>3, GrownRefl DEF Rings
  <2>5. ASSUME NEW i \in 1..m
        PROVE  g[i] # <<>> /\ (i - 1 \in S => i \in S)
    <3> DEFINE e == [hash |-> VnodeHashes[n][i], node |-> n]
    <3>1. e \in Entry /\ e.node = n /\ g[i - 1] \in Rings /\ g[i] = Insert(g[i - 1], e)
      BY <2>3
    <3> HIDE DEF e
    <3>2. g[i] # <<>> /\ g[i] \in Rings /\ Grown(g[i - 1], g[i], n)
      BY <3>1, InsertSorts, InsertGrows
    <3>3. i - 1 \in S => Grown(ring, g[i], n)
      BY <3>1, <3>2, GrownTrans DEF Rings
    <3> QED
      BY <3>2, <3>3
  <2>6. \A i \in 0..m : i \in S
    <3> HIDE DEF S
    <3> QED
      BY <2>1, <2>4, <2>5, Reached
  <2>7. m \in 1..m /\ m \in 0..m
    BY <2>1
  <2> QED
    BY <2>2, <2>3, <2>5, <2>6, <2>7
<1> QED
  BY <1>1, <1>2
\* The values of the three variables of a search.
At(ring) == [low : 1..Len(ring) + 1, high : 0..Len(ring), result : 1..Len(ring) + 1]

\* What holds between two turns: everything left of low is too small, and everything from
\* result on is not; they close in on each other.
SearchInv(ring, target, at) ==
    /\ at \in At(ring)
    /\ at.low <= at.high + 1
    /\ at.result = at.high + 1
    /\ \A j \in DOMAIN ring : j < at.low => ring[j].hash < target
    /\ at.result <= Len(ring) => ring[at.result].hash >= target

Rest(at) == at.high - at.low + 1

\* The loop starts with all entries between its ends.
LEMMA StartIsSound ==
    ASSUME NEW ring \in Seq(Entry), NEW target \in Nat
    PROVE  /\ SearchInv(ring, target, SearchStart(ring))
           /\ Rest(SearchStart(ring)) = Len(ring)
BY DEF SearchInv, SearchStart, At, Rest, Entry

\* One turn of the loop keeps what it has found out about a sorted ring, and leaves fewer
\* entries between its ends.
LEMMA StepIsSound ==
    ASSUME NEW ring \in Seq(Entry), Sorted(ring), NEW target \in Nat,
           NEW at, SearchInv(ring, target, at), at.low <= at.high
    PROVE  /\ SearchInv(ring, target, SearchStep(ring, target, at))
           /\ Rest(SearchStep(ring, target, at)) < Rest(at)
<1> DEFINE mid == (at.low + at.high) \div 2
           next == SearchStep(ring, target, at)
<1>1. /\ at.low \in 1..Len(ring) /\ at.high \in 1..Len(ring)
      /\ mid \in at.low..at.high /\ mid \in DOMAIN ring /\ Len(ring) \in Nat
  BY DEF SearchInv, At
<1>2. \A j \in DOMAIN ring : j \in Nat /\ ring[j].hash \in Nat
  BY RingShape
<1> HIDE DEF mid
<1>3. CASE ring[mid].hash >= target
  <2>1. next = [low |-> at.low, high |-> mid - 1, result |-> mid]
    BY <1>3 DEF SearchStep, mid
  <2> QED
    BY <2>1, <1>1, <1>2, <1>3 DEF SearchInv, At, Rest
<1>4. CASE ring[mid].hash < target
  <2>1. next = [low |-> mid + 1, high |-> at.high, result |-> at.result]
    BY <1>4, <1>1, <1>2 DEF SearchStep, mid
  <2>2. \A j \in DOMAIN ring : j < mid + 1 => ring[j].hash < target
    BY <1>1, <1>2, <1>4 DEF Sorted
  <2> QED
    BY <2>1, <2>2, <1>1, <1>2 DEF SearchInv, At, Rest
<1> QED
  BY <1>1, <1>2, <1>3, <1>4

\* After as many turns as the ring has entries the loop has ended.
LEMMA TurnsFindFirst ==
    ASSUME NEW ring \in Seq(Entry), Sorted(ring), NEW target \in Nat,
           NEW after, after[0] = SearchStart(ring),
           \A n \in 1..Len(ring) : after[n] = Turn(ring, target, after[n - 1])
    PROVE  IsFirst(ring, target, after[Len(ring)].result)
<1> DEFINE Sound(n) == SearchInv(ring, target, after[n]) /\ Rest(after[n]) <= Len(ring) - n
           Bad == {n \in 0..Len(ring) : ~Sound(n)}
<1>1. Len(ring) \in Nat
  OBVIOUS
<1>2. Sound(0)
  BY StartIsSound
<1>3. ASSUME NEW n \in 1..Len(ring), Sound(n - 1)
      PROVE  Sound(n)
  <2> DEFINE at == after[n - 1]
  <2>1. after[n] = Turn(ring, target, at)
    OBVIOUS
  <2>2. SearchInv(ring, target, at) /\ Rest(at) <= Len(ring) - (n - 1)
    BY <1>3
  <2>3. at.low \in Nat /\ at.high \in Nat
    BY <2>2 DEF SearchInv, At
  <2> HIDE DEF at
  <2>4. CASE at.low > at.high
    BY <2>1, <2>2, <2>3, <2>4, <1>1 DEF Turn, Rest
  <2>5. CASE at.low <= at.high
    <3> DEFINE next == SearchStep(ring, target, at)
    <3>1. after[n] = next
      BY <2>1, <2>3, <2>5 DEF Turn
    <3>2. SearchInv(ring, target, next) /\ Rest(next) < Rest(at)
      BY <2>2, <2>5, StepIsSound
    <3>3. next.low \in Nat /\ next.high \in Nat
      BY <3>2 DEF SearchInv, At
    <3> HIDE DEF next
    <3>4. Rest(next) <= Len(ring) - n
      BY <3>2, <3>3, <2>2, <2>3, <1>1 DEF Rest
    <3> QED
      BY <3>1, <3>2, <3>4
  <2> QED
    BY <2>3, <2>4, <2>5
<1> HIDE DEF Sound
<1>4. Bad = {}
  <2> SUFFICES ASSUME Bad # {} PROVE FALSE
    OBVIOUS
  <2>0. Bad \in SUBSET Nat
    BY <1>1
  <2>1. PICK n \in Bad : \A j \in Bad : n <= j
    <3> HIDE DEF Bad
    <3> QED
      BY <2>0, Least
  <2>2. n \in 1..Len(ring) /\ n - 1 \in 0..Len(ring) /\ n - 1 < n
    BY <1>1, <1>2, <2>1
  <2>3. Sound(n - 1)
    BY <2>1, <2>2
  <2> QED
    BY <1>3, <2>1, <2>2, <2>3
<1>5. Sound(Len(ring))
  BY <1>1, <1>4
<1> DEFINE end == after[Len(ring)]
<1>6. SearchInv(ring, target, end) /\ Rest(end) <= 0
  BY <1>1, <1>5 DEF Sound
<1> HIDE DEF end
<1>7. end.low = end.high + 1 /\ end.result = end.low /\ end.low \in 1..Len(ring) + 1
  BY <1>1, <1>6 DEF SearchInv, Rest, At
<1>8. \A j \in 1..end.result - 1 : ring[j].hash < target
  BY <1>1, <1>6, <1>7 DEF SearchInv
<1> QED
  BY <1>6, <1>7, <1>8 DEF IsFirst, SearchInv, end

\* The binary search finds the first entry of a sorted ring whose hash is at least the
\* target, or the end when there is none, within as many turns as there are entries: also
\* with equal hashes, with one entry and with none (consistent-hash.ts:106).
THEOREM SearchFindsTheFirst ==
    ASSUME NEW ring \in Seq(Entry), Sorted(ring), NEW target \in Nat
    PROVE  IsFirst(ring, target, binarySearch(ring, target))
<1>1. PICK n \in Nat : n = Len(ring)
  BY RingShape
<1> DEFINE X == {at \in At(ring) : SearchInv(ring, target, at)}
           x == SearchStart(ring)
           step == [at \in X |-> Turn(ring, target, at)]
           after[i \in 0..n] == IF i = 0 THEN x ELSE Turn(ring, target, after[i - 1])
<1>2. x \in X
  BY StartIsSound DEF SearchInv
<1>3. ASSUME NEW at \in X
      PROVE  step[at] = Turn(ring, target, at) /\ step[at] \in X
  <2>1. SearchInv(ring, target, at) /\ at.low \in Nat /\ at.high \in Int
    BY RingShape DEF SearchInv, At
  <2>2. CASE at.low > at.high
    BY <2>2 DEF Turn
  <2>3. CASE at.low <= at.high
    <3>1. ~(at.low > at.high)
      BY <2>1, <2>3
    <3>2. SearchInv(ring, target, SearchStep(ring, target, at))
      BY <2>1, <2>3, StepIsSound
    <3> QED
      BY <3>1, <3>2 DEF Turn, SearchInv
  <2> QED
    BY <2>1, <2>2, <2>3
<1>4. binarySearch(ring, target) = after[n].result
  BY <1>1 DEF binarySearch
<1> HIDE DEF X, x, step
<1>5. PICK f : f \in [0..n -> X] /\ Iterates(f, x, step, n)
  BY <1>2, <1>3, Iterated
<1>6. f = [i \in 0..n |-> IF i = 0 THEN x ELSE Turn(ring, target, f[i - 1])]
  <2>1. ASSUME NEW i \in 0..n
        PROVE  f[i] = IF i = 0 THEN x ELSE Turn(ring, target, f[i - 1])
    <3>1. f[i] = IF i = 0 THEN x ELSE step[f[i - 1]]
      BY <1>5 DEF Iterates
    <3>2. i # 0 => f[i - 1] \in X
      BY <1>5
    <3> QED
      BY <1>3, <3>1, <3>2
  <2>2. f = [i \in 0..n |-> f[i]]
    BY <1>5
  <2> QED
    BY <2>1, <2>2
<1>7. after = [i \in 0..n |-> IF i = 0 THEN x ELSE Turn(ring, target, after[i - 1])]
  BY <1>6
<1> HIDE DEF after
<1>8. after[0] = x /\ \A i \in 1..n : after[i] = Turn(ring, target, after[i - 1])
  <2>1. \A i \in 0..n : after[i] = IF i = 0 THEN x ELSE Turn(ring, target, after[i - 1])
    BY <1>7
  <2>2. 0 \in 0..n /\ \A i \in 1..n : i \in 0..n /\ i # 0
    OBVIOUS
  <2> QED
    BY <2>1, <2>2
<1>9. IsFirst(ring, target, after[n].result)
  BY <1>1, <1>8, TurnsFindFirst DEF x
<1> QED
  BY <1>4, <1>9

\* With entries of a node in between, a key stays where it was or goes to that node.
LEMMA OnlyItsKeysMove ==
    ASSUME NEW ring \in Seq(Entry), NEW bigger \in Seq(Entry), ring # <<>>, NEW n,
           Grown(ring, bigger, n),
           NEW target \in Nat, NEW i, IsFirst(ring, target, i), NEW j, IsFirst(bigger, target, j)
    PROVE  bigger[Wrapped(bigger, j)].node \in {n, ring[Wrapped(ring, i)].node}
<1>1. PICK f \in [DOMAIN ring -> DOMAIN bigger] :
        /\ \A a, b \in DOMAIN ring : a < b => f[a] < f[b]
        /\ \A a \in DOMAIN ring : bigger[f[a]] = ring[a]
        /\ \A p \in DOMAIN bigger : (\A a \in DOMAIN ring : f[a] # p) => bigger[p].node = n
  BY DEF Grown
<1>2. /\ Len(ring) \in Nat \ {0} /\ DOMAIN ring = 1..Len(ring) /\ 1 \in DOMAIN ring
      /\ Len(bigger) \in Nat /\ DOMAIN bigger = 1..Len(bigger)
      /\ \A a \in DOMAIN ring : a \in Int /\ f[a] \in 1..Len(bigger) /\ ring[a].hash \in Nat
  <2>1. Len(ring) # 0
    OBVIOUS
  <2> QED
    BY <2>1, RingShape
<1>3. i \in 1..Len(ring) + 1 /\ j \in 1..Len(bigger) + 1
  BY DEF IsFirst
<1>4. ASSUME NEW a \in DOMAIN ring, f[a] = Wrapped(bigger, j)
      PROVE  a = Wrapped(ring, i)
  <2>1. CASE j <= Len(bigger)
    <3>1. f[a] = j
      BY <1>2, <1>3, <1>4, <2>1 DEF Wrapped
    <3>2. ring[a].hash >= target
      BY <1>1, <2>1, <3>1 DEF IsFirst
    <3>3. i <= a
      BY <1>2, <1>3, <3>2 DEF IsFirst
    <3>4. ASSUME i < a PROVE FALSE
      <4>1. i \in DOMAIN ring /\ f[i] < j
        BY <1>1, <1>2, <1>3, <3>1, <3>4
      <4>2. ring[i].hash < target
        BY <1>1, <1>2, <1>3, <4>1 DEF IsFirst
      <4> QED
        BY <1>2, <4>1, <4>2 DEF IsFirst
    <3> QED
      BY <1>2, <1>3, <3>3, <3>4 DEF Wrapped
  <2>2. CASE j = Len(bigger) + 1
    <3>1. f[a] = 1
      BY <1>2, <1>4, <2>2 DEF Wrapped
    <3>2. \A b \in DOMAIN ring : ring[b].hash < target
      BY <1>1, <1>2, <2>2 DEF IsFirst
    <3>3. i = Len(ring) + 1
      BY <1>2, <1>3, <3>2 DEF IsFirst
    <3>4. a = 1
      BY <1>1, <1>2, <3>1
    <3> QED
      BY <1>2, <3>3, <3>4 DEF Wrapped
  <2>3. j <= Len(bigger) \/ j = Len(bigger) + 1
    BY <1>2, <1>3
  <2> QED
    BY <2>1, <2>2, <2>3
<1>5. Wrapped(bigger, j) \in DOMAIN bigger
  BY <1>2, <1>3 DEF Wrapped
<1> QED
  BY <1>1, <1>4, <1>5
-----------------------------------------------------------------------------
\* The ring while the entries of n are filtered out.
Filters(g, ring, n) ==
    /\ g \in [0..Len(ring) -> Seq(Entry)]
    /\ g[0] = <<>>
    /\ \A i \in 1..Len(ring) :
          g[i] = IF ring[i].node = n THEN g[i - 1] ELSE Append(g[i - 1], ring[i])

\* removeNode goes through them in their order.
LEMMA RemoveGoesOn ==
    ASSUME NEW ring \in Seq(Entry), NEW n
    PROVE  \E g : Filters(g, ring, n) /\ removeNode(ring, n) = g[Len(ring)]
<1>1. PICK m \in Nat : m = Len(ring) /\ DOMAIN ring = 1..m /\ \A i \in 1..m : ring[i] \in Entry
  BY RingShape
<1> DEFINE X == Seq(Entry)
           e == <<>>
           step == [p \in X \X (1..m) |->
                      IF ring[p[2]].node = n THEN p[1] ELSE Append(p[1], ring[p[2]])]
           Is(h) == h = [s \in SUBSET (1..m) |->
                           IF s = {} THEN e
                           ELSE IF ring[Max(s)].node = n THEN h[s \ {Max(s)}]
                                ELSE Append(h[s \ {Max(s)}], ring[Max(s)])]
           iter == CHOOSE h : Is(h)
<1>2. \A y \in X, i \in 1..m :
        step[<<y, i>>] = IF ring[i].node = n THEN y ELSE Append(y, ring[i])
  OBVIOUS
<1>3. \A y \in X, i \in 1..m : Append(y, ring[i]) \in X
  BY <1>1
<1>4. removeNode(ring, n) = iter[1..m]
  BY <1>1 DEF removeNode, FoldLeft, MapThenFoldSet
<1>5. e \in X
  OBVIOUS
<1> HIDE DEF step, X, e
<1>6. StaysIn(step, X, m)
  BY <1>2, <1>3 DEF StaysIn
<1>7. \E f : Is(f)
  <2>1. PICK f \in [SUBSET (1..m) -> X] : FoldsWith(f, e, step, m)
    BY <1>5, <1>6, FoldWith
  <2>2. ASSUME NEW s \in SUBSET (1..m)
        PROVE  f[s] = IF s = {} THEN e
                      ELSE IF ring[Max(s)].node = n THEN f[s \ {Max(s)}]
                           ELSE Append(f[s \ {Max(s)}], ring[Max(s)])
    <3>1. CASE s # {}
      <4>1. /\ Max(s) \in 1..m /\ s \ {Max(s)} \in SUBSET (1..m)
            /\ f[s] = step[<<f[s \ {Max(s)}], Max(s)>>]
        BY <2>1, <3>1 DEF FoldsWith
      <4>2. f[s \ {Max(s)}] \in X
        BY <4>1
      <4> QED
        BY <1>2, <3>1, <4>1, <4>2
    <3> QED
      BY <2>1, <3>1 DEF FoldsWith
  <2>3. f = [s \in SUBSET (1..m) |-> f[s]]
    OBVIOUS
  <2> QED
    BY <2>2, <2>3
<1>8. Is(iter)
  <2> HIDE DEF Is
  <2> QED
    BY <1>7
<1> HIDE DEF iter
<1>9. iter[{}] = e
  BY <1>8
<1>10. FoldsWithin(iter, X, step, m)
  <2>1. ASSUME NEW i \in 1..m, iter[1..i - 1] \in X
        PROVE  iter[1..i] = step[<<iter[1..i - 1], i>>]
    <3>1. /\ 1..i \in SUBSET (1..m) /\ 1..i # {}
          /\ Max(1..i) = i /\ (1..i) \ {i} = 1..i - 1
      BY <1>1, FirstPositions
    <3>2. iter[1..i] = IF ring[i].node = n THEN iter[1..i - 1]
                       ELSE Append(iter[1..i - 1], ring[i])
      BY <1>8, <3>1
    <3> QED
      BY <1>2, <2>1, <3>2
  <2> QED
    BY <2>1 DEF FoldsWithin
<1>11. PICK g : Course(g, X, e, step, m) /\ g[m] = iter[1..m]
  <2> HIDE DEF Is
  <2> QED
    BY <1>5, <1>6, <1>9, <1>10, FoldGoesOn
<1>12. \A i \in 1..m : g[i] = IF ring[i].node = n THEN g[i - 1] ELSE Append(g[i - 1], ring[i])
  <2>1. \A i \in 1..m : g[i - 1] \in X /\ g[i] = step[<<g[i - 1], i>>]
    BY <1>11 DEF Course
  <2> QED
    BY <1>2, <2>1
<1>13. Filters(g, ring, n)
  BY <1>1, <1>11, <1>12 DEF Filters, Course, X, e
<1> QED
  BY <1>1, <1>4, <1>11, <1>13

\* kept has the first i entries of ring but those of n.
KeptOf(f, kept, ring, i, n) ==
    /\ f \in [DOMAIN kept -> 1..i]
    /\ \A a, b \in DOMAIN kept : a < b => f[a] < f[b]
    /\ \A a \in DOMAIN kept : ring[f[a]] = kept[a]
    /\ \A p \in 1..i : (\A a \in DOMAIN kept : f[a] # p) => ring[p].node = n

\* One entry more is kept or not.
LEMMA KeepsOneMore ==
    ASSUME NEW ring \in Seq(Entry), NEW n, NEW i \in 1..Len(ring), NEW kept \in Seq(Entry),
           NEW f, KeptOf(f, kept, ring, i - 1, n)
    PROVE  \E g : KeptOf(g, IF ring[i].node = n THEN kept ELSE Append(kept, ring[i]), ring, i, n)
<1>1. PICK k \in Nat : k = Len(kept) /\ DOMAIN kept = 1..k
  BY RingShape
<1>2. i \in Nat \ {0} /\ ring[i] \in Entry
  BY RingShape
<1>3. \A a \in 1..k : f[a] \in 1..i - 1 /\ f[a] \in 1..i /\ f[a] < i /\ f[a] # i
  BY <1>1, <1>2 DEF KeptOf
<1>4. CASE ring[i].node = n
  <2>1. f \in [DOMAIN kept -> 1..i]
    BY <1>1, <1>3 DEF KeptOf
  <2>2. ASSUME NEW p \in 1..i, \A a \in DOMAIN kept : f[a] # p
        PROVE  ring[p].node = n
    <3>1. p = i \/ p \in 1..i - 1
      BY <1>2
    <3> QED
      BY <1>4, <2>2, <3>1 DEF KeptOf
  <2>3. KeptOf(f, kept, ring, i, n)
    BY <2>1, <2>2 DEF KeptOf
  <2> QED
    BY <1>4, <2>3
<1>5. CASE ring[i].node # n
  <2> DEFINE more == Append(kept, ring[i])
             g == [a \in 1..k + 1 |-> IF a = k + 1 THEN i ELSE f[a]]
  <2>1. DOMAIN more = 1..k + 1 /\ more[k + 1] = ring[i] /\ \A a \in 1..k : more[a] = kept[a]
    BY <1>1, <1>2
  <2>2. /\ DOMAIN g = 1..k + 1 /\ g[k + 1] = i /\ \A a \in 1..k : g[a] = f[a]
        /\ g = [a \in 1..k + 1 |-> g[a]]
    BY <1>1
  <2>3. \A a \in 1..k + 1 : a = k + 1 \/ a \in 1..k
    OBVIOUS
  <2> HIDE DEF more, g
  <2>4. g \in [DOMAIN more -> 1..i]
    <3>1. ASSUME NEW a \in 1..k + 1
          PROVE  g[a] \in 1..i
      <4>1. i \in 1..i
        BY <1>2
      <4> QED
        BY <1>3, <2>2, <2>3, <4>1
    <3> QED
      BY <2>1, <2>2, <3>1
  <2>5. ASSUME NEW a \in 1..k + 1, NEW b \in 1..k + 1, a < b
        PROVE  g[a] < g[b]
    <3>1. a \in 1..k
      BY <1>1, <2>5
    <3>2. CASE b = k + 1
      BY <1>3, <2>2, <3>1, <3>2
    <3>3. CASE b \in 1..k
      BY <1>1, <2>2, <2>5, <3>1, <3>3 DEF KeptOf
    <3> QED
      BY <2>3, <3>2, <3>3
  <2>6. \A a \in 1..k + 1 : ring[g[a]] = more[a]
    BY <1>1, <2>1, <2>2, <2>3 DEF KeptOf
  <2>7. ASSUME NEW p \in 1..i, \A a \in 1..k + 1 : g[a] # p
        PROVE  ring[p].node = n
    <3>1. p # i
      BY <1>1, <2>2, <2>7
    <3>2. p \in 1..i - 1
      BY <1>2, <3>1
    <3>3. \A a \in 1..k : f[a] # p
      <4>1. \A a \in 1..k : a \in 1..k + 1
        BY <1>1
      <4> QED
        BY <2>2, <2>7, <4>1
    <3> QED
      BY <1>1, <3>2, <3>3 DEF KeptOf
  <2>8. KeptOf(g, more, ring, i, n)
    BY <2>1, <2>4, <2>5, <2>6, <2>7 DEF KeptOf
  <2> QED
    BY <1>5, <2>8 DEF more
<1> QED
  BY <1>4, <1>5

\* A ring is what is left without a node, grown by the entries of the node.
LEMMA RemoveShrinks ==
    ASSUME NEW ring \in Seq(Entry), NEW n
    PROVE  removeNode(ring, n) \in Seq(Entry) /\ Grown(removeNode(ring, n), ring, n)
<1>1. PICK m \in Nat : m = Len(ring) /\ DOMAIN ring = 1..m
  BY RingShape
<1>2. PICK g : Filters(g, ring, n) /\ removeNode(ring, n) = g[m]
  BY <1>1, RemoveGoesOn
<1> DEFINE S == {i \in 0..m : \E f : KeptOf(f, g[i], ring, i, n)}
<1>3. 0 \in S
  <2> DEFINE e == <<>>
             f == [a \in {} |-> a]
  <2>1. g[0] = e /\ DOMAIN e = {} /\ f \in [{} -> 1..0] /\ 1..0 = {}
    BY <1>2 DEF Filters
  <2> HIDE DEF e, f
  <2>2. KeptOf(f, e, ring, 0, n)
    BY <2>1 DEF KeptOf
  <2> QED
    BY <2>1, <2>2
<1>4. ASSUME NEW i \in 1..m, i - 1 \in S
      PROVE  i \in S
  <2>1. PICK f : KeptOf(f, g[i - 1], ring, i - 1, n)
    BY <1>4
  <2>2. /\ g[i - 1] \in Seq(Entry)
        /\ g[i] = IF ring[i].node = n THEN g[i - 1] ELSE Append(g[i - 1], ring[i])
    BY <1>1, <1>2 DEF Filters
  <2>3. \E h : KeptOf(h, g[i], ring, i, n)
    BY <1>1, <2>1, <2>2, KeepsOneMore
  <2> QED
    BY <2>3
<1>5. m \in S
  <2> HIDE DEF S
  <2>1. \A i \in 0..m : i \in S
    BY <1>3, <1>4, Reached
  <2> QED
    BY <2>1
<1>6. PICK f : KeptOf(f, g[m], ring, m, n)
  BY <1>5
<1>7. g[m] \in Seq(Entry)
  BY <1>1, <1>2 DEF Filters
<1>8. Grown(g[m], ring, n)
  BY <1>1, <1>6 DEF KeptOf, Grown
<1> QED
  BY <1>2, <1>7, <1>8

\* It is sorted too.
LEMMA RemoveKeeps ==
    ASSUME NEW ring \in Rings, NEW n
    PROVE  removeNode(ring, n) \in Rings /\ Grown(removeNode(ring, n), ring, n)
<1> DEFINE less == removeNode(ring, n)
<1>1. ring \in Seq(Entry) /\ Sorted(ring) /\ less \in Seq(Entry) /\ Grown(less, ring, n)
  BY RemoveShrinks DEF Rings
<1> HIDE DEF less
<1>2. PICK f \in [DOMAIN less -> DOMAIN ring] :
        /\ \A a, b \in DOMAIN less : a < b => f[a] < f[b]
        /\ \A a \in DOMAIN less : ring[f[a]] = less[a]
  BY <1>1 DEF Grown
<1>3. Sorted(less)
  BY <1>1, <1>2 DEF Sorted
<1>4. less \in Rings
  BY <1>1, <1>3 DEF Rings
<1> QED
  BY <1>1, <1>4 DEF less

\* A node of a ring that is not empty has the key.
LEMMA GetsNode ==
    ASSUME NEW ring \in Rings, ring # <<>>, NEW target \in Nat
    PROVE  /\ IsFirst(ring, target, binarySearch(ring, target))
           /\ Wrapped(ring, binarySearch(ring, target)) \in DOMAIN ring
           /\ getNode(ring, target) \in Node
<1>1. IsFirst(ring, target, binarySearch(ring, target))
  BY SearchFindsTheFirst DEF Rings
<1>2. ring \in Seq(Entry) /\ Len(ring) \in Nat \ {0} /\ DOMAIN ring = 1..Len(ring)
  BY RingShape DEF Rings
<1>3. Wrapped(ring, binarySearch(ring, target)) \in DOMAIN ring
  BY <1>1, <1>2 DEF IsFirst, Wrapped
<1> QED
  BY <1>1, <1>2, <1>3, RingShape DEF getNode

\* "Minimal key churn": when a node joins, a key stays where it was or goes to that node
\* (consistent-hash.ts:41), equal hashes included.
THEOREM NodesJoin ==
    ASSUME NEW ring \in Rings, ring # <<>>, NEW n \in Node, NEW keyHash \in Nat
    PROVE  getNode(addNode(ring, n), keyHash) \in {n, getNode(ring, keyHash)}
<1> DEFINE more == addNode(ring, n)
<1>1. more \in Rings /\ more # <<>> /\ Grown(ring, more, n)
  BY AddKeeps
<1> HIDE DEF more
<1>2. ring \in Seq(Entry) /\ more \in Seq(Entry)
  BY <1>1 DEF Rings
<1>3. getNode(more, keyHash) \in {n, getNode(ring, keyHash)}
  BY <1>1, <1>2, GetsNode, OnlyItsKeysMove DEF getNode
<1> QED
  BY <1>3 DEF more

\* When a node leaves that is not the last one, only its keys move (consistent-hash.ts:61).
THEOREM NodesLeave ==
    ASSUME NEW ring \in Rings, NEW n, removeNode(ring, n) # <<>>, NEW keyHash \in Nat
    PROVE  \/ getNode(ring, keyHash) = n
           \/ getNode(removeNode(ring, n), keyHash) = getNode(ring, keyHash)
<1> DEFINE less == removeNode(ring, n)
<1>1. less \in Rings /\ less # <<>> /\ Grown(less, ring, n)
  BY RemoveKeeps
<1> HIDE DEF less
<1>2. ring \in Seq(Entry) /\ less \in Seq(Entry)
  BY <1>1 DEF Rings
<1>3. ring # <<>>
  <2>1. PICK f \in [DOMAIN less -> DOMAIN ring] : TRUE
    BY <1>1 DEF Grown
  <2>2. 1 \in DOMAIN less
    BY <1>1, <1>2
  <2>3. f[1] \in DOMAIN ring
    BY <2>1, <2>2
  <2>4. DOMAIN <<>> = {}
    OBVIOUS
  <2> QED
    BY <2>3, <2>4
<1>4. getNode(ring, keyHash) \in {n, getNode(less, keyHash)}
  BY <1>1, <1>2, <1>3, GetsNode, OnlyItsKeysMove DEF getNode
<1> QED
  BY <1>4 DEF less
-----------------------------------------------------------------------------
\* The ring while the constructor adds the shards.
Builds(g) ==
    /\ g \in [0..ShardCount -> Rings]
    /\ g[0] = <<>>
    /\ \A i \in 1..ShardCount : g[i] = addNode(g[i - 1], i - 1)

\* It adds them in their order.
LEMMA RingGoesOn == \E g : Builds(g) /\ Ring = g[ShardCount]
<1>1. PICK m \in Nat : m = ShardCount /\ m # 0 /\ \A i \in 1..m : i - 1 \in Node
  BY ClusterAssumption
<1> DEFINE l == [i \in 1..m |-> i - 1]
           e == <<>>
           step == [p \in Rings \X (1..m) |-> addNode(p[1], p[2] - 1)]
           Is(h) == h = [s \in SUBSET (1..m) |->
                           IF s = {} THEN e ELSE addNode(h[s \ {Max(s)}], l[Max(s)])]
           iter == CHOOSE h : Is(h)
<1>2. \A y \in Rings, i \in 1..m : step[<<y, i>>] = addNode(y, i - 1)
  OBVIOUS
<1>3. DOMAIN l = 1..m /\ \A i \in 1..m : l[i] = i - 1
  OBVIOUS
<1> HIDE DEF step
<1>4. StaysIn(step, Rings, m)
  BY <1>1, <1>2, AddKeeps DEF StaysIn
<1>5. e \in Rings
  BY DEF Rings, Sorted
<1>6. Ring = iter[1..m]
  <2>1. Ring = FoldLeft(addNode, <<>>, l)
    BY <1>1 DEF Ring
  <2> HIDE DEF l
  <2> QED
    BY <1>3, <2>1 DEF FoldLeft, MapThenFoldSet
<1> HIDE DEF l, e
<1>7. \E f : Is(f)
  <2>1. PICK f \in [SUBSET (1..m) -> Rings] : FoldsWith(f, e, step, m)
    BY <1>4, <1>5, FoldWith
  <2>2. ASSUME NEW s \in SUBSET (1..m)
        PROVE  f[s] = IF s = {} THEN e ELSE addNode(f[s \ {Max(s)}], l[Max(s)])
    <3>1. CASE s # {}
      <4>1. /\ Max(s) \in 1..m /\ s \ {Max(s)} \in SUBSET (1..m)
            /\ f[s] = step[<<f[s \ {Max(s)}], Max(s)>>]
        BY <2>1, <3>1 DEF FoldsWith
      <4>2. f[s \ {Max(s)}] \in Rings
        BY <4>1
      <4> QED
        BY <1>2, <1>3, <3>1, <4>1, <4>2
    <3> QED
      BY <2>1, <3>1 DEF FoldsWith
  <2>3. f = [s \in SUBSET (1..m) |-> f[s]]
    OBVIOUS
  <2> QED
    BY <2>2, <2>3
<1>8. Is(iter)
  <2> HIDE DEF Is
  <2> QED
    BY <1>7
<1> HIDE DEF iter
<1>9. iter[{}] = e
  BY <1>8
<1>10. FoldsWithin(iter, Rings, step, m)
  <2>1. ASSUME NEW i \in 1..m, iter[1..i - 1] \in Rings
        PROVE  iter[1..i] = step[<<iter[1..i - 1], i>>]
    <3>1. /\ 1..i \in SUBSET (1..m) /\ 1..i # {}
          /\ Max(1..i) = i /\ (1..i) \ {i} = 1..i - 1
      BY <1>1, FirstPositions
    <3>2. iter[1..i] = addNode(iter[1..i - 1], l[i])
      BY <1>8, <3>1
    <3> QED
      BY <1>2, <1>3, <2>1, <3>2
  <2> QED
    BY <2>1 DEF FoldsWithin
<1>11. PICK g : Course(g, Rings, e, step, m) /\ g[m] = iter[1..m]
  <2> HIDE DEF Is
  <2> QED
    BY <1>4, <1>5, <1>9, <1>10, FoldGoesOn
<1>12. \A i \in 1..m : g[i] = addNode(g[i - 1], i - 1)
  <2>1. \A i \in 1..m : g[i - 1] \in Rings /\ g[i] = step[<<g[i - 1], i>>]
    BY <1>11 DEF Course
  <2> QED
    BY <1>2, <2>1
<1>13. Builds(g)
  BY <1>1, <1>11, <1>12 DEF Builds, Course, e
<1> QED
  BY <1>1, <1>6, <1>11, <1>13

\* The ring of the cluster is sorted and not empty.
LEMMA RingBuilt == Ring \in Rings /\ Ring # <<>>
<1>1. PICK g : Builds(g) /\ Ring = g[ShardCount]
  BY RingGoesOn
<1>2. ShardCount \in 1..ShardCount /\ ShardCount - 1 \in 0..ShardCount /\ ShardCount - 1 \in Node
  BY ClusterAssumption
<1>3. g[ShardCount - 1] \in Rings /\ Ring = addNode(g[ShardCount - 1], ShardCount - 1)
  BY <1>1, <1>2 DEF Builds
<1> QED
  BY <1>2, <1>3, AddKeeps

\* Every key has a shard, for any hashes of keys and virtual nodes
\* (cluster-coordinator.ts:193).
THEOREM EveryKeyHasAShard == RingOwner \in [Key -> Shard]
<1>1. \A k \in Key : KeyHash[k] \in Nat
  BY ClusterAssumption
<1>2. \A k \in Key : getNode(Ring, KeyHash[k]) \in Node
  BY <1>1, RingBuilt, GetsNode
<1>3. Node = Shard
  BY ClusterAssumption DEF Shard
<1> QED
  BY <1>2, <1>3 DEF RingOwner
-----------------------------------------------------------------------------
\* Points of one hash are in the order of their shards.
InShardOrder(ring) ==
    \A i, j \in DOMAIN ring :
        i < j => \/ ring[i].hash < ring[j].hash
                 \/ ring[i].hash = ring[j].hash /\ ring[i].node <= ring[j].node

\* The points of the shards below n.
PointsBelow(n) ==
    {e \in Entry : e.node < n /\ \E i \in DOMAIN VnodeHashes[e.node] : VnodeHashes[e.node][i] = e.hash}

\* A point of the highest shard so far comes last among its equals.
LEMMA InsertPlaces ==
    ASSUME NEW ring \in Rings, InShardOrder(ring), NEW entry \in Entry,
           \A i \in DOMAIN ring : ring[i].node <= entry.node
    PROVE  /\ InShardOrder(Insert(ring, entry))
           /\ ToSet(Insert(ring, entry)) = ToSet(ring) \cup {entry}
<1> DEFINE p == Behind(ring, entry)
           r == Insert(ring, entry)
<1>1. ring \in Seq(Entry) /\ r \in Seq(Entry) /\ Inserted(ring, entry, p, r)
  BY InsertMoves DEF Rings
<1>2. p \in 0..Len(ring) /\ \A i \in DOMAIN ring : ring[i].hash <= entry.hash <=> i <= p
  BY BehindFacts
<1> HIDE DEF p, r
<1>3. /\ Len(ring) \in Nat /\ DOMAIN ring = 1..Len(ring) /\ DOMAIN r = 1..Len(ring) + 1
      /\ p \in Nat /\ entry.hash \in Nat
  <2>1. Len(r) = Len(ring) + 1 /\ Len(ring) \in Nat
    BY <1>1, RingShape DEF Inserted
  <2> QED
    BY <1>1, <1>2, <2>1, RingShape DEF Entry
<1>4. \A a \in DOMAIN ring : a \in Nat /\ ring[a].hash \in Nat
  BY <1>1, RingShape
<1>5. ASSUME NEW i \in DOMAIN r, NEW j \in DOMAIN r, i < j
      PROVE  \/ r[i].hash < r[j].hash
             \/ r[i].hash = r[j].hash /\ r[i].node <= r[j].node
  <2>1. \/ i = p + 1 /\ r[i] = entry
        \/ \E a \in DOMAIN ring : r[i] = ring[a] /\ ((a <= p /\ i = a) \/ (a > p /\ i = a + 1))
    BY <1>1, InsertedCases
  <2>2. \/ j = p + 1 /\ r[j] = entry
        \/ \E b \in DOMAIN ring : r[j] = ring[b] /\ ((b <= p /\ j = b) \/ (b > p /\ j = b + 1))
    BY <1>1, InsertedCases
  <2>3. i \in Nat /\ j \in Nat
    BY <1>3
  <2>4. CASE i = p + 1 /\ r[i] = entry
    <3>1. PICK b \in DOMAIN ring : r[j] = ring[b] /\ ((b <= p /\ j = b) \/ (b > p /\ j = b + 1))
      BY <1>5, <2>2, <2>3, <2>4
    <3>2. ~(b <= p)
      BY <1>3, <1>4, <1>5, <2>3, <2>4, <3>1
    <3> QED
      BY <1>2, <1>3, <1>4, <2>4, <3>1, <3>2
  <2>5. ASSUME NEW a \in DOMAIN ring, r[i] = ring[a], (a <= p /\ i = a) \/ (a > p /\ i = a + 1)
        PROVE  \/ r[i].hash < r[j].hash
               \/ r[i].hash = r[j].hash /\ r[i].node <= r[j].node
    <3>1. CASE j = p + 1 /\ r[j] = entry
      <4>1. a <= p
        BY <1>3, <1>4, <1>5, <2>3, <2>5, <3>1
      <4>2. ring[a].hash <= entry.hash /\ ring[a].node <= entry.node
        BY <1>2, <4>1
      <4> QED
        BY <1>3, <1>4, <2>5, <3>1, <4>2
    <3>2. ASSUME NEW b \in DOMAIN ring, r[j] = ring[b], (b <= p /\ j = b) \/ (b > p /\ j = b + 1)
          PROVE  \/ r[i].hash < r[j].hash
                 \/ r[i].hash = r[j].hash /\ r[i].node <= r[j].node
      <4>1. a < b
        BY <1>3, <1>4, <1>5, <2>3, <2>5, <3>2
      <4> QED
        BY <2>5, <3>2, <4>1 DEF InShardOrder
    <3> QED
      BY <2>2, <3>1, <3>2
  <2> QED
    BY <2>1, <2>4, <2>5
<1>6. ASSUME NEW e
      PROVE  e \in ToSet(r) <=> e \in ToSet(ring) \/ e = entry
  <2>1. ASSUME e \in ToSet(r)
        PROVE  e \in ToSet(ring) \/ e = entry
    <3>1. PICK j \in DOMAIN r : e = r[j]
      BY <2>1 DEF ToSet
    <3>2. \/ r[j] = entry
          \/ \E b \in DOMAIN ring : r[j] = ring[b]
      BY <1>1, InsertedCases
    <3> QED
      BY <3>1, <3>2 DEF ToSet
  <2>2. p + 1 \in DOMAIN r /\ r[p + 1] = entry
    BY <1>1, <1>2, <1>3 DEF Inserted
  <2>3. ASSUME NEW a \in DOMAIN ring
        PROVE  ring[a] \in ToSet(r)
    <3>1. CASE a <= p
      <4>1. a \in 1..p /\ a \in DOMAIN r
        BY <1>3, <3>1
      <4>2. r[a] = ring[a]
        BY <1>1, <4>1 DEF Inserted
      <4> QED
        BY <4>1, <4>2 DEF ToSet
    <3>2. CASE a > p
      <4>1. a \in p + 1..Len(ring) /\ a + 1 \in DOMAIN r
        BY <1>3, <3>2
      <4>2. r[a + 1] = ring[a]
        BY <1>1, <4>1 DEF Inserted
      <4> QED
        BY <4>1, <4>2 DEF ToSet
    <3> QED
      BY <1>3, <1>4, <3>1, <3>2
  <2> QED
    BY <2>1, <2>2, <2>3 DEF ToSet
<1>7. InShardOrder(r) /\ ToSet(r) = ToSet(ring) \cup {entry}
  BY <1>5, <1>6 DEF InShardOrder
<1> QED
  BY <1>7 DEF r

\* Adding the next shard adds its points, behind the equal ones of the shards below it.
LEMMA AddPlaces ==
    ASSUME NEW ring \in Rings, InShardOrder(ring), NEW n \in Node,
           ToSet(ring) = PointsBelow(n)
    PROVE  /\ InShardOrder(addNode(ring, n))
           /\ ToSet(addNode(ring, n)) = PointsBelow(n + 1)
<1>1. \A s \in Node : s \in Int
  BY ClusterAssumption
<1>2. \A i \in DOMAIN ring : ring[i] \in PointsBelow(n)
  BY DEF ToSet
<1>3. ~HasNode(ring, n)
  BY <1>1, <1>2 DEF HasNode, PointsBelow
<1>4. PICK l \in Seq(Nat), m \in Nat :
        l = VnodeHashes[n] /\ m = Len(l) /\ DOMAIN l = 1..m
        /\ \A i \in 1..m : l[i] \in Nat /\ [hash |-> l[i], node |-> n] \in Entry
  BY Vnodes
<1>5. PICK g : Adds(g, ring, n) /\ addNode(ring, n) = g[m]
  BY <1>3, <1>4, AddGoesOn
<1>6. /\ g \in [0..m -> Rings] /\ g[0] = ring
      /\ \A i \in 1..m : g[i] = Insert(g[i - 1], [hash |-> l[i], node |-> n])
  BY <1>4, <1>5 DEF Adds
<1> DEFINE New(i) == {[hash |-> l[j], node |-> n] : j \in 1..i}
           S == {i \in 0..m : /\ InShardOrder(g[i])
                              /\ ToSet(g[i]) = PointsBelow(n) \cup New(i)}
<1>7. 0 \in S
  <2>1. New(0) = {}
    OBVIOUS
  <2> HIDE DEF New
  <2> QED
    BY <1>6, <2>1
<1>8. ASSUME NEW i \in 1..m, i - 1 \in S
      PROVE  i \in S
  <2> DEFINE e == [hash |-> l[i], node |-> n]
  <2>1. e \in Entry /\ e.node = n /\ g[i] = Insert(g[i - 1], e) /\ g[i - 1] \in Rings
    <3>1. e \in Entry /\ e.node = n
      BY <1>4
    <3>2. g[i] = Insert(g[i - 1], e)
      BY <1>6
    <3>3. i - 1 \in 0..m
      BY <1>4
    <3>4. g[i - 1] \in Rings
      BY <1>6, <3>3
    <3> QED
      BY <3>1, <3>2, <3>4
  <2>2. New(i) = New(i - 1) \cup {e}
    <3>1. \A j : j \in 1..i <=> j \in 1..i - 1 \/ j = i
      OBVIOUS
    <3> QED
      BY <3>1
  <2>3. \A f \in New(i - 1) : f.node = n
    OBVIOUS
  <2>4. \A f \in PointsBelow(n) : f.node <= n
    BY <1>1 DEF PointsBelow, Entry
  <2> HIDE DEF e, New
  <2>5. InShardOrder(g[i - 1]) /\ ToSet(g[i - 1]) = PointsBelow(n) \cup New(i - 1)
    BY <1>8
  <2>6. \A a \in DOMAIN g[i - 1] : g[i - 1][a] \in PointsBelow(n) \cup New(i - 1)
    BY <2>5 DEF ToSet
  <2>7. \A a \in DOMAIN g[i - 1] : g[i - 1][a].node <= n
    BY <1>1, <2>3, <2>4, <2>6
  <2>8. InShardOrder(g[i]) /\ ToSet(g[i]) = ToSet(g[i - 1]) \cup {e}
    BY <2>1, <2>5, <2>7, InsertPlaces
  <2> QED
    BY <2>2, <2>5, <2>8
<1>9. m \in S
  <2> HIDE DEF S
  <2>1. \A i \in 0..m : i \in S
    BY <1>4, <1>7, <1>8, Reached
  <2> QED
    BY <2>1
<1>10. PointsBelow(n) \cup New(m) = PointsBelow(n + 1)
  <2>1. ASSUME NEW e \in PointsBelow(n + 1)
        PROVE  e \in PointsBelow(n) \cup New(m)
    <3>1. e \in Entry /\ e.node \in Node /\ e = [hash |-> e.hash, node |-> e.node] /\ e.node < n + 1
      BY <2>1 DEF PointsBelow, Entry
    <3>2. e.node < n \/ e.node = n
      BY <1>1, <3>1
    <3>3. CASE e.node = n
      <4>1. PICK i \in DOMAIN l : l[i] = e.hash
        BY <1>4, <2>1, <3>3 DEF PointsBelow
      <4> QED
        BY <1>4, <3>1, <3>3, <4>1
    <3> QED
      BY <2>1, <3>2, <3>3 DEF PointsBelow
  <2>2. ASSUME NEW e \in PointsBelow(n)
        PROVE  e \in PointsBelow(n + 1)
    BY <1>1 DEF PointsBelow, Entry
  <2>3. ASSUME NEW i \in 1..m
        PROVE  [hash |-> l[i], node |-> n] \in PointsBelow(n + 1)
    <3>1. n < n + 1
      BY <1>1
    <3> QED
      BY <1>4, <3>1 DEF PointsBelow
  <2> QED
    BY <2>1, <2>2, <2>3
<1> QED
  BY <1>5, <1>9, <1>10

\* The ring has every point of every shard.
LEMMA RingPlaced == InShardOrder(Ring) /\ ToSet(Ring) = PointsBelow(ShardCount)
<1>1. PICK g : Builds(g) /\ Ring = g[ShardCount]
  BY RingGoesOn
<1>2. PICK m \in Nat : m = ShardCount /\ Node = 0..m - 1
  BY ClusterAssumption
<1> DEFINE S == {i \in 0..m : InShardOrder(g[i]) /\ ToSet(g[i]) = PointsBelow(i)}
<1>3. 0 \in S
  <2>1. g[0] = <<>>
    BY <1>1 DEF Builds
  <2>2. PointsBelow(0) = {}
    BY <1>2 DEF PointsBelow, Entry
  <2>3. InShardOrder(<<>>) /\ ToSet(<<>>) = {}
    BY DEF InShardOrder, ToSet
  <2> QED
    BY <2>1, <2>2, <2>3
<1>4. ASSUME NEW i \in 1..m, i - 1 \in S
      PROVE  i \in S
  <2>1. g[i] = addNode(g[i - 1], i - 1) /\ g[i - 1] \in Rings /\ i - 1 \in Node /\ i - 1 + 1 = i
    BY <1>1, <1>2 DEF Builds
  <2>2. InShardOrder(g[i - 1]) /\ ToSet(g[i - 1]) = PointsBelow(i - 1)
    BY <1>4
  <2>3. InShardOrder(addNode(g[i - 1], i - 1))
        /\ ToSet(addNode(g[i - 1], i - 1)) = PointsBelow(i - 1 + 1)
    BY <2>1, <2>2, AddPlaces
  <2> QED
    BY <2>1, <2>3
<1>5. \A i \in 0..m : i \in S
  <2> HIDE DEF S
  <2> QED
    BY <1>2, <1>3, <1>4, Reached
<1> QED
  BY <1>1, <1>2, <1>5

\* Where the ring has the first of some hashes, it has the lowest shard with that hash.
LEMMA FirstIsLowest ==
    ASSUME NEW w \in DOMAIN Ring, NEW H \in SUBSET Nat, Ring[w].hash \in H,
           \A j \in DOMAIN Ring : Ring[j].hash \in H => w <= j,
           \A h \in H : \E s \in Shard : h \in ToSet(VnodeHashes[s])
    PROVE  /\ Min(H) = Ring[w].hash
           /\ Min({s \in Shard : Min(H) \in ToSet(VnodeHashes[s])}) = Ring[w].node
<1>1. Ring \in Seq(Entry) /\ Sorted(Ring) /\ InShardOrder(Ring)
      /\ ToSet(Ring) = PointsBelow(ShardCount)
  BY RingBuilt, RingPlaced DEF Rings
<1>2. Node = Shard /\ Shard \subseteq Nat /\ \A s \in Shard : s < ShardCount
  BY ClusterAssumption DEF Shard
<1>3. \A j \in DOMAIN Ring : /\ j \in Nat /\ Ring[j].hash \in Nat /\ Ring[j].node \in Shard
                             /\ Ring[j].hash \in ToSet(VnodeHashes[Ring[j].node])
  <2>1. ASSUME NEW j \in DOMAIN Ring
        PROVE  Ring[j].hash \in ToSet(VnodeHashes[Ring[j].node])
    <3>1. Ring[j] \in PointsBelow(ShardCount)
      BY <1>1 DEF ToSet
    <3> QED
      BY <3>1 DEF PointsBelow, ToSet
  <2> QED
    BY <1>1, <1>2, <2>1, RingShape
<1>4. ASSUME NEW h \in Nat, NEW s \in Shard, h \in ToSet(VnodeHashes[s])
      PROVE  \E j \in DOMAIN Ring : Ring[j].hash = h /\ Ring[j].node = s
  <2> DEFINE e == [hash |-> h, node |-> s]
  <2>1. e \in Entry /\ e.hash = h /\ e.node = s
    BY <1>2 DEF Entry
  <2> HIDE DEF e
  <2>2. e \in PointsBelow(ShardCount)
    BY <1>2, <1>4, <2>1 DEF PointsBelow, ToSet
  <2>3. PICK j \in DOMAIN Ring : Ring[j] = e
    BY <1>1, <2>2 DEF ToSet
  <2> QED
    BY <2>1, <2>3
<1>5. ASSUME NEW h \in H
      PROVE  Ring[w].hash <= h
  <2>1. PICK s \in Shard : h \in ToSet(VnodeHashes[s])
    OBVIOUS
  <2>2. h \in Nat
    OBVIOUS
  <2>3. PICK j \in DOMAIN Ring : Ring[j].hash = h
    BY <1>4, <2>1, <2>2
  <2>4. w = j \/ w < j
    BY <1>3, <2>3
  <2> QED
    BY <1>1, <1>3, <2>3, <2>4 DEF Sorted
<1>6. \A h \in H : h \in Nat
  OBVIOUS
<1>7. Min(H) = Ring[w].hash
  <2>1. Min(H) \in H /\ \A h \in H : Min(H) <= h
    BY <1>5 DEF Min
  <2>2. Min(H) <= Ring[w].hash /\ Ring[w].hash <= Min(H)
    BY <1>5, <2>1
  <2>3. Min(H) \in Nat /\ Ring[w].hash \in Nat
    BY <1>3, <1>6, <2>1
  <2>4. \A a, b \in Nat : a <= b /\ b <= a => a = b
    OBVIOUS
  <2> QED
    BY <2>2, <2>3, <2>4
<1> DEFINE Here == {s \in Shard : Ring[w].hash \in ToSet(VnodeHashes[s])}
           node == Ring[w].node
<1>8. node \in Here /\ \A s \in Here : s \in Nat
  BY <1>2, <1>3
<1>9. ASSUME NEW s \in Here
      PROVE  node <= s
  <2>1. PICK j \in DOMAIN Ring : Ring[j].hash = Ring[w].hash /\ Ring[j].node = s
    BY <1>3, <1>4
  <2>2. w <= j
    BY <2>1
  <2>3. w = j \/ w < j
    BY <1>3, <2>2
  <2>4. CASE w = j
    BY <1>2, <2>1, <2>4
  <2>5. CASE w < j
    BY <1>1, <1>3, <2>1, <2>5 DEF InShardOrder
  <2> QED
    BY <2>3, <2>4, <2>5
<1> HIDE DEF Here, node
<1>10. Min(Here) \in Here /\ \A s \in Here : Min(Here) <= s
  BY <1>8, <1>9 DEF Min
<1>11. Min(Here) <= node /\ node <= Min(Here) /\ Min(Here) \in Nat /\ node \in Nat
  BY <1>8, <1>9, <1>10
<1>12. Min(Here) = node
  BY <1>11
<1> QED
  BY <1>7, <1>12 DEF Here, node

\* The shard the code finds by searching and wrapping around is the one of the next point
\* on the circle, the lowest if shards share the point (cluster-coordinator.ts:193).
THEOREM KeysGoClockwise == RingOwner = Owner
<1> DEFINE Hashes == UNION {ToSet(VnodeHashes[s]) : s \in Shard}
           Ahead(k) == {h \in Hashes : h >= KeyHash[k]}
           Point(k) == IF Ahead(k) = {} THEN Min(Hashes) ELSE Min(Ahead(k))
<1>1. Owner = [k \in Key |-> Min({s \in Shard : Point(k) \in ToSet(VnodeHashes[s])})]
  BY DEF Owner
<1>2. ASSUME NEW h \in Hashes
      PROVE  h \in Nat /\ \E s \in Shard : h \in ToSet(VnodeHashes[s])
  <2>1. PICK s \in Shard : h \in ToSet(VnodeHashes[s])
    OBVIOUS
  <2>2. s \in Node
    BY ClusterAssumption DEF Shard
  <2>3. \A i \in DOMAIN VnodeHashes[s] : VnodeHashes[s][i] \in Nat
    BY <2>2, RingAssumption
  <2> QED
    BY <2>1, <2>3 DEF ToSet
<1>3. ASSUME NEW j \in DOMAIN Ring
      PROVE  Ring[j].hash \in Hashes
  <2>1. Ring[j] \in PointsBelow(ShardCount)
    BY RingPlaced DEF ToSet
  <2>2. Ring[j].node \in Shard /\ Ring[j].hash \in ToSet(VnodeHashes[Ring[j].node])
    BY <2>1, ClusterAssumption DEF PointsBelow, Entry, ToSet, Shard
  <2> QED
    BY <2>2
<1> HIDE DEF Hashes
<1>4. ASSUME NEW k \in Key
      PROVE  RingOwner[k] = Min({s \in Shard : Point(k) \in ToSet(VnodeHashes[s])})
  <2> DEFINE target == KeyHash[k]
             i == binarySearch(Ring, target)
             w == Wrapped(Ring, i)
  <2>1. target \in Nat
    BY ClusterAssumption
  <2>2. IsFirst(Ring, target, i) /\ w \in DOMAIN Ring
    BY <2>1, RingBuilt, GetsNode
  <2>3. RingOwner[k] = Ring[w].node
    BY DEF RingOwner, getNode
  <2>4. /\ Len(Ring) \in Nat /\ DOMAIN Ring = 1..Len(Ring)
        /\ \A j \in DOMAIN Ring : j \in Nat /\ Ring[j].hash \in Nat
    BY RingBuilt, RingShape DEF Rings
  <2> HIDE DEF target, i
  <2>5. i \in 1..Len(Ring) + 1
    BY <2>2 DEF IsFirst
  <2>6. CASE i <= Len(Ring)
    <3>1. w = i /\ Ring[i].hash >= target
      BY <2>2, <2>4, <2>5, <2>6 DEF Wrapped, IsFirst
    <3> DEFINE H == Ahead(k)
    <3>2. Ring[w].hash \in H
      BY <1>3, <2>2, <3>1 DEF target
    <3>3. H \in SUBSET Nat /\ \A h \in H : \E s \in Shard : h \in ToSet(VnodeHashes[s])
      BY <1>2
    <3>4. ASSUME NEW j \in DOMAIN Ring, Ring[j].hash \in H
          PROVE  w <= j
      <4>1. Ring[j].hash >= target
        BY <3>4 DEF target
      <4>2. ~(j < i)
        BY <2>1, <2>2, <2>4, <2>5, <4>1 DEF IsFirst
      <4> QED
        BY <2>4, <2>5, <3>1, <4>2
    <3>5. Point(k) = Min(H)
      BY <3>2
    <3> HIDE DEF H, w
    <3> QED
      BY <2>2, <2>3, <3>2, <3>3, <3>4, <3>5, FirstIsLowest
  <2>7. CASE i = Len(Ring) + 1
    <3>1. w = 1 /\ \A j \in DOMAIN Ring : Ring[j].hash < target
      BY <2>2, <2>4, <2>7 DEF Wrapped, IsFirst
    <3>2. Ahead(k) = {}
      <4>1. ASSUME NEW h \in Hashes, h >= target
            PROVE  FALSE
        <5>1. PICK s \in Shard : h \in ToSet(VnodeHashes[s])
          BY <1>2
        <5>2. h \in Nat
          BY <1>2
        <5>3. [hash |-> h, node |-> s] \in PointsBelow(ShardCount)
          BY <5>1, <5>2, ClusterAssumption DEF PointsBelow, Entry, ToSet, Shard
        <5>4. PICK j \in DOMAIN Ring : Ring[j] = [hash |-> h, node |-> s]
          BY <5>3, RingPlaced DEF ToSet
        <5>5. h < target
          BY <3>1, <5>4
        <5> QED
          BY <2>1, <4>1, <5>2, <5>5
      <4> QED
        BY <4>1 DEF target
    <3>3. Point(k) = Min(Hashes)
      BY <3>2
    <3>4. Hashes \in SUBSET Nat /\ Ring[w].hash \in Hashes
      BY <1>2, <1>3, <2>2
    <3>5. \A j \in DOMAIN Ring : w <= j
      BY <2>4, <3>1
    <3> HIDE DEF w
    <3>6. /\ Min(Hashes) = Ring[w].hash
          /\ Min({s \in Shard : Min(Hashes) \in ToSet(VnodeHashes[s])}) = Ring[w].node
      BY <1>2, <2>2, <3>4, <3>5, FirstIsLowest
    <3> QED
      BY <2>3, <3>3, <3>6
  <2> QED
    BY <2>4, <2>5, <2>6, <2>7
<1> QED
  BY <1>1, <1>4 DEF RingOwner
-----------------------------------------------------------------------------
\* The fields the master and a worker have in each of their states.
MasterShape ==
    \/ master \in {Quiet, [pc |-> "closed"]}
    \/ /\ master = [pc |-> master.pc, client |-> master.client,
                    msgs |-> master.msgs, held |-> master.held]
       /\ master.pc \in {"acquire", "post", "release"}
       /\ master.client \in Client /\ master.held \subseteq Shard
       /\ DOMAIN master.msgs \subseteq Shard
       /\ \A s \in DOMAIN master.msgs : master.msgs[s].client = master.client
       /\ master.pc = "acquire" => master.held \subseteq DOMAIN master.msgs

WorkerShape(s) ==
    \/ worker[s] = Quiet
    \/ /\ worker[s] = [pc |-> worker[s].pc, msg |-> worker[s].msg]
       /\ worker[s].pc \in {"acquire", "locked"}
    \/ worker[s] = [pc |-> "deleted", client |-> worker[s].client, count |-> worker[s].count]

\* The invariant of the locks (atomic-lock.ts, worker-thread.ts:61).
LockInv ==
    /\ locks \in [Shard -> {FREE, TAKEN}]
    /\ MasterShape
    /\ DOMAIN worker = Shard /\ \A s \in Shard : WorkerShape(s)
    /\ LocksExact
-----------------------------------------------------------------------------
\* The least shard of a set is one of it (acquireLocks takes the locks in sorted order).
LEMMA MinOf ==
    ASSUME NEW S \in SUBSET Nat, S # {}
    PROVE  Min(S) \in S
<1>1. \E i \in S : \A j \in S : i <= j
  BY Least
<1> QED
  BY <1>1 DEF Min

\* Shards are natural numbers.
LEMMA Shards ==
    ASSUME ClusterAssumption
    PROVE  Shard \subseteq Nat /\ Shard = 0..ShardCount - 1 /\ ShardCount - 1 \in Nat
BY DEF ClusterAssumption, Shard

\* In the beginning no lock is set and nobody has one.
LEMMA LocksStart == ASSUME ClusterAssumption, Init PROVE LockInv
BY DEF ClusterAssumption, Init, LockInv, MasterShape, WorkerShape, LocksExact, HeldByMaster, HeldByWorker,
       Quiet, FREE, TAKEN

\* What changes neither locks, master nor workers.
LEMMA LocksFramed ==
    ASSUME LockInv, UNCHANGED <<locks, master, worker>>
    PROVE  LockInv'
BY DEF LockInv, MasterShape, WorkerShape, LocksExact, HeldByMaster, HeldByWorker

\* A cross-shard DEL hands its parts to the master, which has no lock yet
\* (cluster-coordinator.ts:145).
LEMMA FanOutStarts ==
    ASSUME ClusterAssumption, LockInv, NEW c \in Client, NEW keys \in DelLists,
           executeCrossShardDel(c, keys)
    PROVE  LockInv'
<1>0. PICK msgs, lost :
          /\ msgs = shardKeyMap(c, "CROSS_SHARD_DEL", ToSet(keys), lost)
          /\ master = Quiet
          /\ master' = [pc |-> "acquire", client |-> c, msgs |-> msgs, held |-> {}]
          /\ UNCHANGED <<locks, worker>>
  BY DEF executeCrossShardDel, Begin, Ready, threads
<1>1. ToSet(keys) \subseteq Key
  BY DEF ClusterAssumption, ToSet
<1>2. DOMAIN msgs \subseteq Shard /\ \A s \in DOMAIN msgs : msgs[s].client = c
  BY <1>0, <1>1, EveryKeyHasAShard DEF shardKeyMap, getShardForKey
<1>3. /\ master = Quiet
      /\ master' = [pc |-> "acquire", client |-> c, msgs |-> msgs, held |-> {}]
      /\ UNCHANGED <<locks, worker>>
  BY <1>0
<1>4. MasterShape'
  BY <1>2, <1>3 DEF MasterShape
<1>5. LocksExact'
  BY <1>3 DEF LockInv, LocksExact, HeldByMaster, HeldByWorker, Quiet
<1> QED
  BY <1>3, <1>4, <1>5 DEF LockInv, WorkerShape

\* The master sets the least lock it waits for, when it is free (atomic-lock.ts:101).
LEMMA MasterLocks ==
    ASSUME ClusterAssumption, LockInv, acquireLocks
    PROVE  LockInv'
<1> DEFINE s == Min(Locking \ master.held)
<1>1. /\ master = [pc |-> master.pc, client |-> master.client, msgs |-> master.msgs, held |-> master.held]
      /\ master.pc = "acquire" /\ master.client \in Client /\ master.held \subseteq Shard
      /\ DOMAIN master.msgs \subseteq Shard
      /\ \A t \in DOMAIN master.msgs : master.msgs[t].client = master.client
  BY DEF acquireLocks, LockInv, MasterShape, Quiet
<1>2. Locking = DOMAIN master.msgs /\ master.held \subseteq Locking /\ master.held # Locking
  <2>1. master.pc = "acquire" => master.held \subseteq DOMAIN master.msgs
    BY <1>1 DEF LockInv, MasterShape, Quiet
  <2> QED
    BY <1>1, <2>1 DEF Locking, acquireLocks
<1>3. Locking \ master.held # {} /\ Locking \ master.held \in SUBSET Nat
  BY <1>1, <1>2, Shards
<1>4. s \in DOMAIN master.msgs /\ s \in Shard /\ s \notin master.held
  BY <1>1, <1>2, <1>3, MinOf
<1> HIDE DEF s
<1>5. /\ locks[s] = FREE /\ locks' = [locks EXCEPT ![s] = TAKEN]
      /\ master' = [master EXCEPT !.held = @ \cup {s}]
      /\ worker' = worker
  BY DEF acquireLocks, s, threads
<1>6. master' = [pc |-> "acquire", client |-> master.client, msgs |-> master.msgs,
                 held |-> master.held \cup {s}]
  BY <1>1, <1>5
<1>7. MasterShape'
  BY <1>1, <1>2, <1>4, <1>6 DEF MasterShape
<1>8. /\ \A t \in Shard : HeldByMaster(t) <=> t \in master.held
      /\ \A t \in Shard : HeldByMaster(t)' <=> t \in master.held \/ t = s
      /\ \A t \in Shard : HeldByWorker(t)' <=> HeldByWorker(t)
  BY <1>1, <1>5, <1>6 DEF HeldByMaster, HeldByWorker
<1>9. LocksExact'
  BY <1>4, <1>5, <1>8 DEF LockInv, LocksExact, FREE, TAKEN
<1> QED
  BY <1>4, <1>5, <1>7, <1>9 DEF LockInv, WorkerShape, TAKEN

\* The master posts a part, and keeps its locks (cluster-coordinator.ts:170).
LEMMA MasterPosts ==
    ASSUME LockInv, NEW s \in Shard, PostOne(s)
    PROVE  LockInv'
<1> DEFINE left == [t \in DOMAIN master.msgs \ {s} |-> master.msgs[t]]
           place == IF DOMAIN left = {} THEN "release" ELSE "post"
<1>1. /\ master = [pc |-> master.pc, client |-> master.client, msgs |-> master.msgs, held |-> master.held]
      /\ master.client \in Client /\ master.held \subseteq Shard
      /\ DOMAIN master.msgs \subseteq Shard
      /\ \A t \in DOMAIN master.msgs : master.msgs[t].client = master.client
  BY DEF PostOne, LockInv, MasterShape, Quiet
<1>2. /\ master' = [master EXCEPT !.pc = place, !.msgs = left]
      /\ UNCHANGED <<locks, worker>>
  BY DEF PostOne, sendToWorkers
<1>3. place \in {"post", "release"} /\ DOMAIN left \subseteq Shard
      /\ \A t \in DOMAIN left : left[t].client = master.client
  BY <1>1
<1> HIDE DEF left, place
<1>4. master' = [pc |-> place, client |-> master.client, msgs |-> left, held |-> master.held]
  BY <1>1, <1>2
<1>5. MasterShape'
  BY <1>1, <1>3, <1>4 DEF MasterShape
<1>6. \A t \in Shard : (HeldByMaster(t)' <=> HeldByMaster(t)) /\ (HeldByWorker(t)' <=> HeldByWorker(t))
  BY <1>1, <1>2, <1>4 DEF HeldByMaster, HeldByWorker
<1> QED
  BY <1>2, <1>5, <1>6 DEF LockInv, LocksExact, WorkerShape

\* The master releases its greatest lock, which no worker has (atomic-lock.ts:114).
LEMMA MasterReleases ==
    ASSUME ClusterAssumption, LockInv, releaseAll
    PROVE  LockInv'
<1>1. /\ master = [pc |-> master.pc, client |-> master.client, msgs |-> master.msgs, held |-> master.held]
      /\ master.pc = "release" /\ master.client \in Client /\ master.held \subseteq Shard
      /\ DOMAIN master.msgs \subseteq Shard
      /\ \A t \in DOMAIN master.msgs : master.msgs[t].client = master.client
  BY DEF releaseAll, LockInv, MasterShape, Quiet
<1>2. worker' = worker
  BY DEF releaseAll, threads
<1>3. CASE master.held = {}
  <2>1. master' = Quiet /\ locks' = locks
    BY <1>3 DEF releaseAll
  <2>2. \A t \in Shard : ~HeldByMaster(t) /\ ~HeldByMaster(t)' /\ (HeldByWorker(t)' <=> HeldByWorker(t))
    BY <1>1, <1>2, <1>3, <2>1 DEF HeldByMaster, HeldByWorker, Quiet
  <2> QED
    BY <1>2, <2>1, <2>2 DEF LockInv, LocksExact, WorkerShape, MasterShape
<1>4. CASE master.held # {}
  <2> DEFINE s == Max(master.held)
  <2>1. s \in master.held /\ s \in Shard
    BY <1>1, <1>4, Shards, Greatest
  <2> HIDE DEF s
  <2>2. /\ locks' = [locks EXCEPT ![s] = FREE]
        /\ master' = [master EXCEPT !.held = @ \ {s}]
    BY <1>4 DEF releaseAll, s
  <2>3. master' = [pc |-> "release", client |-> master.client, msgs |-> master.msgs,
                   held |-> master.held \ {s}]
    BY <1>1, <2>2
  <2>4. MasterShape'
    BY <1>1, <2>3 DEF MasterShape
  <2>5. /\ \A t \in Shard : HeldByMaster(t) <=> t \in master.held
        /\ \A t \in Shard : HeldByMaster(t)' <=> t \in master.held /\ t # s
        /\ \A t \in Shard : HeldByWorker(t)' <=> HeldByWorker(t)
    BY <1>1, <1>2, <2>3 DEF HeldByMaster, HeldByWorker
  <2>6. LocksExact'
    BY <2>1, <2>2, <2>5 DEF LockInv, LocksExact, FREE, TAKEN
  <2> QED
    BY <1>2, <2>1, <2>2, <2>4, <2>6 DEF LockInv, WorkerShape, FREE
<1> QED
  BY <1>3, <1>4

\* A worker sets its lock only when it is free and clears only its own (worker-thread.ts:61).
LEMMA WorkerSteps ==
    ASSUME LockInv, NEW s \in Shard,
           WorkerTakes(s) \/ WorkerAcquires(s) \/ WorkerDeletes(s) \/ WorkerAnswers(s)
    PROVE  LockInv'
<1>1. master' = master
  BY DEF WorkerTakes, WorkerAcquires, WorkerDeletes, WorkerAnswers
<1>2. MasterShape'
  BY <1>1 DEF LockInv, MasterShape
<1>3. \A t \in Shard : HeldByMaster(t)' <=> HeldByMaster(t)
  BY <1>1 DEF HeldByMaster
<1>4. CASE WorkerTakes(s)
  <2>1. /\ worker' = [worker EXCEPT ![s] = [pc |-> "acquire", msg |-> Head(inbox[s])]]
        /\ worker[s].pc = "idle" /\ locks' = locks
    BY <1>4 DEF WorkerTakes, Working
  <2>2. (\A t \in Shard : WorkerShape(t)') /\ DOMAIN worker' = Shard
    BY <2>1 DEF LockInv, WorkerShape
  <2>3. \A t \in Shard : HeldByWorker(t)' <=> HeldByWorker(t)
    BY <2>1 DEF LockInv, HeldByWorker
  <2> QED
    BY <1>2, <1>3, <2>1, <2>2, <2>3 DEF LockInv, LocksExact
<1>5. CASE WorkerAcquires(s)
  <2>1. /\ worker' = [worker EXCEPT ![s].pc = "locked"] /\ worker[s].pc = "acquire"
        /\ locks[s] = FREE /\ locks' = [locks EXCEPT ![s] = TAKEN]
    BY <1>5 DEF WorkerAcquires, Working
  <2>2. worker[s] = [pc |-> "acquire", msg |-> worker[s].msg]
    BY <2>1 DEF LockInv, WorkerShape, Quiet
  <2>3. worker' = [worker EXCEPT ![s] = [pc |-> "locked", msg |-> worker[s].msg]]
    <3>1. [worker[s] EXCEPT !.pc = "locked"] = [pc |-> "locked", msg |-> worker[s].msg]
      BY <2>2
    <3> QED
      BY <2>1, <3>1
  <2>4. (\A t \in Shard : WorkerShape(t)') /\ DOMAIN worker' = Shard
    BY <2>3 DEF LockInv, WorkerShape
  <2>5. \A t \in Shard : HeldByWorker(t)' <=> HeldByWorker(t) \/ t = s
    BY <2>1, <2>3 DEF LockInv, HeldByWorker
  <2>6. LocksExact'
    BY <1>3, <2>1, <2>5 DEF LockInv, LocksExact, FREE, TAKEN
  <2> QED
    BY <1>2, <2>1, <2>4, <2>6 DEF LockInv, TAKEN
<1>6. CASE WorkerDeletes(s)
  <2> DEFINE count == Response(engine[s], worker[s].msg)
  <2>1. /\ worker' = [worker EXCEPT ![s] =
              [pc |-> "deleted", client |-> worker[s].msg.client, count |-> count]]
        /\ worker[s].pc = "locked" /\ locks' = locks
    BY <1>6 DEF WorkerDeletes, Working
  <2> HIDE DEF count
  <2>2. (\A t \in Shard : WorkerShape(t)') /\ DOMAIN worker' = Shard
    BY <2>1 DEF LockInv, WorkerShape
  <2>3. \A t \in Shard : HeldByWorker(t)' <=> HeldByWorker(t)
    BY <2>1 DEF LockInv, HeldByWorker
  <2> QED
    BY <1>2, <1>3, <2>1, <2>2, <2>3 DEF LockInv, LocksExact
<1>7. CASE WorkerAnswers(s)
  <2>1. /\ worker' = [worker EXCEPT ![s] = Quiet] /\ worker[s].pc = "deleted"
        /\ locks' = [locks EXCEPT ![s] = FREE]
    BY <1>7 DEF WorkerAnswers, Working, FreeLock
  <2>2. (\A t \in Shard : WorkerShape(t)') /\ DOMAIN worker' = Shard
    BY <2>1 DEF LockInv, WorkerShape
  <2>3. HeldByWorker(s) /\ \A t \in Shard : HeldByWorker(t)' <=> HeldByWorker(t) /\ t # s
    BY <2>1 DEF LockInv, HeldByWorker, Quiet
  <2>4. LocksExact'
    BY <1>3, <2>1, <2>3 DEF LockInv, LocksExact, FREE, TAKEN
  <2> QED
    BY <1>2, <2>1, <2>2, <2>4 DEF LockInv, FREE
<1> QED
  BY <1>4, <1>5, <1>6, <1>7

\* Every step of the cluster keeps the invariant of the locks.
LEMMA LockStep ==
    ASSUME ClusterAssumption, LockInv, Next
    PROVE  LockInv'
<1>1. ASSUME NEW c \in Client, Command(c)
      PROVE  LockInv'
  <2>1. (\E keys \in DelLists : executeCrossShardDel(c, keys)) \/ UNCHANGED <<locks, master, worker>>
    BY <1>1 DEF Command, GET, SET, INCR, PING, getClusterStats, sampleClusterKeys, FanOut, DelOnOneShard,
                Send, sendToWorkers
  <2> QED
    BY <2>1, FanOutStarts, LocksFramed
<1>2. ASSUME Master
      PROVE  LockInv'
  BY <1>2, MasterLocks, MasterPosts, MasterReleases DEF Master
<1>3. ASSUME NEW s \in Shard, Worker(s)
      PROVE  LockInv'
  <2>1. WorkerExecutes(s) => UNCHANGED <<locks, master, worker>>
    BY DEF WorkerExecutes
  <2> QED
    BY <1>3, <2>1, WorkerSteps, LocksFramed DEF Worker
<1>4. ASSUME NEW s \in Shard, handleWorkerMessage(s) \/ WorkerDies(s)
      PROVE  LockInv'
  <2>1. UNCHANGED <<locks, master, worker>>
    BY <1>4 DEF handleWorkerMessage, WorkerDies
  <2> QED
    BY <2>1, LocksFramed
<1>5. ASSUME close
      PROVE  LockInv'
  <2>1. master = Quiet /\ master' = [pc |-> "closed"] /\ UNCHANGED <<locks, worker>>
    BY <1>5 DEF close
  <2> QED
    BY <2>1 DEF LockInv, LocksExact, HeldByMaster, HeldByWorker, WorkerShape, MasterShape, Quiet
<1> QED
  BY <1>1, <1>2, <1>3, <1>4, <1>5 DEF Next

\* Whatever happens to the workers: a lock is set exactly while the master or its worker
\* has it, and never both (atomic-lock.ts, release).
THEOREM ClusterLocksExact == Spec => []LocksExact
<1>1. Init => LockInv
  BY ClusterAssumption, LocksStart
<1>2. LockInv /\ [Next]_vars => LockInv'
  BY ClusterAssumption, LockStep, LocksFramed DEF vars, threads
<1>3. LockInv => LocksExact
  BY DEF LockInv
<1> QED
  BY <1>1, <1>2, <1>3, PTL DEF Spec
-----------------------------------------------------------------------------
(***************************************************************************)
(* A message of a client is in one place: waiting, in service or answered. *)
(***************************************************************************)
\* Whose messages a queue holds; no two of the same client.
ClientsOf(q) == {q[i].client : i \in DOMAIN q}
Distinct(q) == \A i, j \in DOMAIN q : q[i].client = q[j].client => i = j
IsSeq(q) == q \in Seq({q[i] : i \in DOMAIN q})

\* Whose message a worker has taken and not answered yet.
Serving(s) ==
    CASE worker[s].pc \in {"acquire", "locked"} -> {worker[s].msg.client}
      [] worker[s].pc = "deleted" -> {worker[s].client}
      [] OTHER -> {}

InFlight(s) == ClientsOf(inbox[s]) \cup Serving(s) \cup ClientsOf(outbox[s])

\* On a shard, a client has one message at most, and that in one place.
OneMessage(s) ==
    /\ IsSeq(inbox[s]) /\ IsSeq(outbox[s])
    /\ Distinct(inbox[s]) /\ Distinct(outbox[s])
    /\ ClientsOf(inbox[s]) \cap (Serving(s) \cup ClientsOf(outbox[s])) = {}
    /\ Serving(s) \cap ClientsOf(outbox[s]) = {}

\* A queue that is a sequence over some set is one over its own elements.
LEMMA OwnElements ==
    ASSUME NEW S, NEW q \in Seq(S)
    PROVE  IsSeq(q)
BY DEF IsSeq

\* A message that is put behind a queue adds its client to those in the queue.
LEMMA SentBehind ==
    ASSUME NEW q, IsSeq(q), NEW m
    PROVE  /\ IsSeq(Append(q, m))
           /\ ClientsOf(Append(q, m)) = ClientsOf(q) \cup {m.client}
           /\ Distinct(q) /\ m.client \notin ClientsOf(q) => Distinct(Append(q, m))
<1> DEFINE S == {q[i] : i \in DOMAIN q} \cup {m}
           r == Append(q, m)
<1>1. q \in Seq(S) /\ m \in S
  BY DEF IsSeq
<1> HIDE DEF S
<1>2. /\ r \in Seq(S) /\ Len(q) \in Nat
      /\ DOMAIN q = 1..Len(q) /\ DOMAIN r = 1..Len(q) + 1
      /\ \A i \in 1..Len(q) : r[i] = q[i]
      /\ r[Len(q) + 1] = m
  BY <1>1
<1> HIDE DEF r
<1>3. IsSeq(r)
  BY <1>2, OwnElements
<1>4. ClientsOf(r) = ClientsOf(q) \cup {m.client}
  <2>1. ASSUME NEW i \in DOMAIN r
        PROVE  r[i].client \in ClientsOf(q) \cup {m.client}
    BY <1>2 DEF ClientsOf
  <2>2. ASSUME NEW i \in DOMAIN q
        PROVE  q[i].client \in ClientsOf(r)
    BY <1>2 DEF ClientsOf
  <2>3. m.client \in ClientsOf(r)
    BY <1>2 DEF ClientsOf
  <2> QED
    BY <2>1, <2>2, <2>3 DEF ClientsOf
<1>5. ASSUME Distinct(q), m.client \notin ClientsOf(q)
      PROVE  Distinct(r)
  <2>1. \A i \in 1..Len(q) : r[i].client # m.client
    BY <1>2, <1>5 DEF ClientsOf
  <2> QED
    BY <1>2, <1>5, <2>1 DEF Distinct
<1> QED
  BY <1>3, <1>4, <1>5 DEF r

\* The head of a queue is the only message of its client, and leaves no other behind.
LEMMA Ahead1 ==
    ASSUME NEW q, IsSeq(q), q # <<>>
    PROVE  /\ IsSeq(Tail(q))
           /\ Head(q).client \in ClientsOf(q)
           /\ ClientsOf(Tail(q)) \subseteq ClientsOf(q)
           /\ Distinct(q) => Distinct(Tail(q)) /\ Head(q).client \notin ClientsOf(Tail(q))
<1> DEFINE S == {q[i] : i \in DOMAIN q}
           r == Tail(q)
<1>1. q \in Seq(S)
  BY DEF IsSeq
<1> HIDE DEF S
<1>2. /\ r \in Seq(S) /\ Len(q) \in Nat \ {0}
      /\ DOMAIN q = 1..Len(q) /\ DOMAIN r = 1..Len(q) - 1
      /\ \A i \in 1..Len(q) - 1 : r[i] = q[i + 1]
      /\ Head(q) = q[1]
  BY <1>1
<1> HIDE DEF r
<1>3. IsSeq(r)
  BY <1>2, OwnElements
<1>4. Head(q).client \in ClientsOf(q)
  BY <1>2 DEF ClientsOf
<1>5. \A i \in DOMAIN r : i + 1 \in DOMAIN q /\ r[i] = q[i + 1] /\ i + 1 # 1
  BY <1>2
<1>6. ClientsOf(r) \subseteq ClientsOf(q)
  BY <1>5 DEF ClientsOf
<1>7. ASSUME Distinct(q)
      PROVE  Distinct(r) /\ Head(q).client \notin ClientsOf(r)
  <2>1. Distinct(r)
    <3>1. ASSUME NEW i \in DOMAIN r, NEW j \in DOMAIN r, r[i].client = r[j].client
          PROVE  i = j
      <4>1. i + 1 = j + 1
        BY <1>5, <1>7, <3>1 DEF Distinct
      <4> QED
        BY <1>2, <4>1
    <3> QED
      BY <3>1 DEF Distinct
  <2>2. ASSUME NEW i \in DOMAIN r, r[i].client = q[1].client
        PROVE  FALSE
    <3>1. 1 \in DOMAIN q
      BY <1>2
    <3> QED
      BY <1>5, <1>7, <2>2, <3>1 DEF Distinct
  <2> QED
    BY <1>2, <2>1, <2>2 DEF ClientsOf
<1> QED
  BY <1>3, <1>4, <1>6, <1>7 DEF r
-----------------------------------------------------------------------------
(***************************************************************************)
(* What is in flight is accounted for, and what the master has sent of a   *)
(* fan-out it has sent under the lock.                                     *)
(***************************************************************************)
\* A call waits for the answer of everything of it that is in flight.
Accounted ==
    /\ \A s \in Shard : master.pc # "closed" => \A c \in InFlight(s) : <<c, s>> \in pendingRpcs
    /\ \A rpc \in pendingRpcs : call[rpc[1]] # Quiet

\* The fields of a call.
CallShape(c) ==
    \/ call[c] = Quiet
    \/ call[c] = [pc |-> "called", cmd |-> call[c].cmd, sum |-> call[c].sum,
                  promise |-> call[c].promise]

\* While a fan-out is posted, the master has the lock of every shard that got its part.
PostedUnderLock ==
    /\ master.pc \in {"acquire", "post"} => call[master.client] # Quiet
    /\ master.pc = "acquire" => \A s \in Shard : <<master.client, s>> \notin pendingRpcs
    /\ master.pc = "post" =>
          /\ DOMAIN master.msgs \subseteq master.held
          /\ \A s \in Shard : <<master.client, s>> \in pendingRpcs =>
                                  s \in master.held \ DOMAIN master.msgs

\* The invariant of the messages and of the calls they belong to.
FlowInv ==
    /\ DOMAIN inbox = Shard /\ DOMAIN outbox = Shard
    /\ \A s \in Shard : OneMessage(s)
    /\ pendingRpcs \subseteq Client \X Shard
    /\ DOMAIN call = Client /\ \A c \in Client : CallShape(c)
    /\ Accounted
    /\ PostedUnderLock

ClusterInv == LockInv /\ FlowInv

\* In the beginning nothing is in flight.
LEMMA FlowInit == ASSUME Init PROVE FlowInv
<1>1. IsSeq(<<>>) /\ ClientsOf(<<>>) = {} /\ Distinct(<<>>)
  BY DEF IsSeq, ClientsOf, Distinct
<1>2. \A s \in Shard : inbox[s] = <<>> /\ outbox[s] = <<>> /\ Serving(s) = {}
  BY DEF Init, Serving, Quiet
<1>3. \A s \in Shard : OneMessage(s) /\ InFlight(s) = {}
  BY <1>1, <1>2 DEF OneMessage, InFlight
<1>4. pendingRpcs = {} /\ master = Quiet
  BY DEF Init
<1> QED
  BY <1>3, <1>4 DEF Init, FlowInv, Accounted, PostedUnderLock, CallShape, Quiet

\* The shard whose state is left alone keeps its messages.
LEMMA Untouched ==
    ASSUME NEW s, inbox'[s] = inbox[s], outbox'[s] = outbox[s], worker'[s] = worker[s]
    PROVE  (OneMessage(s)' <=> OneMessage(s)) /\ InFlight(s)' = InFlight(s)
<1>1. Serving(s)' = Serving(s)
  BY DEF Serving
<1> QED
  BY <1>1 DEF OneMessage, InFlight

\* The master's inboxes after sendToWorkers.
LEMMA Sent ==
    ASSUME FlowInv, NEW c \in Client, NEW msgs, sendToWorkers(c, msgs), DOMAIN msgs \subseteq Shard,
           \A s \in DOMAIN msgs : msgs[s].client = c /\ c \notin InFlight(s)
    PROVE  /\ DOMAIN inbox' = Shard /\ DOMAIN outbox' = Shard
           /\ \A s \in Shard : OneMessage(s)'
           /\ \A s \in Shard \ DOMAIN msgs : InFlight(s)' = InFlight(s)
           /\ \A s \in DOMAIN msgs : InFlight(s)' = InFlight(s) \cup {c}
           /\ pendingRpcs' = pendingRpcs \cup ({c} \X DOMAIN msgs)
           /\ pendingRpcs' \subseteq Client \X Shard
<1>1. /\ DOMAIN inbox' = Shard
      /\ \A s \in Shard : inbox'[s] = IF s \in DOMAIN msgs THEN Append(inbox[s], msgs[s]) ELSE inbox[s]
      /\ outbox' = outbox /\ worker' = worker
      /\ pendingRpcs' = pendingRpcs \cup ({c} \X DOMAIN msgs)
  BY DEF sendToWorkers
<1>2. ASSUME NEW s \in Shard \ DOMAIN msgs
      PROVE  OneMessage(s)' /\ InFlight(s)' = InFlight(s)
  BY <1>1, <1>2, Untouched DEF FlowInv
<1>3. ASSUME NEW s \in DOMAIN msgs
      PROVE  OneMessage(s)' /\ InFlight(s)' = InFlight(s) \cup {c}
  <2>1. /\ inbox'[s] = Append(inbox[s], msgs[s])
        /\ msgs[s].client = c /\ c \notin InFlight(s) /\ s \in Shard
    BY <1>1, <1>3
  <2>2. Serving(s)' = Serving(s)
    BY <1>1 DEF Serving
  <2>3. OneMessage(s)
    BY <2>1 DEF FlowInv
  <2>4. /\ IsSeq(inbox'[s]) /\ ClientsOf(inbox'[s]) = ClientsOf(inbox[s]) \cup {c}
        /\ Distinct(inbox'[s])
    <3>1. IsSeq(inbox[s]) /\ Distinct(inbox[s]) /\ c \notin ClientsOf(inbox[s])
      BY <2>1, <2>3 DEF OneMessage, InFlight
    <3>2. /\ IsSeq(Append(inbox[s], msgs[s]))
          /\ ClientsOf(Append(inbox[s], msgs[s])) = ClientsOf(inbox[s]) \cup {msgs[s].client}
          /\ msgs[s].client \notin ClientsOf(inbox[s]) => Distinct(Append(inbox[s], msgs[s]))
      BY <3>1, SentBehind
    <3> QED
      BY <2>1, <3>1, <3>2
  <2> QED
    BY <1>1, <2>1, <2>2, <2>3, <2>4 DEF OneMessage, InFlight
<1>4. pendingRpcs' \subseteq Client \X Shard
  BY <1>1 DEF FlowInv
<1> QED
  BY <1>1, <1>2, <1>3, <1>4 DEF FlowInv

\* A command that is sent at once.
LEMMA SendFlows ==
    ASSUME ClusterInv, NEW c \in Client, NEW cmd, NEW msgs, Send(c, cmd, msgs),
           DOMAIN msgs \subseteq Shard,
           \A s \in DOMAIN msgs : msgs[s].client = c
    PROVE  FlowInv'
<1>1. /\ master = Quiet /\ master' = master /\ call[c] = Quiet
      /\ sendToWorkers(c, msgs)
  BY DEF Send, Begin, Ready
<1>2. PICK sum, promise : call' = [call EXCEPT ![c] =
                               [pc |-> "called", cmd |-> cmd, sum |-> sum, promise |-> promise]]
  BY DEF Send, Begin, Ready
<1>3. master.pc # "closed" /\ master.pc # "acquire" /\ master.pc # "post"
  BY <1>1 DEF Quiet
<1>4. \A s \in Shard : <<c, s>> \notin pendingRpcs
  BY <1>1 DEF ClusterInv, FlowInv, Accounted
<1>5. \A s \in DOMAIN msgs : msgs[s].client = c /\ c \notin InFlight(s)
  BY <1>3, <1>4 DEF ClusterInv, FlowInv, Accounted
<1>6. /\ DOMAIN inbox' = Shard /\ DOMAIN outbox' = Shard
      /\ \A s \in Shard : OneMessage(s)'
      /\ \A s \in Shard \ DOMAIN msgs : InFlight(s)' = InFlight(s)
      /\ \A s \in DOMAIN msgs : InFlight(s)' = InFlight(s) \cup {c}
      /\ pendingRpcs' = pendingRpcs \cup ({c} \X DOMAIN msgs)
      /\ pendingRpcs' \subseteq Client \X Shard
  BY <1>1, <1>5, Sent DEF ClusterInv
<1>7. DOMAIN call' = Client /\ \A d \in Client : CallShape(d)'
  BY <1>2 DEF ClusterInv, FlowInv, CallShape
<1>8. call'[c] # Quiet /\ \A d \in Client \ {c} : call'[d] = call[d]
  BY <1>2 DEF ClusterInv, FlowInv, Quiet
<1>9. Accounted'
  <2>1. ASSUME NEW s \in Shard, NEW d \in InFlight(s)'
        PROVE  <<d, s>> \in pendingRpcs'
    <3>1. CASE s \in DOMAIN msgs
      BY <1>3, <1>6, <2>1, <3>1 DEF ClusterInv, FlowInv, Accounted
    <3>2. CASE s \notin DOMAIN msgs
      BY <1>3, <1>6, <2>1, <3>2 DEF ClusterInv, FlowInv, Accounted
    <3> QED
      BY <3>1, <3>2
  <2>2. ASSUME NEW rpc \in pendingRpcs'
        PROVE  call'[rpc[1]] # Quiet
    <3>1. rpc \in pendingRpcs \/ rpc[1] = c
      BY <1>6, <2>2
    <3>2. rpc[1] \in Client
      BY <1>6, <2>2
    <3> QED
      BY <1>8, <3>1, <3>2 DEF ClusterInv, FlowInv, Accounted
  <2> QED
    BY <2>1, <2>2 DEF Accounted
<1>10. PostedUnderLock'
  BY <1>1, <1>3 DEF PostedUnderLock
<1> QED
  BY <1>6, <1>7, <1>9, <1>10 DEF FlowInv

\* The messages of a command go to shards, and carry its client.
LEMMA CommandsAreSent ==
    ASSUME ClusterAssumption, ClusterInv, NEW c \in Client, Command(c),
           \A keys \in DelLists : ~executeCrossShardDel(c, keys)
    PROVE  \E cmd, msgs : /\ Send(c, cmd, msgs) /\ DOMAIN msgs \subseteq Shard
                          /\ \A s \in DOMAIN msgs : msgs[s].client = c
<1> DEFINE OwnMessages(msgs) == DOMAIN msgs \subseteq Shard /\ \A s \in DOMAIN msgs : msgs[s].client = c
           Sends == \E cmd, msgs : Send(c, cmd, msgs) /\ OwnMessages(msgs)
<1>1. ASSUME NEW s \in Shard, NEW m, m.client = c
      PROVE  OwnMessages(To(s, m))
  BY <1>1 DEF To
<1>2. \A k \in Key : getShardForKey(k) \in Shard
  BY EveryKeyHasAShard DEF getShardForKey
<1>3. 0 \in Shard
  BY DEF Shard, ClusterAssumption
<1>4. ASSUME NEW k \in Key, GET(c, k)
      PROVE  Sends
  <2>1. PICK lost : Send(c, <<"GET", k>>, To(getShardForKey(k),
                            [client |-> c, op |-> "GET", key |-> k, lost |-> lost]))
    BY <1>4 DEF GET
  <2>2. OwnMessages(To(getShardForKey(k), [client |-> c, op |-> "GET", key |-> k, lost |-> lost]))
    BY <1>1, <1>2
  <2> QED
    BY <2>1, <2>2
<1>5. ASSUME NEW k \in Key, INCR(c, k)
      PROVE  Sends
  <2>1. PICK lost : Send(c, <<"INCR", k>>, To(getShardForKey(k),
                            [client |-> c, op |-> "INCR", key |-> k, lost |-> lost]))
    BY <1>5 DEF INCR
  <2>2. OwnMessages(To(getShardForKey(k), [client |-> c, op |-> "INCR", key |-> k, lost |-> lost]))
    BY <1>1, <1>2
  <2> QED
    BY <2>1, <2>2
<1>6. ASSUME NEW k \in Key, NEW v \in SetValues, NEW ex \in BOOLEAN, SET(c, k, v, ex)
      PROVE  Sends
  <2> DEFINE m == [client |-> c, op |-> "SET", key |-> k, value |-> v, expires |-> ex, lost |-> {}]
  <2>1. OwnMessages(To(getShardForKey(k), m))
    BY <1>1, <1>2
  <2>2. Send(c, <<"SET", k, v, ex>>, To(getShardForKey(k), m))
    BY <1>6 DEF SET
  <2> QED
    BY <2>1, <2>2
<1>7. ASSUME PING(c)
      PROVE  Sends
  <2> DEFINE m == [client |-> c, op |-> "PING", lost |-> {}]
  <2>1. OwnMessages(To(0, m))
    BY <1>1, <1>3
  <2>2. Send(c, <<"PING">>, To(0, m))
    BY <1>7 DEF PING
  <2> QED
    BY <2>1, <2>2
<1>8. ASSUME NEW op, FanOut(c, op)
      PROVE  Sends
  <2>1. PICK msgs : /\ Send(c, <<op>>, msgs) /\ DOMAIN msgs = Shard
                    /\ \A s \in Shard : msgs[s].client = c
    BY <1>8 DEF FanOut
  <2> QED
    BY <2>1
<1>9. ASSUME NEW keys \in DelLists, DelOnOneShard(c, keys)
      PROVE  Sends
  <2>1. PICK op, lost : Send(c, <<"DEL", ToSet(keys)>>, shardKeyMap(c, op, ToSet(keys), lost))
    BY <1>9 DEF DelOnOneShard
  <2>2. ToSet(keys) \subseteq Key
    BY DEF ClusterAssumption, ToSet
  <2>3. OwnMessages(shardKeyMap(c, op, ToSet(keys), lost))
    BY <1>2, <2>2 DEF shardKeyMap
  <2> QED
    BY <2>1, <2>3
<1>10. Sends
  BY <1>4, <1>5, <1>6, <1>7, <1>8, <1>9 DEF Command, getClusterStats, sampleClusterKeys
<1> QED
  BY <1>10

\* A fan-out begins: nothing is in flight for its client.
LEMMA FanOutFlows ==
    ASSUME ClusterInv, NEW c \in Client, NEW keys \in DelLists, executeCrossShardDel(c, keys)
    PROVE  FlowInv'
<1>1. /\ master = Quiet /\ call[c] = Quiet /\ UNCHANGED <<inbox, outbox, worker, pendingRpcs>>
      /\ master'.pc = "acquire" /\ master'.client = c
  BY DEF executeCrossShardDel, Begin, Ready, threads
<1>2. PICK cmd, sum, promise :
          call' = [call EXCEPT ![c] = [pc |-> "called", cmd |-> cmd, sum |-> sum, promise |-> promise]]
  BY DEF executeCrossShardDel, Begin, Ready
<1>3. \A s \in Shard : (OneMessage(s)' <=> OneMessage(s)) /\ InFlight(s)' = InFlight(s)
  BY <1>1, Untouched
<1>4. DOMAIN call' = Client /\ \A d \in Client : CallShape(d)' /\ (call[d] # Quiet => call'[d] # Quiet)
  BY <1>2 DEF ClusterInv, FlowInv, CallShape, Quiet
<1>5. Accounted'
  <2>1. \A rpc \in pendingRpcs : rpc[1] \in Client
    BY DEF ClusterInv, FlowInv
  <2> QED
    BY <1>1, <1>3, <1>4, <2>1 DEF ClusterInv, FlowInv, Accounted, Quiet
<1>6. PostedUnderLock'
  <2>1. \A s \in Shard : <<c, s>> \notin pendingRpcs
    BY <1>1 DEF ClusterInv, FlowInv, Accounted
  <2>2. call'[c] # Quiet
    BY <1>2 DEF ClusterInv, FlowInv, Quiet
  <2> QED
    BY <1>1, <2>1, <2>2 DEF PostedUnderLock
<1> QED
  BY <1>1, <1>3, <1>4, <1>5, <1>6 DEF ClusterInv, FlowInv

\* A part of a fan-out is posted under its lock.
LEMMA PostFlows ==
    ASSUME ClusterInv, NEW s \in Shard, PostOne(s)
    PROVE  FlowInv'
<1> DEFINE c == master.client
           left == [t \in DOMAIN master.msgs \ {s} |-> master.msgs[t]]
           place == IF DOMAIN left = {} THEN "release" ELSE "post"
<1>1. /\ master = [pc |-> master.pc, client |-> c, msgs |-> master.msgs, held |-> master.held]
      /\ c \in Client /\ s \in DOMAIN master.msgs
      /\ \A t \in DOMAIN master.msgs : master.msgs[t].client = c
      /\ master.pc \in {"acquire", "post"}
  BY DEF PostOne, ClusterInv, LockInv, MasterShape, Quiet
<1>2. /\ master' = [master EXCEPT !.pc = place, !.msgs = left]
      /\ sendToWorkers(c, To(s, master.msgs[s])) /\ call' = call
  BY DEF PostOne
<1>3. DOMAIN left = DOMAIN master.msgs \ {s} /\ place \in {"post", "release"}
  OBVIOUS
<1> HIDE DEF left, place
<1>4. master' = [pc |-> place, client |-> c, msgs |-> left, held |-> master.held]
  BY <1>1, <1>2
<1>5. /\ DOMAIN master.msgs \subseteq master.held
      /\ \A t \in Shard : <<c, t>> \in pendingRpcs => t \in master.held \ DOMAIN master.msgs
  BY <1>1 DEF PostOne, ClusterInv, FlowInv, PostedUnderLock, Locking
<1>6. <<c, s>> \notin pendingRpcs
  BY <1>1, <1>5
<1>7. c \notin InFlight(s)
  BY <1>1, <1>6 DEF ClusterInv, FlowInv, Accounted
<1> DEFINE msgs == To(s, master.msgs[s])
<1>8. /\ DOMAIN msgs = {s} /\ msgs[s].client = c
  BY <1>1 DEF To
<1> HIDE DEF msgs
<1>9. /\ DOMAIN inbox' = Shard /\ DOMAIN outbox' = Shard
      /\ \A t \in Shard : OneMessage(t)'
      /\ \A t \in Shard \ {s} : InFlight(t)' = InFlight(t)
      /\ InFlight(s)' = InFlight(s) \cup {c}
      /\ pendingRpcs' = pendingRpcs \cup {<<c, s>>}
      /\ pendingRpcs' \subseteq Client \X Shard
  <2>1. /\ DOMAIN msgs \subseteq Shard /\ sendToWorkers(c, msgs)
        /\ \A t \in DOMAIN msgs : msgs[t].client = c /\ c \notin InFlight(t)
    BY <1>2, <1>7, <1>8 DEF msgs
  <2>2. /\ DOMAIN inbox' = Shard /\ DOMAIN outbox' = Shard
        /\ \A t \in Shard : OneMessage(t)'
        /\ \A t \in Shard \ DOMAIN msgs : InFlight(t)' = InFlight(t)
        /\ \A t \in DOMAIN msgs : InFlight(t)' = InFlight(t) \cup {c}
        /\ pendingRpcs' = pendingRpcs \cup ({c} \X DOMAIN msgs)
        /\ pendingRpcs' \subseteq Client \X Shard
    BY <1>1, <2>1, Sent DEF ClusterInv
  <2>3. {c} \X DOMAIN msgs = {<<c, s>>}
    BY <1>8
  <2> QED
    BY <1>8, <2>2, <2>3
<1>10. Accounted'
  <2>1. \A t \in Shard : \A d \in InFlight(t)' : <<d, t>> \in pendingRpcs'
    <3>1. master.pc # "closed"
      BY <1>1
    <3> QED
      BY <1>9, <3>1 DEF ClusterInv, FlowInv, Accounted
  <2>2. call[c] # Quiet
    BY <1>1 DEF ClusterInv, FlowInv, PostedUnderLock
  <2>3. \A rpc \in pendingRpcs' : call'[rpc[1]] # Quiet
    BY <1>2, <1>9, <2>2 DEF ClusterInv, FlowInv, Accounted
  <2> QED
    BY <2>1, <2>3 DEF Accounted
<1>11. PostedUnderLock'
  <2>1. master'.pc = place /\ master'.client = c /\ master'.msgs = left /\ master'.held = master.held
    BY <1>4
  <2>2. \A t \in Shard : <<c, t>> \in pendingRpcs' => t = s \/ <<c, t>> \in pendingRpcs
    BY <1>9
  <2>3. \A t \in Shard : <<c, t>> \in pendingRpcs' => t \in master.held \ DOMAIN left
    BY <1>1, <1>3, <1>5, <2>2
  <2>4. call'[c] # Quiet
    BY <1>1, <1>2 DEF ClusterInv, FlowInv, PostedUnderLock
  <2> QED
    BY <1>3, <1>5, <2>1, <2>3, <2>4 DEF PostedUnderLock
<1> QED
  BY <1>2, <1>9, <1>10, <1>11 DEF ClusterInv, FlowInv, CallShape

\* The master takes or releases a lock.
LEMMA LocksFlow ==
    ASSUME ClusterInv, acquireLocks \/ releaseAll
    PROVE  FlowInv'
<1>1. UNCHANGED <<inbox, outbox, worker, call, pendingRpcs>>
  BY DEF acquireLocks, releaseAll, threads, calls
<1>2. \A s \in Shard : (OneMessage(s)' <=> OneMessage(s)) /\ InFlight(s)' = InFlight(s)
  BY <1>1, Untouched
<1>3. /\ master = [pc |-> master.pc, client |-> master.client, msgs |-> master.msgs, held |-> master.held]
      /\ master.pc \in {"acquire", "release"}
  BY DEF acquireLocks, releaseAll, ClusterInv, LockInv, MasterShape, Quiet
<1>4. \/ master'.pc = "acquire" /\ master.pc = "acquire" /\ master'.client = master.client
      \/ master'.pc \in {"release", "idle"}
  <2>1. CASE acquireLocks
    BY <1>3, <2>1 DEF acquireLocks
  <2>2. CASE releaseAll
    BY <1>3, <2>2 DEF releaseAll, Quiet
  <2> QED
    BY <2>1, <2>2
<1>5. Accounted'
  BY <1>1, <1>2, <1>3 DEF ClusterInv, FlowInv, Accounted
<1>6. PostedUnderLock'
  BY <1>1, <1>4 DEF ClusterInv, FlowInv, PostedUnderLock
<1> QED
  BY <1>1, <1>2, <1>5, <1>6 DEF ClusterInv, FlowInv, CallShape

\* A step of the worker moves a message from one place to the next.
LEMMA WorkerFlows ==
    ASSUME ClusterInv, NEW s \in Shard, Worker(s)
    PROVE  FlowInv'
<1>1. UNCHANGED <<master, call, pendingRpcs>>
  BY DEF Worker, WorkerExecutes, WorkerTakes, WorkerAcquires, WorkerDeletes, WorkerAnswers, calls
<1>2. /\ OneMessage(s) /\ DOMAIN inbox = Shard /\ DOMAIN outbox = Shard /\ DOMAIN worker = Shard
      /\ WorkerShape(s)
  BY DEF ClusterInv, LockInv, FlowInv
<1>3. /\ DOMAIN inbox' = Shard /\ DOMAIN outbox' = Shard
      /\ OneMessage(s)' /\ InFlight(s)' \subseteq InFlight(s)
      /\ \A t \in Shard \ {s} : inbox'[t] = inbox[t] /\ outbox'[t] = outbox[t] /\ worker'[t] = worker[t]
  <2>1. CASE WorkerExecutes(s)
    <3> DEFINE answer == [client |-> Head(inbox[s]).client, answer |-> Response(engine[s], Head(inbox[s]))]
    <3>1. /\ inbox[s] # <<>> /\ worker' = worker
          /\ inbox' = [inbox EXCEPT ![s] = Tail(@)]
          /\ outbox' = [outbox EXCEPT ![s] = Append(@, answer)]
      BY <2>1 DEF WorkerExecutes, Next1, Post
    <3>2. answer.client = Head(inbox[s]).client
      OBVIOUS
    <3> HIDE DEF answer
    <3>3. Serving(s)' = Serving(s)
      BY <3>1 DEF Serving
    <3>4. /\ IsSeq(Tail(inbox[s])) /\ Head(inbox[s]).client \in ClientsOf(inbox[s])
          /\ ClientsOf(Tail(inbox[s])) \subseteq ClientsOf(inbox[s])
          /\ Distinct(Tail(inbox[s])) /\ Head(inbox[s]).client \notin ClientsOf(Tail(inbox[s]))
      BY <1>2, <3>1, Ahead1 DEF OneMessage
    <3>5. IsSeq(outbox[s]) /\ Distinct(outbox[s]) /\ answer.client \notin ClientsOf(outbox[s])
      BY <1>2, <3>2, <3>4 DEF OneMessage
    <3>6. /\ IsSeq(Append(outbox[s], answer)) /\ Distinct(Append(outbox[s], answer))
          /\ ClientsOf(Append(outbox[s], answer)) = ClientsOf(outbox[s]) \cup {answer.client}
      BY <3>5, SentBehind
    <3>7. inbox'[s] = Tail(inbox[s]) /\ outbox'[s] = Append(outbox[s], answer)
      BY <1>2, <3>1
    <3>8. OneMessage(s)' /\ InFlight(s)' \subseteq InFlight(s)
      BY <1>2, <3>2, <3>3, <3>4, <3>6, <3>7 DEF OneMessage, InFlight
    <3> QED
      BY <1>2, <3>1, <3>8
  <2>2. CASE WorkerTakes(s)
    <3>1. /\ inbox[s] # <<>> /\ outbox' = outbox /\ worker[s].pc = "idle"
          /\ inbox' = [inbox EXCEPT ![s] = Tail(@)]
          /\ worker' = [worker EXCEPT ![s] = [pc |-> "acquire", msg |-> Head(inbox[s])]]
      BY <2>2 DEF WorkerTakes, Next1, Working
    <3>2. worker'[s] = [pc |-> "acquire", msg |-> Head(inbox[s])] /\ inbox'[s] = Tail(inbox[s])
      BY <1>2, <3>1
    <3>3. Serving(s)' = {Head(inbox[s]).client}
      BY <3>2 DEF Serving
    <3>4. /\ IsSeq(Tail(inbox[s])) /\ Head(inbox[s]).client \in ClientsOf(inbox[s])
          /\ ClientsOf(Tail(inbox[s])) \subseteq ClientsOf(inbox[s])
          /\ Distinct(Tail(inbox[s])) /\ Head(inbox[s]).client \notin ClientsOf(Tail(inbox[s]))
      BY <1>2, <3>1, Ahead1 DEF OneMessage
    <3>5. OneMessage(s)' /\ InFlight(s)' \subseteq InFlight(s)
      BY <1>2, <3>1, <3>2, <3>3, <3>4 DEF OneMessage, InFlight
    <3> QED
      BY <1>2, <3>1, <3>5
  <2>3. CASE WorkerAcquires(s) \/ WorkerDeletes(s)
    <3>1. inbox' = inbox /\ outbox' = outbox
          /\ \A t \in Shard \ {s} : worker'[t] = worker[t]
      BY <1>2, <2>3 DEF WorkerAcquires, WorkerDeletes
    <3>2. Serving(s)' = Serving(s)
      <4>1. CASE WorkerAcquires(s)
        <5>1. worker[s].pc = "acquire" /\ worker' = [worker EXCEPT ![s].pc = "locked"]
          BY <4>1 DEF WorkerAcquires, Working
        <5>2. worker[s] = [pc |-> "acquire", msg |-> worker[s].msg]
          BY <1>2, <5>1 DEF WorkerShape, Quiet
        <5>3. worker'[s] = [worker[s] EXCEPT !.pc = "locked"]
          BY <1>2, <5>1
        <5>4. worker'[s].pc = "locked" /\ worker'[s].msg = worker[s].msg
          BY <5>2, <5>3
        <5> QED
          BY <5>1, <5>4 DEF Serving
      <4>2. CASE WorkerDeletes(s)
        <5> DEFINE count == Response(engine[s], worker[s].msg)
        <5>1. /\ worker[s].pc = "locked"
              /\ worker'[s] = [pc |-> "deleted", client |-> worker[s].msg.client, count |-> count]
          BY <1>2, <4>2 DEF WorkerDeletes, Working
        <5> HIDE DEF count
        <5> QED
          BY <5>1 DEF Serving
      <4> QED
        BY <2>3, <4>1, <4>2
    <3>3. OneMessage(s)' /\ InFlight(s)' = InFlight(s)
      BY <1>2, <3>1, <3>2 DEF OneMessage, InFlight
    <3> QED
      BY <1>2, <3>1, <3>3
  <2>4. CASE WorkerAnswers(s)
    <3> DEFINE answer == [client |-> worker[s].client, answer |-> worker[s].count]
    <3>1. /\ inbox' = inbox /\ worker[s].pc = "deleted"
          /\ outbox' = [outbox EXCEPT ![s] = Append(@, answer)]
          /\ worker' = [worker EXCEPT ![s] = Quiet]
      BY <2>4 DEF WorkerAnswers, Working, Post
    <3>2. answer.client = worker[s].client
      OBVIOUS
    <3> HIDE DEF answer
    <3>3. Serving(s) = {answer.client}
      BY <3>1, <3>2 DEF Serving
    <3>4. worker'[s] = Quiet /\ outbox'[s] = Append(outbox[s], answer)
      BY <1>2, <3>1
    <3>5. Serving(s)' = {}
      BY <3>4 DEF Serving, Quiet
    <3>6. IsSeq(outbox[s]) /\ Distinct(outbox[s]) /\ answer.client \notin ClientsOf(outbox[s])
      BY <1>2, <3>3 DEF OneMessage
    <3>7. /\ IsSeq(Append(outbox[s], answer)) /\ Distinct(Append(outbox[s], answer))
          /\ ClientsOf(Append(outbox[s], answer)) = ClientsOf(outbox[s]) \cup {answer.client}
      BY <3>6, SentBehind
    <3>8. OneMessage(s)' /\ InFlight(s)' \subseteq InFlight(s)
      BY <1>2, <3>1, <3>3, <3>4, <3>5, <3>7 DEF OneMessage, InFlight
    <3> QED
      BY <1>2, <3>1, <3>8
  <2> QED
    BY <2>1, <2>2, <2>3, <2>4 DEF Worker
<1>4. \A t \in Shard \ {s} : (OneMessage(t)' <=> OneMessage(t)) /\ InFlight(t)' = InFlight(t)
  BY <1>3, Untouched
<1>5. \A t \in Shard : OneMessage(t)' /\ InFlight(t)' \subseteq InFlight(t)
  BY <1>3, <1>4 DEF ClusterInv, FlowInv
<1>6. Accounted' /\ PostedUnderLock'
  BY <1>1, <1>5 DEF ClusterInv, FlowInv, Accounted, PostedUnderLock
<1> QED
  BY <1>1, <1>3, <1>5, <1>6 DEF ClusterInv, FlowInv, CallShape

\* The master takes an answer, of a call that waits for it.
LEMMA AnswerFlows ==
    ASSUME ClusterInv, NEW s \in Shard, handleWorkerMessage(s)
    PROVE  FlowInv'
<1> DEFINE c == Head(outbox[s]).client
           sum == call[c].sum + Head(outbox[s]).answer
<1>1. /\ master = Quiet /\ master' = master /\ outbox[s] # <<>>
      /\ outbox' = [outbox EXCEPT ![s] = Tail(@)]
      /\ UNCHANGED <<inbox, worker>>
      /\ DOMAIN inbox = Shard /\ DOMAIN outbox = Shard
  BY DEF handleWorkerMessage, ClusterInv, FlowInv
<1>2. /\ OneMessage(s)
      /\ IsSeq(Tail(outbox[s])) /\ c \in ClientsOf(outbox[s])
      /\ ClientsOf(Tail(outbox[s])) \subseteq ClientsOf(outbox[s])
      /\ Distinct(Tail(outbox[s])) /\ c \notin ClientsOf(Tail(outbox[s]))
  <2>1. OneMessage(s)
    BY DEF ClusterInv, FlowInv
  <2> QED
    BY <1>1, <2>1, Ahead1 DEF OneMessage
<1>3. <<c, s>> \in pendingRpcs /\ c \in Client /\ call[c] # Quiet
  <2>1. c \in InFlight(s) /\ master.pc # "closed"
    BY <1>1, <1>2 DEF InFlight, Quiet
  <2>2. <<c, s>> \in pendingRpcs
    BY <2>1 DEF ClusterInv, FlowInv, Accounted
  <2> QED
    BY <2>2 DEF ClusterInv, FlowInv, Accounted
<1>4. /\ pendingRpcs' = pendingRpcs \ {<<c, s>>}
      /\ IF Complete(c, pendingRpcs') THEN call' = [call EXCEPT ![c] = Quiet]
                                      ELSE call' = [call EXCEPT ![c].sum = sum]
  BY <1>3 DEF handleWorkerMessage
<1> HIDE DEF sum
<1>5. DOMAIN call' = Client /\ \A d \in Client : CallShape(d)' /\ (d # c => call'[d] = call[d])
  <2>1. call[c] = [pc |-> "called", cmd |-> call[c].cmd, sum |-> call[c].sum,
                     promise |-> call[c].promise]
        /\ DOMAIN call = Client /\ \A d \in Client : CallShape(d)
    BY <1>3 DEF ClusterInv, FlowInv, CallShape
  <2>2. CASE call' = [call EXCEPT ![c] = Quiet]
    BY <1>3, <2>1, <2>2 DEF CallShape
  <2>3. CASE call' = [call EXCEPT ![c].sum = sum]
    <3>1. call'[c] = [call[c] EXCEPT !.sum = sum] /\ DOMAIN call' = Client
          /\ \A d \in Client \ {c} : call'[d] = call[d]
      BY <1>3, <2>1, <2>3
    <3>2. call'[c] = [pc |-> "called", cmd |-> call[c].cmd, sum |-> sum, promise |-> call[c].promise]
      BY <2>1, <3>1
    <3> QED
      BY <2>1, <3>1, <3>2 DEF CallShape
  <2> QED
    BY <1>4, <2>2, <2>3
<1>6. \A rpc \in pendingRpcs' : call'[rpc[1]] # Quiet
  <2>1. \A rpc \in pendingRpcs' : rpc \in pendingRpcs /\ rpc[1] \in Client
    BY <1>4 DEF ClusterInv, FlowInv
  <2>2. CASE Complete(c, pendingRpcs')
    BY <1>5, <2>1, <2>2 DEF Complete, ClusterInv, FlowInv, Accounted
  <2>3. CASE ~Complete(c, pendingRpcs')
    <3>1. call[c] = [pc |-> "called", cmd |-> call[c].cmd, sum |-> call[c].sum,
                     promise |-> call[c].promise]
          /\ DOMAIN call = Client
      BY <1>3 DEF ClusterInv, FlowInv, CallShape
    <3>2. call'[c] = [call[c] EXCEPT !.sum = sum]
      BY <1>3, <1>4, <2>3, <3>1
    <3>3. call'[c].pc = "called"
      BY <3>1, <3>2
    <3> QED
      BY <1>5, <2>1, <3>3 DEF ClusterInv, FlowInv, Accounted, Quiet
  <2> QED
    BY <2>2, <2>3
<1>7. \A t \in Shard \ {s} : (OneMessage(t)' <=> OneMessage(t)) /\ InFlight(t)' = InFlight(t)
  BY <1>1, Untouched
<1>8. OneMessage(s)' /\ InFlight(s)' \subseteq InFlight(s) \ {c}
  <2>1. outbox'[s] = Tail(outbox[s]) /\ inbox'[s] = inbox[s]
    BY <1>1
  <2>2. Serving(s)' = Serving(s)
    BY <1>1 DEF Serving
  <2>3. c \notin ClientsOf(inbox[s]) \cup Serving(s)
    BY <1>2 DEF OneMessage
  <2> QED
    BY <1>2, <2>1, <2>2, <2>3 DEF OneMessage, InFlight
<1>9. Accounted'
  <2>1. ASSUME NEW t \in Shard, NEW d \in InFlight(t)'
        PROVE  <<d, t>> \in pendingRpcs'
    <3>1. d \in InFlight(t) /\ (t = s => d # c)
      BY <1>7, <1>8, <2>1
    <3>2. <<d, t>> \in pendingRpcs
      BY <1>1, <3>1 DEF ClusterInv, FlowInv, Accounted, Quiet
    <3> QED
      BY <1>4, <3>1, <3>2
  <2> QED
    BY <1>6, <2>1 DEF Accounted
<1>10. PostedUnderLock'
  BY <1>1 DEF PostedUnderLock, Quiet
<1>11. pendingRpcs' \subseteq Client \X Shard
  BY <1>4 DEF ClusterInv, FlowInv
<1>12. \A t \in Shard : OneMessage(t)'
  BY <1>7, <1>8 DEF ClusterInv, FlowInv
<1> QED
  BY <1>1, <1>5, <1>9, <1>10, <1>11, <1>12 DEF FlowInv

\* Every step of the cluster keeps both invariants.
LEMMA ClusterStep ==
    ASSUME ClusterAssumption, ClusterInv, [Next]_vars
    PROVE  ClusterInv'
<1>1. LockInv'
  BY LockStep, LocksFramed DEF ClusterInv, vars, threads
<1>2. FlowInv'
  <2>1. CASE UNCHANGED <<inbox, outbox, worker, master, call, pendingRpcs>>
    <3>1. \A s \in Shard : (OneMessage(s)' <=> OneMessage(s)) /\ InFlight(s)' = InFlight(s)
      BY <2>1, Untouched
    <3> QED
      BY <2>1, <3>1 DEF ClusterInv, FlowInv, CallShape, Accounted, PostedUnderLock
  <2>2. ASSUME NEW c \in Client, Command(c)
        PROVE  FlowInv'
    <3>1. CASE \E keys \in DelLists : executeCrossShardDel(c, keys)
      BY <3>1, FanOutFlows
    <3>2. CASE \A keys \in DelLists : ~executeCrossShardDel(c, keys)
      BY <2>2, <3>2, CommandsAreSent, SendFlows
    <3> QED
      BY <3>1, <3>2
  <2>3. Master => FlowInv'
    BY LocksFlow, PostFlows DEF Master
  <2>4. ASSUME NEW s \in Shard, Worker(s) \/ handleWorkerMessage(s) \/ WorkerDies(s)
        PROVE  FlowInv'
    BY <2>1, <2>4, WorkerFlows, AnswerFlows DEF WorkerDies, calls
  <2>5. ASSUME close
        PROVE  FlowInv'
    <3>1. /\ master' = [pc |-> "closed"] /\ pendingRpcs' = {}
          /\ UNCHANGED <<inbox, outbox, worker, call>>
      BY <2>5 DEF close
    <3>2. \A s \in Shard : (OneMessage(s)' <=> OneMessage(s)) /\ InFlight(s)' = InFlight(s)
      BY <3>1, Untouched
    <3> QED
      BY <3>1, <3>2 DEF ClusterInv, FlowInv, CallShape, Accounted, PostedUnderLock
  <2> QED
    BY <2>1, <2>2, <2>3, <2>4, <2>5 DEF Next, vars, threads, calls
<1> QED
  BY <1>1, <1>2 DEF ClusterInv

\* A worker that is about to delete for a client has a message of it; had the master not
\* sent all parts yet, it would still have the lock of every shard it has sent one to.
LEMMA WholeByInvariant == ASSUME ClusterInv PROVE FanOutWhole
<1>1. SUFFICES ASSUME NEW s \in Shard, worker[s].pc = "locked", master.pc \in {"acquire", "post"},
                      worker[s].msg.client = master.client
               PROVE  FALSE
  BY DEF FanOutWhole
<1>2. worker[s].msg.client \in InFlight(s)
  BY <1>1 DEF InFlight, Serving
<1>3. <<master.client, s>> \in pendingRpcs
  BY <1>1, <1>2 DEF ClusterInv, FlowInv, Accounted
<1>4. master.pc = "post" /\ s \in master.held
  BY <1>1, <1>3 DEF ClusterInv, FlowInv, PostedUnderLock
<1>5. HeldByMaster(s) /\ HeldByWorker(s)
  <2>1. master = [pc |-> master.pc, client |-> master.client, msgs |-> master.msgs, held |-> master.held]
    BY <1>1 DEF ClusterInv, LockInv, MasterShape, Quiet
  <2>2. "held" \in DOMAIN master
    BY <2>1
  <2> QED
    BY <1>1, <1>4, <2>2 DEF HeldByMaster, HeldByWorker
<1> QED
  BY <1>5 DEF ClusterInv, LockInv, LocksExact

\* "Coordinates atomic, cross-shard multi-key DEL" (cluster-coordinator.ts:143): no shard
\* deletes before every shard has its part of the keys.
THEOREM FanOutsAreWhole == Spec => []FanOutWhole
<1>1. Init => ClusterInv
  BY ClusterAssumption, LocksStart, FlowInit DEF ClusterInv
<1>2. ClusterInv /\ [Next]_vars => ClusterInv'
  BY ClusterAssumption, ClusterStep
<1>3. ClusterInv => FanOutWhole
  BY WholeByInvariant
<1> QED
  BY <1>1, <1>2, <1>3, PTL DEF Spec
-----------------------------------------------------------------------------
(***************************************************************************)
(* Sums over shards, in whatever order.                                    *)
(***************************************************************************)
\* h has the sum of f over every set of shards.
Sums(h, f) ==
    /\ h \in [SUBSET Shard -> Int]
    /\ h[{}] = 0
    /\ \A T \in SUBSET Shard : \A s \in T : h[T] = f[s] + h[T \ {s}]

Total(f, T) == (CHOOSE h : Sums(h, f))[T]

\* h has what f adds up to over the shards below i.
SumsBelow(h, f, i) ==
    /\ h[{}] = 0
    /\ \A T \in SUBSET Shard :
          \A s \in T : h[T] = h[T \ {s}] + (IF s < i THEN f[s] ELSE 0)

\* The shards are added one after the other.
LEMMA SumExists ==
    ASSUME NEW f \in [Shard -> Int]
    PROVE  \E h : Sums(h, f)
<1> DEFINE X == [SUBSET Shard -> Int]
           zero == [T \in SUBSET Shard |-> 0]
           added(y, i) == [T \in SUBSET Shard |-> y[T] + (IF i - 1 \in T THEN f[i - 1] ELSE 0)]
           step == [p \in X \X (1..ShardCount) |-> added(p[1], p[2])]
<1>1. ShardCount \in Nat /\ zero \in X /\ \A i \in 1..ShardCount : i - 1 \in Shard
  BY ClusterAssumption DEF Shard
<1>2. \A y \in X, i \in 1..ShardCount : added(y, i) \in X
  <2>1. \A i \in 1..ShardCount : f[i - 1] \in Int
    BY <1>1
  <2> QED
    BY <2>1
<1>3. \A y \in X, i \in 1..ShardCount : step[<<y, i>>] = added(y, i)
  OBVIOUS
<1> HIDE DEF step
<1>4. StaysIn(step, X, ShardCount)
  <2> HIDE DEF X, added
  <2> QED
    BY <1>2, <1>3 DEF StaysIn
<1>5. PICK g : Course(g, X, zero, step, ShardCount)
  <2> HIDE DEF X, zero
  <2> QED
    BY <1>1, <1>4, CourseExists
<1> DEFINE S == {i \in 0..ShardCount : SumsBelow(g[i], f, i)}
<1>6. 0 \in S
  <2>1. g[0] = zero
    BY <1>5 DEF Course
  <2>2. \A s \in Shard : s \in Nat /\ ~(s < 0)
    BY DEF Shard
  <2> QED
    BY <1>1, <2>1, <2>2 DEF SumsBelow
<1>7. ASSUME NEW i \in 1..ShardCount, i - 1 \in S
      PROVE  i \in S
  <2>1. g[i - 1] \in X /\ g[i] = added(g[i - 1], i)
    <3>1. g \in [0..ShardCount -> X] /\ i - 1 \in 0..ShardCount
      BY <1>1, <1>5 DEF Course
    <3>2. g[i - 1] \in X
      BY <3>1
    <3> HIDE DEF X, added
    <3> QED
      BY <1>3, <1>5, <3>2 DEF Course
  <2> DEFINE y == g[i - 1]
             h == g[i]
             n == i - 1
             v == f[i - 1]
  <2>2. n \in Nat /\ i = n + 1 /\ v \in Int /\ n \in Shard
    BY <1>1
  <2>3. /\ SumsBelow(y, f, n) /\ y \in X
        /\ \A T \in SUBSET Shard : h[T] = y[T] + (IF n \in T THEN v ELSE 0)
    BY <1>7, <2>1
  <2>4. f[n] = v
    OBVIOUS
  <2> HIDE DEF y, h, n, v
  <2>5. ASSUME NEW T \in SUBSET Shard, NEW s \in T
        PROVE  h[T] = h[T \ {s}] + (IF s < i THEN f[s] ELSE 0)
    <3>1. T \ {s} \in SUBSET Shard /\ s \in Nat /\ f[s] \in Int
      BY DEF Shard
    <3>2. y[T] \in Int /\ y[T \ {s}] \in Int /\ y[T] = y[T \ {s}] + (IF s < n THEN f[s] ELSE 0)
      BY <2>3, <3>1 DEF SumsBelow
    <3>3. /\ h[T] = y[T] + (IF n \in T THEN v ELSE 0)
          /\ h[T \ {s}] = y[T \ {s}] + (IF n \in T \ {s} THEN v ELSE 0)
      BY <2>3, <3>1
    <3>4. CASE s = n
      BY <2>2, <2>4, <3>2, <3>3, <3>4
    <3>5. CASE s # n
      <4>1. (s < i <=> s < n) /\ (n \in T <=> n \in T \ {s})
        BY <2>2, <3>1, <3>5
      <4> QED
        BY <2>2, <3>1, <3>2, <3>3, <4>1
    <3> QED
      BY <3>4, <3>5
  <2>6. h[{}] = 0
    BY <2>2, <2>3 DEF SumsBelow
  <2>7. SumsBelow(h, f, i)
    BY <2>5, <2>6 DEF SumsBelow
  <2> QED
    BY <2>7 DEF h
<1>8. SumsBelow(g[ShardCount], f, ShardCount)
  <2>1. \A i \in 0..ShardCount : i \in S
    <3> HIDE DEF S
    <3> QED
      BY <1>1, <1>6, <1>7, Reached
  <2> QED
    BY <1>1, <2>1
<1> DEFINE h == g[ShardCount]
<1>9. h \in X
  BY <1>1, <1>5 DEF Course
<1>10. ASSUME NEW T \in SUBSET Shard, NEW s \in T
       PROVE  h[T] = f[s] + h[T \ {s}]
  <2>1. T \ {s} \in SUBSET Shard /\ s < ShardCount /\ f[s] \in Int
    BY ClusterAssumption DEF Shard
  <2>2. h[T] = h[T \ {s}] + (IF s < ShardCount THEN f[s] ELSE 0)
    BY <1>8 DEF SumsBelow
  <2>3. h[T] = h[T \ {s}] + f[s] /\ h[T \ {s}] \in Int
    BY <1>9, <2>1, <2>2
  <2> HIDE DEF h
  <2> QED
    BY <2>1, <2>3
<1>11. Sums(h, f)
  BY <1>8, <1>9, <1>10 DEF Sums, SumsBelow
<1> QED
  BY <1>11

\* What a sum is.
LEMMA TotalFacts ==
    ASSUME NEW f \in [Shard -> Int]
    PROVE  /\ Total(f, {}) = 0
           /\ \A T \in SUBSET Shard : Total(f, T) \in Int
           /\ \A T \in SUBSET Shard : \A s \in T : Total(f, T) = f[s] + Total(f, T \ {s})
<1> DEFINE h == CHOOSE h : Sums(h, f)
<1>1. Sums(h, f)
  BY SumExists
<1> HIDE DEF h
<1>2. \A T : Total(f, T) = h[T]
  BY DEF Total, h
<1> QED
  BY <1>1, <1>2 DEF Sums

\* The shards of a set below i.
Below(T, i) == {s \in T : s < i}

\* A sum, shard by shard.
LEMMA TotalGoesOn ==
    ASSUME NEW f \in [Shard -> Int], NEW T \in SUBSET Shard
    PROVE  /\ ShardCount \in Nat /\ Below(T, 0) = {} /\ Below(T, ShardCount) = T
           /\ \A i \in 1..ShardCount :
                 /\ i - 1 \in Shard /\ Below(T, i) \in SUBSET Shard /\ Below(T, i - 1) \in SUBSET Shard
                 /\ Below(T, i) = Below(T, i - 1) \cup (T \cap {i - 1})
                 /\ Total(f, Below(T, i)) =
                        Total(f, Below(T, i - 1)) + (IF i - 1 \in T THEN f[i - 1] ELSE 0)
<1>1. /\ ShardCount \in Nat /\ \A s \in T : s \in Nat /\ s < ShardCount /\ ~(s < 0)
      /\ \A i \in 1..ShardCount : i - 1 \in Shard
  BY ClusterAssumption DEF Shard
<1>2. Below(T, 0) = {} /\ Below(T, ShardCount) = T
  BY <1>1 DEF Below
<1>3. ASSUME NEW i \in 1..ShardCount
      PROVE  /\ Below(T, i) = Below(T, i - 1) \cup (T \cap {i - 1})
             /\ Below(T, i) \in SUBSET Shard /\ Below(T, i - 1) \in SUBSET Shard
             /\ Total(f, Below(T, i)) =
                    Total(f, Below(T, i - 1)) + (IF i - 1 \in T THEN f[i - 1] ELSE 0)
  <2>1. \A s \in T : s < i <=> s < i - 1 \/ s = i - 1
    BY <1>1
  <2>2. ~(i - 1 < i - 1) /\ i - 1 < i
    BY <1>1
  <2>3. Below(T, i) = Below(T, i - 1) \cup (T \cap {i - 1})
    BY <2>1 DEF Below
  <2>4. Below(T, i) \in SUBSET Shard /\ Below(T, i - 1) \in SUBSET Shard
    BY DEF Below
  <2>5. CASE i - 1 \in T
    <3>1. i - 1 \in Below(T, i) /\ Below(T, i) \ {i - 1} = Below(T, i - 1)
      BY <2>1, <2>2, <2>5 DEF Below
    <3>2. /\ Total(f, Below(T, i)) = f[i - 1] + Total(f, Below(T, i - 1))
          /\ Total(f, Below(T, i - 1)) \in Int /\ f[i - 1] \in Int
      BY <1>1, <2>4, <3>1, TotalFacts
    <3> QED
      BY <2>3, <2>4, <2>5, <3>2
  <2>6. CASE i - 1 \notin T
    <3>1. Below(T, i) = Below(T, i - 1)
      BY <2>3, <2>6
    <3>2. Total(f, Below(T, i - 1)) \in Int
      BY <2>4, TotalFacts
    <3>3. Total(f, Below(T, i)) = Total(f, Below(T, i - 1)) + 0
      BY <3>1, <3>2
    <3> QED
      BY <2>3, <2>4, <2>6, <3>3
  <2> QED
    BY <2>5, <2>6
<1> QED
  BY <1>1, <1>2, <1>3

\* What is not more for every shard is not more in total.
LEMMA TotalBounds ==
    ASSUME NEW f \in [Shard -> Int], NEW g \in [Shard -> Int], NEW T \in SUBSET Shard,
           \A s \in T : f[s] <= g[s]
    PROVE  Total(f, T) <= Total(g, T)
<1> DEFINE S == {i \in 0..ShardCount : Total(f, Below(T, i)) <= Total(g, Below(T, i))}
<1>0. ShardCount \in Nat /\ Below(T, 0) = {}
  BY TotalGoesOn
<1>1. 0 \in S
  <2>1. Total(f, {}) = 0 /\ Total(g, {}) = 0
    BY TotalFacts
  <2> QED
    BY <1>0, <2>1
<1>2. ASSUME NEW i \in 1..ShardCount, i - 1 \in S
      PROVE  i \in S
  <2>0. i - 1 \in Shard /\ Below(T, i - 1) \in SUBSET Shard
    BY TotalGoesOn, Zenon
  <2>1. Total(f, Below(T, i)) = Total(f, Below(T, i - 1)) + (IF i - 1 \in T THEN f[i - 1] ELSE 0)
    BY TotalGoesOn
  <2>2. Total(g, Below(T, i)) = Total(g, Below(T, i - 1)) + (IF i - 1 \in T THEN g[i - 1] ELSE 0)
    BY TotalGoesOn
  <2>3. /\ Total(f, Below(T, i - 1)) \in Int /\ Total(g, Below(T, i - 1)) \in Int
        /\ f[i - 1] \in Int /\ g[i - 1] \in Int
    BY <2>0, TotalFacts
  <2>4. Total(f, Below(T, i - 1)) <= Total(g, Below(T, i - 1))
    BY <1>2
  <2>5. i \in 0..ShardCount
    BY <1>0
  <2>6. i - 1 \in T => f[i - 1] <= g[i - 1]
    OBVIOUS
  <2>7. Total(f, Below(T, i)) <= Total(g, Below(T, i))
    BY <2>1, <2>2, <2>3, <2>4, <2>6
  <2> QED
    BY <2>5, <2>7
<1>3. \A i \in 0..ShardCount : i \in S
  <2> HIDE DEF S
  <2> QED
    BY <1>1, <1>2, TotalGoesOn, Reached
<1>4. ShardCount \in 0..ShardCount /\ Below(T, ShardCount) = T
  BY TotalGoesOn
<1> QED
  BY <1>3, <1>4

\* What is the same for every shard is the same in total.
LEMMA TotalSame ==
    ASSUME NEW f \in [Shard -> Int], NEW g \in [Shard -> Int], NEW T \in SUBSET Shard,
           \A s \in T : f[s] = g[s]
    PROVE  Total(f, T) = Total(g, T)
<1>1. \A s \in T : f[s] <= g[s] /\ g[s] <= f[s]
  <2>1. \A s \in T : f[s] \in Int /\ g[s] \in Int /\ f[s] = g[s]
    OBVIOUS
  <2> QED
    BY <2>1
<1>2. Total(f, T) <= Total(g, T) /\ Total(g, T) <= Total(f, T)
  BY <1>1, TotalBounds
<1> QED
  BY <1>2, TotalFacts

Together(part, T) == UNION {part[s] : s \in T}
Disjoint(part, T) == \A s, t \in T : s # t => part[s] \cap part[t] = {}

\* Parts that have nothing in common add up to the whole.
LEMMA TotalCounts ==
    ASSUME NEW part, NEW T \in SUBSET Shard, NEW f \in [Shard -> Int],
           \A s \in T : IsFiniteSet(part[s]) /\ f[s] = Cardinality(part[s]),
           Disjoint(part, T)
    PROVE  /\ IsFiniteSet(Together(part, T))
           /\ Total(f, T) = Cardinality(Together(part, T))
<1> DEFINE All(i) == Together(part, Below(T, i))
           S == {i \in 0..ShardCount :
                   IsFiniteSet(All(i)) /\ Total(f, Below(T, i)) = Cardinality(All(i))}
<1>1. 0 \in S
  <2>1. All(0) = {}
    BY TotalGoesOn DEF Together
  <2>2. ShardCount \in Nat /\ Below(T, 0) = {}
    BY TotalGoesOn
  <2>3. Total(f, {}) = 0
    BY TotalFacts
  <2> HIDE DEF All
  <2> QED
    BY <2>1, <2>2, <2>3, FS_EmptySet
<1>2. ASSUME NEW i \in 1..ShardCount, i - 1 \in S
      PROVE  i \in S
  <2>0. ShardCount \in Nat /\ i \in 0..ShardCount
    <3>1. ShardCount \in Nat
      BY TotalGoesOn
    <3> QED
      BY <3>1
  <2>1. /\ Total(f, Below(T, i)) = Total(f, Below(T, i - 1)) + (IF i - 1 \in T THEN f[i - 1] ELSE 0)
        /\ i - 1 \in Shard /\ Below(T, i - 1) \in SUBSET Shard
        /\ Below(T, i) = Below(T, i - 1) \cup (T \cap {i - 1})
    <3>1. Total(f, Below(T, i)) = Total(f, Below(T, i - 1)) + (IF i - 1 \in T THEN f[i - 1] ELSE 0)
      BY TotalGoesOn
    <3>2. i - 1 \in Shard /\ Below(T, i - 1) \in SUBSET Shard
      BY TotalGoesOn, Zenon
    <3>3. Below(T, i) = Below(T, i - 1) \cup (T \cap {i - 1})
      BY TotalGoesOn, Zenon
    <3> QED
      BY <3>1, <3>2, <3>3
  <2>2. /\ IsFiniteSet(All(i - 1)) /\ Total(f, Below(T, i - 1)) = Cardinality(All(i - 1))
        /\ Total(f, Below(T, i - 1)) \in Int
    BY <1>2, <2>1, TotalFacts
  <2>3. CASE i - 1 \in T
    <3> DEFINE p == part[i - 1]
    <3>1. All(i) = All(i - 1) \cup p
      BY <2>1, <2>3 DEF Together
    <3>2. All(i - 1) \cap p = {}
      <4>1. \A s \in Below(T, i - 1) : s \in T /\ s # i - 1
        BY DEF Below, Shard
      <4> QED
        BY <2>3, <4>1 DEF Together, Disjoint
    <3>3. IsFiniteSet(p) /\ f[i - 1] = Cardinality(p)
      BY <2>3
    <3> HIDE DEF All, p
    <3>4. /\ IsFiniteSet(All(i))
          /\ Cardinality(All(i)) = Cardinality(All(i - 1)) + Cardinality(p) - Cardinality({})
      BY <2>2, <3>1, <3>2, <3>3, FS_Union
    <3>5. Total(f, Below(T, i)) = Cardinality(All(i))
      BY <2>1, <2>2, <2>3, <3>3, <3>4, FS_EmptySet
    <3> QED
      BY <2>0, <3>4, <3>5
  <2>4. CASE i - 1 \notin T
    <3>1. All(i) = All(i - 1)
      BY <2>1, <2>4
    <3> HIDE DEF All
    <3>2. Total(f, Below(T, i)) = Cardinality(All(i))
      BY <2>1, <2>2, <2>4, <3>1
    <3> QED
      BY <2>0, <2>2, <3>1, <3>2
  <2> QED
    BY <2>3, <2>4
<1>3. \A i \in 0..ShardCount : i \in S
  <2> HIDE DEF S
  <2> QED
    BY <1>1, <1>2, TotalGoesOn, Reached
<1>4. ShardCount \in 0..ShardCount /\ Below(T, ShardCount) = T
  BY TotalGoesOn
<1> QED
  BY <1>3, <1>4

\* What a call is promised is the total of what the shards will answer
\* (cluster-coordinator.ts:176).
LEMMA PromiseIs ==
    ASSUME NEW msgs, DOMAIN msgs \subseteq Shard, NEW f \in [Shard -> Int],
           \A s \in DOMAIN msgs : f[s] = Response(Outcome(s), msgs[s])
    PROVE  MapThenSumSet(LAMBDA s : Response(Outcome(s), msgs[s]), DOMAIN msgs)
               = Total(f, DOMAIN msgs)
<1> DEFINE D == DOMAIN msgs
           pick(T) == CHOOSE x \in T : TRUE
           Is(h) == h = [T \in SUBSET D |->
                           IF T = {} THEN 0
                           ELSE Response(Outcome(pick(T)), msgs[pick(T)]) + h[T \ {pick(T)}]]
           iter == CHOOSE h : Is(h)
<1>1. MapThenSumSet(LAMBDA s : Response(Outcome(s), msgs[s]), D) = iter[D]
  BY DEF MapThenSumSet, MapThenFoldSet
<1>2. D \in SUBSET Shard /\ IsFiniteSet(D)
  <2>1. IsFiniteSet(Shard)
    BY ClusterAssumption, FS_Interval DEF Shard
  <2> QED
    BY <2>1, FS_Subset
<1>3. ASSUME NEW T \in SUBSET D, T # {}
      PROVE  /\ pick(T) \in T /\ T \ {pick(T)} \in SUBSET D
             /\ f[pick(T)] = Response(Outcome(pick(T)), msgs[pick(T)])
             /\ Total(f, T) = f[pick(T)] + Total(f, T \ {pick(T)})
  <2>1. pick(T) \in T
    BY <1>3
  <2> HIDE DEF pick
  <2>2. T \in SUBSET Shard
    BY <1>2
  <2> QED
    BY <2>1, <2>2, TotalFacts
<1> HIDE DEF pick
<1>4. Is(iter)
  <2> DEFINE t == [T \in SUBSET D |-> Total(f, T)]
  <2>1. \A T \in SUBSET D :
          Total(f, T) = IF T = {} THEN 0
                        ELSE Response(Outcome(pick(T)), msgs[pick(T)]) + t[T \ {pick(T)}]
    BY <1>3, TotalFacts
  <2>2. Is(t)
    BY <2>1
  <2> HIDE DEF Is, t
  <2> QED
    BY <2>2
<1> HIDE DEF iter
<1> DEFINE S == {n \in 0..Cardinality(D) :
                   \A T \in SUBSET D : Cardinality(T) = n => iter[T] = Total(f, T)}
<1>5. \A T \in SUBSET D : IsFiniteSet(T) /\ Cardinality(T) \in Nat
  BY <1>2, FS_Subset, FS_CardinalityType
<1>6. 0 \in S
  <2>1. \A T \in SUBSET D : Cardinality(T) = 0 => T = {}
    BY <1>5, FS_EmptySet
  <2>2. iter[{}] = 0
    BY <1>4
  <2>3. Cardinality(D) \in Nat
    BY <1>5
  <2> QED
    BY <2>1, <2>2, <2>3, TotalFacts
<1>7. ASSUME NEW n \in 1..Cardinality(D), n - 1 \in S
      PROVE  n \in S
  <2>1. n \in Nat /\ n # 0 /\ n \in 0..Cardinality(D)
    BY <1>5
  <2>2. ASSUME NEW T \in SUBSET D, Cardinality(T) = n
        PROVE  iter[T] = Total(f, T)
    <3> DEFINE x == pick(T)
    <3>1. T # {}
      BY <2>1, <2>2, FS_EmptySet
    <3>2. /\ x \in T /\ T \ {x} \in SUBSET D
          /\ f[x] = Response(Outcome(x), msgs[x])
          /\ Total(f, T) = f[x] + Total(f, T \ {x})
      BY <1>3, <3>1
    <3>3. iter[T] = Response(Outcome(x), msgs[x]) + iter[T \ {x}]
      BY <1>4, <3>1
    <3>4. Cardinality(T \ {x}) = n - 1
      BY <1>5, <2>2, <3>2, FS_RemoveElement
    <3>5. iter[T \ {x}] = Total(f, T \ {x})
      BY <1>7, <3>2, <3>4
    <3> QED
      BY <3>2, <3>3, <3>5
  <2> QED
    BY <2>1, <2>2
<1>8. iter[D] = Total(f, D)
  <2>1. Cardinality(D) \in Nat
    BY <1>5
  <2>2. \A n \in 0..Cardinality(D) : n \in S
    <3> HIDE DEF S
    <3> QED
      BY <1>6, <1>7, <2>1, Reached
  <2>3. Cardinality(D) \in 0..Cardinality(D)
    BY <2>1
  <2> QED
    BY <2>2, <2>3
<1> QED
  BY <1>1, <1>8
-----------------------------------------------------------------------------
(***************************************************************************)
(* What messages make of an engine.                                        *)
(***************************************************************************)
\* The engines of shard s: finitely many keys, of its own.
Engines(s) ==
    {e \in [Key -> EngineEntry] :
        IsFiniteSet(Holding(e, Key)) /\ \A k \in Key : Owner[k] # s => e[k] = NoEntry}

\* An entry is there or is none.
LEMMA EntryFacts ==
    ASSUME NEW x \in EngineEntry
    PROVE  /\ x = [number |-> x.number, expires |-> x.expires]
           /\ x.number \in Nat \cup {Missing} /\ x.expires \in BOOLEAN
           /\ x.number = Missing <=> x = NoEntry
<1>1. CASE x = NoEntry
  BY <1>1 DEF NoEntry, Missing
<1>2. CASE x \in [number : Nat, expires : BOOLEAN]
  <2>1. x = [number |-> x.number, expires |-> x.expires] /\ x.number \in Nat /\ x.expires \in BOOLEAN
    BY <1>2
  <2>2. x.number # Missing /\ NoEntry.number = Missing
    BY <2>1 DEF NoEntry, Missing
  <2> QED
    BY <2>1, <2>2
<1> QED
  BY <1>1, <1>2 DEF EngineEntry

\* What a message has in its fields.
LEMMA MessageFacts ==
    ASSUME NEW s, NEW m \in MessageTo(s)
    PROVE  /\ m.client \in Client
           /\ m.op \in {"GET", "INCR", "SET", "DEL", "CROSS_SHARD_DEL", "PING", "STATS", "SAMPLE_KEYS"}
           /\ m.op \in {"GET", "INCR", "SET"} => m.key \in KeysOf(s)
           /\ m.op = "SET" => m.value \in Nat /\ m.expires \in BOOLEAN
           /\ m.op \in {"DEL", "CROSS_SHARD_DEL"} => m.keys \in SUBSET KeysOf(s)
BY DEF MessageTo

\* What is left when entries have gone is an engine of the shard.
LEMMA FadedStays ==
    ASSUME NEW s, NEW e \in Engines(s), NEW m
    PROVE  Faded(e, m) \in Engines(s)
<1> DEFINE f == Faded(e, m)
<1>1. e \in [Key -> EngineEntry] /\ IsFiniteSet(Holding(e, Key))
      /\ \A k \in Key : Owner[k] # s => e[k] = NoEntry
  BY DEF Engines
<1>2. f \in [Key -> EngineEntry] /\ \A k \in Key : f[k] = NoEntry \/ f[k] = e[k]
  BY <1>1 DEF Faded, EngineEntry
<1> HIDE DEF f
<1>3. Holding(f, Key) \in SUBSET Holding(e, Key)
  BY <1>2 DEF Holding, NoEntry
<1>4. IsFiniteSet(Holding(f, Key))
  BY <1>1, <1>3, FS_Subset
<1>5. f \in Engines(s)
  BY <1>1, <1>2, <1>4 DEF Engines
<1> QED
  BY <1>5 DEF f

\* A message leaves an engine of the shard.
LEMMA ExecuteStays ==
    ASSUME NEW s, NEW e \in Engines(s), NEW m \in MessageTo(s)
    PROVE  Execute(e, m) \in Engines(s)
<1>0. PICK left : left = Faded(e, m)
  OBVIOUS
<1>1. /\ left \in Engines(s) /\ left \in [Key -> EngineEntry] /\ IsFiniteSet(Holding(left, Key))
      /\ \A k \in Key : Owner[k] # s => left[k] = NoEntry
  BY <1>0, FadedStays DEF Engines
<1>2. ASSUME NEW v \in EngineEntry, NEW k \in KeysOf(s)
      PROVE  [left EXCEPT ![k] = v] \in Engines(s)
  <2> DEFINE f == [left EXCEPT ![k] = v]
  <2>1. /\ f \in [Key -> EngineEntry]
        /\ \A j \in Key : f[j] = IF j = k THEN v ELSE left[j]
    BY <1>1
  <2>2. k \in Key /\ Owner[k] = s
    BY DEF KeysOf
  <2> HIDE DEF f
  <2>3. Holding(f, Key) \in SUBSET (Holding(left, Key) \cup {k})
    BY <2>1 DEF Holding
  <2>4. IsFiniteSet(Holding(f, Key))
    BY <1>1, <2>3, FS_AddElement, FS_Subset
  <2>5. f \in Engines(s)
    BY <1>1, <2>1, <2>2, <2>4 DEF Engines
  <2> QED
    BY <2>5 DEF f
<1>3. CASE m.op = "SET"
  <2>1. Execute(e, m) = [left EXCEPT ![m.key] = [number |-> m.value, expires |-> m.expires]]
    BY <1>0, <1>3 DEF Execute
  <2>2. m.key \in KeysOf(s) /\ m.value \in Nat /\ m.expires \in BOOLEAN
    BY <1>3, MessageFacts
  <2>3. [number |-> m.value, expires |-> m.expires] \in EngineEntry
    BY <2>2 DEF EngineEntry
  <2> QED
    BY <1>2, <2>1, <2>2, <2>3
<1>4. CASE m.op = "INCR"
  <2>1. m.key \in KeysOf(s) /\ m.key \in Key
    BY <1>4, MessageFacts DEF KeysOf
  <2>2. PICK n : n = IF left[m.key].number = Missing THEN 1 ELSE left[m.key].number + 1
    OBVIOUS
  <2>3. /\ left[m.key] = [number |-> left[m.key].number, expires |-> left[m.key].expires]
        /\ left[m.key].number \in Nat \cup {Missing} /\ left[m.key].expires \in BOOLEAN
    BY <1>1, <2>1, EntryFacts
  <2>4. n \in Nat
    BY <2>2, <2>3
  <2>5. Execute(e, m) = [left EXCEPT ![m.key] = [left[m.key] EXCEPT !.number = n]]
    BY <1>0, <1>4, <2>2 DEF Execute
  <2>6. [left[m.key] EXCEPT !.number = n] = [number |-> n, expires |-> left[m.key].expires]
    BY <2>3
  <2>7. PICK x, j : x = [number |-> n, expires |-> left[m.key].expires] /\ j = m.key
    OBVIOUS
  <2>8. x \in EngineEntry
    BY <2>3, <2>4, <2>7 DEF EngineEntry
  <2>9. Execute(e, m) = [left EXCEPT ![j] = x]
    BY <2>5, <2>6, <2>7
  <2>10. [left EXCEPT ![j] = x] \in Engines(s)
    <3>1. j \in KeysOf(s)
      BY <2>1, <2>7
    <3> QED
      BY <1>2, <2>8, <3>1
  <2> QED
    BY <2>9, <2>10
<1>5. CASE m.op \in {"DEL", "CROSS_SHARD_DEL"}
  <2> DEFINE f == [k \in Key |-> IF k \in m.keys THEN NoEntry ELSE left[k]]
  <2>1. Execute(e, m) = f
    BY <1>0, <1>5 DEF Execute
  <2>2. f \in [Key -> EngineEntry] /\ \A k \in Key : f[k] = NoEntry \/ f[k] = left[k]
    BY <1>1 DEF EngineEntry
  <2> HIDE DEF f
  <2>3. Holding(f, Key) \in SUBSET Holding(left, Key)
    BY <2>2 DEF Holding, NoEntry
  <2>4. IsFiniteSet(Holding(f, Key))
    BY <1>1, <2>3, FS_Subset
  <2> QED
    BY <1>1, <2>1, <2>2, <2>4 DEF Engines
<1>6. CASE m.op \notin {"SET", "INCR", "DEL", "CROSS_SHARD_DEL"}
  BY <1>0, <1>1, <1>6 DEF Execute
<1> QED
  BY <1>3, <1>4, <1>5, <1>6

\* Its answer is a number.
LEMMA ResponseCounts ==
    ASSUME NEW s, NEW e \in Engines(s), NEW m \in MessageTo(s)
    PROVE  Response(e, m) \in Count
<1>0. PICK left : left = Faded(e, m)
  OBVIOUS
<1>1. left \in [Key -> EngineEntry] /\ IsFiniteSet(Holding(left, Key))
  BY <1>0, FadedStays DEF Engines
<1>2. \A keys \in SUBSET Key : /\ IsFiniteSet(Holding(left, keys))
                              /\ Cardinality(Holding(left, keys)) \in Nat
  <2>1. \A keys \in SUBSET Key : Holding(left, keys) \in SUBSET Holding(left, Key)
    BY DEF Holding
  <2> QED
    BY <1>1, <2>1, FS_Subset, FS_CardinalityType
<1>3. CASE m.op \in {"SET", "PING"}
  BY <1>3 DEF Response, Count
<1>4. CASE m.op = "GET"
  <2>1. m.key \in Key
    BY <1>4, MessageFacts DEF KeysOf
  <2>2. Response(e, m) = left[m.key].number
    BY <1>0, <1>4 DEF Response
  <2> QED
    BY <1>1, <2>1, <2>2, EntryFacts DEF Count
<1>5. CASE m.op = "INCR"
  <2>1. m.key \in Key
    BY <1>5, MessageFacts DEF KeysOf
  <2>2. Execute(e, m) \in [Key -> EngineEntry]
    BY ExecuteStays DEF Engines
  <2>3. Response(e, m) = Execute(e, m)[m.key].number
    BY <1>5 DEF Response
  <2> QED
    BY <2>1, <2>2, <2>3, EntryFacts DEF Count
<1>6. CASE m.op \in {"DEL", "CROSS_SHARD_DEL"}
  <2>1. m.keys \in SUBSET Key
    BY <1>6, MessageFacts DEF KeysOf
  <2>2. Response(e, m) = Cardinality(Holding(left, m.keys))
    BY <1>0, <1>6 DEF Response
  <2> QED
    BY <1>2, <2>1, <2>2 DEF Count
<1>7. CASE m.op = "STATS"
  BY <1>0, <1>2, <1>7 DEF Response, Count
<1>8. CASE m.op = "SAMPLE_KEYS"
  <2> DEFINE n == Cardinality(Holding(left, Key))
  <2>1. n \in Nat /\ SampleLimit \in Nat
    BY <1>2, ClusterAssumption
  <2>2. Response(e, m) = Min({n, SampleLimit})
    BY <1>0, <1>8 DEF Response, sampleKeys
  <2> HIDE DEF n
  <2>3. Min({n, SampleLimit}) \in {n, SampleLimit}
    BY <2>1, MinOf
  <2> QED
    BY <2>1, <2>2, <2>3 DEF Count
<1> QED
  BY <1>3, <1>4, <1>5, <1>6, <1>7, <1>8, MessageFacts

\* g has what becomes of e under the messages of q.
Runs(g, s, e, q) ==
    /\ g \in [0..Len(q) -> Engines(s)]
    /\ g[0] = e
    /\ \A i \in 1..Len(q) : g[i] = Execute(g[i - 1], q[i])

\* The messages are carried out one after the other.
LEMMA RunIsFold ==
    ASSUME NEW s, NEW e \in Engines(s), NEW q \in Seq(MessageTo(s))
    PROVE  /\ \E g : Runs(g, s, e, q)
           /\ \A g : Runs(g, s, e, q) => FoldLeft(Execute, e, q) = g[Len(q)]
<1>1. PICK l \in Seq(MessageTo(s)), m \in Nat :
          l = q /\ m = Len(q) /\ DOMAIN l = 1..m /\ \A i \in 1..m : l[i] \in MessageTo(s)
  BY LenProperties, ElementOfSeq
<1> DEFINE X == Engines(s)
           step == [p \in X \X (1..m) |-> Execute(p[1], l[p[2]])]
           Is(h) == h = [t \in SUBSET (1..m) |->
                           IF t = {} THEN e ELSE Execute(h[t \ {Max(t)}], l[Max(t)])]
           iter == CHOOSE h : Is(h)
<1>2. \A y \in X, i \in 1..m : step[<<y, i>>] = Execute(y, l[i])
  OBVIOUS
<1> HIDE DEF step, X
<1>3. StaysIn(step, X, m)
  BY <1>1, <1>2, ExecuteStays DEF StaysIn, X
<1>4. e \in X
  BY DEF X
<1>5. \E f : Is(f)
  <2>1. PICK f \in [SUBSET (1..m) -> X] : FoldsWith(f, e, step, m)
    BY <1>1, <1>3, <1>4, FoldWith
  <2>2. ASSUME NEW t \in SUBSET (1..m)
        PROVE  f[t] = IF t = {} THEN e ELSE Execute(f[t \ {Max(t)}], l[Max(t)])
    <3>1. CASE t # {}
      <4>1. /\ Max(t) \in 1..m /\ t \ {Max(t)} \in SUBSET (1..m)
            /\ f[t] = step[<<f[t \ {Max(t)}], Max(t)>>]
        BY <2>1, <3>1 DEF FoldsWith
      <4>2. f[t \ {Max(t)}] \in X
        BY <4>1
      <4> QED
        BY <1>2, <3>1, <4>1, <4>2
    <3> QED
      BY <2>1, <3>1 DEF FoldsWith
  <2>3. f = [t \in SUBSET (1..m) |-> f[t]]
    OBVIOUS
  <2> QED
    BY <2>2, <2>3
<1>6. Is(iter)
  <2> HIDE DEF Is
  <2> QED
    BY <1>5
<1>7. FoldLeft(Execute, e, l) = iter[1..m]
  BY <1>1 DEF FoldLeft, MapThenFoldSet
<1> HIDE DEF iter
<1>8. iter[{}] = e
  BY <1>6
<1>9. FoldsWithin(iter, X, step, m)
  <2>1. ASSUME NEW i \in 1..m, iter[1..i - 1] \in X
        PROVE  iter[1..i] = step[<<iter[1..i - 1], i>>]
    <3>1. /\ 1..i \in SUBSET (1..m) /\ 1..i # {}
          /\ Max(1..i) = i /\ (1..i) \ {i} = 1..i - 1
      BY <1>1, FirstPositions
    <3>2. iter[1..i] = Execute(iter[1..i - 1], l[i])
      BY <1>6, <3>1
    <3> QED
      BY <1>2, <2>1, <3>2
  <2> QED
    BY <2>1 DEF FoldsWithin
<1>10. PICK g : Course(g, X, e, step, m) /\ g[m] = iter[1..m]
  <2> HIDE DEF Is
  <2> QED
    BY <1>3, <1>4, <1>8, <1>9, FoldGoesOn
<1>11. \A h : Runs(h, s, e, q) <=> Course(h, X, e, step, m)
  <2>1. ASSUME NEW h, h \in [0..m -> X]
        PROVE  \A i \in 1..m : step[<<h[i - 1], i>>] = Execute(h[i - 1], q[i])
    <3>1. \A i \in 1..m : h[i - 1] \in X
      BY <2>1
    <3> QED
      BY <1>1, <1>2, <3>1
  <2> QED
    BY <1>1, <2>1 DEF Runs, Course, X
<1> QED
  BY <1>1, <1>7, <1>10, <1>11, CourseUnique

\* One message more.
LEMMA RunLonger ==
    ASSUME NEW s, NEW e \in Engines(s), NEW q \in Seq(MessageTo(s)), NEW m \in MessageTo(s),
           NEW g, Runs(g, s, e, q)
    PROVE  \E h : /\ Runs(h, s, e, Append(q, m))
                  /\ \A i \in 0..Len(q) : h[i] = g[i]
                  /\ h[Len(q) + 1] = Execute(g[Len(q)], m)
<1> DEFINE r == Append(q, m)
           n == Len(q)
           x == Execute(g[n], m)
           h == [i \in 0..n + 1 |-> IF i = n + 1 THEN x ELSE g[i]]
<1>1. /\ r \in Seq(MessageTo(s)) /\ n \in Nat /\ Len(r) = n + 1
      /\ \A i \in 1..n : r[i] = q[i]
      /\ r[n + 1] = m
  BY AppendProperties, LenProperties
<1>2. x \in Engines(s)
  <2>1. g[n] \in Engines(s)
    BY <1>1 DEF Runs
  <2> QED
    BY <2>1, ExecuteStays
<1> HIDE DEF r, x
<1>3. /\ g \in [0..n -> Engines(s)] /\ g[0] = e
      /\ \A i \in 1..n : g[i] = Execute(g[i - 1], q[i])
  BY DEF Runs
<1> HIDE DEF n
<1>4. /\ h \in [0..n + 1 -> Engines(s)]
      /\ \A i \in 0..n : h[i] = g[i]
      /\ h[n + 1] = x
  BY <1>1, <1>2, <1>3
<1> HIDE DEF h
<1>5. h[0] = e
  BY <1>1, <1>3, <1>4
<1>6. ASSUME NEW i \in 1..n + 1
      PROVE  h[i] = Execute(h[i - 1], r[i])
  <2>1. CASE i = n + 1
    <3>1. i - 1 = n /\ h[n] = g[n]
      BY <1>1, <1>4, <2>1
    <3> QED
      BY <1>1, <1>4, <2>1, <3>1 DEF x, n
  <2>2. CASE i # n + 1
    <3>1. i \in 1..n /\ i \in 0..n /\ i - 1 \in 0..n
      BY <1>1, <2>2
    <3> QED
      BY <1>1, <1>3, <1>4, <3>1
  <2> QED
    BY <2>1, <2>2
<1>7. Runs(h, s, e, r)
  BY <1>1, <1>4, <1>5, <1>6 DEF Runs
<1> QED
  BY <1>4, <1>7 DEF r, n, x

\* The first message is carried out.
LEMMA RunShorter ==
    ASSUME NEW s, NEW e \in Engines(s), NEW q \in Seq(MessageTo(s)), NEW m \in MessageTo(s),
           NEW g, Runs(g, s, e, <<m>> \o q)
    PROVE  \E h : /\ Runs(h, s, Execute(e, m), q)
                  /\ \A i \in 0..Len(q) : h[i] = g[i + 1]
<1> DEFINE r == <<m>> \o q
           n == Len(q)
           h == [i \in 0..n |-> g[i + 1]]
<1>1. /\ r \in Seq(MessageTo(s)) /\ n \in Nat /\ Len(r) = n + 1
      /\ r[1] = m /\ \A i \in 1..n : r[i + 1] = q[i]
  <2>1. <<m>> \in Seq(MessageTo(s)) /\ Len(<<m>>) = 1 /\ <<m>>[1] = m
    OBVIOUS
  <2>2. /\ r \in Seq(MessageTo(s)) /\ Len(r) = 1 + n /\ n \in Nat
        /\ \A i \in 1..1 + n : r[i] = IF i <= 1 THEN <<m>>[i] ELSE q[i - 1]
    BY <2>1, ConcatProperties, LenProperties
  <2> HIDE DEF r, n
  <2>3. \A i \in 1..n : i + 1 \in 1..1 + n /\ ~(i + 1 <= 1) /\ (i + 1) - 1 = i
    BY <2>2
  <2>4. 1 \in 1..1 + n /\ 1 <= 1 /\ 1 + n = n + 1
    BY <2>2
  <2> QED
    BY <2>1, <2>2, <2>3, <2>4
<1> HIDE DEF r
<1>2. /\ g \in [0..n + 1 -> Engines(s)] /\ g[0] = e
      /\ \A i \in 1..n + 1 : g[i] = Execute(g[i - 1], r[i])
  BY <1>1 DEF Runs, r
<1> HIDE DEF n
<1>3. h \in [0..n -> Engines(s)] /\ \A i \in 0..n : h[i] = g[i + 1]
  <2>1. \A i \in 0..n : i + 1 \in 0..n + 1
    BY <1>1
  <2> QED
    BY <1>2, <2>1
<1> HIDE DEF h
<1>4. h[0] = Execute(e, m)
  <2>1. 0 \in 0..n /\ 0 + 1 = 1 /\ 1 \in 1..n + 1 /\ 1 - 1 = 0
    BY <1>1
  <2> QED
    BY <1>1, <1>2, <1>3, <2>1
<1>5. ASSUME NEW i \in 1..n
      PROVE  h[i] = Execute(h[i - 1], q[i])
  <2>1. /\ i \in 0..n /\ i - 1 \in 0..n /\ (i - 1) + 1 = i
        /\ i + 1 \in 1..n + 1 /\ (i + 1) - 1 = i
    BY <1>1
  <2> QED
    BY <1>1, <1>2, <1>3, <2>1
<1>6. Runs(h, s, Execute(e, m), q)
  BY <1>3, <1>4, <1>5 DEF Runs, n
<1> QED
  BY <1>3, <1>6 DEF n

\* The same of what the messages come to.
LEMMA FoldLonger ==
    ASSUME NEW s, NEW e \in Engines(s), NEW q \in Seq(MessageTo(s)), NEW m \in MessageTo(s)
    PROVE  FoldLeft(Execute, e, Append(q, m)) = Execute(FoldLeft(Execute, e, q), m)
<1>1. PICK g : Runs(g, s, e, q)
  BY RunIsFold
<1>2. PICK h : Runs(h, s, e, Append(q, m)) /\ h[Len(q) + 1] = Execute(g[Len(q)], m)
  BY <1>1, RunLonger
<1>3. Append(q, m) \in Seq(MessageTo(s)) /\ Len(Append(q, m)) = Len(q) + 1
  BY AppendProperties
<1> QED
  BY <1>1, <1>2, <1>3, RunIsFold

\* The same of the first one.
LEMMA FoldShorter ==
    ASSUME NEW s, NEW e \in Engines(s), NEW q \in Seq(MessageTo(s)), NEW m \in MessageTo(s)
    PROVE  FoldLeft(Execute, e, <<m>> \o q) = FoldLeft(Execute, Execute(e, m), q)
<1>1. /\ <<m>> \o q \in Seq(MessageTo(s)) /\ Len(<<m>> \o q) = Len(q) + 1
      /\ Len(q) \in 0..Len(q)
  <2>1. <<m>> \in Seq(MessageTo(s)) /\ Len(<<m>>) = 1 /\ Len(q) \in Nat
    BY LenProperties
  <2> QED
    BY <2>1, ConcatProperties
<1>2. PICK g : Runs(g, s, e, <<m>> \o q)
  BY <1>1, RunIsFold
<1>3. PICK h : Runs(h, s, Execute(e, m), q) /\ \A i \in 0..Len(q) : h[i] = g[i + 1]
  BY <1>2, RunShorter
<1>4. Execute(e, m) \in Engines(s)
  BY ExecuteStays
<1>5. FoldLeft(Execute, e, <<m>> \o q) = g[Len(q) + 1]
  BY <1>1, <1>2, RunIsFold
<1>6. FoldLeft(Execute, Execute(e, m), q) = h[Len(q)]
  BY <1>3, <1>4, RunIsFold
<1> QED
  BY <1>1, <1>3, <1>5, <1>6

\* d has the answer of every message of q that is carried out on e.
Replays(s, e, q, d) ==
    \E g : /\ Runs(g, s, e, q)
           /\ \A i \in 1..Len(q) : d[q[i].client] = Response(g[i - 1], q[i])

\* A message that is put behind the others has the answer of what they come to.
LEMMA ReplayLonger ==
    ASSUME NEW s, NEW e \in Engines(s), NEW q \in Seq(MessageTo(s)), NEW m \in MessageTo(s),
           NEW d, Replays(s, e, q, d), NEW f,
           \A i \in 1..Len(q) : f[q[i].client] = d[q[i].client],
           f[m.client] = Response(FoldLeft(Execute, e, q), m)
    PROVE  Replays(s, e, Append(q, m), f)
<1> DEFINE n == Len(q)
           r == Append(q, m)
<1>1. PICK g : Runs(g, s, e, q) /\ \A i \in 1..n : d[q[i].client] = Response(g[i - 1], q[i])
  BY DEF Replays
<1>2. PICK h : Runs(h, s, e, r) /\ \A i \in 0..n : h[i] = g[i]
  BY <1>1, RunLonger
<1>3. /\ n \in Nat /\ Len(r) = n + 1
      /\ \A i \in 1..n : r[i] = q[i]
      /\ r[n + 1] = m
  BY AppendProperties, LenProperties
<1>4. FoldLeft(Execute, e, q) = g[n]
  BY <1>1, RunIsFold
<1> HIDE DEF r
<1>5. ASSUME NEW i \in 1..n + 1
      PROVE  f[r[i].client] = Response(h[i - 1], r[i])
  <2>1. CASE i = n + 1
    <3>1. i - 1 = n /\ n \in 0..n
      BY <1>3, <2>1
    <3>2. h[i - 1] = g[n] /\ r[i] = m
      BY <1>2, <1>3, <2>1, <3>1
    <3> QED
      BY <1>4, <3>2
  <2>2. CASE i # n + 1
    <3>1. i \in 1..n /\ i - 1 \in 0..n
      BY <1>3, <2>2
    <3>2. h[i - 1] = g[i - 1] /\ r[i] = q[i]
      BY <1>2, <1>3, <3>1
    <3> QED
      BY <1>1, <3>1, <3>2
  <2> QED
    BY <2>1, <2>2
<1> QED
  BY <1>2, <1>3, <1>5 DEF Replays, r

\* The first message is answered by the engine as it is.
LEMMA ReplayShorter ==
    ASSUME NEW s, NEW e \in Engines(s), NEW q \in Seq(MessageTo(s)), NEW m \in MessageTo(s),
           NEW d, Replays(s, e, <<m>> \o q, d)
    PROVE  /\ Replays(s, Execute(e, m), q, d)
           /\ d[m.client] = Response(e, m)
<1> DEFINE n == Len(q)
           r == <<m>> \o q
<1>1. PICK g : Runs(g, s, e, r) /\ \A i \in 1..Len(r) : d[r[i].client] = Response(g[i - 1], r[i])
  BY DEF Replays
<1>2. PICK h : Runs(h, s, Execute(e, m), q) /\ \A i \in 0..n : h[i] = g[i + 1]
  BY <1>1, RunShorter
<1>3. /\ n \in Nat /\ Len(r) = n + 1
      /\ r[1] = m /\ \A i \in 1..n : r[i + 1] = q[i]
  <2>1. <<m>> \in Seq(MessageTo(s)) /\ Len(<<m>>) = 1 /\ <<m>>[1] = m
    OBVIOUS
  <2>2. /\ Len(r) = 1 + n /\ n \in Nat
        /\ \A i \in 1..1 + n : r[i] = IF i <= 1 THEN <<m>>[i] ELSE q[i - 1]
    BY <2>1, ConcatProperties, LenProperties
  <2> HIDE DEF r, n
  <2>3. \A i \in 1..n : i + 1 \in 1..1 + n /\ ~(i + 1 <= 1) /\ (i + 1) - 1 = i
    BY <2>2
  <2>4. 1 \in 1..1 + n /\ 1 <= 1 /\ 1 + n = n + 1
    BY <2>2
  <2> QED
    BY <2>1, <2>2, <2>3, <2>4
<1> HIDE DEF r
<1>4. g[0] = e
  BY <1>1 DEF Runs
<1>5. d[m.client] = Response(e, m)
  <2>1. 1 \in 1..Len(r) /\ 1 - 1 = 0
    BY <1>3
  <2> QED
    BY <1>1, <1>3, <1>4, <2>1
<1> HIDE DEF n
<1>6. ASSUME NEW i \in 1..n
      PROVE  d[q[i].client] = Response(h[i - 1], q[i])
  <2>1. i + 1 \in 1..Len(r) /\ (i + 1) - 1 = i /\ i - 1 \in 0..n /\ (i - 1) + 1 = i
    BY <1>3
  <2>2. d[r[i + 1].client] = Response(g[(i + 1) - 1], r[i + 1])
    BY <1>1, <2>1
  <2>3. h[i - 1] = g[i] /\ r[i + 1] = q[i]
    BY <1>2, <1>3, <2>1
  <2> QED
    BY <2>1, <2>2, <2>3
<1> QED
  BY <1>2, <1>5, <1>6 DEF Replays, n
-----------------------------------------------------------------------------
(***************************************************************************)
(* Types, and what every call is going to be answered.                     *)
(***************************************************************************)
\* Engines are finite, and of their own shard.
TypeInv == TypeOK /\ \A s \in Shard : engine[s] \in Engines(s)

\* What the worker of a shard has to go through.
Through(s) == Running(s) \o inbox[s] \o Unposted(s)

\* due[s] has the answers that shard s gives to its clients.
Foretold(s, due) ==
    /\ Replays(s, engine[s], Through(s), due)
    /\ \A i \in DOMAIN outbox[s] : due[outbox[s][i].client] = outbox[s][i].answer
    /\ worker[s].pc = "deleted" => due[worker[s].client] = worker[s].count

DueFrom(due, c) == [s \in Shard |-> due[s][c]]

Promised(due) ==
    master.pc # "closed" =>
        \A c \in Client : call[c] # Quiet =>
            call[c].promise = call[c].sum + Total(DueFrom(due, c), Awaited(c))

Dues == [Shard -> [Client -> Int]]

\* The answers add up to what was promised.
DueInv == \E due \in Dues : (\A s \in Shard : Foretold(s, due[s])) /\ Promised(due)

StoreInv == ClusterInv /\ TypeInv /\ DueInv

\* Keys go to the shard that owns them.
LEMMA KeysGo == \A k \in Key : getShardForKey(k) = Owner[k] /\ Owner[k] \in Shard
BY KeysGoClockwise, EveryKeyHasAShard DEF getShardForKey

\* What a shard has to go through are messages to it, and make of its engine one of its own.
LEMMA ThroughTyped ==
    ASSUME TypeInv, NEW s \in Shard
    PROVE  /\ Running(s) \in Seq(MessageTo(s)) /\ inbox[s] \in Seq(MessageTo(s))
           /\ Unposted(s) \in Seq(MessageTo(s))
           /\ Through(s) \in Seq(MessageTo(s))
           /\ Outcome(s) = FoldLeft(Execute, engine[s], Through(s))
           /\ Outcome(s) \in Engines(s) /\ engine[s] \in Engines(s)
<1>1. Deletion(s) \subseteq MessageTo(s)
  BY DEF Deletion
<1>2. Running(s) \in Seq(MessageTo(s))
  <2>1. CASE worker[s].pc \in {"acquire", "locked"}
    <3>1. worker[s].msg \in Deletion(s)
      <4>1. worker[s] \in {Quiet} \cup [pc : {"acquire", "locked"}, msg : Deletion(s)]
                              \cup [pc : {"deleted"}, client : Client, count : Count]
        BY DEF TypeInv, TypeOK
      <4> QED
        BY <2>1, <4>1 DEF Quiet
    <3>2. worker[s].msg \in MessageTo(s)
      BY <1>1, <3>1
    <3> QED
      BY <2>1, <3>2 DEF Running
  <2>2. CASE worker[s].pc \notin {"acquire", "locked"}
    BY <2>2, EmptySeq DEF Running
  <2> QED
    BY <2>1, <2>2
<1>3. inbox[s] \in Seq(MessageTo(s)) /\ engine[s] \in Engines(s)
  BY DEF TypeInv, TypeOK
<1>4. Unposted(s) \in Seq(MessageTo(s))
  <2>1. CASE master.pc \in {"acquire", "post"} /\ s \in DOMAIN master.msgs
    <3>1. master.msgs[s] \in Deletion(s)
      BY <2>1 DEF TypeInv, TypeOK, MasterOK, Quiet
    <3>2. master.msgs[s] \in MessageTo(s)
      BY <1>1, <3>1
    <3> QED
      BY <2>1, <3>2 DEF Unposted
  <2>2. CASE ~(master.pc \in {"acquire", "post"} /\ s \in DOMAIN master.msgs)
    BY <2>2, EmptySeq DEF Unposted
  <2> QED
    BY <2>1, <2>2
<1>5. Through(s) \in Seq(MessageTo(s))
  BY <1>2, <1>3, <1>4, ConcatProperties DEF Through
<1>6. Outcome(s) = FoldLeft(Execute, engine[s], Through(s))
  BY DEF Outcome, Through
<1>7. Outcome(s) \in Engines(s)
  <2>1. PICK g : Runs(g, s, engine[s], Through(s))
    BY <1>3, <1>5, RunIsFold
  <2>2. Outcome(s) = g[Len(Through(s))]
    BY <1>3, <1>5, <1>6, <2>1, RunIsFold
  <2>3. Len(Through(s)) \in 0..Len(Through(s))
    BY <1>5, LenProperties
  <2> QED
    BY <2>1, <2>2, <2>3 DEF Runs
<1> QED
  BY <1>2, <1>3, <1>4, <1>5, <1>6, <1>7

\* A sequence has elements of its set.
LEMMA Elements ==
    ASSUME NEW S, NEW q \in Seq(S)
    PROVE  \A i \in DOMAIN q : q[i] \in S
OBVIOUS

\* In the beginning nothing is on its way.
LEMMA StoreInit == ASSUME Init PROVE TypeInv /\ DueInv
<1>1. ASSUME NEW s \in Shard
      PROVE  /\ engine[s] \in Engines(s) /\ Through(s) = <<>> /\ outbox[s] = <<>>
             /\ worker[s] = Quiet /\ inbox[s] = <<>>
  <2>1. engine[s] = [k \in Key |-> NoEntry]
    BY DEF Init
  <2>2. Holding(engine[s], Key) = {}
    BY <2>1 DEF Holding, NoEntry
  <2>3. engine[s] \in Engines(s)
    BY <2>1, <2>2, FS_EmptySet DEF Engines, EngineEntry
  <2>4. Running(s) = <<>> /\ Unposted(s) = <<>> /\ inbox[s] = <<>>
    BY DEF Init, Running, Unposted, Quiet
  <2> QED
    BY <2>3, <2>4 DEF Through, Init
<1>2. TypeInv
  <2>1. \A s \in Shard : inbox[s] \in Seq(MessageTo(s))
    BY <1>1, EmptySeq
  <2>2. outbox \in [Shard -> Seq([client : Client, answer : Count])]
    BY EmptySeq DEF Init
  <2>3. engine \in [Shard -> [Key -> EngineEntry]]
    BY DEF Init, EngineEntry
  <2>4. /\ DOMAIN inbox = Shard /\ DOMAIN worker = Shard /\ alive \subseteq Shard
        /\ locks \in [Shard -> {FREE, TAKEN}] /\ pendingRpcs \subseteq Client \X Shard
        /\ reply \in [Client -> Int]
    BY DEF Init, Ok, FREE
  <2>5. MasterOK
    BY DEF Init, MasterOK
  <2>6. DOMAIN call = Client /\ \A c \in Client : CallOK(c)
    BY DEF Init, CallOK
  <2>7. TypeOK
    BY <1>1, <2>1, <2>2, <2>3, <2>4, <2>5, <2>6 DEF TypeOK
  <2> QED
    BY <1>1, <2>7 DEF TypeInv
<1>3. DueInv
  <2> DEFINE due == [s \in Shard |-> [c \in Client |-> 0]]
  <2>1. due \in Dues
    BY DEF Dues
  <2>2. ASSUME NEW s \in Shard
        PROVE  Foretold(s, due[s])
    <3>1. Replays(s, engine[s], <<>>, due[s])
      <4>1. <<>> \in Seq(MessageTo(s)) /\ Len(<<>>) = 0
        BY EmptySeq
      <4>2. PICK g : Runs(g, s, engine[s], <<>>)
        BY <1>1, <4>1, RunIsFold
      <4>3. 1..0 = {}
        OBVIOUS
      <4> QED
        BY <4>1, <4>2, <4>3 DEF Replays
    <3> QED
      BY <1>1, <3>1 DEF Foretold, Quiet
  <2>3. Promised(due)
    BY DEF Init, Promised
  <2> HIDE DEF due
  <2> QED
    BY <2>1, <2>2, <2>3 DEF DueInv
<1> QED
  BY <1>2, <1>3

\* The messages of a call: to shards, of their keys.
Fine(c, msgs) ==
    DOMAIN msgs \subseteq Shard /\ \A s \in DOMAIN msgs : msgs[s] \in MessageTo(s) /\ msgs[s].client = c

\* What the shards will answer to them.
Answers(msgs) == [s \in Shard |-> IF s \in DOMAIN msgs THEN Response(Outcome(s), msgs[s]) ELSE 0]

\* The promise of a call.
LEMMA BeginPromises ==
    ASSUME TypeInv, NEW c \in Client, NEW cmd, NEW msgs, Fine(c, msgs), Begin(c, cmd, msgs)
    PROVE  /\ Answers(msgs) \in [Shard -> Int]
           /\ Total(Answers(msgs), DOMAIN msgs) \in Int
           /\ call' = [call EXCEPT ![c] = [pc |-> "called", cmd |-> cmd, sum |-> 0,
                                           promise |-> Total(Answers(msgs), DOMAIN msgs)]]
           /\ reply' = [reply EXCEPT ![c] = Ok]
           /\ master = Quiet /\ call[c] = Quiet
<1>1. \A s \in DOMAIN msgs : Response(Outcome(s), msgs[s]) \in Int
  <2>1. ASSUME NEW s \in DOMAIN msgs
        PROVE  Response(Outcome(s), msgs[s]) \in Count
    <3>1. s \in Shard /\ msgs[s] \in MessageTo(s)
      BY DEF Fine
    <3> QED
      BY <3>1, ThroughTyped, ResponseCounts
  <2>2. \A n \in Count : n \in Int
    BY DEF Count, Missing, Ok
  <2> QED
    BY <2>1, <2>2
<1>2. Answers(msgs) \in [Shard -> Int]
      /\ \A s \in DOMAIN msgs : Answers(msgs)[s] = Response(Outcome(s), msgs[s])
  BY <1>1 DEF Answers, Fine
<1>3. MapThenSumSet(LAMBDA s : Response(Outcome(s), msgs[s]), DOMAIN msgs)
          = Total(Answers(msgs), DOMAIN msgs)
  BY <1>2, PromiseIs DEF Fine
<1>4. Total(Answers(msgs), DOMAIN msgs) \in Int
  BY <1>2, TotalFacts DEF Fine
<1> QED
  BY <1>2, <1>3, <1>4 DEF Begin, Ready

\* What a call comes with: its messages, behind those that are there.
Begins(c, cmd, msgs) ==
    /\ Begin(c, cmd, msgs)
    /\ UNCHANGED <<engine, outbox, worker>>
    /\ \A s \in Shard : Through(s)' = IF s \in DOMAIN msgs THEN Append(Through(s), msgs[s]) ELSE Through(s)
    /\ \A s \in Shard : <<c, s>> \notin pendingRpcs
    /\ Awaited(c)' = DOMAIN msgs
    /\ \A d \in Client \ {c} : Awaited(d)' = Awaited(d)
    /\ master'.pc # "closed"

\* The promise of the call is what its messages will be answered, those of the others stay.
LEMMA BeginsDue ==
    ASSUME StoreInv, NEW c \in Client, NEW cmd, NEW msgs, Fine(c, msgs), Begins(c, cmd, msgs)
    PROVE  DueInv'
<1>1. PICK due \in Dues : (\A s \in Shard : Foretold(s, due[s])) /\ Promised(due)
  BY DEF StoreInv, DueInv
<1>0. PICK a : a = Answers(msgs)
  OBVIOUS
<1> DEFINE new == [s \in Shard |-> [d \in Client |-> IF d = c /\ s \in DOMAIN msgs THEN a[s] ELSE due[s][d]]]
<1>2. /\ a \in [Shard -> Int] /\ Total(a, DOMAIN msgs) \in Int
      /\ call' = [call EXCEPT ![c] =
                     [pc |-> "called", cmd |-> cmd, sum |-> 0, promise |-> Total(a, DOMAIN msgs)]]
      /\ master = Quiet /\ call[c] = Quiet
  BY <1>0, BeginPromises DEF StoreInv, Begins
<1>3. \A s \in DOMAIN msgs : s \in Shard /\ a[s] = Response(Outcome(s), msgs[s])
                             /\ msgs[s] \in MessageTo(s) /\ msgs[s].client = c
  BY <1>0 DEF Answers, Fine
<1>4. new \in Dues
  BY <1>2 DEF Dues
<1>5. \A s \in Shard : c \notin InFlight(s)
  BY <1>2 DEF StoreInv, ClusterInv, FlowInv, Accounted, Begins, Quiet
<1>6. \A s \in Shard, d \in Client : d # c \/ s \notin DOMAIN msgs => new[s][d] = due[s][d]
  OBVIOUS
<1>7. \A s \in DOMAIN msgs : new[s][c] = a[s]
  BY <1>3
<1> HIDE DEF new
<1>8. ASSUME NEW s \in Shard
      PROVE  /\ \A i \in 1..Len(Through(s)) : Through(s)[i].client \in Client \ {c}
             /\ \A i \in DOMAIN outbox[s] : outbox[s][i].client \in Client \ {c}
             /\ worker[s].pc = "deleted" => worker[s].client \in Client \ {c}
  <2>1. \A i \in DOMAIN outbox[s] : outbox[s][i].client \in Client \ {c}
    <3>1. \A i \in DOMAIN outbox[s] : outbox[s][i].client \in InFlight(s)
      BY DEF InFlight, ClientsOf
    <3>2. outbox[s] \in Seq([client : Client, answer : Count])
      BY DEF StoreInv, TypeInv, TypeOK
    <3>3. \A i \in DOMAIN outbox[s] : outbox[s][i].client \in Client
      <4>1. \A i \in DOMAIN outbox[s] : outbox[s][i] \in [client : Client, answer : Count]
        BY <3>2, Elements
      <4> QED
        BY <4>1
    <3> QED
      BY <1>5, <3>1, <3>3
  <2>2. worker[s].pc = "deleted" => worker[s].client \in Client \ {c}
    <3>1. worker[s].pc = "deleted" => worker[s].client \in InFlight(s)
      BY DEF InFlight, Serving
    <3>2. worker[s] \in {Quiet} \cup [pc : {"acquire", "locked"}, msg : Deletion(s)]
                              \cup [pc : {"deleted"}, client : Client, count : Count]
      BY DEF StoreInv, TypeInv, TypeOK
    <3>3. worker[s].pc = "deleted" => worker[s].client \in Client
      BY <3>2 DEF Quiet
    <3> QED
      BY <1>5, <3>1, <3>3
  <2>3. /\ Running(s) \in Seq(MessageTo(s)) /\ inbox[s] \in Seq(MessageTo(s))
        /\ Through(s) \in Seq(MessageTo(s)) /\ Through(s) = Running(s) \o inbox[s]
    <3>1. Unposted(s) = <<>>
      BY <1>2 DEF Unposted, Quiet
    <3>2. /\ Running(s) \in Seq(MessageTo(s)) /\ inbox[s] \in Seq(MessageTo(s))
          /\ Through(s) \in Seq(MessageTo(s))
      BY ThroughTyped DEF StoreInv
    <3>3. Running(s) \o inbox[s] \in Seq(MessageTo(s))
      BY <3>2, ConcatProperties
    <3> QED
      BY <3>1, <3>2, <3>3, ConcatEmptySeq DEF Through
  <2>4. ASSUME NEW i \in 1..Len(Through(s))
        PROVE  Through(s)[i].client \in Client \ {c}
    <3>1. Through(s)[i] \in MessageTo(s)
      BY <2>3, ElementOfSeq
    <3>2. Through(s)[i].client \in InFlight(s)
      <4> DEFINE r == Running(s)
                 q == inbox[s]
      <4>0. Len(r) \in Nat /\ Len(q) \in Nat /\ DOMAIN q = 1..Len(q)
        BY <2>3, LenProperties
      <4>1. i \in 1..Len(r) + Len(q) /\ Through(s)[i] = IF i <= Len(r) THEN r[i] ELSE q[i - Len(r)]
        BY <2>3, ConcatProperties
      <4>2. CASE i <= Len(r)
        <5>1. r = <<worker[s].msg>> /\ worker[s].pc \in {"acquire", "locked"}
          BY <4>0, <4>1, <4>2 DEF Running
        <5>2. i = 1 /\ r[1] = worker[s].msg
          BY <4>1, <4>2, <5>1
        <5>3. worker[s].msg.client \in Serving(s)
          BY <5>1 DEF Serving
        <5> QED
          BY <4>1, <4>2, <5>2, <5>3 DEF InFlight
      <4>3. CASE ~(i <= Len(r))
        <5>1. i - Len(r) \in DOMAIN q
          BY <4>0, <4>1, <4>3
        <5> QED
          BY <4>1, <4>3, <5>1 DEF InFlight, ClientsOf
      <4> QED
        BY <4>2, <4>3
    <3> QED
      BY <1>5, <3>1, <3>2, MessageFacts
  <2> QED
    BY <2>1, <2>2, <2>4
<1>9. ASSUME NEW s \in Shard
      PROVE  Foretold(s, new[s])'
  <2>1. Foretold(s, due[s]) /\ UNCHANGED <<engine, outbox, worker>>
    BY <1>1 DEF Begins
  <2>2. /\ \A i \in DOMAIN outbox[s] : new[s][outbox[s][i].client] = outbox[s][i].answer
        /\ worker[s].pc = "deleted" => new[s][worker[s].client] = worker[s].count
    BY <1>6, <1>8, <2>1 DEF Foretold
  <2>3. \A i \in 1..Len(Through(s)) : new[s][Through(s)[i].client] = due[s][Through(s)[i].client]
    BY <1>6, <1>8
  <2>4. engine[s] \in Engines(s) /\ Through(s) \in Seq(MessageTo(s))
        /\ Outcome(s) = FoldLeft(Execute, engine[s], Through(s))
    BY ThroughTyped DEF StoreInv
  <2>5. Replays(s, engine[s], Through(s)', new[s])
    <3>1. CASE s \in DOMAIN msgs
      <4>1. /\ Through(s)' = Append(Through(s), msgs[s]) /\ msgs[s] \in MessageTo(s)
            /\ new[s][msgs[s].client] = Response(Outcome(s), msgs[s])
        BY <1>3, <1>7, <3>1 DEF Begins
      <4>2. Replays(s, engine[s], Through(s), due[s])
        BY <2>1 DEF Foretold
      <4>3. Replays(s, engine[s], Append(Through(s), msgs[s]), new[s])
        BY <2>3, <2>4, <4>1, <4>2, ReplayLonger
      <4> QED
        BY <4>1, <4>3
    <3>2. CASE s \notin DOMAIN msgs
      <4>1. Through(s)' = Through(s)
        BY <3>2 DEF Begins
      <4>2. Replays(s, engine[s], Through(s), new[s])
        BY <2>1, <2>3 DEF Foretold, Replays
      <4> QED
        BY <4>1, <4>2
    <3> QED
      BY <3>1, <3>2
  <2> QED
    BY <2>1, <2>2, <2>5 DEF Foretold
<1>10. Promised(new)'
  <2>1. ASSUME NEW d \in Client, call'[d] # Quiet
        PROVE  call'[d].promise = call'[d].sum + Total(DueFrom(new, d), Awaited(d)')
    <3>0. DueFrom(new, d) \in [Shard -> Int] /\ DueFrom(due, d) \in [Shard -> Int]
      BY <1>4 DEF DueFrom, Dues
    <3>1. CASE d = c
      <4>1. call'[c].promise = Total(a, DOMAIN msgs) /\ call'[c].sum = 0 /\ Awaited(c)' = DOMAIN msgs
        BY <1>2 DEF StoreInv, ClusterInv, FlowInv, Begins
      <4>2. Total(DueFrom(new, c), DOMAIN msgs) = Total(a, DOMAIN msgs)
        <5>1. \A s \in DOMAIN msgs : DueFrom(new, c)[s] = a[s]
          BY <1>3, <1>7 DEF DueFrom
        <5>2. DOMAIN msgs \in SUBSET Shard
          BY DEF Fine
        <5> QED
          BY <1>2, <3>0, <3>1, <5>1, <5>2, TotalSame
      <4> QED
        BY <1>2, <3>1, <4>1, <4>2
    <3>2. CASE d # c
      <4>1. call'[d] = call[d] /\ Awaited(d)' = Awaited(d)
        BY <1>2, <3>2 DEF StoreInv, ClusterInv, FlowInv, Begins
      <4>2. DueFrom(new, d) = DueFrom(due, d)
        BY <1>6, <3>2 DEF DueFrom
      <4>3. master.pc # "closed"
        BY <1>2 DEF Quiet
      <4> QED
        BY <1>1, <2>1, <4>1, <4>2, <4>3 DEF Promised
    <3> QED
      BY <3>1, <3>2
  <2> QED
    BY <2>1 DEF Promised
<1> QED
  BY <1>4, <1>9, <1>10 DEF DueInv

Groups(S) == \A s, t, v \in Seq(S) : (s \o t) \o v = s \o (t \o v)

\* It does not matter how three sequences are put together.
LEMMA Regrouped == \A S : Groups(S)
<1>1. ASSUME NEW S, NEW s \in Seq(S), NEW t \in Seq(S), NEW v \in Seq(S)
      PROVE  (s \o t) \o v = s \o (t \o v)
  BY ConcatAssociative
<1> QED
  BY <1>1 DEF Groups

\* Where a message stands does not change by its being moved.
LEMMA SeqMoves ==
    ASSUME NEW S, NEW r \in Seq(S), NEW q \in Seq(S), NEW u \in Seq(S), NEW m \in S
    PROVE  /\ (r \o Append(q, m)) \o <<>> = Append((r \o q) \o <<>>, m)
           /\ (r \o q) \o <<m>> = Append((r \o q) \o <<>>, m)
           /\ (<<m>> \o q) \o u = <<m>> \o ((<<>> \o q) \o u)
           /\ q # <<>> => /\ Head(q) \in S /\ Tail(q) \in Seq(S)
                          /\ (<<>> \o q) \o u = (<<Head(q)>> \o Tail(q)) \o u
                          /\ (<<>> \o q) \o u = <<Head(q)>> \o ((<<>> \o Tail(q)) \o u)
<1>1. \A s, t \in Seq(S) : s \o t \in Seq(S)
  BY ConcatProperties
<1>2. ASSUME NEW s \in Seq(S)
      PROVE  Append(s, m) = s \o <<m>> /\ Append(s, m) \in Seq(S)
  OBVIOUS
<1>3. <<m>> \in Seq(S) /\ \A s \in Seq(S) : s \o <<>> = s /\ <<>> \o s = s
  <2>1. <<m>> \in Seq(S)
    OBVIOUS
  <2>2. \A s \in Seq(S) : s \o <<>> = s /\ <<>> \o s = s
    BY ConcatEmptySeq, Zenon
  <2> QED
    BY <2>1, <2>2
<1>4. Groups(S)
  BY Regrouped
<1>5. r \o Append(q, m) = Append(r \o q, m)
  <2>1. Append(q, m) = q \o <<m>> /\ r \o q \in Seq(S)
    BY <1>1, <1>2
  <2>2. Append(r \o q, m) = (r \o q) \o <<m>>
    BY <1>2, <2>1
  <2>3. (r \o q) \o <<m>> = r \o (q \o <<m>>)
    BY <1>3, <1>4 DEF Groups
  <2> QED
    BY <2>1, <2>2, <2>3
<1>6. (r \o Append(q, m)) \o <<>> = Append((r \o q) \o <<>>, m)
  BY <1>1, <1>2, <1>3, <1>5
<1>7. (r \o q) \o <<m>> = Append((r \o q) \o <<>>, m)
  BY <1>1, <1>2, <1>3
<1>8. (<<m>> \o q) \o u = <<m>> \o ((<<>> \o q) \o u)
  BY <1>3, <1>4 DEF Groups
<1>9. ASSUME q # <<>>
      PROVE  /\ Head(q) \in S /\ Tail(q) \in Seq(S)
             /\ (<<>> \o q) \o u = (<<Head(q)>> \o Tail(q)) \o u
             /\ (<<>> \o q) \o u = <<Head(q)>> \o ((<<>> \o Tail(q)) \o u)
  <2> DEFINE h == Head(q)
             t == Tail(q)
  <2>1. h \in S /\ t \in Seq(S) /\ <<h>> \in Seq(S)
    BY <1>9, HeadTailProperties
  <2>2. q = <<h>> \o t
    <3>1. /\ Len(t) = Len(q) - 1 /\ Len(q) \in Nat \ {0} /\ q[1] = h
          /\ \A i \in 1..Len(t) : t[i] = q[i + 1]
      BY <1>9, HeadTailProperties, EmptySeq
    <3>2. Len(<<h>>) = 1 /\ <<h>>[1] = h
      OBVIOUS
    <3> HIDE DEF h, t
    <3>3. /\ <<h>> \o t \in Seq(S) /\ Len(<<h>> \o t) = Len(q)
          /\ \A i \in 1..Len(q) : (<<h>> \o t)[i] = IF i <= 1 THEN <<h>>[i] ELSE t[i - 1]
      <4>1. /\ <<h>> \o t \in Seq(S) /\ Len(<<h>> \o t) = 1 + Len(t)
            /\ \A i \in 1..1 + Len(t) : (<<h>> \o t)[i] = IF i <= 1 THEN <<h>>[i] ELSE t[i - 1]
        BY <2>1, <3>2, ConcatProperties
      <4>2. 1 + Len(t) = Len(q)
        BY <3>1
      <4> QED
        BY <4>1, <4>2
    <3>4. ASSUME NEW i \in 1..Len(q)
          PROVE  (<<h>> \o t)[i] = q[i]
      <4>1. CASE i = 1
        BY <3>1, <3>2, <3>3, <4>1
      <4>2. CASE i # 1
        <5>1. i - 1 \in 1..Len(t) /\ (i - 1) + 1 = i /\ ~(i <= 1)
          BY <3>1, <4>2
        <5> QED
          BY <3>1, <3>3, <5>1
      <4> QED
        BY <4>1, <4>2
    <3> QED
      BY <3>3, <3>4, SeqEqual
  <2> HIDE DEF h, t
  <2>3. (<<>> \o q) \o u = (<<h>> \o t) \o u
    BY <1>3, <2>2
  <2>4. (<<h>> \o t) \o u = <<h>> \o ((<<>> \o t) \o u)
    BY <1>3, <1>4, <2>1 DEF Groups
  <2> QED
    BY <2>1, <2>3, <2>4 DEF h, t
<1> QED
  BY <1>6, <1>7, <1>8, <1>9

\* A command that is sent at once.
LEMMA SendBegins ==
    ASSUME StoreInv, NEW c \in Client, NEW cmd, NEW msgs, Fine(c, msgs), Send(c, cmd, msgs)
    PROVE  Begins(c, cmd, msgs) /\ TypeInv'
<1>1. /\ Begin(c, cmd, msgs) /\ master = Quiet /\ call[c] = Quiet
      /\ UNCHANGED <<engine, outbox, worker, alive, locks, master>>
      /\ inbox' = [s \in Shard |-> IF s \in DOMAIN msgs THEN Append(inbox[s], msgs[s]) ELSE inbox[s]]
      /\ pendingRpcs' = pendingRpcs \cup ({c} \X DOMAIN msgs)
  BY DEF Send, sendToWorkers, Begin, Ready
<1>2. \A s \in Shard : Unposted(s) = <<>> /\ Unposted(s)' = <<>> /\ Running(s)' = Running(s)
  BY <1>1 DEF Unposted, Running, Quiet
<1>3. ASSUME NEW s \in Shard
      PROVE  /\ Through(s)' = IF s \in DOMAIN msgs THEN Append(Through(s), msgs[s]) ELSE Through(s)
             /\ inbox'[s] \in Seq(MessageTo(s))
  <2>1. Running(s) \in Seq(MessageTo(s)) /\ inbox[s] \in Seq(MessageTo(s))
    BY ThroughTyped DEF StoreInv
  <2>2. /\ Through(s)' = (Running(s) \o inbox'[s]) \o <<>>
        /\ Through(s) = (Running(s) \o inbox[s]) \o <<>>
    BY <1>2 DEF Through
  <2>3. CASE s \in DOMAIN msgs
    <3>1. msgs[s] \in MessageTo(s) /\ inbox'[s] = Append(inbox[s], msgs[s])
      BY <1>1, <2>3 DEF Fine
    <3>2. (Running(s) \o Append(inbox[s], msgs[s])) \o <<>>
              = Append((Running(s) \o inbox[s]) \o <<>>, msgs[s])
      BY <2>1, <3>1, SeqMoves
    <3> QED
      BY <2>1, <2>2, <2>3, <3>1, <3>2, AppendProperties
  <2>4. CASE s \notin DOMAIN msgs
    <3>1. inbox'[s] = inbox[s]
      BY <1>1, <2>4
    <3> QED
      BY <2>1, <2>2, <2>4, <3>1
  <2> QED
    BY <2>3, <2>4
<1>4. \A s \in Shard : <<c, s>> \notin pendingRpcs
  BY <1>1 DEF StoreInv, ClusterInv, FlowInv, Accounted
<1>5. \A d \in Client : ToPost(d) = {} /\ ToPost(d)' = {}
  BY <1>1 DEF ToPost, Quiet
<1>6. Awaited(c)' = DOMAIN msgs /\ \A d \in Client \ {c} : Awaited(d)' = Awaited(d)
  <2>1. \A d \in Client, s \in Shard :
            <<d, s>> \in pendingRpcs' <=> <<d, s>> \in pendingRpcs \/ (d = c /\ s \in DOMAIN msgs)
    BY <1>1
  <2>2. DOMAIN msgs \subseteq Shard
    BY DEF Fine
  <2> QED
    BY <1>4, <1>5, <2>1, <2>2 DEF Awaited
<1>7. Begins(c, cmd, msgs)
  BY <1>1, <1>3, <1>4, <1>6 DEF Begins, Quiet
<1>8. DOMAIN call' = Client /\ (\A d \in Client : CallOK(d)') /\ reply' \in [Client -> Int]
  <2>1. /\ call' = [call EXCEPT ![c] = [pc |-> "called", cmd |-> cmd, sum |-> 0,
                                        promise |-> Total(Answers(msgs), DOMAIN msgs)]]
        /\ reply' = [reply EXCEPT ![c] = Ok]
        /\ Total(Answers(msgs), DOMAIN msgs) \in Int
    BY <1>1, BeginPromises DEF StoreInv
  <2> QED
    BY <2>1 DEF StoreInv, TypeInv, TypeOK, CallOK, Ok
<1>9. pendingRpcs' \subseteq Client \X Shard /\ DOMAIN inbox' = Shard
  BY <1>1 DEF Fine, StoreInv, TypeInv, TypeOK
<1>10. MasterOK'
  BY <1>1 DEF StoreInv, TypeInv, TypeOK, MasterOK
<1>11. TypeInv'
  BY <1>1, <1>3, <1>8, <1>9, <1>10 DEF StoreInv, TypeInv, TypeOK
<1> QED
  BY <1>7, <1>11

\* The keys of a shard among some.
Share(keys, s) == {k \in keys : Owner[k] = s}

\* Each shard of the keys has its part of the deletion.
DealtOut(op, K, lost, msgs) ==
    /\ DOMAIN msgs = {Owner[k] : k \in K}
    /\ \A s \in DOMAIN msgs :
          /\ msgs[s] \in MessageTo(s) /\ msgs[s].op = op
          /\ msgs[s].keys = Share(K, s)
          /\ msgs[s].lost = Share(lost, s)

\* The parts of a deletion, each on the shard of its keys (cluster-coordinator.ts:146).
LEMMA PartsFine ==
    ASSUME NEW c \in Client, NEW K \in SUBSET Key, NEW lost \in SUBSET Key,
           NEW op \in {"DEL", "CROSS_SHARD_DEL"}, NEW msgs, msgs = shardKeyMap(c, op, K, lost)
    PROVE  Fine(c, msgs) /\ DealtOut(op, K, lost, msgs)
<1>1. /\ DOMAIN msgs = {Owner[k] : k \in K}
      /\ \A s \in DOMAIN msgs :
            msgs[s] = [client |-> c, op |-> op, keys |-> Share(K, s),
                       lost |-> Share(lost, s)]
  BY KeysGo DEF shardKeyMap, Share
<1>2. DOMAIN msgs \subseteq Shard
  BY <1>1, KeysGo
<1>3. ASSUME NEW s \in DOMAIN msgs
      PROVE  /\ msgs[s] \in MessageTo(s) /\ msgs[s].client = c /\ msgs[s].op = op
             /\ msgs[s].keys = Share(K, s)
             /\ msgs[s].lost = Share(lost, s)
  <2> DEFINE part == Share(K, s)
             gone == Share(lost, s)
  <2>1. part \in SUBSET KeysOf(s) /\ gone \in SUBSET KeysOf(s)
    BY DEF KeysOf, Share
  <2>2. msgs[s] = [client |-> c, op |-> op, keys |-> part, lost |-> gone]
    BY <1>1
  <2> HIDE DEF part, gone
  <2>3. [client |-> c, op |-> op, keys |-> part, lost |-> gone]
            \in [client : Client, op : {"DEL", "CROSS_SHARD_DEL"}, keys : SUBSET KeysOf(s),
                 lost : SUBSET KeysOf(s)]
    BY <2>1
  <2>4. msgs[s] \in MessageTo(s)
    BY <2>2, <2>3 DEF MessageTo
  <2>5. msgs[s].client = c /\ msgs[s].op = op /\ msgs[s].keys = part /\ msgs[s].lost = gone
    BY <2>2
  <2> QED
    BY <2>4, <2>5 DEF part, gone
<1>4. Fine(c, msgs)
  BY <1>2, <1>3 DEF Fine
<1> QED
  BY <1>1, <1>3, <1>4 DEF DealtOut

\* A deletion over several shards begins: the master has its parts.
LEMMA FanOutBegins ==
    ASSUME StoreInv, NEW c \in Client, NEW cmd, NEW msgs, Fine(c, msgs), Begin(c, cmd, msgs),
           \A s \in DOMAIN msgs : msgs[s].op = "CROSS_SHARD_DEL",
           master' = [pc |-> "acquire", client |-> c, msgs |-> msgs, held |-> {}],
           UNCHANGED <<threads, locks, pendingRpcs>>
    PROVE  Begins(c, cmd, msgs) /\ TypeInv'
<1>1. /\ Begin(c, cmd, msgs) /\ master = Quiet /\ call[c] = Quiet
      /\ master' = [pc |-> "acquire", client |-> c, msgs |-> msgs, held |-> {}]
      /\ UNCHANGED <<engine, inbox, outbox, worker, alive, locks, pendingRpcs>>
  BY DEF Begin, Ready, threads
<1>2. Fine(c, msgs) /\ \A s \in DOMAIN msgs : msgs[s].op = "CROSS_SHARD_DEL"
  OBVIOUS
<1>3. ASSUME NEW s \in Shard
      PROVE  Through(s)' = IF s \in DOMAIN msgs THEN Append(Through(s), msgs[s]) ELSE Through(s)
  <2>1. Running(s) \in Seq(MessageTo(s)) /\ inbox[s] \in Seq(MessageTo(s))
    BY ThroughTyped DEF StoreInv
  <2>2. /\ Through(s)' = (Running(s) \o inbox[s]) \o Unposted(s)'
        /\ Through(s) = (Running(s) \o inbox[s]) \o <<>>
    BY <1>1 DEF Through, Running, Unposted, Quiet
  <2>3. Unposted(s)' = IF s \in DOMAIN msgs THEN <<msgs[s]>> ELSE <<>>
    BY <1>1 DEF Unposted
  <2>4. s \in DOMAIN msgs => (Running(s) \o inbox[s]) \o <<msgs[s]>>
                                 = Append((Running(s) \o inbox[s]) \o <<>>, msgs[s])
    BY <1>2, <2>1, SeqMoves DEF Fine
  <2> QED
    BY <2>2, <2>3, <2>4
<1>4. \A s \in Shard : <<c, s>> \notin pendingRpcs
  BY <1>1 DEF StoreInv, ClusterInv, FlowInv, Accounted
<1>5. \A d \in Client : ToPost(d) = {} /\ ToPost(d)' = IF d = c THEN DOMAIN msgs ELSE {}
  BY <1>1 DEF ToPost, Quiet
<1>6. Awaited(c)' = DOMAIN msgs /\ \A d \in Client \ {c} : Awaited(d)' = Awaited(d)
  BY <1>1, <1>4, <1>5 DEF Awaited
<1>7. Begins(c, cmd, msgs)
  BY <1>1, <1>3, <1>4, <1>6 DEF Begins
<1>8. DOMAIN call' = Client /\ (\A d \in Client : CallOK(d)') /\ reply' \in [Client -> Int]
  <2>1. /\ call' = [call EXCEPT ![c] = [pc |-> "called", cmd |-> cmd, sum |-> 0,
                                        promise |-> Total(Answers(msgs), DOMAIN msgs)]]
        /\ reply' = [reply EXCEPT ![c] = Ok]
        /\ Total(Answers(msgs), DOMAIN msgs) \in Int
    BY <1>1, <1>2, BeginPromises DEF StoreInv
  <2> QED
    BY <2>1 DEF StoreInv, TypeInv, TypeOK, CallOK, Ok
<1>9. MasterOK'
  <2>1. \A s \in DOMAIN msgs : msgs[s] \in Deletion(s)
    BY <1>2 DEF Fine, Deletion
  <2>2. DOMAIN msgs \subseteq Shard
    BY <1>2 DEF Fine
  <2> QED
    BY <1>1, <2>1, <2>2 DEF MasterOK
<1>10. TypeInv'
  BY <1>1, <1>8, <1>9 DEF StoreInv, TypeInv, TypeOK
<1> QED
  BY <1>7, <1>10
-----------------------------------------------------------------------------
(***************************************************************************)
(* What is under way comes to the same, wherever it stands.                *)
(***************************************************************************)
\* A step that leaves to shard s what it comes to, and what it answers.
Goes(s) ==
    /\ Outcome(s)' = Outcome(s)
    /\ \A d \in [Client -> Int] : Foretold(s, d) => Foretold(s, d)'

\* A message is moved, or nothing happens to the shard.
LEMMA MovesOn ==
    ASSUME NEW s \in Shard, engine'[s] = engine[s], Through(s)' = Through(s), outbox'[s] = outbox[s],
           worker'[s].pc = "deleted" => worker'[s] = worker[s]
    PROVE  Goes(s)
<1>1. Outcome(s) = FoldLeft(Execute, engine[s], Through(s))
  BY DEF Outcome, Through
<1>2. Outcome(s)' = FoldLeft(Execute, engine'[s], Through(s)')
  BY DEF Outcome, Through
<1>3. ASSUME NEW d \in [Client -> Int], Foretold(s, d)
      PROVE  Foretold(s, d)'
  <2>1. Replays(s, engine[s], Through(s), d)
    BY <1>3 DEF Foretold
  <2>2. Replays(s, engine'[s], Through(s)', d)
    BY <2>1
  <2>3. \A i \in DOMAIN outbox'[s] : d[outbox'[s][i].client] = outbox'[s][i].answer
    BY <1>3 DEF Foretold
  <2>4. worker'[s].pc = "deleted" => d[worker'[s].client] = worker'[s].count
    BY <1>3 DEF Foretold
  <2> QED
    BY <2>2, <2>3, <2>4 DEF Foretold
<1> QED
  BY <1>1, <1>2, <1>3 DEF Goes

\* The first message is carried out.
LEMMA CarriedOut ==
    ASSUME TypeInv, NEW s \in Shard, NEW m \in MessageTo(s), NEW q \in Seq(MessageTo(s)),
           Through(s) = <<m>> \o q, Through(s)' = q, engine'[s] = Execute(engine[s], m)
    PROVE  /\ Outcome(s)' = Outcome(s)
           /\ \A d : Foretold(s, d) => /\ Replays(s, engine'[s], Through(s)', d)
                                       /\ d[m.client] = Response(engine[s], m)
<1>1. engine[s] \in Engines(s)
  BY ThroughTyped
<1>2. Outcome(s) = FoldLeft(Execute, engine[s], Through(s))
  BY DEF Outcome, Through
<1>3. Outcome(s)' = FoldLeft(Execute, engine'[s], Through(s)')
  BY DEF Outcome, Through
<1>4. Outcome(s)' = Outcome(s)
  <2>1. FoldLeft(Execute, engine[s], <<m>> \o q) = FoldLeft(Execute, Execute(engine[s], m), q)
    BY <1>1, FoldShorter
  <2> QED
    BY <1>2, <1>3, <2>1
<1>5. ASSUME NEW d, Foretold(s, d)
      PROVE  Replays(s, engine'[s], Through(s)', d) /\ d[m.client] = Response(engine[s], m)
  <2>1. Replays(s, engine[s], <<m>> \o q, d)
    BY <1>5 DEF Foretold
  <2>2. Replays(s, Execute(engine[s], m), q, d) /\ d[m.client] = Response(engine[s], m)
    BY <1>1, <2>1, ReplayShorter
  <2> QED
    BY <2>2
<1> QED
  BY <1>4, <1>5

\* What all shards foretell and every call awaits as before.
LEMMA DueFramed ==
    ASSUME StoreInv, \A s \in Shard : Goes(s), call' = call,
           (master.pc = "closed") => (master'.pc = "closed"),
           \A c \in Client : Awaited(c)' = Awaited(c)
    PROVE  DueInv'
<1>1. PICK due \in Dues : (\A s \in Shard : Foretold(s, due[s])) /\ Promised(due)
  BY DEF StoreInv, DueInv
<1>2. ASSUME NEW s \in Shard
      PROVE  Foretold(s, due[s])'
  <2>1. due[s] \in [Client -> Int]
    BY DEF Dues
  <2> QED
    BY <1>1, <2>1 DEF Goes
<1>3. Promised(due)'
  BY <1>1 DEF Promised
<1> QED
  BY <1>2, <1>3 DEF DueInv

\* The fields of a fan-out.
LEMMA FanOutFields ==
    ASSUME StoreInv, master.pc \in {"acquire", "post", "release"}
    PROVE  /\ master = [pc |-> master.pc, client |-> master.client,
                        msgs |-> master.msgs, held |-> master.held]
           /\ master.client \in Client /\ master.held \subseteq Shard
           /\ DOMAIN master.msgs \subseteq Shard
           /\ \A s \in DOMAIN master.msgs : master.msgs[s] \in Deletion(s) /\ master.msgs[s] \in MessageTo(s)
<1>1. /\ master.client \in Client /\ master.held \subseteq Shard
      /\ DOMAIN master.msgs \subseteq Shard
      /\ \A s \in DOMAIN master.msgs : master.msgs[s] \in Deletion(s)
  BY DEF StoreInv, TypeInv, TypeOK, MasterOK, Quiet
<1>2. \A s : Deletion(s) \subseteq MessageTo(s)
  BY DEF Deletion
<1>3. master = [pc |-> master.pc, client |-> master.client,
                msgs |-> master.msgs, held |-> master.held]
  BY DEF StoreInv, ClusterInv, LockInv, MasterShape, Quiet
<1> QED
  BY <1>1, <1>2, <1>3

\* The master takes or releases a lock.
LEMMA LocksGo ==
    ASSUME StoreInv, acquireLocks \/ releaseAll
    PROVE  /\ TypeInv' /\ DueInv'
           /\ \A s \in Shard : Outcome(s)' = Outcome(s)
           /\ UNCHANGED <<call, reply>>
<1>1. UNCHANGED <<engine, inbox, outbox, worker, alive, call, pendingRpcs, reply>>
  BY DEF acquireLocks, releaseAll, threads, calls
<1>2. /\ master = [pc |-> master.pc, client |-> master.client, msgs |-> master.msgs, held |-> master.held]
      /\ master.pc \in {"acquire", "release"}
      /\ master.client \in Client /\ master.held \subseteq Shard
      /\ DOMAIN master.msgs \subseteq Shard
      /\ \A s \in DOMAIN master.msgs : master.msgs[s] \in Deletion(s)
      /\ LockInv
  BY FanOutFields DEF acquireLocks, releaseAll, StoreInv, ClusterInv
<1>3. /\ \/ master' = Quiet /\ master.pc = "release"
         \/ \E taken : master' = [pc |-> master.pc, client |-> master.client,
                                  msgs |-> master.msgs, held |-> taken]
  <2>1. CASE acquireLocks
    BY <1>2, <2>1 DEF acquireLocks
  <2>2. CASE releaseAll
    BY <1>2, <2>2 DEF releaseAll
  <2> QED
    BY <2>1, <2>2
<1>4. \A s \in Shard : Unposted(s)' = Unposted(s) /\ Running(s)' = Running(s)
  BY <1>1, <1>2, <1>3 DEF Unposted, Running, Quiet
<1>5. \A c \in Client : Awaited(c)' = Awaited(c)
  BY <1>1, <1>2, <1>3 DEF Awaited, ToPost, Quiet
<1>6. ASSUME NEW s \in Shard
      PROVE  Goes(s)
  BY <1>1, <1>4, MovesOn DEF Through
<1>7. DueInv'
  BY <1>1, <1>2, <1>5, <1>6, DueFramed
<1>8. LockInv'
  BY <1>2, ClusterAssumption, MasterLocks, MasterReleases
<1>9. MasterOK' /\ locks' \in [Shard -> {FREE, TAKEN}]
  <2>1. MasterShape' /\ locks' \in [Shard -> {FREE, TAKEN}]
    BY <1>8 DEF LockInv
  <2>2. CASE master' = Quiet
    BY <2>1, <2>2 DEF MasterOK
  <2>3. CASE \E taken : master' = [pc |-> master.pc, client |-> master.client,
                                  msgs |-> master.msgs, held |-> taken]
    <3>1. PICK taken : master' = [pc |-> master.pc, client |-> master.client,
                                  msgs |-> master.msgs, held |-> taken]
      BY <2>3
    <3>2. taken \subseteq Shard
      BY <1>2, <2>1, <3>1 DEF MasterShape, Quiet
    <3> QED
      BY <1>2, <2>1, <3>1, <3>2 DEF MasterOK
  <2> QED
    BY <1>3, <2>1, <2>2, <2>3
<1>10. TypeInv'
  BY <1>1, <1>9 DEF StoreInv, TypeInv, TypeOK, CallOK
<1> QED
  BY <1>1, <1>6, <1>7, <1>10 DEF Goes

\* A part of a fan-out is posted: it stays the last of its shard.
LEMMA PostGoes ==
    ASSUME StoreInv, NEW s \in Shard, PostOne(s)
    PROVE  /\ TypeInv' /\ DueInv'
           /\ \A t \in Shard : Outcome(t)' = Outcome(t)
           /\ UNCHANGED <<call, reply>>
<1> DEFINE c == master.client
           m == master.msgs[s]
           left == [t \in DOMAIN master.msgs \ {s} |-> master.msgs[t]]
           place == IF DOMAIN left = {} THEN "release" ELSE "post"
<1>1. /\ master = [pc |-> master.pc, client |-> c, msgs |-> master.msgs, held |-> master.held]
      /\ c \in Client /\ s \in DOMAIN master.msgs /\ master.held \subseteq Shard
      /\ DOMAIN master.msgs \subseteq Shard
      /\ \A t \in DOMAIN master.msgs : master.msgs[t] \in Deletion(t) /\ master.msgs[t] \in MessageTo(t)
      /\ master.pc \in {"acquire", "post"}
  BY FanOutFields DEF PostOne, StoreInv
<1>2. /\ master' = [master EXCEPT !.pc = place, !.msgs = left]
      /\ sendToWorkers(c, To(s, m)) /\ UNCHANGED <<locks, call, reply>>
  BY DEF PostOne
<1>3. /\ DOMAIN left = DOMAIN master.msgs \ {s} /\ place \in {"post", "release"}
      /\ (place = "release" <=> DOMAIN left = {})
      /\ \A t \in DOMAIN left : left[t] = master.msgs[t]
  OBVIOUS
<1> HIDE DEF left, place
<1>4. master' = [pc |-> place, client |-> c, msgs |-> left, held |-> master.held]
  BY <1>1, <1>2
<1> DEFINE msgs == To(s, m)
<1>5. DOMAIN msgs = {s} /\ msgs[s] = m /\ m \in MessageTo(s)
  BY <1>1 DEF To
<1> HIDE DEF msgs, m
<1>6. /\ UNCHANGED <<engine, outbox, worker, alive>>
      /\ DOMAIN inbox' = Shard /\ inbox'[s] = Append(inbox[s], m)
      /\ \A t \in Shard \ {s} : inbox'[t] = inbox[t]
      /\ pendingRpcs' = pendingRpcs \cup {<<c, s>>}
  <2>1. /\ inbox' = [t \in Shard |-> IF t \in DOMAIN msgs THEN Append(inbox[t], msgs[t]) ELSE inbox[t]]
        /\ pendingRpcs' = pendingRpcs \cup ({c} \X DOMAIN msgs)
        /\ UNCHANGED <<engine, outbox, worker, alive>>
    BY <1>2 DEF sendToWorkers, msgs, m
  <2>2. {c} \X {s} = {<<c, s>>}
    OBVIOUS
  <2> QED
    BY <1>5, <2>1, <2>2
<1>7. \A t \in Shard : Running(t)' = Running(t)
  BY <1>6 DEF Running
<1>8. /\ Unposted(s) = <<m>> /\ Unposted(s)' = <<>>
      /\ \A t \in Shard \ {s} : Unposted(t)' = Unposted(t)
  <2>1. Unposted(s) = <<m>>
    BY <1>1 DEF Unposted, m
  <2>2. Unposted(s)' = <<>>
    BY <1>3, <1>4 DEF Unposted
  <2>3. ASSUME NEW t \in Shard \ {s}
        PROVE  Unposted(t)' = Unposted(t)
    <3>1. t \in DOMAIN left <=> t \in DOMAIN master.msgs
      BY <1>3
    <3>2. CASE t \in DOMAIN left
      <4>1. place = "post" /\ left[t] = master.msgs[t]
        BY <1>3, <3>2
      <4> QED
        BY <1>1, <1>4, <3>1, <3>2, <4>1 DEF Unposted
    <3>3. CASE t \notin DOMAIN left
      BY <1>1, <1>4, <3>1, <3>3 DEF Unposted
    <3> QED
      BY <3>2, <3>3
  <2> QED
    BY <2>1, <2>2, <2>3
<1>9. \A t \in Shard : inbox'[t] \in Seq(MessageTo(t)) /\ Through(t)' = Through(t)
  <2>1. \A t \in Shard : Running(t) \in Seq(MessageTo(t)) /\ inbox[t] \in Seq(MessageTo(t))
    BY ThroughTyped DEF StoreInv
  <2>2. \A t \in Shard \ {s} : Through(t)' = Through(t)
    BY <1>6, <1>7, <1>8 DEF Through
  <2>3. Through(s)' = Through(s)
    <3>1. (Running(s) \o Append(inbox[s], m)) \o <<>> = (Running(s) \o inbox[s]) \o <<m>>
      BY <1>5, <2>1, SeqMoves
    <3> QED
      BY <1>6, <1>7, <1>8, <3>1 DEF Through
  <2>4. inbox'[s] \in Seq(MessageTo(s))
    BY <1>5, <1>6, <2>1, AppendProperties
  <2> QED
    BY <1>6, <2>1, <2>2, <2>3, <2>4
<1>10. \A t \in Shard : Goes(t)
  BY <1>6, <1>9, MovesOn
<1>11. \A d \in Client : Awaited(d)' = Awaited(d)
  <2>1. ASSUME NEW d \in Client
        PROVE  Awaited(d)' = Awaited(d)
    <3>1. ToPost(d) = IF d = c THEN DOMAIN master.msgs ELSE {}
      BY <1>1 DEF ToPost
    <3>2. ToPost(d)' = IF d = c THEN DOMAIN left ELSE {}
      BY <1>3, <1>4 DEF ToPost
    <3>3. \A t \in Shard : <<d, t>> \in pendingRpcs' <=> <<d, t>> \in pendingRpcs \/ (d = c /\ t = s)
      BY <1>6
    <3> QED
      BY <1>1, <1>3, <3>1, <3>2, <3>3 DEF Awaited
  <2> QED
    BY <2>1
<1>12. DueInv'
  BY <1>1, <1>2, <1>10, <1>11, DueFramed
<1>13. MasterOK'
  BY <1>1, <1>3, <1>4 DEF MasterOK
<1>14. pendingRpcs' \subseteq Client \X Shard
  BY <1>1, <1>6 DEF StoreInv, TypeInv, TypeOK, CallOK
<1>15. TypeInv'
  BY <1>2, <1>6, <1>9, <1>13, <1>14 DEF StoreInv, TypeInv, TypeOK, CallOK
<1> QED
  BY <1>2, <1>10, <1>12, <1>15 DEF Goes

\* What a shard may be like.
ShardTyped(s) ==
    /\ engine[s] \in Engines(s)
    /\ inbox[s] \in Seq(MessageTo(s))
    /\ outbox[s] \in Seq([client : Client, answer : Count])
    /\ worker[s] \in {Quiet} \cup [pc : {"acquire", "locked"}, msg : Deletion(s)]
                         \cup [pc : {"deleted"}, client : Client, count : Count]

\* A step of one shard: nothing else changes.
OfShard(s) ==
    /\ engine' = [engine EXCEPT ![s] = engine'[s]]
    /\ outbox' = [outbox EXCEPT ![s] = outbox'[s]]
    /\ DOMAIN inbox' = Shard /\ DOMAIN worker' = Shard
    /\ \A t \in Shard \ {s} : inbox'[t] = inbox[t] /\ worker'[t] = worker[t]
    /\ UNCHANGED <<alive, master, call, pendingRpcs, reply>>

\* Types say what every shard is like.
LEMMA ShardsTyped ==
    ASSUME TypeInv
    PROVE  /\ \A s \in Shard : ShardTyped(s)
           /\ engine = [s \in Shard |-> engine[s]] /\ outbox = [s \in Shard |-> outbox[s]]
           /\ DOMAIN inbox = Shard /\ DOMAIN worker = Shard
<1>1. /\ outbox \in [Shard -> Seq([client : Client, answer : Count])]
      /\ engine \in [Shard -> [Key -> EngineEntry]]
  BY DEF TypeInv, TypeOK
<1>2. \A s \in Shard : outbox[s] \in Seq([client : Client, answer : Count])
  BY <1>1
<1>3. \A s \in Shard : engine[s] \in Engines(s) /\ inbox[s] \in Seq(MessageTo(s))
  BY DEF TypeInv, TypeOK
<1>4. \A s \in Shard : worker[s] \in {Quiet} \cup [pc : {"acquire", "locked"}, msg : Deletion(s)]
                                   \cup [pc : {"deleted"}, client : Client, count : Count]
  BY DEF TypeInv, TypeOK
<1>5. DOMAIN inbox = Shard /\ DOMAIN worker = Shard
  BY DEF TypeInv, TypeOK
<1>6. engine = [s \in Shard |-> engine[s]] /\ outbox = [s \in Shard |-> outbox[s]]
  BY <1>1
<1> QED
  BY <1>2, <1>3, <1>4, <1>5, <1>6 DEF ShardTyped

\* A step of one shard keeps the types and the dues, if that shard is as it may be, and
\* comes to the same.
LEMMA ShardGoes ==
    ASSUME StoreInv, NEW s \in Shard, OfShard(s), Goes(s), ShardTyped(s)',
           locks' \in [Shard -> {FREE, TAKEN}]
    PROVE  TypeInv' /\ DueInv' /\ (\A t \in Shard : Outcome(t)' = Outcome(t)) /\ UNCHANGED <<call, reply>>
<1>0. /\ engine = [t \in Shard |-> engine[t]] /\ outbox = [t \in Shard |-> outbox[t]]
      /\ \A t \in Shard : ShardTyped(t)
  BY ShardsTyped DEF StoreInv
<1>a. \A t \in Shard \ {s} : engine'[t] = engine[t] /\ outbox'[t] = outbox[t]
  BY <1>0 DEF OfShard
<1>1. \A t \in Shard \ {s} : Goes(t)
  <2>1. ASSUME NEW t \in Shard \ {s}
        PROVE  Goes(t)
    <3>1. /\ engine'[t] = engine[t] /\ inbox'[t] = inbox[t]
          /\ outbox'[t] = outbox[t] /\ worker'[t] = worker[t] /\ master' = master
      BY <1>a DEF OfShard
    <3>2. Running(t)' = Running(t) /\ Unposted(t)' = Unposted(t)
      BY <3>1 DEF Running, Unposted
    <3>3. Through(t)' = Through(t)
      BY <3>1, <3>2 DEF Through
    <3> QED
      BY <3>1, <3>3, MovesOn
  <2> QED
    BY <2>1
<1>2. \A t \in Shard : Goes(t)
  BY <1>1
<1>3. /\ call' = call /\ reply' = reply /\ master' = master /\ pendingRpcs' = pendingRpcs /\ alive' = alive
      /\ \A c \in Client : Awaited(c)' = Awaited(c)
  BY DEF OfShard, Awaited, ToPost
<1>4. DueInv'
  BY <1>2, <1>3, DueFramed
<1>5. \A t \in Shard : ShardTyped(t)'
  <2>1. ASSUME NEW t \in Shard \ {s}
        PROVE  ShardTyped(t)'
    <3>1. ShardTyped(t)
      BY <1>0
    <3> QED
      BY <1>a, <3>1 DEF OfShard, ShardTyped
  <2> QED
    BY <2>1
<1>6. \A t \in Shard : engine'[t] \in [Key -> EngineEntry]
  BY <1>5 DEF ShardTyped, Engines
<1>7. engine' \in [Shard -> [Key -> EngineEntry]]
  <2>1. engine' = [t \in Shard |-> engine'[t]]
    BY <1>0 DEF OfShard
  <2> QED
    BY <1>6, <2>1
<1>8. outbox' \in [Shard -> Seq([client : Client, answer : Count])]
  <2>1. outbox' = [t \in Shard |-> outbox'[t]]
    BY <1>0 DEF OfShard
  <2>2. \A t \in Shard : outbox'[t] \in Seq([client : Client, answer : Count])
    BY <1>5 DEF ShardTyped
  <2> QED
    BY <2>1, <2>2
<1>9. /\ \A t \in Shard : engine'[t] \in Engines(t)
      /\ \A t \in Shard : inbox'[t] \in Seq(MessageTo(t))
      /\ DOMAIN inbox' = Shard /\ DOMAIN worker' = Shard
  BY <1>5 DEF ShardTyped, OfShard
<1>10. \A t \in Shard :
          worker'[t] \in {Quiet} \cup [pc : {"acquire", "locked"}, msg : Deletion(t)]
                             \cup [pc : {"deleted"}, client : Client, count : Count]
  BY <1>5 DEF ShardTyped
<1>11. /\ MasterOK' /\ alive' \subseteq Shard
       /\ DOMAIN call' = Client /\ \A c \in Client : CallOK(c)'
       /\ pendingRpcs' \subseteq Client \X Shard /\ reply' \in [Client -> Int]
  BY <1>3 DEF StoreInv, TypeInv, TypeOK, CallOK, MasterOK
<1>12. TypeInv'
  BY <1>7, <1>8, <1>9, <1>10, <1>11 DEF TypeInv, TypeOK
<1> QED
  BY <1>2, <1>3, <1>4, <1>12 DEF Goes

\* What was answered is foretold, if the answer is.
LEMMA AnswerForetold ==
    ASSUME NEW q \in Seq([client : Client, answer : Count]),
           NEW a \in [client : Client, answer : Count],
           NEW d, \A i \in DOMAIN q : d[q[i].client] = q[i].answer, d[a.client] = a.answer
    PROVE  /\ Append(q, a) \in Seq([client : Client, answer : Count])
           /\ \A i \in DOMAIN Append(q, a) : d[Append(q, a)[i].client] = Append(q, a)[i].answer
<1> DEFINE r == Append(q, a)
<1>1. /\ r \in Seq([client : Client, answer : Count]) /\ Len(r) = Len(q) + 1 /\ Len(q) \in Nat
      /\ \A i \in 1..Len(q) : r[i] = q[i]
      /\ r[Len(q) + 1] = a /\ DOMAIN r = 1..Len(r) /\ DOMAIN q = 1..Len(q)
  BY AppendProperties, LenProperties
<1> HIDE DEF r
<1>2. ASSUME NEW i \in DOMAIN r
      PROVE  d[r[i].client] = r[i].answer
  <2>1. i = Len(q) + 1 \/ i \in DOMAIN q
    BY <1>1
  <2>2. i \in DOMAIN q => r[i] = q[i]
    BY <1>1
  <2> QED
    BY <1>1, <2>1, <2>2
<1> QED
  BY <1>1, <1>2 DEF r

\* The first message of a queue.
LEMMA FirstMoves ==
    ASSUME NEW S, NEW q \in Seq(S), NEW u \in Seq(S), q # <<>>
    PROVE  /\ Head(q) \in S /\ Tail(q) \in Seq(S)
           /\ (<<>> \o q) \o u = (<<Head(q)>> \o Tail(q)) \o u
           /\ (<<>> \o q) \o u = <<Head(q)>> \o ((<<>> \o Tail(q)) \o u)
<1>1. Head(q) \in S
  BY HeadTailProperties
<1> QED
  BY <1>1, SeqMoves

\* A worker carries out a message that takes no lock, and answers (worker-thread.ts:40).
LEMMA ExecutesGoes ==
    ASSUME StoreInv, NEW s \in Shard, WorkerExecutes(s)
    PROVE  OfShard(s) /\ Goes(s) /\ ShardTyped(s)' /\ locks' = locks
<1> DEFINE e == engine[s]
           q == inbox[s]
           m == Head(q)
           u == Unposted(s)
           a == [client |-> m.client, answer |-> Response(e, m)]
<1>0. /\ ShardTyped(s)
      /\ engine = [t \in Shard |-> engine[t]] /\ outbox = [t \in Shard |-> outbox[t]]
      /\ DOMAIN inbox = Shard /\ DOMAIN worker = Shard
  BY ShardsTyped DEF StoreInv
<1>1. /\ worker[s].pc = "idle" /\ q # <<>>
      /\ engine' = [engine EXCEPT ![s] = Execute(e, m)]
      /\ outbox' = [outbox EXCEPT ![s] = Append(outbox[s], a)]
      /\ inbox' = [inbox EXCEPT ![s] = Tail(q)]
      /\ UNCHANGED <<worker, alive, locks, master, call, pendingRpcs, reply>>
  BY DEF WorkerExecutes, Working, Post, Next1, calls
<1>2. /\ e \in Engines(s) /\ q \in Seq(MessageTo(s)) /\ u \in Seq(MessageTo(s))
      /\ outbox[s] \in Seq([client : Client, answer : Count])
  BY <1>0, ThroughTyped DEF ShardTyped, StoreInv
<1>3. m \in MessageTo(s) /\ Tail(q) \in Seq(MessageTo(s))
      /\ (<<>> \o q) \o u = <<m>> \o ((<<>> \o Tail(q)) \o u)
  BY <1>1, <1>2, FirstMoves
<1>4. Execute(e, m) \in Engines(s) /\ Response(e, m) \in Count /\ m.client \in Client
  BY <1>2, <1>3, ExecuteStays, ResponseCounts, MessageFacts
<1>5. a \in [client : Client, answer : Count] /\ a.client = m.client /\ a.answer = Response(e, m)
  BY <1>4
<1> HIDE DEF a
<1>6. engine'[s] = Execute(e, m) /\ outbox'[s] = Append(outbox[s], a) /\ inbox'[s] = Tail(q)
  BY <1>0, <1>1
<1>7. OfShard(s)
  BY <1>0, <1>1 DEF OfShard
<1>8. Running(s) = <<>> /\ Running(s)' = <<>> /\ Unposted(s)' = u
  BY <1>1 DEF Running, Unposted
<1>9. Through(s) = <<m>> \o ((<<>> \o Tail(q)) \o u) /\ Through(s)' = (<<>> \o Tail(q)) \o u
  BY <1>3, <1>6, <1>8 DEF Through
<1>10. (<<>> \o Tail(q)) \o u \in Seq(MessageTo(s))
  BY <1>2, <1>3, EmptySeq, ConcatProperties
<1>11. /\ Outcome(s)' = Outcome(s)
       /\ \A d : Foretold(s, d) => Replays(s, engine'[s], Through(s)', d) /\ d[m.client] = Response(e, m)
  <2> HIDE DEF m, q, u
  <2> QED
    BY <1>3, <1>6, <1>9, <1>10, CarriedOut DEF StoreInv
<1>12. /\ Append(outbox[s], a) \in Seq([client : Client, answer : Count])
       /\ \A d : Foretold(s, d) =>
             \A i \in DOMAIN outbox'[s] : d[outbox'[s][i].client] = outbox'[s][i].answer
  <2>1. Append(outbox[s], a) \in Seq([client : Client, answer : Count])
    BY <1>2, <1>5, AppendProperties
  <2>2. ASSUME NEW d, Foretold(s, d)
        PROVE  \A i \in DOMAIN outbox'[s] : d[outbox'[s][i].client] = outbox'[s][i].answer
    <3>1. /\ \A i \in DOMAIN outbox[s] : d[outbox[s][i].client] = outbox[s][i].answer
          /\ d[a.client] = a.answer
      BY <1>5, <1>11, <2>2 DEF Foretold
    <3> QED
      BY <1>2, <1>5, <1>6, <3>1, AnswerForetold
  <2> QED
    BY <2>1, <2>2
<1>13. Goes(s)
  <2>1. ASSUME NEW d \in [Client -> Int], Foretold(s, d)
        PROVE  Foretold(s, d)'
    BY <1>1, <1>11, <1>12, <2>1 DEF Foretold
  <2> QED
    BY <1>11, <2>1 DEF Goes
<1>14. ShardTyped(s)'
  BY <1>0, <1>1, <1>3, <1>4, <1>6, <1>12 DEF ShardTyped
<1> QED
  BY <1>1, <1>7, <1>13, <1>14

\* A worker takes a deletion and waits for its lock (worker-thread.ts:61).
LEMMA TakesGoes ==
    ASSUME StoreInv, NEW s \in Shard, WorkerTakes(s)
    PROVE  OfShard(s) /\ Goes(s) /\ ShardTyped(s)'
<1> DEFINE q == inbox[s]
           m == Head(q)
           u == Unposted(s)
<1>0. /\ ShardTyped(s)
      /\ engine = [t \in Shard |-> engine[t]] /\ outbox = [t \in Shard |-> outbox[t]]
      /\ DOMAIN inbox = Shard /\ DOMAIN worker = Shard
  BY ShardsTyped DEF StoreInv
<1>1. /\ worker[s].pc = "idle" /\ q # <<>> /\ Locks(m)
      /\ worker' = [worker EXCEPT ![s] = [pc |-> "acquire", msg |-> m]]
      /\ inbox' = [inbox EXCEPT ![s] = Tail(q)]
      /\ UNCHANGED <<engine, outbox, alive, locks, master, call, pendingRpcs, reply>>
  BY DEF WorkerTakes, Working, Next1, calls
<1>2. q \in Seq(MessageTo(s)) /\ u \in Seq(MessageTo(s))
  BY ThroughTyped DEF StoreInv
<1>3. m \in MessageTo(s) /\ Tail(q) \in Seq(MessageTo(s))
      /\ (<<>> \o q) \o u = (<<m>> \o Tail(q)) \o u
  BY <1>1, <1>2, FirstMoves
<1>4. worker'[s] = [pc |-> "acquire", msg |-> m] /\ inbox'[s] = Tail(q)
  BY <1>0, <1>1
<1>5. OfShard(s)
  BY <1>0, <1>1 DEF OfShard
<1>6. Running(s) = <<>> /\ Running(s)' = <<m>> /\ Unposted(s)' = u
  BY <1>1, <1>4 DEF Running, Unposted
<1>7. Through(s)' = Through(s)
  BY <1>3, <1>4, <1>6 DEF Through
<1>8. Goes(s)
  <2>1. engine'[s] = engine[s] /\ outbox'[s] = outbox[s] /\ worker'[s].pc # "deleted"
    BY <1>1, <1>4
  <2> QED
    BY <1>7, <2>1, MovesOn
<1>9. m \in Deletion(s)
  BY <1>1, <1>3 DEF Locks, Deletion
<1>10. ShardTyped(s)'
  <2>1. worker'[s] \in [pc : {"acquire", "locked"}, msg : Deletion(s)]
    BY <1>4, <1>9
  <2> QED
    BY <1>0, <1>1, <1>3, <1>4, <2>1 DEF ShardTyped
<1> QED
  BY <1>5, <1>8, <1>10

\* It has the lock.
LEMMA AcquiresGoes ==
    ASSUME StoreInv, NEW s \in Shard, WorkerAcquires(s)
    PROVE  OfShard(s) /\ Goes(s) /\ ShardTyped(s)'
<1>0. /\ ShardTyped(s)
      /\ engine = [t \in Shard |-> engine[t]] /\ outbox = [t \in Shard |-> outbox[t]]
      /\ DOMAIN inbox = Shard /\ DOMAIN worker = Shard
  BY ShardsTyped DEF StoreInv
<1>1. /\ worker[s].pc = "acquire"
      /\ worker' = [worker EXCEPT ![s].pc = "locked"]
      /\ UNCHANGED <<engine, inbox, outbox, alive, master, call, pendingRpcs, reply>>
  BY DEF WorkerAcquires, Working, calls
<1>2. worker[s] \in [pc : {"acquire", "locked"}, msg : Deletion(s)]
  BY <1>0, <1>1 DEF ShardTyped, Quiet
<1>3. /\ worker'[s] = [worker[s] EXCEPT !.pc = "locked"]
      /\ \A t \in Shard \ {s} : worker'[t] = worker[t]
      /\ DOMAIN worker' = Shard
  BY <1>0, <1>1
<1>4. /\ worker'[s] \in [pc : {"acquire", "locked"}, msg : Deletion(s)]
      /\ worker'[s].pc = "locked" /\ worker'[s].msg = worker[s].msg
  BY <1>2, <1>3
<1>5. OfShard(s)
  BY <1>0, <1>1, <1>3 DEF OfShard
<1>6. Through(s)' = Through(s)
  <2>1. Running(s)' = Running(s)
    BY <1>1, <1>4 DEF Running
  <2>2. Unposted(s)' = Unposted(s)
    BY <1>1 DEF Unposted
  <2> QED
    BY <1>1, <2>1, <2>2 DEF Through
<1>7. Goes(s)
  BY <1>1, <1>4, <1>6, MovesOn
<1>8. ShardTyped(s)'
  BY <1>0, <1>1, <1>4 DEF ShardTyped
<1> QED
  BY <1>5, <1>7, <1>8

\* It deletes, and has the count to answer.
LEMMA DeletesGoes ==
    ASSUME StoreInv, NEW s \in Shard, WorkerDeletes(s)
    PROVE  OfShard(s) /\ Goes(s) /\ ShardTyped(s)'
<1> DEFINE e == engine[s]
           q == inbox[s]
           m == worker[s].msg
           u == Unposted(s)
           w == [pc |-> "deleted", client |-> m.client, count |-> Response(e, m)]
<1>0. /\ ShardTyped(s)
      /\ engine = [t \in Shard |-> engine[t]] /\ outbox = [t \in Shard |-> outbox[t]]
      /\ DOMAIN inbox = Shard /\ DOMAIN worker = Shard
  BY ShardsTyped DEF StoreInv
<1>1. /\ worker[s].pc = "locked"
      /\ engine' = [engine EXCEPT ![s] = Execute(e, m)]
      /\ worker' = [worker EXCEPT ![s] = w]
      /\ UNCHANGED <<inbox, outbox, alive, locks, master, call, pendingRpcs, reply>>
  BY DEF WorkerDeletes, Working, calls
<1>2. m \in Deletion(s) /\ m \in MessageTo(s)
  <2>1. worker[s] \in [pc : {"acquire", "locked"}, msg : Deletion(s)]
    BY <1>0, <1>1 DEF ShardTyped, Quiet
  <2> QED
    BY <2>1 DEF Deletion
<1>3. e \in Engines(s) /\ q \in Seq(MessageTo(s)) /\ u \in Seq(MessageTo(s))
  BY ThroughTyped DEF StoreInv
<1>4. Execute(e, m) \in Engines(s) /\ Response(e, m) \in Count /\ m.client \in Client
  BY <1>2, <1>3, ExecuteStays, ResponseCounts, MessageFacts
<1>5. /\ w \in [pc : {"deleted"}, client : Client, count : Count]
      /\ w.client = m.client /\ w.count = Response(e, m) /\ w.pc = "deleted"
  BY <1>4
<1> HIDE DEF w
<1>6. engine'[s] = Execute(e, m) /\ worker'[s] = w
  BY <1>0, <1>1
<1>7. OfShard(s)
  BY <1>0, <1>1 DEF OfShard
<1>8. Running(s) = <<m>> /\ Running(s)' = <<>> /\ Unposted(s)' = u
  BY <1>1, <1>5, <1>6 DEF Running, Unposted
<1>9. /\ Through(s) = <<m>> \o ((<<>> \o q) \o u) /\ Through(s)' = (<<>> \o q) \o u
      /\ (<<>> \o q) \o u \in Seq(MessageTo(s))
  <2>1. (<<m>> \o q) \o u = <<m>> \o ((<<>> \o q) \o u)
    <3> HIDE DEF m, q, u
    <3> QED
      BY <1>2, <1>3, SeqMoves
  <2>2. (<<>> \o q) \o u \in Seq(MessageTo(s))
    BY <1>3, EmptySeq, ConcatProperties
  <2> QED
    BY <1>1, <1>8, <2>1, <2>2 DEF Through
<1>10. /\ Outcome(s)' = Outcome(s)
       /\ \A d : Foretold(s, d) => Replays(s, engine'[s], Through(s)', d) /\ d[m.client] = Response(e, m)
  <2> HIDE DEF m, q, u
  <2> QED
    BY <1>2, <1>6, <1>9, CarriedOut DEF StoreInv
<1>11. Goes(s)
  <2>1. ASSUME NEW d \in [Client -> Int], Foretold(s, d)
        PROVE  Foretold(s, d)'
    BY <1>1, <1>5, <1>6, <1>10, <2>1 DEF Foretold
  <2> QED
    BY <1>10, <2>1 DEF Goes
<1>12. ShardTyped(s)'
  BY <1>0, <1>1, <1>4, <1>5, <1>6 DEF ShardTyped
<1> QED
  BY <1>7, <1>11, <1>12

\* It answers, and releases the lock.
LEMMA AnswersGoes ==
    ASSUME StoreInv, NEW s \in Shard, WorkerAnswers(s)
    PROVE  OfShard(s) /\ Goes(s) /\ ShardTyped(s)'
<1> DEFINE a == [client |-> worker[s].client, answer |-> worker[s].count]
<1>0. /\ ShardTyped(s)
      /\ engine = [t \in Shard |-> engine[t]] /\ outbox = [t \in Shard |-> outbox[t]]
      /\ DOMAIN inbox = Shard /\ DOMAIN worker = Shard
  BY ShardsTyped DEF StoreInv
<1>1. /\ worker[s].pc = "deleted"
      /\ outbox' = [outbox EXCEPT ![s] = Append(outbox[s], a)]
      /\ worker' = [worker EXCEPT ![s] = Quiet]
      /\ UNCHANGED <<engine, inbox, alive, master, call, pendingRpcs, reply>>
  BY DEF WorkerAnswers, Working, Post, calls
<1>2. worker[s].client \in Client /\ worker[s].count \in Count
  <2>1. worker[s] \in [pc : {"deleted"}, client : Client, count : Count]
    BY <1>0, <1>1 DEF ShardTyped, Quiet
  <2> QED
    BY <2>1
<1>3. a \in [client : Client, answer : Count] /\ a.client = worker[s].client /\ a.answer = worker[s].count
  BY <1>2
<1> HIDE DEF a
<1>4. /\ outbox'[s] = Append(outbox[s], a) /\ worker'[s] = Quiet
      /\ outbox[s] \in Seq([client : Client, answer : Count])
  BY <1>0, <1>1 DEF ShardTyped
<1>5. OfShard(s)
  BY <1>0, <1>1 DEF OfShard
<1>6. Through(s)' = Through(s)
  <2>1. Running(s) = <<>> /\ Running(s)' = <<>>
    BY <1>1, <1>4 DEF Running, Quiet
  <2>2. Unposted(s)' = Unposted(s)
    BY <1>1 DEF Unposted
  <2> QED
    BY <1>1, <2>1, <2>2 DEF Through
<1>7. Outcome(s)' = Outcome(s)
  <2>1. Outcome(s) = FoldLeft(Execute, engine[s], Through(s))
    BY DEF Outcome, Through
  <2>2. Outcome(s)' = FoldLeft(Execute, engine'[s], Through(s)')
    BY DEF Outcome, Through
  <2> QED
    BY <1>1, <1>6, <2>1, <2>2
<1>8. ASSUME NEW d \in [Client -> Int], Foretold(s, d)
      PROVE  Foretold(s, d)'
  <2>1. Replays(s, engine'[s], Through(s)', d)
    BY <1>1, <1>6, <1>8 DEF Foretold
  <2>2. /\ \A i \in DOMAIN outbox[s] : d[outbox[s][i].client] = outbox[s][i].answer
        /\ d[a.client] = a.answer
    BY <1>1, <1>3, <1>8 DEF Foretold
  <2>3. \A i \in DOMAIN outbox'[s] : d[outbox'[s][i].client] = outbox'[s][i].answer
    BY <1>3, <1>4, <2>2, AnswerForetold
  <2> QED
    BY <1>4, <2>1, <2>3 DEF Foretold, Quiet
<1>9. ShardTyped(s)'
  <2>1. Append(outbox[s], a) \in Seq([client : Client, answer : Count])
    BY <1>3, <1>4, AppendProperties
  <2> QED
    BY <1>0, <1>1, <1>4, <2>1 DEF ShardTyped
<1> QED
  BY <1>5, <1>7, <1>8, <1>9 DEF Goes

\* Whatever a worker does.
LEMMA WorkerGoes ==
    ASSUME StoreInv, NEW s \in Shard, Worker(s)
    PROVE  TypeInv' /\ DueInv' /\ (\A t \in Shard : Outcome(t)' = Outcome(t)) /\ UNCHANGED <<call, reply>>
<1>1. OfShard(s) /\ Goes(s) /\ ShardTyped(s)'
  BY ExecutesGoes, TakesGoes, AcquiresGoes, DeletesGoes, AnswersGoes DEF Worker
<1>2. locks' \in [Shard -> {FREE, TAKEN}]
  <2>1. WorkerExecutes(s) => locks' = locks
    BY ExecutesGoes
  <2>2. LockInv
    BY DEF StoreInv, ClusterInv
  <2>3. ~WorkerExecutes(s) => LockInv'
    BY <2>2, WorkerSteps DEF Worker
  <2> QED
    BY <2>1, <2>2, <2>3 DEF LockInv
<1> QED
  BY <1>1, <1>2, ShardGoes

\* A queue that is not empty.
LEMMA QueueParts ==
    ASSUME NEW S, NEW q \in Seq(S), q # <<>>
    PROVE  /\ Head(q) \in S /\ Tail(q) \in Seq(S)
           /\ Head(q) = q[1] /\ Len(q) \in Nat \ {0} /\ Len(Tail(q)) = Len(q) - 1
           /\ \A i \in 1..Len(Tail(q)) : Tail(q)[i] = q[i + 1]
           /\ DOMAIN q = 1..Len(q) /\ DOMAIN Tail(q) = 1..Len(Tail(q))
<1>1. /\ Head(q) \in S /\ Tail(q) \in Seq(S) /\ Len(Tail(q)) = Len(q) - 1
      /\ \A i \in 1..Len(Tail(q)) : Tail(q)[i] = q[i + 1]
  BY HeadTailProperties
<1>2. Len(q) \in Nat \ {0} /\ DOMAIN q = 1..Len(q) /\ DOMAIN Tail(q) = 1..Len(Tail(q))
  BY <1>1, EmptySeq, LenProperties
<1>3. Head(q) = q[1]
  BY <1>2
<1> QED
  BY <1>1, <1>2, <1>3

\* The master takes an answer: it is what the shard owed, and the last one makes the sum
\* what was promised (cluster-coordinator.ts:89).
LEMMA MasterGoes ==
    ASSUME StoreInv, NEW s \in Shard, handleWorkerMessage(s)
    PROVE  /\ TypeInv' /\ DueInv' /\ \A t \in Shard : Outcome(t)' = Outcome(t)
           /\ \E c \in Client :
                 /\ call[c] # Quiet
                 /\ \/ call' = [call EXCEPT ![c] = Quiet] /\ reply' = [reply EXCEPT ![c] = call[c].promise]
                    \/ /\ call'[c] # Quiet /\ call'[c].promise = call[c].promise
                       /\ call'[c].cmd = call[c].cmd
                       /\ (\A d \in Client \ {c} : call'[d] = call[d]) /\ reply' = reply
<1>q. PICK q : q = outbox[s]
  OBVIOUS
<1>c. PICK c : c = Head(q).client
  OBVIOUS
<1>n. PICK n : n = Head(q).answer
  OBVIOUS
<1>s. PICK sum : sum = call[c].sum + n
  OBVIOUS
<1>1. /\ master = Quiet /\ q # <<>> /\ outbox' = [outbox EXCEPT ![s] = Tail(q)]
      /\ UNCHANGED <<engine, inbox, worker, alive, locks, master>>
  BY <1>q DEF handleWorkerMessage
<1>2. /\ outbox \in [Shard -> Seq([client : Client, answer : Count])]
      /\ q \in Seq([client : Client, answer : Count])
      /\ DOMAIN call = Client /\ \A d \in Client : CallOK(d)
      /\ reply \in [Client -> Int] /\ pendingRpcs \subseteq Client \X Shard
  BY <1>q DEF StoreInv, TypeInv, TypeOK
<1>3. /\ Head(q) \in [client : Client, answer : Count] /\ Tail(q) \in Seq([client : Client, answer : Count])
      /\ Head(q) = q[1] /\ Len(q) \in Nat \ {0} /\ Len(Tail(q)) = Len(q) - 1
      /\ \A i \in 1..Len(Tail(q)) : Tail(q)[i] = q[i + 1]
      /\ DOMAIN q = 1..Len(q) /\ DOMAIN Tail(q) = 1..Len(Tail(q))
  BY <1>1, <1>2, QueueParts
<1>4. c \in Client /\ n \in Int
  BY <1>3, <1>c, <1>n DEF Count, Missing, Ok
<1>5. <<c, s>> \in pendingRpcs /\ call[c] # Quiet
  <2>1. 1 \in DOMAIN q /\ q[1].client = c
    BY <1>3, <1>c
  <2>2. c \in InFlight(s) /\ master.pc # "closed"
    BY <1>1, <1>q, <2>1 DEF InFlight, ClientsOf, Quiet
  <2>3. <<c, s>> \in pendingRpcs
    BY <2>2 DEF StoreInv, ClusterInv, FlowInv, Accounted
  <2> QED
    BY <2>3 DEF StoreInv, ClusterInv, FlowInv, Accounted
<1>6. /\ pendingRpcs' = pendingRpcs \ {<<c, s>>}
      /\ IF Complete(c, pendingRpcs')
         THEN reply' = [reply EXCEPT ![c] = sum] /\ call' = [call EXCEPT ![c] = Quiet]
         ELSE call' = [call EXCEPT ![c].sum = sum] /\ reply' = reply
  BY <1>5, <1>q, <1>c, <1>n, <1>s DEF handleWorkerMessage
<1>7. /\ DOMAIN call[c] = {"pc", "cmd", "sum", "promise"} /\ call[c].pc = "called"
      /\ call[c].sum \in Int /\ call[c].promise \in Int /\ sum \in Int
  BY <1>2, <1>4, <1>5, <1>s DEF CallOK
<1>8. /\ s \in Awaited(c) /\ Awaited(c)' = Awaited(c) \ {s} /\ Awaited(c) \in SUBSET Shard
      /\ \A d \in Client \ {c} : Awaited(d)' = Awaited(d)
  <2>1. \A d \in Client : ToPost(d) = {} /\ ToPost(d)' = {}
    BY <1>1 DEF ToPost, Quiet
  <2>2. \A d \in Client, t \in Shard :
            <<d, t>> \in pendingRpcs' <=> <<d, t>> \in pendingRpcs /\ ~(d = c /\ t = s)
    BY <1>6
  <2> QED
    BY <1>4, <1>5, <2>1, <2>2 DEF Awaited
<1>9. Complete(c, pendingRpcs') => Awaited(c)' = {}
  <2>1. ToPost(c)' = {}
    BY <1>1 DEF ToPost, Quiet
  <2>2. ASSUME Complete(c, pendingRpcs'), NEW t \in Shard, <<c, t>> \in pendingRpcs'
        PROVE  FALSE
    BY <2>2 DEF Complete
  <2> QED
    BY <2>1, <2>2 DEF Awaited
<1>10. PICK due \in Dues : (\A t \in Shard : Foretold(t, due[t])) /\ Promised(due)
  BY DEF StoreInv, DueInv
<1>11. call[c].promise = sum + Total(DueFrom(due, c), Awaited(c)')
       /\ Total(DueFrom(due, c), {}) = 0
  <2>1. DueFrom(due, c) \in [Shard -> Int] /\ DueFrom(due, c)[s] = due[s][c]
    BY <1>4 DEF Dues, DueFrom
  <2>2. due[s][c] = n
    <3>1. \A i \in DOMAIN q : due[s][q[i].client] = q[i].answer
      BY <1>10, <1>q DEF Foretold
    <3>2. 1 \in DOMAIN q /\ q[1].client = c /\ q[1].answer = n
      BY <1>3, <1>c, <1>n
    <3> QED
      BY <3>1, <3>2
  <2>3. call[c].promise = call[c].sum + Total(DueFrom(due, c), Awaited(c))
    BY <1>1, <1>4, <1>5, <1>10 DEF Promised, Quiet
  <2>4. /\ Total(DueFrom(due, c), Awaited(c)) = n + Total(DueFrom(due, c), Awaited(c) \ {s})
        /\ Total(DueFrom(due, c), Awaited(c) \ {s}) \in Int
        /\ Total(DueFrom(due, c), {}) = 0
    <3>1. Awaited(c) \ {s} \in SUBSET Shard
      BY <1>8
    <3> QED
      BY <1>8, <2>1, <2>2, <3>1, TotalFacts
  <2> QED
    BY <1>4, <1>7, <1>8, <2>3, <2>4, <1>s
<1>12. /\ DOMAIN call' = Client /\ (\A d \in Client : CallOK(d)')
       /\ reply' \in [Client -> Int]
       /\ \A d \in Client \ {c} : call'[d] = call[d]
       /\ \/ /\ call' = [call EXCEPT ![c] = Quiet] /\ reply' = [reply EXCEPT ![c] = call[c].promise]
             /\ call'[c] = Quiet
          \/ /\ call'[c] # Quiet /\ call'[c].promise = call[c].promise /\ reply' = reply
             /\ call'[c].sum = sum /\ call'[c].cmd = call[c].cmd
  <2>1. CASE Complete(c, pendingRpcs')
    <3>1. call[c].promise = sum + 0
      BY <1>9, <1>11, <2>1
    <3>2. call[c].promise = sum
      BY <1>7, <3>1
    <3> QED
      BY <1>2, <1>4, <1>6, <1>7, <2>1, <3>2 DEF CallOK
  <2>2. CASE ~Complete(c, pendingRpcs')
    <3>1. call' = [call EXCEPT ![c].sum = sum] /\ reply' = reply
      BY <1>6, <2>2
    <3>2. call'[c] = [call[c] EXCEPT !.sum = sum] /\ \A d \in Client \ {c} : call'[d] = call[d]
      BY <1>2, <1>4, <3>1
    <3>3. /\ DOMAIN call'[c] = {"pc", "cmd", "sum", "promise"} /\ call'[c].pc = "called"
          /\ call'[c].sum = sum /\ call'[c].promise = call[c].promise /\ call'[c].cmd = call[c].cmd
      BY <1>7, <3>2
    <3>4. call'[c] # Quiet
      BY <3>3 DEF Quiet
    <3>5. DOMAIN call' = Client /\ \A d \in Client : CallOK(d)'
      BY <1>2, <1>7, <3>1, <3>2, <3>3 DEF CallOK
    <3> QED
      BY <1>2, <3>1, <3>2, <3>3, <3>4, <3>5
  <2> QED
    BY <2>1, <2>2
<1>13. \A t \in Shard : engine'[t] = engine[t] /\ Through(t)' = Through(t)
                        /\ worker'[t] = worker[t] /\ (t # s => outbox'[t] = outbox[t])
  <2>1. \A t \in Shard : Running(t)' = Running(t) /\ Unposted(t)' = Unposted(t)
    BY <1>1 DEF Running, Unposted
  <2> QED
    BY <1>1, <1>2, <2>1 DEF Through
<1>14. \A t \in Shard : Outcome(t)' = Outcome(t)
  <2>1. ASSUME NEW t \in Shard
        PROVE  Outcome(t)' = Outcome(t)
    <3>1. Outcome(t) = FoldLeft(Execute, engine[t], Through(t))
      BY DEF Outcome, Through
    <3>2. Outcome(t)' = FoldLeft(Execute, engine'[t], Through(t)')
      BY DEF Outcome, Through
    <3> QED
      BY <1>13, <3>1, <3>2
  <2> QED
    BY <2>1
<1>15. ASSUME NEW t \in Shard
       PROVE  Foretold(t, due[t])'
  <2>1. Foretold(t, due[t])
    BY <1>10
  <2>2. \A i \in DOMAIN outbox'[t] : due[t][outbox'[t][i].client] = outbox'[t][i].answer
    <3>1. CASE t = s
      <4>1. outbox'[s] = Tail(q)
        BY <1>1, <1>2
      <4>2. \A i \in DOMAIN Tail(q) : Tail(q)[i] = q[i + 1] /\ i + 1 \in DOMAIN q
        BY <1>3
      <4>3. \A i \in DOMAIN q : due[s][q[i].client] = q[i].answer
        BY <2>1, <3>1, <1>q DEF Foretold
      <4> QED
        BY <3>1, <4>1, <4>2, <4>3
    <3>2. CASE t # s
      BY <1>13, <2>1, <3>2 DEF Foretold
    <3> QED
      BY <3>1, <3>2
  <2> QED
    BY <1>13, <2>1, <2>2 DEF Foretold
<1>16. Promised(due)'
  <2>1. ASSUME NEW d \in Client, call'[d] # Quiet
        PROVE  call'[d].promise = call'[d].sum + Total(DueFrom(due, d), Awaited(d)')
    <3>1. CASE d = c
      BY <1>11, <1>12, <2>1, <3>1
    <3>2. CASE d # c
      <4>1. call'[d] = call[d] /\ Awaited(d)' = Awaited(d) /\ master.pc # "closed"
        BY <1>1, <1>8, <1>12, <3>2 DEF Quiet
      <4> QED
        BY <1>10, <2>1, <4>1 DEF Promised
    <3> QED
      BY <3>1, <3>2
  <2> QED
    BY <2>1 DEF Promised
<1>17. DueInv'
  BY <1>15, <1>16 DEF DueInv
<1>18. TypeInv'
  <2>1. outbox' \in [Shard -> Seq([client : Client, answer : Count])]
    BY <1>1, <1>2, <1>3
  <2>2. MasterOK' /\ pendingRpcs' \subseteq Client \X Shard
    BY <1>1, <1>2, <1>6 DEF StoreInv, TypeInv, TypeOK, MasterOK
  <2> QED
    BY <1>1, <1>12, <2>1, <2>2 DEF StoreInv, TypeInv, TypeOK
<1> QED
  BY <1>4, <1>5, <1>12, <1>14, <1>17, <1>18

\* Threads end; the calls under way end with the cluster.
LEMMA EndsGo ==
    ASSUME StoreInv, (\E s \in Shard : WorkerDies(s)) \/ close \/ UNCHANGED vars
    PROVE  TypeInv' /\ DueInv' /\ (\A t \in Shard : Outcome(t)' = Outcome(t)) /\ UNCHANGED <<call, reply>>
<1>1. /\ UNCHANGED <<engine, inbox, outbox, worker, locks, call, reply>>
      /\ \/ master' = master /\ pendingRpcs' = pendingRpcs
         \/ master = Quiet /\ master' = [pc |-> "closed"] /\ pendingRpcs' = {}
      /\ alive' \subseteq alive \/ alive' = {}
  BY DEF WorkerDies, close, vars, threads, calls
<1>2. \A t \in Shard : Through(t)' = Through(t)
  <2>1. \A t \in Shard : Running(t)' = Running(t) /\ Unposted(t)' = Unposted(t)
    BY <1>1 DEF Running, Unposted, Quiet
  <2> QED
    BY <1>1, <2>1 DEF Through
<1>3. \A t \in Shard : Goes(t)
  BY <1>1, <1>2, MovesOn
<1>4. DueInv'
  <2>1. PICK due \in Dues : (\A t \in Shard : Foretold(t, due[t])) /\ Promised(due)
    BY DEF StoreInv, DueInv
  <2>2. ASSUME NEW t \in Shard
        PROVE  Foretold(t, due[t])'
    <3>1. due[t] \in [Client -> Int]
      BY DEF Dues
    <3> QED
      BY <1>3, <2>1, <3>1 DEF Goes
  <2>3. Promised(due)'
    <3>1. CASE master' = master /\ pendingRpcs' = pendingRpcs
      <4>1. \A c \in Client : Awaited(c)' = Awaited(c)
        BY <3>1 DEF Awaited, ToPost
      <4> QED
        BY <1>1, <2>1, <3>1, <4>1 DEF Promised
    <3>2. CASE master' = [pc |-> "closed"]
      BY <3>2 DEF Promised
    <3> QED
      BY <1>1, <3>1, <3>2
  <2> QED
    BY <2>2, <2>3 DEF DueInv
<1>5. MasterOK' /\ pendingRpcs' \subseteq Client \X Shard /\ alive' \subseteq Shard
  BY <1>1 DEF StoreInv, TypeInv, TypeOK, MasterOK
<1>6. TypeInv'
  BY <1>1, <1>5 DEF StoreInv, TypeInv, TypeOK, CallOK
<1> QED
  BY <1>1, <1>3, <1>4, <1>6 DEF Goes
-----------------------------------------------------------------------------
(***************************************************************************)
(* One store: what all shards come to (ClusterStore).                      *)
(***************************************************************************)
Merged == [k \in Key |-> Outcome(Owner[k])[k]]
Cmds == [c \in Client |-> IF call[c] = Quiet THEN <<>> ELSE call[c].cmd]
Owed == [c \in Client |-> IF call[c] = Quiet THEN {} ELSE {call[c].promise}]

\* The store without the entries that have gone.
Left(lost) == [k \in Key |-> IF k \in lost THEN NoEntry ELSE Merged[k]]

\* A call of cmd is owed v.
PromisedTo(c, cmd, v) ==
    /\ Cmds[c] = <<>>
    /\ Cmds' = [Cmds EXCEPT ![c] = cmd]
    /\ Owed' = [Owed EXCEPT ![c] = {v}]
    /\ reply' = [reply EXCEPT ![c] = Ok]

\* What a command does to the store, and is promised.
Called(c, cmd, msgs) ==
    /\ TypeInv' /\ DueInv'
    /\ PromisedTo(c, cmd, Total(Answers(msgs), DOMAIN msgs))
    /\ \A k \in Key : Merged'[k] = IF Owner[k] \in DOMAIN msgs
                                    THEN Execute(Outcome(Owner[k]), msgs[Owner[k]])[k]
                                    ELSE Merged[k]

\* A call is a promise.
LEMMA BeginsCalled ==
    ASSUME StoreInv, NEW c \in Client, NEW cmd, NEW msgs, Fine(c, msgs), Begins(c, cmd, msgs), TypeInv'
    PROVE  Called(c, cmd, msgs)
<1>1. DueInv'
  BY BeginsDue
<1>2. PICK v : v = Total(Answers(msgs), DOMAIN msgs)
  OBVIOUS
<1>3. /\ call[c] = Quiet /\ reply' = [reply EXCEPT ![c] = Ok]
      /\ call' = [call EXCEPT ![c] = [pc |-> "called", cmd |-> cmd, sum |-> 0, promise |-> v]]
  BY <1>2, BeginPromises DEF StoreInv, Begins
<1>4. DOMAIN call = Client
  BY DEF StoreInv, TypeInv, TypeOK
<1>5. PromisedTo(c, cmd, v)
  <2>1. Cmds[c] = <<>>
    BY <1>3 DEF Cmds
  <2>2. /\ call'[c] = [pc |-> "called", cmd |-> cmd, sum |-> 0, promise |-> v]
        /\ \A d \in Client \ {c} : call'[d] = call[d]
    BY <1>3, <1>4
  <2>3. call'[c] # Quiet /\ call'[c].promise = v /\ call'[c].cmd = cmd
    BY <2>2 DEF Quiet
  <2>4. Owed' = [Owed EXCEPT ![c] = {v}]
    <3>1. \A d \in Client : Owed'[d] = IF d = c THEN {v} ELSE Owed[d]
      BY <2>2, <2>3 DEF Owed
    <3> QED
      BY <3>1 DEF Owed
  <2>5. Cmds' = [Cmds EXCEPT ![c] = cmd]
    <3>1. \A d \in Client : Cmds'[d] = IF d = c THEN cmd ELSE Cmds[d]
      BY <2>2, <2>3 DEF Cmds
    <3> QED
      BY <3>1 DEF Cmds
  <2> QED
    BY <1>3, <2>1, <2>4, <2>5 DEF PromisedTo
<1>6. ASSUME NEW s \in Shard
      PROVE  Outcome(s)' = IF s \in DOMAIN msgs THEN Execute(Outcome(s), msgs[s]) ELSE Outcome(s)
  <2>1. /\ Outcome(s) = FoldLeft(Execute, engine[s], Through(s))
        /\ Outcome(s)' = FoldLeft(Execute, engine[s], Through(s)')
        /\ Through(s)' = IF s \in DOMAIN msgs THEN Append(Through(s), msgs[s]) ELSE Through(s)
    BY DEF Outcome, Through, Begins
  <2>2. CASE s \in DOMAIN msgs
    <3>1. /\ engine[s] \in Engines(s) /\ Through(s) \in Seq(MessageTo(s)) /\ msgs[s] \in MessageTo(s)
      BY <2>2, ThroughTyped DEF StoreInv, Fine
    <3>2. FoldLeft(Execute, engine[s], Append(Through(s), msgs[s]))
              = Execute(FoldLeft(Execute, engine[s], Through(s)), msgs[s])
      BY <3>1, FoldLonger
    <3> QED
      BY <2>1, <2>2, <3>2
  <2>3. CASE s \notin DOMAIN msgs
    BY <2>1, <2>3
  <2> QED
    BY <2>2, <2>3
<1>7. \A k \in Key : Merged'[k] = IF Owner[k] \in DOMAIN msgs
                                   THEN Execute(Outcome(Owner[k]), msgs[Owner[k]])[k]
                                   ELSE Merged[k]
  <2>1. ASSUME NEW k \in Key
        PROVE  Merged'[k] = IF Owner[k] \in DOMAIN msgs
                            THEN Execute(Outcome(Owner[k]), msgs[Owner[k]])[k]
                            ELSE Merged[k]
    <3>1. Owner[k] \in Shard
      BY KeysGo
    <3>2. Merged'[k] = Outcome(Owner[k])'[k] /\ Merged[k] = Outcome(Owner[k])[k]
      BY DEF Merged
    <3> QED
      BY <1>6, <3>1, <3>2
  <2> QED
    BY <2>1
<1> QED
  BY <1>1, <1>2, <1>5, <1>7 DEF Called, PromisedTo

\* A command on one shard: its answer is the promise.
LEMMA OneShardCalled ==
    ASSUME StoreInv, NEW c \in Client, NEW s \in Shard, NEW m \in MessageTo(s), m.client = c,
           NEW cmd, Send(c, cmd, To(s, m))
    PROVE  /\ TypeInv' /\ DueInv'
           /\ PromisedTo(c, cmd, Response(Outcome(s), m))
           /\ \A k \in Key : Merged'[k] = IF Owner[k] = s THEN Execute(Outcome(s), m)[k] ELSE Merged[k]
<1>0. PICK msgs : msgs = To(s, m)
  OBVIOUS
<1>1. DOMAIN msgs = {s} /\ msgs[s] = m
  BY <1>0 DEF To
<1>2. Fine(c, msgs)
  BY <1>1 DEF Fine
<1>3. Called(c, cmd, msgs)
  BY <1>0, <1>2, SendBegins, BeginsCalled
<1>4. Total(Answers(msgs), DOMAIN msgs) = Response(Outcome(s), m)
  <2>1. Answers(msgs) \in [Shard -> Int]
    BY <1>0, <1>2, BeginPromises DEF StoreInv, Send
  <2>2. Answers(msgs)[s] = Response(Outcome(s), m) /\ Answers(msgs)[s] \in Int
    BY <1>1, <2>1 DEF Answers
  <2>3. /\ {s} \in SUBSET Shard /\ s \in {s} /\ {s} \ {s} = {}
    OBVIOUS
  <2>4. Total(Answers(msgs), {s}) = Answers(msgs)[s] + 0
    BY <2>1, <2>3, TotalFacts
  <2> QED
    BY <1>1, <2>2, <2>4
<1> QED
  BY <1>1, <1>3, <1>4 DEF Called, PromisedTo

\* The state of the store.
LEMMA MergedTyped ==
    ASSUME TypeInv
    PROVE  /\ Merged \in [Key -> EngineEntry] /\ Merged' = [k \in Key |-> Merged'[k]]
           /\ \A k \in Key : Owner[k] \in Shard /\ Merged[k] = Outcome(Owner[k])[k]
           /\ \A s \in Shard : /\ Outcome(s) \in [Key -> EngineEntry]
                               /\ IsFiniteSet(Holding(Outcome(s), Key))
                               /\ \A k \in Key : Owner[k] # s => Outcome(s)[k] = NoEntry
<1>1. \A s \in Shard : Outcome(s) \in Engines(s)
  BY ThroughTyped
<1>2. \A k \in Key : Owner[k] \in Shard
  BY KeysGo
<1>3. \A s \in Shard : /\ Outcome(s) \in [Key -> EngineEntry]
                       /\ IsFiniteSet(Holding(Outcome(s), Key))
                       /\ \A k \in Key : Owner[k] # s => Outcome(s)[k] = NoEntry
  BY <1>1 DEF Engines
<1>4. \A k \in Key : Outcome(Owner[k])[k] \in EngineEntry
  BY <1>2, <1>3
<1> QED
  BY <1>2, <1>3, <1>4 DEF Merged

\* The store's own operators are the coordinator's and the library's.
LEMMA StoreOperators ==
    /\ \A S : Store!Cardinality(S) = Cardinality(S)
    /\ \A q : Store!ToSet(q) = ToSet(q)
    /\ Store!NoEntry = NoEntry
    /\ \A lost : Store!Faded(lost) = Left(lost)
    /\ \A e : Store!PresentIn(e) = Holding(e, Key)
<1>1. Store!Missing = Missing /\ Store!NoEntry = NoEntry
  BY DEF Store!Missing, Missing, Store!NoEntry, NoEntry
<1>2. \A lost : Store!Faded(lost) = Left(lost)
  BY <1>1 DEF Store!Faded, Left, Merged
<1>3. \A e : Store!PresentIn(e) = Holding(e, Key)
  BY <1>1 DEF Store!PresentIn, Holding
<1> QED
  BY <1>1, <1>2, <1>3 DEF Store!Cardinality, Cardinality, Store!ToSet, ToSet

\* What can have gone when a command is called, and is said by its messages.
LEMMA VanishingSame ==
    ASSUME NEW keys \in SUBSET Key
    PROVE  Store!Vanishing(keys) = Vanishing(keys) /\ Vanishing(keys) \in SUBSET keys
<1>1. Vanishing(keys) = {k \in keys : Merged[k].number # Missing /\ (Limited \/ Merged[k].expires)}
  BY KeysGo DEF Vanishing, Merged
<1>2. Store!Vanishing(keys)
          = {k \in keys \cap Store!PresentIn(Merged) : Limited \/ Merged[k].expires}
  BY DEF Store!Vanishing, Merged
<1>3. keys \cap Store!PresentIn(Merged) = {k \in keys : Merged[k].number # Missing}
  BY StoreOperators DEF Holding
<1> QED
  BY <1>1, <1>2, <1>3

\* A promise is a call of the store.
LEMMA PromiseCalls ==
    ASSUME NEW c, NEW cmd, NEW v, PromisedTo(c, cmd, v)
    PROVE  Store!Call(c, cmd) /\ Store!Owe(c, v)
BY DEF PromisedTo, Store!Call, Store!Owe, Owed, Cmds, Store!Ok, Ok, Store!None

\* A shard has its part of what has gone and of what is left.
LEMMA SharesFade ==
    ASSUME TypeInv, NEW s \in Shard, NEW lost, NEW m, m.lost = Share(lost, s)
    PROVE  /\ Faded(Outcome(s), m) \in Engines(s)
           /\ \A k \in Key : Owner[k] = s => Faded(Outcome(s), m)[k] = Left(lost)[k]
           /\ \A keys \in SUBSET Key :
                 /\ Holding(Faded(Outcome(s), m), Share(keys, s))
                       = Holding(Left(lost), Share(keys, s))
                 /\ IsFiniteSet(Holding(Left(lost), Share(keys, s)))
           /\ Holding(Faded(Outcome(s), m), Key) = Holding(Left(lost), Share(Key, s))
<1>1. Faded(Outcome(s), m) \in Engines(s)
  BY ThroughTyped, FadedStays
<1>2. PICK e : e = Faded(Outcome(s), m)
  OBVIOUS
<1>3. /\ IsFiniteSet(Holding(e, Key)) /\ \A k \in Key : Owner[k] # s => e[k] = NoEntry
  BY <1>1, <1>2 DEF Engines
<1>4. \A k \in Key : Owner[k] = s => e[k] = Left(lost)[k]
  BY <1>2 DEF Faded, Left, Merged, Share
<1>5. ASSUME NEW keys \in SUBSET Key
      PROVE  /\ Holding(e, Share(keys, s)) = Holding(Left(lost), Share(keys, s))
             /\ IsFiniteSet(Holding(Left(lost), Share(keys, s)))
  <2>1. Holding(e, Share(keys, s)) = Holding(Left(lost), Share(keys, s))
    BY <1>4 DEF Holding, Share
  <2>2. Holding(e, Share(keys, s)) \in SUBSET Holding(e, Key)
    BY DEF Holding, Share
  <2> QED
    BY <1>3, <2>1, <2>2, FS_Subset
<1>6. Holding(e, Key) = Holding(Left(lost), Share(Key, s))
  BY <1>3, <1>4 DEF Holding, NoEntry, Share
<1> QED
  BY <1>1, <1>2, <1>4, <1>5, <1>6

\* A read has what the store has, if it is still there.
LEMMA GetCalled ==
    ASSUME StoreInv, NEW c \in Client, NEW k \in Key, GET(c, k)
    PROVE  TypeInv' /\ DueInv' /\ Store!GET(c, k)
<1>0. PICK s, lost, m : /\ s = Owner[k] /\ lost \in SUBSET Vanishing({k})
                        /\ m = [client |-> c, op |-> "GET", key |-> k, lost |-> lost]
                        /\ Send(c, <<"GET", k>>, To(s, m))
  BY KeysGo DEF GET
<1>1. s \in Shard /\ k \in KeysOf(s) /\ {k} \in SUBSET Key
  BY <1>0, KeysGo DEF KeysOf
<1>2. Store!Vanishing({k}) = Vanishing({k}) /\ lost \in SUBSET {k}
  BY <1>0, <1>1, VanishingSame
<1>3. /\ m \in MessageTo(s) /\ m.client = c /\ m.op = "GET" /\ m.key = k /\ m.lost = lost
      /\ lost = Share(lost, s)
  BY <1>0, <1>1, <1>2 DEF MessageTo, Share
<1>4. /\ TypeInv' /\ DueInv' /\ PromisedTo(c, <<"GET", k>>, Response(Outcome(s), m))
      /\ \A j \in Key : Merged'[j] = IF Owner[j] = s THEN Execute(Outcome(s), m)[j] ELSE Merged[j]
  BY <1>0, <1>1, <1>3, OneShardCalled DEF PromisedTo
<1>5. \A j \in Key : Owner[j] = s => Faded(Outcome(s), m)[j] = Left(lost)[j]
  <2>1. TypeInv
    BY DEF StoreInv
  <2>2. m.lost = Share(lost, s)
    BY <1>3
  <2> QED
    BY <1>1, <2>1, <2>2, SharesFade
<1>6. Response(Outcome(s), m) = Left(lost)[k].number /\ Execute(Outcome(s), m) = Faded(Outcome(s), m)
  BY <1>0, <1>3, <1>5 DEF Response, Execute
<1>7. Merged' = Left(lost)
  <2>1. \A j \in Key : Owner[j] # s => Left(lost)[j] = Merged[j]
    BY <1>3 DEF Left, Share
  <2>2. \A j \in Key : Merged'[j] = Left(lost)[j]
    BY <1>4, <1>5, <1>6, <2>1
  <2> QED
    BY <2>2 DEF Merged, Left
<1>8. PICK v : v = Left(lost)[k].number
  OBVIOUS
<1>9. Store!Call(c, <<"GET", k>>) /\ Owed' = [Owed EXCEPT ![c] = {v}]
  <2>1. PromisedTo(c, <<"GET", k>>, v)
    BY <1>4, <1>6, <1>8
  <2> QED
    BY <2>1, PromiseCalls DEF PromisedTo
<1>10. v = Store!Faded(lost)[k].number /\ Merged' = Store!Faded(lost)
  BY <1>7, <1>8, StoreOperators
<1> QED
  BY <1>0, <1>2, <1>4, <1>9, <1>10 DEF Store!GET, Store!Owe, Owed, Merged

\* A write replaces the entry of its key.
LEMMA SetCalled ==
    ASSUME StoreInv, NEW c \in Client, NEW k \in Key, NEW v \in SetValues, NEW ex \in BOOLEAN,
           SET(c, k, v, ex)
    PROVE  TypeInv' /\ DueInv' /\ Store!SET(c, k, v, ex)
<1>0. PICK s, m : /\ s = Owner[k]
                  /\ m = [client |-> c, op |-> "SET", key |-> k, value |-> v, expires |-> ex,
                          lost |-> {}]
                  /\ Send(c, <<"SET", k, v, ex>>, To(s, m))
  BY KeysGo DEF SET
<1>1. s \in Shard /\ k \in KeysOf(s) /\ v \in Nat
  BY <1>0, KeysGo, ClusterAssumption DEF KeysOf
<1>2. /\ m \in MessageTo(s) /\ m.client = c /\ m.op = "SET" /\ m.key = k /\ m.value = v
      /\ m.expires = ex /\ m.lost = {}
  BY <1>0, <1>1 DEF MessageTo
<1>3. PICK x : x = [number |-> v, expires |-> ex]
  OBVIOUS
<1>4. /\ TypeInv' /\ DueInv' /\ PromisedTo(c, <<"SET", k, v, ex>>, Response(Outcome(s), m))
      /\ \A j \in Key : Merged'[j] = IF Owner[j] = s THEN Execute(Outcome(s), m)[j] ELSE Merged[j]
  <2>1. PICK cmd : cmd = <<"SET", k, v, ex>>
    OBVIOUS
  <2>2. Send(c, cmd, To(s, m))
    BY <1>0, <2>1
  <2>3. /\ TypeInv' /\ DueInv' /\ PromisedTo(c, cmd, Response(Outcome(s), m))
        /\ \A j \in Key : Merged'[j] = IF Owner[j] = s THEN Execute(Outcome(s), m)[j] ELSE Merged[j]
    BY <1>1, <1>2, <2>2, OneShardCalled
  <2> QED
    BY <2>1, <2>3
<1>5. /\ Response(Outcome(s), m) = Ok
      /\ Execute(Outcome(s), m) = [Faded(Outcome(s), m) EXCEPT ![k] = x]
  BY <1>2, <1>3 DEF Response, Execute
<1>6. DOMAIN Faded(Outcome(s), m) = Key /\ \A j \in Key : Owner[j] = s => Faded(Outcome(s), m)[j] = Merged[j]
  BY <1>2 DEF Faded, Merged
<1>7. Merged' = [Merged EXCEPT ![k] = x]
  <2>1. ASSUME NEW j \in Key
        PROVE  Merged'[j] = IF j = k THEN x ELSE Merged[j]
    <3>1. CASE Owner[j] = s
      <4>1. Merged'[j] = [Faded(Outcome(s), m) EXCEPT ![k] = x][j]
        BY <1>4, <1>5, <3>1
      <4> QED
        BY <1>6, <3>1, <4>1
    <3>2. CASE Owner[j] # s
      BY <1>0, <1>4, <3>2
    <3> QED
      BY <3>1, <3>2
  <2> QED
    BY <2>1 DEF Merged
<1>8. Store!Call(c, <<"SET", k, v, ex>>) /\ Store!Owe(c, Store!Ok)
  <2>1. Store!Ok = Ok
    BY DEF Store!Ok, Ok
  <2> QED
    BY <1>4, <1>5, <2>1, PromiseCalls DEF PromisedTo
<1> QED
  BY <1>3, <1>4, <1>7, <1>8 DEF Store!SET, Merged

\* An increment adds one to what is there, if it is still there.
LEMMA IncrCalled ==
    ASSUME StoreInv, NEW c \in Client, NEW k \in Key, INCR(c, k)
    PROVE  TypeInv' /\ DueInv' /\ Store!INCR(c, k)
<1>0. PICK s, lost, m : /\ s = Owner[k] /\ lost \in SUBSET Vanishing({k})
                        /\ m = [client |-> c, op |-> "INCR", key |-> k, lost |-> lost]
                        /\ Send(c, <<"INCR", k>>, To(s, m))
  BY KeysGo DEF INCR
<1>1. s \in Shard /\ k \in KeysOf(s) /\ {k} \in SUBSET Key
  BY <1>0, KeysGo DEF KeysOf
<1>2. Store!Vanishing({k}) = Vanishing({k}) /\ lost \in SUBSET {k}
  BY <1>0, <1>1, VanishingSame
<1>3. /\ m \in MessageTo(s) /\ m.client = c /\ m.op = "INCR" /\ m.key = k /\ m.lost = lost
      /\ lost = Share(lost, s)
  BY <1>0, <1>1, <1>2 DEF MessageTo, Share
<1>4. /\ TypeInv' /\ DueInv' /\ PromisedTo(c, <<"INCR", k>>, Response(Outcome(s), m))
      /\ \A j \in Key : Merged'[j] = IF Owner[j] = s THEN Execute(Outcome(s), m)[j] ELSE Merged[j]
  BY <1>0, <1>1, <1>3, OneShardCalled DEF PromisedTo
<1>5. /\ \A j \in Key : Owner[j] = s => Faded(Outcome(s), m)[j] = Left(lost)[j]
      /\ Faded(Outcome(s), m) \in [Key -> EngineEntry]
  <2>1. TypeInv
    BY DEF StoreInv
  <2>2. m.lost = Share(lost, s)
    BY <1>3
  <2>3. \A j \in Key : Owner[j] = s => Faded(Outcome(s), m)[j] = Left(lost)[j]
    BY <1>1, <2>1, <2>2, SharesFade
  <2>4. Faded(Outcome(s), m) \in Engines(s)
    BY <1>1, <2>1, <2>2, SharesFade
  <2> QED
    BY <2>3, <2>4 DEF Engines
<1>6. PICK old, n, x, left : /\ old = Left(lost)[k] /\ left = Faded(Outcome(s), m)
                             /\ n = IF old = NoEntry THEN 1 ELSE old.number + 1
                             /\ x = [number |-> n, expires |-> old.expires]
  OBVIOUS
<1>7. /\ old = left[k] /\ old = [number |-> old.number, expires |-> old.expires]
      /\ old.number = Missing <=> old = NoEntry
  <2>1. old = left[k] /\ old \in EngineEntry
    BY <1>0, <1>5, <1>6
  <2> QED
    BY <2>1, EntryFacts
<1>8. Execute(Outcome(s), m) = [left EXCEPT ![k] = x]
  <2>1. Execute(Outcome(s), m)
            = [left EXCEPT ![k].number = IF @ = Missing THEN 1 ELSE @ + 1]
    BY <1>3, <1>6 DEF Execute
  <2>2. n = IF left[k].number = Missing THEN 1 ELSE left[k].number + 1
    BY <1>6, <1>7
  <2>3. Execute(Outcome(s), m) = [left EXCEPT ![k] = [left[k] EXCEPT !.number = n]]
    BY <2>1, <2>2
  <2>4. [left[k] EXCEPT !.number = n] = x
    BY <1>6, <1>7
  <2> QED
    BY <2>3, <2>4
<1>9. Response(Outcome(s), m) = n
  <2>1. Response(Outcome(s), m) = Execute(Outcome(s), m)[k].number
    BY <1>3 DEF Response
  <2>2. [left EXCEPT ![k] = x][k] = x
    BY <1>5, <1>6
  <2>3. x.number = n
    BY <1>6
  <2> QED
    BY <1>8, <2>1, <2>2, <2>3
<1>10. Merged' = [Merged EXCEPT ![k] = x]
  <2>1. ASSUME NEW j \in Key
        PROVE  Merged'[j] = IF j = k THEN x ELSE Merged[j]
    <3>1. CASE Owner[j] = s
      <4>1. Merged'[j] = [left EXCEPT ![k] = x][j]
        BY <1>4, <1>8, <3>1
      <4>2. j # k => left[j] = Merged[j]
        BY <1>2, <1>5, <1>6, <3>1 DEF Left
      <4> QED
        BY <1>5, <1>6, <4>1, <4>2
    <3>2. CASE Owner[j] # s
      BY <1>0, <1>4, <3>2
    <3> QED
      BY <3>1, <3>2
  <2> QED
    BY <2>1 DEF Merged
<1>11. Store!Call(c, <<"INCR", k>>) /\ Owed' = [Owed EXCEPT ![c] = {n}]
  BY <1>4, <1>9, PromiseCalls DEF PromisedTo
<1>12. /\ old = Store!Faded(lost)[k] /\ n = IF old = Store!NoEntry THEN 1 ELSE old.number + 1
       /\ lost \in SUBSET Store!Vanishing({k})
  BY <1>0, <1>2, <1>6, StoreOperators
<1>13. Store!INCR(c, k)
  <2>1. \E l \in SUBSET Store!Vanishing({k}) :
            LET o == Store!Faded(l)[k]
                i == IF o = Store!NoEntry THEN 1 ELSE o.number + 1
            IN  /\ Owed' = [Owed EXCEPT ![c] = {i}]
                /\ Merged' = [Merged EXCEPT ![k] = [number |-> i, expires |-> o.expires]]
    BY <1>6, <1>10, <1>11, <1>12
  <2> QED
    BY <1>11, <2>1 DEF Store!INCR, Store!Owe, Owed, Merged
<1> QED
  BY <1>4, <1>13

\* PING is for shard 0, and leaves everything as it is.
LEMMA PingCalled ==
    ASSUME StoreInv, NEW c \in Client, PING(c)
    PROVE  TypeInv' /\ DueInv' /\ Store!PING(c)
<1>0. PICK m : m = [client |-> c, op |-> "PING", lost |-> {}] /\ Send(c, <<"PING">>, To(0, m))
  BY DEF PING
<1>1. 0 \in Shard
  BY ClusterAssumption DEF Shard
<1>2. m \in MessageTo(0) /\ m.client = c /\ m.op = "PING" /\ m.lost = {}
  BY <1>0 DEF MessageTo
<1>3. /\ TypeInv' /\ DueInv' /\ PromisedTo(c, <<"PING">>, Response(Outcome(0), m))
      /\ \A j \in Key : Merged'[j] = IF Owner[j] = 0 THEN Execute(Outcome(0), m)[j] ELSE Merged[j]
  <2>1. PICK cmd, s : cmd = <<"PING">> /\ s = 0
    OBVIOUS
  <2>2. Send(c, cmd, To(s, m)) /\ s \in Shard /\ m \in MessageTo(s) /\ m.client = c
    BY <1>0, <1>1, <1>2, <2>1
  <2>3. /\ TypeInv' /\ DueInv' /\ PromisedTo(c, cmd, Response(Outcome(s), m))
        /\ \A j \in Key : Merged'[j] = IF Owner[j] = s THEN Execute(Outcome(s), m)[j] ELSE Merged[j]
    BY <2>2, OneShardCalled
  <2> QED
    BY <2>1, <2>3
<1>4. Response(Outcome(0), m) = Ok /\ Execute(Outcome(0), m) = Faded(Outcome(0), m)
  BY <1>2 DEF Response, Execute
<1>5. Merged' = Merged
  <2>1. \A j \in Key : Merged'[j] = Merged[j]
    BY <1>2, <1>3, <1>4 DEF Merged, Faded
  <2> QED
    BY <2>1 DEF Merged
<1>6. Store!Call(c, <<"PING">>) /\ Store!Owe(c, Store!Ok)
  <2>1. Store!Ok = Ok
    BY DEF Store!Ok, Ok
  <2> QED
    BY <1>3, <1>4, <2>1, PromiseCalls DEF PromisedTo
<1> QED
  BY <1>3, <1>5, <1>6 DEF Store!PING, Merged

\* What the shards have left of some keys, each of its own, is together what the store has
\* left of them.
LEMMA PartsAddUp ==
    ASSUME NEW lost, NEW T \in SUBSET Shard, NEW keys \in SUBSET Key, \A k \in keys : Owner[k] \in T,
           NEW f \in [Shard -> Int],
           \A s \in T : /\ IsFiniteSet(Holding(Left(lost), Share(keys, s)))
                        /\ f[s] = Cardinality(Holding(Left(lost), Share(keys, s)))
    PROVE  Total(f, T) = Cardinality(Holding(Left(lost), keys)) /\ IsFiniteSet(Holding(Left(lost), keys))
<1>0. PICK part : part = [s \in T |-> Holding(Left(lost), Share(keys, s))]
  OBVIOUS
<1>1. \A s \in T : IsFiniteSet(part[s]) /\ f[s] = Cardinality(part[s])
  BY <1>0
<1>2. \A s, t \in T : s # t => part[s] \cap part[t] = {}
  BY <1>0 DEF Holding, Share
<1>3. /\ IsFiniteSet(UNION {part[s] : s \in T})
      /\ Total(f, T) = Cardinality(UNION {part[s] : s \in T})
  <2>1. Disjoint(part, T)
    BY <1>2 DEF Disjoint
  <2> QED
    BY <1>1, <2>1, TotalCounts DEF Together
<1>4. UNION {part[s] : s \in T} = Holding(Left(lost), keys)
  BY <1>0 DEF Holding, Share
<1> QED
  BY <1>3, <1>4

\* A deletion counts what is still there of its keys, on whatever shards.
LEMMA DelCalled ==
    ASSUME StoreInv, NEW c \in Client, NEW K \in SUBSET Key, NEW lost \in SUBSET Vanishing(K),
           NEW op \in {"DEL", "CROSS_SHARD_DEL"},
           Called(c, <<"DEL", K>>, shardKeyMap(c, op, K, lost))
    PROVE  Store!DEL(c, K)
<1>0. PICK msgs : msgs = shardKeyMap(c, op, K, lost)
  OBVIOUS
<1>a. Store!Vanishing(K) = Vanishing(K) /\ lost \in SUBSET K /\ lost \in SUBSET Key
  BY VanishingSame
<1>1. /\ DOMAIN msgs = {Owner[k] : k \in K} /\ DOMAIN msgs \in SUBSET Shard
      /\ \A s \in DOMAIN msgs : /\ msgs[s].op \in {"DEL", "CROSS_SHARD_DEL"}
                                /\ msgs[s].keys = Share(K, s)
                                /\ msgs[s].lost = Share(lost, s)
  <2>1. Fine(c, msgs) /\ DealtOut(op, K, lost, msgs)
    BY <1>0, <1>a, PartsFine
  <2> QED
    BY <2>1 DEF Fine, DealtOut
<1>2. PICK f : f = Answers(msgs)
  OBVIOUS
<1>3. ASSUME NEW s \in DOMAIN msgs
      PROVE  /\ IsFiniteSet(Holding(Left(lost), Share(K, s)))
             /\ f[s] = Cardinality(Holding(Left(lost), Share(K, s)))
             /\ f[s] \in Int
  <2>1. s \in Shard /\ msgs[s].lost = Share(lost, s)
    BY <1>1
  <2>2. /\ Holding(Faded(Outcome(s), msgs[s]), Share(K, s))
              = Holding(Left(lost), Share(K, s))
        /\ IsFiniteSet(Holding(Left(lost), Share(K, s)))
    BY <2>1, SharesFade DEF StoreInv
  <2>3. f[s] = Cardinality(Holding(Faded(Outcome(s), msgs[s]), msgs[s].keys))
    BY <1>1, <1>2, <2>1 DEF Answers, Response
  <2>4. f[s] = Cardinality(Holding(Left(lost), Share(K, s)))
    BY <1>1, <2>2, <2>3
  <2> QED
    BY <2>2, <2>4, FS_CardinalityType
<1>4. f \in [Shard -> Int]
  <2>1. f = [s \in Shard |-> f[s]] /\ \A s \in Shard \ DOMAIN msgs : f[s] = 0
    BY <1>2 DEF Answers
  <2>2. \A s \in DOMAIN msgs : f[s] \in Int
    BY <1>3
  <2>3. \A s \in Shard : f[s] \in Int
    BY <2>1, <2>2
  <2> QED
    BY <2>1, <2>3
<1>5. Total(f, DOMAIN msgs) = Cardinality(Holding(Left(lost), K))
  <2>1. \A k \in K : Owner[k] \in DOMAIN msgs
    BY <1>1
  <2> QED
    BY <1>1, <1>3, <1>4, <2>1, PartsAddUp
<1>6. K \cap Store!PresentIn(Store!Faded(lost)) = Holding(Left(lost), K)
  BY StoreOperators DEF Holding
<1>7. PICK n : n = Cardinality(Holding(Left(lost), K))
  OBVIOUS
<1>8. Store!Call(c, <<"DEL", K>>) /\ Owed' = [Owed EXCEPT ![c] = {n}]
  <2>1. PromisedTo(c, <<"DEL", K>>, n)
    BY <1>0, <1>2, <1>5, <1>7 DEF Called, PromisedTo
  <2> QED
    BY <2>1, PromiseCalls DEF PromisedTo
<1>9. n = Store!Cardinality(K \cap Store!PresentIn(Store!Faded(lost)))
  BY <1>6, <1>7, StoreOperators
<1>10. Merged' = [k \in Key |-> IF k \in K THEN Store!NoEntry ELSE Merged[k]]
  <2>1. ASSUME NEW k \in Key
        PROVE  Merged'[k] = IF k \in K THEN NoEntry ELSE Merged[k]
    <3>1. Merged'[k] = IF Owner[k] \in DOMAIN msgs
                       THEN Execute(Outcome(Owner[k]), msgs[Owner[k]])[k] ELSE Merged[k]
      BY <1>0 DEF Called
    <3>2. Owner[k] \in DOMAIN msgs =>
             Execute(Outcome(Owner[k]), msgs[Owner[k]])[k] = IF k \in K THEN NoEntry ELSE Merged[k]
      <4>1. Owner[k] \in DOMAIN msgs =>
               Execute(Outcome(Owner[k]), msgs[Owner[k]])[k]
                   = IF k \in K THEN NoEntry ELSE Faded(Outcome(Owner[k]), msgs[Owner[k]])[k]
        BY <1>1 DEF Execute, Share
      <4>2. Owner[k] \in DOMAIN msgs /\ k \notin K =>
               Faded(Outcome(Owner[k]), msgs[Owner[k]])[k] = Merged[k]
        BY <1>a, <1>1 DEF Faded, Merged, Share
      <4> QED
        BY <4>1, <4>2
    <3>3. k \in K => Owner[k] \in DOMAIN msgs
      BY <1>1
    <3> QED
      BY <3>1, <3>2, <3>3
  <2> QED
    BY <2>1, StoreOperators DEF Merged
<1>11. \E l \in SUBSET Store!Vanishing(K) :
           Owed' = [Owed EXCEPT ![c] = {Store!Cardinality(K \cap Store!PresentIn(Store!Faded(l)))}]
  BY <1>a, <1>8, <1>9
<1> QED
  BY <1>8, <1>10, <1>11 DEF Store!DEL, Store!Owe, Owed, Merged

\* STATS and SAMPLE_KEYS go to every shard and leave what has not gone.
LEMMA FanOutCalled ==
    ASSUME StoreInv, NEW c \in Client, NEW op \in {"STATS", "SAMPLE_KEYS"}, FanOut(c, op)
    PROVE  \E lost, msgs, f :
              /\ lost \in SUBSET Store!Vanishing(Key) /\ f \in [Shard -> Int]
              /\ TypeInv' /\ DueInv' /\ PromisedTo(c, <<op>>, Total(f, Shard))
              /\ Merged' = Left(lost)
              /\ \A s \in Shard : /\ f[s] = Response(Outcome(s), msgs[s]) /\ msgs[s].op = op
                                  /\ msgs[s].lost = Share(lost, s)
<1>0. PICK lost, msgs :
          /\ lost \in SUBSET Vanishing(Key)
          /\ msgs = [s \in Shard |->
                [client |-> c, op |-> op, lost |-> {k \in lost : getShardForKey(k) = s}]]
          /\ Send(c, <<op>>, msgs)
  BY DEF FanOut
<1>a. Store!Vanishing(Key) = Vanishing(Key) /\ lost \in SUBSET Key
  <2>1. Key \in SUBSET Key
    OBVIOUS
  <2>2. Store!Vanishing(Key) = Vanishing(Key) /\ Vanishing(Key) \in SUBSET Key
    BY <2>1, VanishingSame
  <2> QED
    BY <1>0, <2>2
<1>1. /\ DOMAIN msgs = Shard
      /\ \A s \in Shard : /\ msgs[s] \in MessageTo(s) /\ msgs[s].client = c /\ msgs[s].op = op
                          /\ msgs[s].lost = Share(lost, s)
  <2>1. ASSUME NEW s \in Shard
        PROVE  /\ msgs[s] \in MessageTo(s) /\ msgs[s].client = c /\ msgs[s].op = op
               /\ msgs[s].lost = Share(lost, s)
    <3> DEFINE gone == Share(lost, s)
    <3>1. msgs[s] = [client |-> c, op |-> op, lost |-> gone]
      BY <1>0, <1>a, KeysGo DEF Share
    <3>2. gone \in SUBSET KeysOf(s)
      BY <1>a DEF KeysOf, Share
    <3> HIDE DEF gone
    <3>3. [client |-> c, op |-> op, lost |-> gone]
              \in [client : Client, op : {"PING", "STATS", "SAMPLE_KEYS"}, lost : SUBSET KeysOf(s)]
      BY <3>2
    <3>4. msgs[s] \in MessageTo(s)
      BY <3>1, <3>3 DEF MessageTo
    <3>5. msgs[s].client = c /\ msgs[s].op = op /\ msgs[s].lost = gone
      BY <3>1
    <3> QED
      BY <3>4, <3>5 DEF gone
  <2> QED
    BY <1>0, <2>1
<1>2. Fine(c, msgs)
  BY <1>1 DEF Fine
<1>3. Called(c, <<op>>, msgs)
  BY <1>0, <1>2, SendBegins, BeginsCalled
<1>4. PICK f : f = Answers(msgs)
  OBVIOUS
<1>5. f \in [Shard -> Int] /\ \A s \in Shard : f[s] = Response(Outcome(s), msgs[s])
  <2>1. Answers(msgs) \in [Shard -> Int]
    BY <1>0, <1>2, BeginPromises DEF StoreInv, Send
  <2> QED
    BY <1>1, <1>4, <2>1 DEF Answers
<1>6. PromisedTo(c, <<op>>, Total(f, Shard))
  BY <1>1, <1>3, <1>4 DEF Called, PromisedTo
<1>7. Merged' = Left(lost)
  <2>1. ASSUME NEW k \in Key
        PROVE  Merged'[k] = Left(lost)[k]
    <3>1. Owner[k] \in Shard
      BY KeysGo
    <3>2. Merged'[k] = Execute(Outcome(Owner[k]), msgs[Owner[k]])[k]
      BY <1>1, <1>3, <3>1 DEF Called
    <3>3. Execute(Outcome(Owner[k]), msgs[Owner[k]]) = Faded(Outcome(Owner[k]), msgs[Owner[k]])
      BY <1>1, <3>1 DEF Execute
    <3>4. Faded(Outcome(Owner[k]), msgs[Owner[k]])[k] = Left(lost)[k]
      <4>1. msgs[Owner[k]].lost = Share(lost, Owner[k])
        BY <1>1, <3>1
      <4> QED
        BY <4>1 DEF Faded, Left, Merged, Share
    <3> QED
      BY <3>2, <3>3, <3>4
  <2> QED
    BY <2>1 DEF Merged, Left
<1>8. TypeInv' /\ DueInv'
  BY <1>3 DEF Called
<1>9. /\ lost \in SUBSET Store!Vanishing(Key) /\ f \in [Shard -> Int]
      /\ TypeInv' /\ DueInv' /\ PromisedTo(c, <<op>>, Total(f, Shard))
      /\ Merged' = Left(lost)
      /\ \A s \in Shard : /\ f[s] = Response(Outcome(s), msgs[s]) /\ msgs[s].op = op
                          /\ msgs[s].lost = Share(lost, s)
  BY <1>0, <1>a, <1>1, <1>5, <1>6, <1>7, <1>8
<1> QED
  BY <1>9

\* What the shards have left adds up to what the store has left.
LEMMA SizesAddUp ==
    ASSUME TypeInv, NEW lost, NEW msgs,
           \A s \in Shard : msgs[s].lost = Share(lost, s),
           NEW f, f = [s \in Shard |-> Cardinality(Holding(Faded(Outcome(s), msgs[s]), Key))]
    PROVE  /\ f \in [Shard -> Nat] /\ f \in [Shard -> Int]
           /\ Total(f, Shard) = Cardinality(Holding(Left(lost), Key))
           /\ Cardinality(Holding(Left(lost), Key)) \in Nat
<1>1. ASSUME NEW s \in Shard
      PROVE  /\ f[s] = Cardinality(Holding(Left(lost), Share(Key, s)))
             /\ IsFiniteSet(Holding(Left(lost), Share(Key, s))) /\ f[s] \in Nat
  <2>1. /\ Holding(Faded(Outcome(s), msgs[s]), Key) = Holding(Left(lost), Share(Key, s))
        /\ Key \in SUBSET Key
    BY SharesFade
  <2>2. IsFiniteSet(Holding(Left(lost), Share(Key, s)))
    BY <2>1, SharesFade
  <2> QED
    BY <2>1, <2>2, FS_CardinalityType
<1>2. f \in [Shard -> Nat] /\ f \in [Shard -> Int]
  <2>1. \A s \in Shard : f[s] \in Nat
    BY <1>1
  <2>2. PICK g : g = [s \in Shard |-> f[s]]
    OBVIOUS
  <2>3. f = g
    BY <2>2
  <2>4. g \in [Shard -> Nat] /\ g \in [Shard -> Int]
    BY <2>1, <2>2
  <2> QED
    BY <2>3, <2>4
<1>3. /\ Shard \in SUBSET Shard /\ Key \in SUBSET Key /\ \A k \in Key : Owner[k] \in Shard
  BY KeysGo
<1>4. Total(f, Shard) = Cardinality(Holding(Left(lost), Key)) /\ IsFiniteSet(Holding(Left(lost), Key))
  BY <1>1, <1>2, <1>3, PartsAddUp
<1> QED
  BY <1>2, <1>4, FS_CardinalityType

\* The sizes of the shards add up to that of the store (cluster-coordinator.ts:210).
LEMMA StatsCalled ==
    ASSUME StoreInv, NEW c \in Client, getClusterStats(c)
    PROVE  TypeInv' /\ DueInv' /\ Store!Size(c)
<1>0. FanOut(c, "STATS")
  BY DEF getClusterStats
<1>1. PICK lost, msgs, f :
          /\ lost \in SUBSET Store!Vanishing(Key) /\ f \in [Shard -> Int]
          /\ TypeInv' /\ DueInv' /\ PromisedTo(c, <<"STATS">>, Total(f, Shard))
          /\ Merged' = Left(lost)
          /\ \A s \in Shard : /\ f[s] = Response(Outcome(s), msgs[s]) /\ msgs[s].op = "STATS"
                              /\ msgs[s].lost = Share(lost, s)
  BY <1>0, FanOutCalled
<1>2. f = [s \in Shard |-> Cardinality(Holding(Faded(Outcome(s), msgs[s]), Key))]
  <2>1. \A s \in Shard : f[s] = Cardinality(Holding(Faded(Outcome(s), msgs[s]), Key))
    BY <1>1 DEF Response
  <2>2. f = [s \in Shard |-> f[s]]
    BY <1>1
  <2>3. [s \in Shard |-> f[s]] = [s \in Shard |-> Cardinality(Holding(Faded(Outcome(s), msgs[s]), Key))]
    BY <2>1
  <2> QED
    BY <2>2, <2>3
<1>3. Total(f, Shard) = Cardinality(Holding(Left(lost), Key))
  BY <1>1, <1>2, SizesAddUp DEF StoreInv
<1>4. PICK n : n = Total(f, Shard)
  OBVIOUS
<1>5. Store!Call(c, <<"STATS">>) /\ Owed' = [Owed EXCEPT ![c] = {n}]
  BY <1>1, <1>4, PromiseCalls DEF PromisedTo
<1>6. /\ n = Store!Cardinality(Store!PresentIn(Store!Faded(lost)))
      /\ Merged' = Store!Faded(lost)
  BY <1>1, <1>3, <1>4, StoreOperators
<1>7. \E l \in SUBSET Store!Vanishing(Key) :
          /\ Owed' = [Owed EXCEPT ![c] = {Store!Cardinality(Store!PresentIn(Store!Faded(l)))}]
          /\ Merged' = Store!Faded(l)
  BY <1>1, <1>5, <1>6
<1> QED
  BY <1>1, <1>5, <1>7 DEF Store!Size, Store!Owe, Owed, Merged

\* A sample has no more than there is (cluster-coordinator.ts:229).
LEMMA SampleCalled ==
    ASSUME StoreInv, NEW c \in Client, sampleClusterKeys(c)
    PROVE  TypeInv' /\ DueInv' /\ Store!Sample(c)
<1>0. FanOut(c, "SAMPLE_KEYS")
  BY DEF sampleClusterKeys
<1>1. PICK lost, msgs, f :
          /\ lost \in SUBSET Store!Vanishing(Key) /\ f \in [Shard -> Int]
          /\ TypeInv' /\ DueInv' /\ PromisedTo(c, <<"SAMPLE_KEYS">>, Total(f, Shard))
          /\ Merged' = Left(lost)
          /\ \A s \in Shard : /\ f[s] = Response(Outcome(s), msgs[s]) /\ msgs[s].op = "SAMPLE_KEYS"
                              /\ msgs[s].lost = Share(lost, s)
  BY <1>0, FanOutCalled
<1>2. PICK g : g = [s \in Shard |-> Cardinality(Holding(Faded(Outcome(s), msgs[s]), Key))]
  OBVIOUS
<1>3. /\ g \in [Shard -> Nat] /\ g \in [Shard -> Int]
      /\ Total(g, Shard) = Cardinality(Holding(Left(lost), Key))
      /\ Cardinality(Holding(Left(lost), Key)) \in Nat
  BY <1>1, <1>2, SizesAddUp DEF StoreInv
<1>4. ASSUME NEW s \in Shard
      PROVE  0 <= f[s] /\ f[s] <= g[s]
  <2>1. f[s] = Min({g[s], SampleLimit})
    BY <1>1, <1>2 DEF Response, sampleKeys
  <2>2. g[s] \in Nat /\ SampleLimit \in Nat
    BY <1>3, ClusterAssumption
  <2>3. \A a, b \in Nat : Min({a, b}) \in Nat /\ Min({a, b}) <= a
    <3>1. ASSUME NEW a \in Nat, NEW b \in Nat
          PROVE  Min({a, b}) \in Nat /\ Min({a, b}) <= a
      <4>1. \E x \in {a, b} : \A y \in {a, b} : x <= y
        OBVIOUS
      <4> QED
        BY <4>1 DEF Min
    <3> QED
      BY <3>1
  <2> QED
    BY <2>1, <2>2, <2>3
<1>5. PICK z : z = [s \in Shard |-> 0]
  OBVIOUS
<1>6. Total(z, Shard) = 0
  <2>1. PICK part : part = [s \in Shard |-> {}]
    OBVIOUS
  <2>2. /\ z \in [Shard -> Int] /\ Shard \in SUBSET Shard
        /\ \A s \in Shard : IsFiniteSet(part[s]) /\ z[s] = Cardinality(part[s])
    BY <1>5, <2>1, FS_EmptySet
  <2>3. Disjoint(part, Shard) /\ Together(part, Shard) = {}
    BY <2>1 DEF Disjoint, Together
  <2> QED
    BY <2>2, <2>3, TotalCounts, FS_EmptySet
<1>7. /\ Total(z, Shard) <= Total(f, Shard) /\ Total(f, Shard) <= Total(g, Shard)
      /\ Total(f, Shard) \in Int
  <2>1. z \in [Shard -> Int] /\ \A s \in Shard : z[s] <= f[s]
    BY <1>4, <1>5
  <2>2. \A s \in Shard : f[s] <= g[s]
    BY <1>4
  <2>3. Total(z, Shard) <= Total(f, Shard)
    BY <1>1, <2>1, TotalBounds
  <2>4. Total(f, Shard) <= Total(g, Shard)
    BY <1>1, <1>3, <2>2, TotalBounds
  <2> QED
    BY <1>1, <2>3, <2>4, TotalFacts
<1>8. PICK n : n = Total(f, Shard)
  OBVIOUS
<1>9. /\ n \in 0..Store!Cardinality(Store!PresentIn(Store!Faded(lost)))
      /\ Merged' = Store!Faded(lost)
  BY <1>1, <1>3, <1>6, <1>7, <1>8, StoreOperators
<1>10. Store!Call(c, <<"SAMPLE_KEYS">>) /\ Store!Owe(c, n)
  BY <1>1, <1>8, PromiseCalls
<1> QED
  BY <1>1, <1>9, <1>10 DEF Store!Sample, Merged

\* Whatever a client calls is a command on the store.
LEMMA CommandCalled ==
    ASSUME StoreInv, NEW c \in Client, Command(c)
    PROVE  TypeInv' /\ DueInv' /\ Store!Next
<1>1. ASSUME NEW k \in Key, GET(c, k)
      PROVE  TypeInv' /\ DueInv' /\ Store!Next
  BY <1>1, GetCalled DEF Store!Next
<1>2. ASSUME NEW k \in Key, NEW v \in SetValues, NEW ex \in BOOLEAN, SET(c, k, v, ex)
      PROVE  TypeInv' /\ DueInv' /\ Store!Next
  BY <1>2, SetCalled DEF Store!Next
<1>3. ASSUME NEW k \in Key, INCR(c, k)
      PROVE  TypeInv' /\ DueInv' /\ Store!Next
  BY <1>3, IncrCalled DEF Store!Next
<1>4. ASSUME PING(c)
      PROVE  TypeInv' /\ DueInv' /\ Store!Next
  BY <1>4, PingCalled DEF Store!Next
<1>5. ASSUME getClusterStats(c)
      PROVE  TypeInv' /\ DueInv' /\ Store!Next
  BY <1>5, StatsCalled DEF Store!Next
<1>6. ASSUME sampleClusterKeys(c)
      PROVE  TypeInv' /\ DueInv' /\ Store!Next
  BY <1>6, SampleCalled DEF Store!Next
<1>7. ASSUME NEW keys \in DelLists, DelOnOneShard(c, keys) \/ executeCrossShardDel(c, keys)
      PROVE  TypeInv' /\ DueInv' /\ Store!Next
  <2>0. PICK K : K = ToSet(keys)
    OBVIOUS
  <2>1. K \in SUBSET Key
    BY <2>0, ClusterAssumption DEF ToSet
  <2>2. PICK op \in {"DEL", "CROSS_SHARD_DEL"}, lost \in SUBSET Vanishing(K) :
            Called(c, <<"DEL", K>>, shardKeyMap(c, op, K, lost))
    <3>1. CASE DelOnOneShard(c, keys)
      <4>1. PICK op \in {"DEL", "CROSS_SHARD_DEL"}, lost \in SUBSET Vanishing(K) :
                Send(c, <<"DEL", K>>, shardKeyMap(c, op, K, lost))
        BY <2>0, <3>1 DEF DelOnOneShard
      <4>2. PICK msgs : msgs = shardKeyMap(c, op, K, lost)
        OBVIOUS
      <4>3. lost \in SUBSET Key
        BY <2>1, VanishingSame
      <4>4. Fine(c, msgs)
        BY <2>1, <4>2, <4>3, PartsFine
      <4>5. Called(c, <<"DEL", K>>, msgs)
        BY <4>1, <4>2, <4>4, SendBegins, BeginsCalled
      <4> QED
        BY <4>2, <4>5
    <3>2. CASE executeCrossShardDel(c, keys)
      <4>1. PICK lost, msgs :
                /\ lost \in SUBSET Vanishing(K)
                /\ msgs = shardKeyMap(c, "CROSS_SHARD_DEL", K, lost)
                /\ Begin(c, <<"DEL", K>>, msgs)
                /\ master' = [pc |-> "acquire", client |-> c, msgs |-> msgs, held |-> {}]
                /\ UNCHANGED <<threads, locks, pendingRpcs>>
        BY <2>0, <3>2 DEF executeCrossShardDel
      <4>2. lost \in SUBSET Key
        BY <2>1, <4>1, VanishingSame
      <4>3. Fine(c, msgs) /\ \A s \in DOMAIN msgs : msgs[s].op = "CROSS_SHARD_DEL"
        <5>1. PICK op : op = "CROSS_SHARD_DEL"
          OBVIOUS
        <5>2. Fine(c, msgs) /\ DealtOut(op, K, lost, msgs)
          BY <2>1, <4>1, <4>2, <5>1, PartsFine
        <5> QED
          BY <5>1, <5>2 DEF DealtOut
      <4>4. Begins(c, <<"DEL", K>>, msgs) /\ TypeInv'
        BY <4>1, <4>3, FanOutBegins
      <4>5. Called(c, <<"DEL", K>>, msgs)
        BY <4>3, <4>4, BeginsCalled
      <4> QED
        BY <4>1, <4>5
    <3> QED
      BY <1>7, <3>1, <3>2
  <2>3. Store!DEL(c, K)
    BY <2>1, <2>2, DelCalled
  <2>4. Store!DEL(c, Store!ToSet(keys))
    <3>1. Store!ToSet(keys) = K
      BY <2>0, StoreOperators
    <3> QED
      BY <2>3, <3>1
  <2> QED
    BY <2>2, <2>4 DEF Store!Next, Called
<1> QED
  BY <1>1, <1>2, <1>3, <1>4, <1>5, <1>6, <1>7 DEF Command

\* The state of the store is that of the shards, and a call's promise.
LEMMA StoreSame ==
    ASSUME \A s \in Shard : Outcome(s)' = Outcome(s), UNCHANGED <<call, reply>>
    PROVE  UNCHANGED Store!vars
<1>1. Merged' = Merged
  <2>1. \A k \in Key : Outcome(Owner[k])'[k] = Outcome(Owner[k])[k]
    BY KeysGo
  <2> QED
    BY <2>1 DEF Merged
<1>2. Owed' = Owed /\ Cmds' = Cmds
  BY DEF Owed, Cmds
<1> QED
  BY <1>1, <1>2 DEF Store!vars, Merged, Owed, Cmds

\* An answer that ends a call is the one it is owed.
LEMMA AnswerCalled ==
    ASSUME StoreInv, NEW s \in Shard, handleWorkerMessage(s)
    PROVE  TypeInv' /\ DueInv' /\ (Store!Next \/ UNCHANGED Store!vars)
<1>1. /\ TypeInv' /\ DueInv' /\ \A t \in Shard : Outcome(t)' = Outcome(t)
      /\ \E c \in Client :
            /\ call[c] # Quiet
            /\ \/ call' = [call EXCEPT ![c] = Quiet] /\ reply' = [reply EXCEPT ![c] = call[c].promise]
               \/ /\ call'[c] # Quiet /\ call'[c].promise = call[c].promise
                  /\ call'[c].cmd = call[c].cmd
                  /\ (\A d \in Client \ {c} : call'[d] = call[d]) /\ reply' = reply
  BY MasterGoes
<1>2. Merged' = Merged
  <2>1. \A k \in Key : Outcome(Owner[k])'[k] = Outcome(Owner[k])[k]
    BY <1>1, KeysGo
  <2> QED
    BY <2>1 DEF Merged
<1>3. DOMAIN call = Client
  BY DEF StoreInv, TypeInv, TypeOK
<1>4. ASSUME NEW c \in Client, call[c] # Quiet,
             call' = [call EXCEPT ![c] = Quiet], reply' = [reply EXCEPT ![c] = call[c].promise]
      PROVE  Store!Next
  <2>1. Owed[c] = {call[c].promise}
    BY <1>4 DEF Owed
  <2>2. Owed' = [Owed EXCEPT ![c] = {}]
    <3>1. \A d \in Client : Owed'[d] = IF d = c THEN {} ELSE Owed[d]
      BY <1>3, <1>4 DEF Owed
    <3> QED
      BY <3>1 DEF Owed
  <2>3. Cmds' = [Cmds EXCEPT ![c] = <<>>]
    <3>1. \A d \in Client : Cmds'[d] = IF d = c THEN <<>> ELSE Cmds[d]
      BY <1>3, <1>4 DEF Cmds
    <3> QED
      BY <3>1 DEF Cmds
  <2>4. reply' \in {[reply EXCEPT ![c] = answer] : answer \in Owed[c]}
    BY <1>4, <2>1
  <2>5. Store!Answer(c)
    BY <1>2, <2>2, <2>3, <2>4 DEF Store!Answer, Merged, Owed, Cmds, Store!None
  <2> QED
    BY <2>5 DEF Store!Next
<1>5. ASSUME NEW c \in Client, call[c] # Quiet, call'[c] # Quiet, call'[c].promise = call[c].promise,
             call'[c].cmd = call[c].cmd,
             \A d \in Client \ {c} : call'[d] = call[d], reply' = reply
      PROVE  UNCHANGED Store!vars
  <2>1. \A d \in Client : Owed'[d] = Owed[d] /\ Cmds'[d] = Cmds[d]
    BY <1>5 DEF Owed, Cmds
  <2>2. Owed' = Owed /\ Cmds' = Cmds
    BY <2>1 DEF Owed, Cmds
  <2> QED
    BY <1>2, <1>5, <2>2 DEF Store!vars, Merged, Owed, Cmds
<1> QED
  BY <1>1, <1>4, <1>5

\* Every step of the cluster is one of the store, or none.
LEMMA StoreStep ==
    ASSUME StoreInv, [Next]_vars
    PROVE  StoreInv' /\ (Store!Next \/ UNCHANGED Store!vars)
<1>1. ClusterInv'
  BY ClusterAssumption, ClusterStep DEF StoreInv
<1>2. TypeInv' /\ DueInv' /\ (Store!Next \/ UNCHANGED Store!vars)
  <2>1. ASSUME NEW c \in Client, Command(c)
        PROVE  TypeInv' /\ DueInv' /\ (Store!Next \/ UNCHANGED Store!vars)
    BY <2>1, CommandCalled
  <2>2. ASSUME Master
        PROVE  TypeInv' /\ DueInv' /\ (Store!Next \/ UNCHANGED Store!vars)
    <3>1. /\ TypeInv' /\ DueInv' /\ (\A s \in Shard : Outcome(s)' = Outcome(s))
          /\ UNCHANGED <<call, reply>>
      BY <2>2, LocksGo, PostGoes DEF Master
    <3> QED
      BY <3>1, StoreSame
  <2>3. ASSUME NEW s \in Shard, Worker(s)
        PROVE  TypeInv' /\ DueInv' /\ (Store!Next \/ UNCHANGED Store!vars)
    BY <2>3, WorkerGoes, StoreSame
  <2>4. ASSUME NEW s \in Shard, handleWorkerMessage(s)
        PROVE  TypeInv' /\ DueInv' /\ (Store!Next \/ UNCHANGED Store!vars)
    BY <2>4, AnswerCalled
  <2>5. ASSUME (\E s \in Shard : WorkerDies(s)) \/ close \/ UNCHANGED vars
        PROVE  TypeInv' /\ DueInv' /\ (Store!Next \/ UNCHANGED Store!vars)
    BY <2>5, EndsGo, StoreSame
  <2> QED
    BY <2>1, <2>2, <2>3, <2>4, <2>5 DEF Next
<1> QED
  BY <1>1, <1>2 DEF StoreInv

\* In the beginning the store is empty and nobody is owed anything.
LEMMA StoreStarts == ASSUME Init PROVE StoreInv /\ Store!Init
<1>1. ClusterInv
  BY ClusterAssumption, LocksStart, FlowInit DEF ClusterInv
<1>2. TypeInv /\ DueInv
  BY StoreInit
<1>3. \A k \in Key : Outcome(Owner[k])[k] = NoEntry
  <2>1. ASSUME NEW s \in Shard, NEW k \in Key
        PROVE  Outcome(s)[k] = NoEntry
    <3>1. Through(s) = <<>>
      <4>1. Running(s) = <<>> /\ Unposted(s) = <<>> /\ inbox[s] = <<>>
        BY DEF Init, Running, Unposted, Quiet
      <4> QED
        BY <4>1 DEF Through
    <3>2. Outcome(s) = FoldLeft(Execute, engine[s], <<>>)
      BY <3>1 DEF Outcome, Through
    <3>3. <<>> \in Seq(MessageTo(s)) /\ Len(<<>>) = 0 /\ engine[s] \in Engines(s)
      BY <1>2, EmptySeq DEF TypeInv
    <3>4. PICK g : Runs(g, s, engine[s], <<>>)
      BY <3>3, RunIsFold
    <3>5. Outcome(s) = engine[s]
      BY <3>2, <3>3, <3>4, RunIsFold DEF Runs
    <3> QED
      BY <3>5 DEF Init
  <2> QED
    BY <2>1, KeysGo
<1>4. Store!Init
  BY <1>3, StoreOperators DEF Init, Store!Init, Store!Ok, Ok, Store!None
<1> QED
  BY <1>1, <1>2, <1>4 DEF StoreInv

\* A worker gets messages for its own keys only, and answers with numbers: the router, the
\* fan-outs and the workers agree on the shards (cluster-coordinator.ts:143).
THEOREM ClusterConsistent == Spec => []Consistent
<1>1. Init => StoreInv
  BY StoreStarts
<1>2. StoreInv /\ [Next]_vars => StoreInv'
  BY StoreStep
<1>3. StoreInv => Consistent
  BY DEF StoreInv, ClusterInv, LockInv, TypeInv, Consistent
<1> QED
  BY <1>1, <1>2, <1>3, PTL DEF Spec

\* Callers see one store on which the command that each has called takes effect at once,
\* whichever shards it needs and whatever else is under way, also when workers die; only an
\* entry with a deadline may be gone when a command meets it, each for itself.
THEOREM ClusterIsOneStore == Spec => ImplementsStore
<1>1. Init => StoreInv /\ Store!Init
  BY StoreStarts
<1>2. StoreInv /\ [Next]_vars => StoreInv' /\ [Store!Next]_(Store!vars)
  BY StoreStep
<1> QED
  BY <1>1, <1>2, PTL DEF Spec, ImplementsStore, Store!Spec
-----------------------------------------------------------------------------
(***************************************************************************)
(* The locks themselves, AtomicLock, of which the coordinator's model has  *)
(* what they promise: LockTypes, MutualExclusion and NoLostWakeup together *)
(* are inductive.                                                          *)
(***************************************************************************)
ExclusionInv == LockTypes /\ MutualExclusion /\ NoLostWakeup

\* A thread has one next lock.
LEMMA NextIsOne ==
    ASSUME LockAssumption, NEW t, NEW i \in Index, NEW j \in Index,
           IsNext(t, i), IsNext(t, j)
    PROVE  i = j
  BY DEF IsNext, Index, LockAssumption

\* No thread has or wants a lock at first.
LEMMA ExclusionInit == ASSUME LockAssumption PROVE LockInit => ExclusionInv
  BY DEF LockAssumption, LockInit, ExclusionInv, LockTypes, MutualExclusion,
       NoLostWakeup, Asleep, Trying,
         Index, UNLOCKED, LOCKED

\* The steps keep the types.
LEMMA TypeStep ==
    ASSUME LockAssumption, LockTypes, LockNext
    PROVE  LockTypes'
<1> USE LockAssumption DEF LockAssumption, LockTypes, GoTo, Trying,
      Index, UNLOCKED, LOCKED
<1>1. ASSUME NEW t \in Thread, NEW list \in Requests, acquireAll(t, list)
      PROVE  LockTypes'
  <2>1. ToSet(list) \subseteq Index
    BY DEF ToSet
  <2> QED BY <1>1, <2>1 DEF acquireAll
<1>2. ASSUME NEW t \in Thread, NEW i \in Index, tryAcquire(t, i)
      PROVE  LockTypes'
  BY <1>2 DEF tryAcquire
<1>3. ASSUME NEW t \in Thread, NEW i \in Index, Acquires(t, i)
      PROVE  LockTypes'
  BY <1>3 DEF Acquires, IsNext
<1>4. ASSUME NEW t \in Thread, NEW i \in Index, Contends(t, i) \/ Sleeps(t,
      i) \/ Retries(t, i)
      PROVE  LockTypes'
  BY <1>4 DEF Contends, Sleeps, Retries
<1>5. ASSUME NEW t \in Thread, TimesOut(t) \/ Leaves(t)
      PROVE  LockTypes'
  BY <1>5 DEF TimesOut, Leaves
<1>6. ASSUME NEW t \in Thread, NEW i \in Index, Stores(t, i)
      PROVE  LockTypes'
  BY <1>6 DEF Stores, IsLast
<1>7. ASSUME NEW t \in Thread, Notifies(t)
      PROVE  LockTypes'
  <2>1. AfterNotify(t) \in {"idle", "release"} /\ (AfterNotify(t) = "idle" => want[t] = {})
    BY DEF AfterNotify
  <2>2. CASE Sleepers(freed[t]) = {}
    BY <1>7, <2>1, <2>2 DEF Notifies
  <2>3. CASE Sleepers(freed[t]) # {}
    <3>1. PICK u \in Sleepers(freed[t]) : pc' = [pc EXCEPT ![u] = "acquire",
          ![t] = AfterNotify(t)]
      BY <1>7, <2>3 DEF Notifies
    <3>2. u \in Thread /\ pc[u] = "asleep" /\ pc[t] = "notify"
      BY <1>7, <3>1 DEF Sleepers, Asleep, Notifies
    <3> QED BY <1>7, <2>1, <3>1, <3>2 DEF Notifies
  <2> QED BY <2>2, <2>3
<1> QED BY <1>1, <1>2, <1>3, <1>4, <1>5, <1>6, <1>7 DEF LockNext, Step

\* The steps keep the locks exact.
LEMMA ExclusionStep ==
    ASSUME LockAssumption, LockTypes, MutualExclusion, LockNext
    PROVE  MutualExclusion'
<1> USE DEF LockTypes, MutualExclusion, UNLOCKED, LOCKED
<1>1. ASSUME NEW t \in Thread, NEW i \in Index, Acquires(t, i)
      PROVE  MutualExclusion'
  BY <1>1 DEF Acquires, Free
<1>2. ASSUME NEW t \in Thread, NEW i \in Index, tryAcquire(t, i)
      PROVE  MutualExclusion'
  BY <1>2 DEF tryAcquire, Free
<1>3. ASSUME NEW t \in Thread, NEW i \in Index, Stores(t, i)
      PROVE  MutualExclusion'
  BY <1>3 DEF Stores, IsLast
<1>4. CASE UNCHANGED <<state, held>>
  BY <1>4
<1> QED BY <1>1, <1>2, <1>3, <1>4
        DEF LockNext, Step, acquireAll, Contends, Sleeps,
             Retries, TimesOut, Leaves, Notifies

\* Somebody will see to a lock that is free.
SeenTo(i) ==
    \E v \in Thread :
        \/ pc[v] = "notify" /\ freed[v] = i
        \/ pc[v] \in {"acquire", "wait"} /\ IsNext(v, i)

\* The steps keep somebody who sees to a free lock that a thread sleeps on.
LEMMA WakeupStep ==
    ASSUME LockAssumption, LockTypes, NoLostWakeup, LockNext
    PROVE  NoLostWakeup'
<1> SUFFICES ASSUME NEW u \in Thread, NEW i \in Index, Asleep(u, i)',
      state'[i] = UNLOCKED
             PROVE  SeenTo(i)'
  BY DEF NoLostWakeup, SeenTo
<1> USE DEF LockTypes, GoTo, UNLOCKED, LOCKED
<1>old. Asleep(u, i) /\ state[i] = UNLOCKED => SeenTo(i)
  BY DEF NoLostWakeup, SeenTo
<1>1. ASSUME NEW t \in Thread, NEW list \in Requests, acquireAll(t, list)
      PROVE  SeenTo(i)'
  <2>1. u # t /\ Asleep(u, i) /\ state[i] = UNLOCKED
    BY <1>1 DEF acquireAll, Asleep, IsNext
  <2>2. PICK v \in Thread : \/ pc[v] = "notify" /\ freed[v] = i
                            \/ pc[v] \in {"acquire", "wait"} /\ IsNext(v, i)
    BY <1>old, <2>1 DEF SeenTo
  <2>3. v # t
    BY <1>1, <2>2 DEF acquireAll
  <2> QED BY <1>1, <2>2, <2>3 DEF acquireAll, SeenTo, IsNext
<1>2. ASSUME NEW t \in Thread, NEW j \in Index, tryAcquire(t, j)
      PROVE  SeenTo(i)'
  <2>1. u # t /\ Asleep(u, i) /\ state[i] = UNLOCKED
    BY <1>2 DEF tryAcquire, Asleep, IsNext
  <2>2. PICK v \in Thread : \/ pc[v] = "notify" /\ freed[v] = i
                            \/ pc[v] \in {"acquire", "wait"} /\ IsNext(v, i)
    BY <1>old, <2>1 DEF SeenTo
  <2>3. v # t
    BY <1>2, <2>2 DEF tryAcquire
  <2> QED BY <1>2, <2>2, <2>3 DEF tryAcquire, SeenTo, IsNext
<1>3. ASSUME NEW t \in Thread, NEW j \in Index, Acquires(t, j)
      PROVE  SeenTo(i)'
  <2>1. u # t /\ i # j /\ Asleep(u, i) /\ state[i] = UNLOCKED
    BY <1>3 DEF Acquires, Asleep, IsNext
  <2>2. PICK v \in Thread : \/ pc[v] = "notify" /\ freed[v] = i
                            \/ pc[v] \in {"acquire", "wait"} /\ IsNext(v, i)
    BY <1>old, <2>1 DEF SeenTo
  <2>3. v # t
    BY <1>3, <2>1, <2>2, NextIsOne DEF Acquires
  <2> QED BY <1>3, <2>2, <2>3 DEF Acquires, SeenTo, IsNext
<1>4. ASSUME NEW t \in Thread, NEW j \in Index, Contends(t, j)
      PROVE  SeenTo(i)'
  <2>1. Asleep(u, i) /\ state[i] = UNLOCKED
    BY <1>4 DEF Contends, Asleep, IsNext
  <2> QED BY <1>4, <1>old, <2>1 DEF Contends, SeenTo, IsNext
<1>5. ASSUME NEW t \in Thread, NEW j \in Index, Sleeps(t, j)
      PROVE  SeenTo(i)'
  <2>1. CASE u = t
    <3>1. IsNext(t, i)
      BY <1>5, <2>1 DEF Sleeps, Asleep, IsNext
    <3>2. i = j
      BY <1>5, <3>1, NextIsOne DEF Sleeps
    <3> QED BY <1>5, <3>2 DEF Sleeps, StillLocked
  <2>2. CASE u # t
    <3>1. Asleep(u, i) /\ state[i] = UNLOCKED
      BY <1>5, <2>2 DEF Sleeps, Asleep, IsNext
    <3>2. PICK v \in Thread : \/ pc[v] = "notify" /\ freed[v] = i
                              \/ pc[v] \in {"acquire", "wait"} /\ IsNext(v, i)
      BY <1>old, <3>1 DEF SeenTo
    <3>3. v # t
      BY <1>5, <3>1, <3>2, NextIsOne DEF Sleeps, StillLocked
    <3> QED BY <1>5, <3>2, <3>3 DEF Sleeps, SeenTo, IsNext
  <2> QED BY <2>1, <2>2
<1>6. ASSUME NEW t \in Thread, NEW j \in Index, Retries(t, j)
      PROVE  SeenTo(i)'
  <2>1. Asleep(u, i) /\ state[i] = UNLOCKED
    BY <1>6 DEF Retries, Asleep, IsNext
  <2> QED BY <1>6, <1>old, <2>1 DEF Retries, SeenTo, IsNext
<1>7. ASSUME NEW t \in Thread, TimesOut(t)
      PROVE  SeenTo(i)'
  <2>1. Asleep(u, i) /\ state[i] = UNLOCKED
    BY <1>7 DEF TimesOut, Asleep, IsNext
  <2> QED BY <1>7, <1>old, <2>1 DEF TimesOut, SeenTo, IsNext
<1>8. ASSUME NEW t \in Thread, Leaves(t)
      PROVE  SeenTo(i)'
  <2>1. Asleep(u, i) /\ state[i] = UNLOCKED
    BY <1>8 DEF Leaves, Asleep, IsNext
  <2> QED BY <1>8, <1>old, <2>1 DEF Leaves, SeenTo, IsNext
<1>9. ASSUME NEW t \in Thread, NEW j \in Index, Stores(t, j)
      PROVE  SeenTo(i)'
  <2>1. CASE i = j
    BY <1>9, <2>1 DEF Stores, SeenTo
  <2>2. CASE i # j
    <3>1. u # t /\ Asleep(u, i) /\ state[i] = UNLOCKED
      BY <1>9, <2>2 DEF Stores, Asleep, IsNext
    <3>2. PICK v \in Thread : \/ pc[v] = "notify" /\ freed[v] = i
                              \/ pc[v] \in {"acquire", "wait"} /\ IsNext(v, i)
      BY <1>old, <3>1 DEF SeenTo
    <3>3. v # t
      BY <1>9, <3>2 DEF Stores
    <3> QED BY <1>9, <3>2, <3>3 DEF Stores, SeenTo, IsNext
  <2> QED BY <2>1, <2>2
<1>10. ASSUME NEW t \in Thread, Notifies(t)
       PROVE  SeenTo(i)'
  <2>0. pc[t] = "notify" /\ AfterNotify(t) \in {"idle", "release"}
    BY <1>10 DEF Notifies, AfterNotify
  <2>1. CASE Sleepers(freed[t]) = {}
    <3>1. u # t /\ Asleep(u, i) /\ state[i] = UNLOCKED
      BY <1>10, <2>0, <2>1 DEF Notifies, Asleep, IsNext
    <3>2. freed[t] # i
      BY <2>1, <3>1 DEF Sleepers
    <3> QED BY <1>10, <1>old, <2>0, <2>1, <3>1, <3>2 DEF Notifies, SeenTo, IsNext
  <2>2. CASE Sleepers(freed[t]) # {}
    <3>1. PICK w \in Sleepers(freed[t]) : pc' = [pc EXCEPT ![w] = "acquire",
          ![t] = AfterNotify(t)]
      BY <1>10, <2>2 DEF Notifies
    <3>2. w \in Thread /\ w # t /\ pc[w] = "asleep" /\ IsNext(w, freed[t])
      BY <2>0, <3>1 DEF Sleepers, Asleep
    <3>3. u # t /\ u # w /\ Asleep(u, i) /\ state[i] = UNLOCKED
      BY <1>10, <2>0, <3>1, <3>2 DEF Notifies, Asleep, IsNext
    <3>4. CASE freed[t] = i
      BY <1>10, <3>1, <3>2, <3>4 DEF Notifies, SeenTo, IsNext
    <3>5. CASE freed[t] # i
      <4>1. PICK v \in Thread : \/ pc[v] = "notify" /\ freed[v] = i
                                \/ pc[v] \in {"acquire", "wait"} /\ IsNext(v, i)
        BY <1>old, <3>3 DEF SeenTo
      <4>2. v # t /\ v # w
        BY <2>0, <3>2, <3>5, <4>1
      <4> QED BY <1>10, <3>1, <4>1, <4>2 DEF Notifies, SeenTo, IsNext
    <3> QED BY <3>4, <3>5
  <2> QED BY <2>1, <2>2
<1> QED BY <1>1, <1>2, <1>3, <1>4, <1>5, <1>6, <1>7, <1>8, <1>9, <1>10 DEF LockNext, Step

\* The three together are inductive.
LEMMA ExclusionInvariant == ASSUME LockAssumption PROVE LockSpec => []ExclusionInv
<1>1. LockInit => ExclusionInv
  BY ExclusionInit
<1>2. ExclusionInv /\ [LockNext]_lockVars => ExclusionInv'
  <2>1. CASE LockNext
    BY <2>1, TypeStep, ExclusionStep, WakeupStep DEF ExclusionInv
  <2>2. CASE UNCHANGED lockVars
    BY <2>2 DEF ExclusionInv, LockTypes, MutualExclusion, NoLostWakeup,
         Asleep, IsNext, Trying, lockVars
  <2> QED BY <2>1, <2>2
<1> QED BY <1>1, <1>2, PTL DEF LockSpec

\* For any number of threads and locks and any lists of requests: no two threads are in
\* the critical section of one lock, and a lock nobody has is free.
THEOREM LocksExclude == LockSpec => []MutualExclusion
<1>1. ExclusionInv => MutualExclusion
  BY DEF ExclusionInv
<1>2. LockSpec => []ExclusionInv
  BY LockAssumption, ExclusionInvariant
<1> QED BY <1>1, <1>2, PTL

\* No interleaving of compare, wait, store and notify leaves a thread asleep on a free
\* lock that nobody sees to: the 50 ms timeout of Atomics.wait is not needed.
THEOREM WakeupsAreNotLost == LockSpec => []NoLostWakeup
<1>1. ExclusionInv => NoLostWakeup
  BY DEF ExclusionInv
<1>2. LockSpec => []ExclusionInv
  BY LockAssumption, ExclusionInvariant
<1> QED BY <1>1, <1>2, PTL
=============================================================================
