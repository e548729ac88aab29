------------------------- MODULE StorageEngineProofs ------------------------
(***************************************************************************)
(* What holds of StorageEngine, of the worker of ColdStorage that deletes  *)
(* behind its clients, and of LruList, for every set of keys and nodes,    *)
(* every limit and every sample size.                                      *)
(***************************************************************************)
EXTENDS ColdStorage, LruList, LeastNumber, SequenceTheorems, FiniteSetTheorems, TLAPS

(***************************************************************************)
(* What each operation of the recency list does to the length, the         *)
(* elements, the distinctness and the relative order of a sequence         *)
(* without repetition.                                                     *)
(***************************************************************************)
\* Removing the element at position p closes the gap and keeps the rest in order.
LEMMA RemoveAtShape ==
    ASSUME NEW S, NEW s \in Seq(S), NEW p \in 1..Len(s)
    PROVE  /\ RemoveAt(s, p) \in Seq(S)
           /\ Len(RemoveAt(s, p)) = Len(s) - 1
           /\ \A i \in 1..Len(s) - 1 :
                 RemoveAt(s, p)[i] = IF i < p THEN s[i] ELSE s[i + 1]
<1> DEFINE before == SubSeq(s, 1, p - 1)
           after == SubSeq(s, p + 1, Len(s))
<1>1. /\ before \in Seq(S) /\ Len(before) = p - 1
      /\ \A i \in 1..p - 1 : before[i] = s[i]
  BY SubSeqProperties, LenProperties
<1>2. /\ after \in Seq(S) /\ Len(after) = Len(s) - p
      /\ \A i \in 1..Len(s) - p : after[i] = s[p + i]
  BY SubSeqProperties, LenProperties
<1> HIDE DEF before, after
<1> DEFINE both == before \o after
<1>3. /\ both \in Seq(S)
      /\ Len(both) = Len(before) + Len(after)
      /\ \A i \in 1..Len(before) + Len(after) :
            both[i] = IF i <= Len(before) THEN before[i] ELSE after[i - Len(before)]
  BY <1>1, <1>2, ConcatProperties
<1> HIDE DEF both
<1>4. Len(s) \in Nat /\ Len(both) = Len(s) - 1
  BY <1>1, <1>2, <1>3, LenProperties
<1>5. ASSUME NEW i \in 1..Len(s) - 1
      PROVE  both[i] = IF i < p THEN s[i] ELSE s[i + 1]
  <2>1. both[i] = IF i <= p - 1 THEN before[i] ELSE after[i - (p - 1)]
    BY <1>1, <1>2, <1>3, <1>4
  <2>2. CASE i < p
    BY <1>1, <1>4, <2>1, <2>2
  <2>3. CASE i >= p
    <3> DEFINE a == i - (p - 1)
    <3>1. a \in 1..Len(s) - p /\ p + a = i + 1 /\ ~(i <= p - 1) /\ ~(i < p)
      BY <1>4, <2>3
    <3>2. both[i] = after[a]
      BY <2>1, <3>1
    <3> HIDE DEF a
    <3>3. after[a] = s[p + a]
      BY <1>2, <3>1
    <3>4. QED
      BY <3>1, <3>2, <3>3
  <2>4. QED
    BY <1>4, <2>2, <2>3
<1>6. QED
  BY <1>3, <1>4, <1>5 DEF RemoveAt, before, after, both

\* unlink of a list member: one node less, the others keep their order.
LEMMA UnlinkShape ==
    ASSUME NEW S, NEW s \in Seq(S), NEW n \in ToSet(s)
    PROVE  /\ Position(s, n) \in 1..Len(s) /\ s[Position(s, n)] = n
           /\ Unlink(s, n) \in Seq(S)
           /\ Len(Unlink(s, n)) = Len(s) - 1
           /\ \A i \in 1..Len(s) - 1 :
                 Unlink(s, n)[i] = IF i < Position(s, n) THEN s[i] ELSE s[i + 1]
<1>1. Position(s, n) \in 1..Len(s) /\ s[Position(s, n)] = n
  BY DEF Position, ToSet
<1>2. Unlink(s, n) = RemoveAt(s, Position(s, n))
  BY DEF Unlink
<1>3. QED
  BY <1>1, <1>2, RemoveAtShape

\* The node added at the head comes first, the others move back by one.
LEMMA PushFrontShape ==
    ASSUME NEW S, NEW s \in Seq(S), NEW n \in S
    PROVE  /\ PushFront(s, n) \in Seq(S)
           /\ Len(PushFront(s, n)) = Len(s) + 1
           /\ PushFront(s, n)[1] = n
           /\ \A i \in 2..Len(s) + 1 : PushFront(s, n)[i] = s[i - 1]
BY DEF PushFront, Cons

LEMMA PopTailShape ==
    ASSUME NEW S, NEW s \in Seq(S), s # <<>>
    PROVE  /\ PopTail(s) \in Seq(S)
           /\ Len(PopTail(s)) = Len(s) - 1
           /\ \A i \in 1..Len(s) - 1 : PopTail(s)[i] = s[i]
           /\ Last(s) = s[Len(s)] /\ Len(s) \in 1..Len(s)
<1>1. Len(s) \in Nat \ {0}
  BY LenProperties, EmptySeq
<1>2. \A i \in 1..Len(s) - 1 : s[i] \in S
  BY LenProperties, <1>1
<1> DEFINE q == SubSeq(s, 1, Len(s) - 1)
<1>3. /\ q \in Seq(S)
      /\ Len(q) = IF 1 <= Len(s) - 1 THEN Len(s) - 1 - 1 + 1 ELSE 0
      /\ \A i \in 1..Len(s) - 1 - 1 + 1 : q[i] = s[1 + i - 1]
  BY <1>1, <1>2, SubSeqProperties
<1>4. PopTail(s) = q /\ Last(s) = s[Len(s)]
  BY DEF PopTail, Front, Last
<1> HIDE DEF q
<1>5. Len(q) = Len(s) - 1
  <2>1. CASE Len(s) = 1
    BY <1>3, <2>1
  <2>2. CASE Len(s) > 1
    BY <1>1, <1>3, <2>2
  <2>3. QED
    BY <1>1, <2>1, <2>2
<1>6. ASSUME NEW i \in 1..Len(s) - 1
      PROVE  q[i] = s[i]
  <2>1. i \in 1..Len(s) - 1 - 1 + 1 /\ 1 + i - 1 = i
    BY <1>1
  <2>2. QED
    BY <1>3, <2>1
<1>7. QED
  BY <1>1, <1>3, <1>4, <1>5, <1>6

\* The list after unlink of a member holds every other member, once.
LEMMA UnlinkMembers ==
    ASSUME NEW S, NEW s \in Seq(S), Distinct(s), NEW n \in ToSet(s)
    PROVE  Distinct(Unlink(s, n)) /\ ToSet(Unlink(s, n)) = ToSet(s) \ {n}
<1> DEFINE u == Unlink(s, n)
           p == Position(s, n)
<1>1. /\ p \in 1..Len(s) /\ s[p] = n
      /\ u \in Seq(S) /\ Len(u) = Len(s) - 1
      /\ \A i \in 1..Len(s) - 1 : u[i] = IF i < p THEN s[i] ELSE s[i + 1]
  BY UnlinkShape
<1> HIDE DEF u, p
<1>2. DOMAIN s = 1..Len(s) /\ DOMAIN u = 1..Len(s) - 1
  BY <1>1
<1>3. ASSUME NEW i \in DOMAIN u
      PROVE  u[i] \in ToSet(s) /\ u[i] # n
  BY <1>1, <1>2 DEF ToSet, Distinct
<1>4. ASSUME NEW x \in ToSet(s) \ {n}
      PROVE  x \in ToSet(u)
  <2>1. PICK j \in 1..Len(s) : s[j] = x
    BY <1>2 DEF ToSet
  <2>2. j # p
    BY <1>1, <2>1
  <2>3. CASE j < p
    BY <1>1, <1>2, <2>1, <2>3 DEF ToSet
  <2>4. CASE j > p
    <3>1. j - 1 \in DOMAIN u /\ u[j - 1] = x
      BY <1>1, <1>2, <2>1, <2>4
    <3>2. QED
      BY <3>1 DEF ToSet
  <2>5. QED
    BY <1>1, <2>2, <2>3, <2>4
<1>5. Distinct(u)
  <2> SUFFICES ASSUME NEW i \in DOMAIN u, NEW j \in DOMAIN u, u[i] = u[j]
               PROVE  i = j
    BY DEF Distinct
  <2>1. Len(s) \in Nat
    BY LenProperties
  <2> DEFINE at(x) == IF x < p THEN x ELSE x + 1
  <2>2. /\ at(i) \in DOMAIN s /\ u[i] = s[at(i)]
        /\ at(j) \in DOMAIN s /\ u[j] = s[at(j)]
    BY <1>1, <1>2, <2>1
  <2>3. at(i) = at(j)
    BY <2>2 DEF Distinct
  <2>4. QED
    BY <1>1, <1>2, <2>1, <2>3
<1>6. ToSet(u) = ToSet(s) \ {n}
  <2>1. ToSet(u) \subseteq ToSet(s) \ {n}
    BY <1>3 DEF ToSet
  <2>2. QED
    BY <1>4, <2>1
<1>7. QED
  BY <1>5, <1>6 DEF u

LEMMA PushFrontMembers ==
    ASSUME NEW S, NEW s \in Seq(S), Distinct(s), NEW n \in S, n \notin ToSet(s)
    PROVE  Distinct(PushFront(s, n)) /\ ToSet(PushFront(s, n)) = ToSet(s) \cup {n}
<1> DEFINE q == PushFront(s, n)
<1>1. /\ q \in Seq(S) /\ Len(q) = Len(s) + 1 /\ q[1] = n
      /\ \A i \in 2..Len(s) + 1 : q[i] = s[i - 1]
  BY PushFrontShape
<1> HIDE DEF q
<1>2. DOMAIN s = 1..Len(s) /\ DOMAIN q = 1..Len(s) + 1
  BY <1>1
<1>3. \A i \in 2..Len(s) + 1 : q[i] # n /\ q[i] \in ToSet(s)
  BY <1>1, <1>2 DEF ToSet
<1>4. Distinct(q)
  <2> SUFFICES ASSUME NEW i \in DOMAIN q, NEW j \in DOMAIN q, q[i] = q[j]
               PROVE  i = j
    BY DEF Distinct
  <2>1. Len(s) \in Nat
    BY LenProperties
  <2>2. CASE i = 1 \/ j = 1
    BY <1>1, <1>2, <1>3, <2>1, <2>2
  <2>3. CASE i # 1 /\ j # 1
    <3>1. i - 1 \in DOMAIN s /\ j - 1 \in DOMAIN s /\ q[i] = s[i - 1] /\ q[j] = s[j - 1]
      BY <1>1, <1>2, <2>1, <2>3
    <3>2. i - 1 = j - 1
      BY <3>1 DEF Distinct
    <3>3. QED
      BY <1>2, <2>1, <3>2
  <2>4. QED
    BY <2>2, <2>3
<1>5. ASSUME NEW x \in ToSet(s)
      PROVE  x \in ToSet(q)
  <2>1. PICK j \in 1..Len(s) : s[j] = x
    BY <1>2 DEF ToSet
  <2>2. j + 1 \in DOMAIN q /\ q[j + 1] = x
    BY <1>1, <1>2, <2>1
  <2>3. QED
    BY <2>2 DEF ToSet
<1>6. n \in ToSet(q)
  BY <1>1, <1>2 DEF ToSet
<1>7. ToSet(q) \subseteq ToSet(s) \cup {n}
  BY <1>1, <1>2, <1>3 DEF ToSet
<1>8. QED
  BY <1>4, <1>5, <1>6, <1>7 DEF q

LEMMA PopTailMembers ==
    ASSUME NEW S, NEW s \in Seq(S), Distinct(s), s # <<>>
    PROVE  Distinct(PopTail(s)) /\ ToSet(PopTail(s)) = ToSet(s) \ {Last(s)}
<1> DEFINE q == PopTail(s)
<1>1. /\ q \in Seq(S) /\ Len(q) = Len(s) - 1
      /\ \A i \in 1..Len(s) - 1 : q[i] = s[i]
      /\ Last(s) = s[Len(s)] /\ Len(s) \in 1..Len(s)
  BY PopTailShape
<1> HIDE DEF q
<1>2. DOMAIN s = 1..Len(s) /\ DOMAIN q = 1..Len(s) - 1
  BY <1>1
<1>3. Distinct(q)
  BY <1>1, <1>2 DEF Distinct
<1>4. ToSet(q) \subseteq ToSet(s) \ {Last(s)}
  BY <1>1, <1>2 DEF ToSet, Distinct
<1>5. ToSet(s) \ {Last(s)} \subseteq ToSet(q)
  BY <1>1, <1>2 DEF ToSet
<1>6. QED
  BY <1>3, <1>4, <1>5 DEF q

\* moveToFront permutes the list.
LEMMA MoveToFrontMembers ==
    ASSUME NEW S, NEW s \in Seq(S), Distinct(s), NEW n \in ToSet(s)
    PROVE  /\ MoveToFront(s, n) \in Seq(S)
           /\ Distinct(MoveToFront(s, n))
           /\ ToSet(MoveToFront(s, n)) = ToSet(s)
<1>1. Unlink(s, n) \in Seq(S) /\ n \in S
  BY UnlinkShape DEF ToSet
<1>2. Distinct(Unlink(s, n)) /\ ToSet(Unlink(s, n)) = ToSet(s) \ {n}
  BY UnlinkMembers
<1>3. ToSet(Unlink(s, n)) \cup {n} = ToSet(s) /\ n \notin ToSet(Unlink(s, n))
  BY <1>2
<1> DEFINE u == Unlink(s, n)
<1>a. u \in Seq(S) /\ Distinct(u) /\ n \notin ToSet(u)
  BY <1>1, <1>2, <1>3
<1> HIDE DEF u
<1>b. PushFront(u, n) \in Seq(S)
  BY <1>1, <1>a, PushFrontShape
<1>4. /\ PushFront(u, n) \in Seq(S) /\ Distinct(PushFront(u, n))
      /\ ToSet(PushFront(u, n)) = ToSet(u) \cup {n}
  BY <1>1, <1>a, <1>b, PushFrontMembers
<1>5. QED
  BY <1>3, <1>4 DEF MoveToFront, u
-----------------------------------------------------------------------------
(***************************************************************************)
(* The structures that hold the entries.                                   *)
(***************************************************************************)
\* The types of the four structures that hold the entries.
DataType ==
    /\ DOMAIN map \subseteq Key /\ map \in [DOMAIN map -> Entry]
    /\ lruList \in Seq(Key)
    /\ expiresList \in Seq(Key)
    /\ DOMAIN expiresIndexMap \subseteq Key
    /\ expiresIndexMap \in [DOMAIN expiresIndexMap -> Nat \ {0}]

\* The array and its index are inverse to each other.
IndexInverse ==
    /\ \A k \in DOMAIN expiresIndexMap :
          expiresIndexMap[k] \in DOMAIN expiresList /\ expiresList[expiresIndexMap[k]] = k
    /\ \A i \in DOMAIN expiresList :
          expiresList[i] \in DOMAIN expiresIndexMap /\ expiresIndexMap[expiresList[i]] = i

IndexType ==
    /\ expiresList \in Seq(Key)
    /\ DOMAIN expiresIndexMap \subseteq Key
    /\ expiresIndexMap \in [DOMAIN expiresIndexMap -> Nat \ {0}]

DataInv == DataType /\ ListMatchesMap /\ ExpiryIndexExact

-----------------------------------------------------------------------------
(***************************************************************************)
(* The packed array.                                                       *)
(***************************************************************************)

\* trackExpiry adds the key at the end, unless it is tracked already.
LEMMA TrackKeepsIndex ==
    ASSUME IndexType, IndexInverse, NEW k \in Key, trackExpiry(k)
    PROVE  /\ IndexType' /\ IndexInverse'
           /\ DOMAIN expiresIndexMap' = DOMAIN expiresIndexMap \cup {k}
<1>1. CASE k \in DOMAIN expiresIndexMap
  BY <1>1 DEF IndexType, IndexInverse, trackExpiry
<1>2. CASE k \notin DOMAIN expiresIndexMap
  <2> DEFINE n == Len(expiresList)
  <2>1. n \in Nat /\ DOMAIN expiresList = 1..n
    BY LenProperties DEF IndexType
  <2>2. expiresList' = Append(expiresList, k)
    BY <1>2 DEF trackExpiry, NextPosition
  <2>3. /\ expiresList' \in Seq(Key) /\ Len(expiresList') = n + 1
        /\ \A i \in 1..n : expiresList'[i] = expiresList[i]
        /\ expiresList'[n + 1] = k
    BY <2>2, AppendProperties DEF IndexType
  <2>4. DOMAIN expiresList' = 1..n + 1
    BY <2>3, LenProperties
  <2>5. /\ DOMAIN expiresIndexMap' = DOMAIN expiresIndexMap \cup {k}
        /\ expiresIndexMap'[k] = n + 1
        /\ \A j \in DOMAIN expiresIndexMap : expiresIndexMap'[j] = expiresIndexMap[j]
    BY <1>2 DEF trackExpiry, NextPosition
  <2>6. expiresIndexMap' \in [DOMAIN expiresIndexMap' -> Nat \ {0}]
    BY <1>2, <2>1 DEF trackExpiry, NextPosition, IndexType
  <2> HIDE DEF n
  <2>7. IndexType'
    BY <2>3, <2>5, <2>6 DEF IndexType
  <2>8. ASSUME NEW j \in DOMAIN expiresIndexMap'
        PROVE  /\ expiresIndexMap'[j] \in DOMAIN expiresList'
               /\ expiresList'[expiresIndexMap'[j]] = j
    <3>1. CASE j = k
      BY <3>1, <2>1, <2>3, <2>4, <2>5
    <3>2. CASE j # k
      BY <3>2, <2>1, <2>3, <2>4, <2>5 DEF IndexInverse
    <3>3. QED
      BY <3>1, <3>2
  <2>9. ASSUME NEW i \in DOMAIN expiresList'
        PROVE  /\ expiresList'[i] \in DOMAIN expiresIndexMap'
               /\ expiresIndexMap'[expiresList'[i]] = i
    <3>1. CASE i = n + 1
      BY <3>1, <2>3, <2>5
    <3>2. CASE i # n + 1
      <4>1. i \in 1..n
        BY <3>2, <2>1, <2>4
      <4>2. QED
        BY <4>1, <2>1, <2>3, <2>5 DEF IndexInverse
    <3>3. QED
      BY <3>1, <3>2
  <2>10. QED
    BY <2>5, <2>7, <2>8, <2>9 DEF IndexInverse
<1>3. QED
  BY <1>1, <1>2

\* untrackExpiry: the last key moves to the place of the removed one, and its
\* index with it, also when the removed key is the last one itself.
LEMMA UntrackKeepsIndex ==
    ASSUME IndexType, IndexInverse, NEW k, untrackExpiry(k)
    PROVE  /\ IndexType' /\ IndexInverse'
           /\ DOMAIN expiresIndexMap' = DOMAIN expiresIndexMap \ {k}
<1>1. CASE k \notin DOMAIN expiresIndexMap
  BY <1>1 DEF IndexType, IndexInverse, untrackExpiry
<1>2. CASE k \in DOMAIN expiresIndexMap
  <2> DEFINE n == Len(expiresList)
             p == expiresIndexMap[k]
             last == expiresList[n]
  <2>1. n \in Nat /\ DOMAIN expiresList = 1..n
    BY LenProperties DEF IndexType
  <2>2. p \in 1..n /\ expiresList[p] = k /\ n > 0
    BY <1>2, <2>1 DEF IndexInverse
  <2>3. last \in DOMAIN expiresIndexMap /\ expiresIndexMap[last] = n
    BY <2>1, <2>2 DEF IndexInverse
  <2>4. expiresList' = [i \in 1..n - 1 |-> IF i = p THEN last ELSE expiresList[i]]
    BY <1>2 DEF untrackExpiry
  <2>5. expiresIndexMap' = [j \in DOMAIN expiresIndexMap \ {k} |->
                              IF j = last THEN p ELSE expiresIndexMap[j]]
    BY <1>2 DEF untrackExpiry
  <2>6. DOMAIN expiresList' = 1..n - 1 /\ DOMAIN expiresIndexMap' = DOMAIN expiresIndexMap \ {k}
    BY <2>4, <2>5
  <2>7. \A i \in 1..n - 1 : expiresList'[i] = IF i = p THEN last ELSE expiresList[i]
    BY <2>4
  <2>8. \A j \in DOMAIN expiresIndexMap \ {k} :
            expiresIndexMap'[j] = IF j = last THEN p ELSE expiresIndexMap[j]
    BY <2>5
  <2>9. IndexType'
    <3>1. expiresIndexMap' \in [DOMAIN expiresIndexMap' -> Nat \ {0}]
      BY <2>1, <2>2, <2>5 DEF IndexType
    <3>2. \A i \in 1..n - 1 : (IF i = p THEN last ELSE expiresList[i]) \in Key
      BY <2>1, <2>2, <2>3 DEF IndexType
    <3>3. expiresList' \in [1..n - 1 -> Key]
      BY <2>4, <3>2
    <3>4. expiresList' \in Seq(Key)
      BY <2>1, <2>2, <3>3
    <3>5. QED
      BY <2>6, <3>1, <3>4 DEF IndexType
  <2> HIDE DEF n, p, last
  <2>10. ASSUME NEW j \in DOMAIN expiresIndexMap'
         PROVE  /\ expiresIndexMap'[j] \in DOMAIN expiresList'
                /\ expiresList'[expiresIndexMap'[j]] = j
    <3>1. j \in DOMAIN expiresIndexMap /\ j # k
      BY <2>6
    <3>2. expiresIndexMap[j] \in 1..n /\ expiresList[expiresIndexMap[j]] = j
      BY <3>1, <2>1 DEF IndexInverse
    <3>3. CASE j = last
      <4>1. p # n
        BY <3>1, <3>3, <2>2, <2>3 DEF last
      <4>2. QED
        BY <4>1, <3>1, <3>3, <2>1, <2>2, <2>6, <2>7, <2>8
    <3>4. CASE j # last
      <4>1. expiresIndexMap[j] # n /\ expiresIndexMap[j] # p
        BY <3>1, <3>2, <3>4, <2>2 DEF last
      <4>2. expiresIndexMap[j] \in 1..n - 1
        BY <4>1, <3>2, <2>1
      <4>3. QED
        BY <4>1, <4>2, <3>1, <3>2, <3>4, <2>6, <2>7, <2>8
    <3>5. QED
      BY <3>3, <3>4
  <2>11. ASSUME NEW i \in DOMAIN expiresList'
         PROVE  /\ expiresList'[i] \in DOMAIN expiresIndexMap'
                /\ expiresIndexMap'[expiresList'[i]] = i
    <3>1. i \in 1..n - 1 /\ i \in 1..n /\ i # n
      BY <2>1, <2>6
    <3>2. CASE i = p
      <4>1. last # k
        BY <3>1, <3>2, <2>2, <2>3 DEF p
      <4>2. QED
        BY <4>1, <3>1, <3>2, <2>3, <2>6, <2>7, <2>8
    <3>3. CASE i # p
      <4>1. expiresList'[i] = expiresList[i]
        BY <3>1, <3>3, <2>7
      <4>2. expiresList[i] \in DOMAIN expiresIndexMap /\ expiresIndexMap[expiresList[i]] = i
        BY <3>1, <2>1 DEF IndexInverse
      <4>3. expiresList[i] # k /\ expiresList[i] # last
        BY <4>2, <3>1, <3>3, <2>3 DEF p
      <4>4. QED
        BY <4>1, <4>2, <4>3, <2>6, <2>8
    <3>4. QED
      BY <3>2, <3>3
  <2>12. QED
    BY <2>6, <2>9, <2>10, <2>11 DEF IndexInverse
<1>3. QED
  BY <1>1, <1>2
-----------------------------------------------------------------------------
(***************************************************************************)
(* The four structures together.                                           *)
(***************************************************************************)

\* deleteKey takes the key out of the map, the list and the index.
LEMMA DeleteKeepsData ==
    ASSUME DataInv, NEW k \in DOMAIN map, deleteKey(k)
    PROVE  DataInv' /\ DOMAIN map' = DOMAIN map \ {k}
<1>1. k \in ToSet(lruList) /\ lruList \in Seq(Key) /\ Distinct(lruList)
  BY DEF DataInv, DataType, ListMatchesMap
<1>2. DOMAIN map' = DOMAIN map \ {k} /\ \A j \in DOMAIN map' : map'[j] = map[j]
  BY DEF deleteKey
<1>3. IndexType' /\ IndexInverse' /\ DOMAIN expiresIndexMap' = DOMAIN expiresIndexMap \ {k}
  BY UntrackKeepsIndex
     DEF DataInv, DataType, ExpiryIndexExact, IndexType, IndexInverse, deleteKey
<1>4. lruList' \in Seq(Key) /\ ListMatchesMap'
  BY <1>1, <1>2, UnlinkShape, UnlinkMembers DEF ListMatchesMap, DataInv, deleteKey
<1>5. map' \in [DOMAIN map' -> Entry]
  BY DEF deleteKey, DataInv, DataType
<1>6. DataType'
  BY <1>2, <1>3, <1>4, <1>5 DEF DataType, IndexType, DataInv
<1>7. ExpiryIndexExact'
  BY <1>2, <1>3 DEF ExpiryIndexExact, IndexInverse, DataInv
<1>8. QED
  BY <1>2, <1>4, <1>6, <1>7 DEF DataInv

\* evictOneLru does the same to the key at the tail.
LEMMA EvictKeepsData ==
    ASSUME DataInv, evictOneLru
    PROVE  DataInv' /\ DOMAIN map' = DOMAIN map \ {Last(lruList)} /\ Last(lruList) \in DOMAIN map
<1> DEFINE k == Last(lruList)
<1>1. lruList \in Seq(Key) /\ Distinct(lruList) /\ lruList # <<>> /\ ToSet(lruList) = DOMAIN map
  BY DEF DataInv, DataType, ListMatchesMap, evictOneLru
<1>2. DOMAIN map' = DOMAIN map \ {k} /\ \A j \in DOMAIN map' : map'[j] = map[j]
  BY DEF evictOneLru
<1>3. k \in DOMAIN map
  <2>1. k = lruList[Len(lruList)] /\ Len(lruList) \in 1..Len(lruList)
    BY <1>1, PopTailShape
  <2>2. DOMAIN lruList = 1..Len(lruList)
    BY <1>1, LenProperties
  <2>3. QED
    BY <1>1, <2>1, <2>2 DEF ToSet
<1> HIDE DEF k
<1>4. IndexType' /\ IndexInverse' /\ DOMAIN expiresIndexMap' = DOMAIN expiresIndexMap \ {k}
  BY UntrackKeepsIndex
     DEF DataInv, DataType, ExpiryIndexExact, IndexType, IndexInverse, evictOneLru, k
<1>5. lruList' \in Seq(Key) /\ ListMatchesMap'
  BY <1>1, <1>2, PopTailShape, PopTailMembers DEF ListMatchesMap, evictOneLru, k
<1>6. map' \in [DOMAIN map' -> Entry]
  BY DEF evictOneLru, DataInv, DataType
<1>7. DataType'
  BY <1>2, <1>4, <1>5, <1>6 DEF DataType, IndexType, DataInv
<1>8. ExpiryIndexExact'
  BY <1>2, <1>4 DEF ExpiryIndexExact, IndexInverse, DataInv
<1>9. QED
  BY <1>2, <1>3, <1>5, <1>7, <1>8 DEF DataInv, k

\* The insertion of a node under a key the map does not have.
LEMMA InsertKeepsData ==
    ASSUME DataInv, NEW k \in Key, k \notin DOMAIN map, NEW e \in Entry,
           DOMAIN map' = DOMAIN map \cup {k}, map' \in [DOMAIN map' -> Entry],
           map'[k] = e, \A j \in DOMAIN map : map'[j] = map[j],
           lruList' = PushFront(lruList, k),
           IF e.expiresAt # NoExpiry
           THEN trackExpiry(k) ELSE UNCHANGED <<expiresList, expiresIndexMap>>
    PROVE  DataInv'
<1>1. lruList \in Seq(Key) /\ Distinct(lruList) /\ k \notin ToSet(lruList)
  BY DEF DataInv, DataType, ListMatchesMap
<1>2. lruList' \in Seq(Key) /\ ListMatchesMap'
  <2>1. lruList' \in Seq(Key)
    BY <1>1, PushFrontShape
  <2>2. Distinct(lruList') /\ ToSet(lruList') = ToSet(lruList) \cup {k}
    BY <1>1, PushFrontMembers
  <2>3. QED
    BY <2>1, <2>2 DEF ListMatchesMap, DataInv
<1>3. IndexType /\ IndexInverse
  BY DEF DataInv, DataType, ExpiryIndexExact, IndexType, IndexInverse
<1>4. /\ IndexType' /\ IndexInverse'
      /\ DOMAIN expiresIndexMap' = {j \in DOMAIN map' : map'[j].expiresAt # NoExpiry}
  <2>1. DOMAIN expiresIndexMap = {j \in DOMAIN map : map[j].expiresAt # NoExpiry}
    BY DEF DataInv, ExpiryIndexExact
  <2>2. CASE e.expiresAt # NoExpiry
    <3>1. IndexType' /\ IndexInverse' /\ DOMAIN expiresIndexMap' = DOMAIN expiresIndexMap \cup {k}
      BY <1>3, <2>2, TrackKeepsIndex
    <3>2. QED
      BY <2>1, <2>2, <3>1
  <2>3. CASE e.expiresAt = NoExpiry
    <3>1. UNCHANGED <<expiresList, expiresIndexMap>>
      BY <2>3
    <3>2. IndexType' /\ IndexInverse'
      BY <1>3, <3>1 DEF IndexType, IndexInverse
    <3>3. QED
      BY <2>1, <2>3, <3>1, <3>2
  <2>4. QED
    BY <2>2, <2>3
<1>5. DataType'
  BY <1>2, <1>4 DEF DataType, IndexType, DataInv
<1>6. QED
  BY <1>2, <1>4, <1>5 DEF DataInv, ExpiryIndexExact, IndexInverse

\* A write or a read of a key of the map moves it to the front.
LEMMA TouchKeepsList ==
    ASSUME DataInv, NEW k \in DOMAIN map, DOMAIN map' = DOMAIN map,
           lruList' = MoveToFront(lruList, k)
    PROVE  lruList' \in Seq(Key) /\ ListMatchesMap'
BY MoveToFrontMembers DEF DataInv, DataType, ListMatchesMap

\* SET of a key of the map replaces its value and its deadline.
LEMMA OverwriteKeepsData ==
    ASSUME DataInv, NEW k \in DOMAIN map, NEW e \in Entry,
           map' = [map EXCEPT ![k] = e],
           lruList' = MoveToFront(lruList, k),
           IF e.expiresAt # NoExpiry THEN trackExpiry(k) ELSE untrackExpiry(k)
    PROVE  DataInv' /\ DOMAIN map' = DOMAIN map
<1>1. /\ DOMAIN map' = DOMAIN map /\ map' \in [DOMAIN map' -> Entry]
      /\ map'[k] = e /\ \A j \in DOMAIN map : j # k => map'[j] = map[j]
  BY DEF DataInv, DataType
<1>2. lruList' \in Seq(Key) /\ ListMatchesMap'
  BY <1>1, TouchKeepsList
<1>3. IndexType /\ IndexInverse /\ k \in Key
  BY DEF DataInv, DataType, ExpiryIndexExact, IndexType, IndexInverse
<1>4. DOMAIN expiresIndexMap = {j \in DOMAIN map : map[j].expiresAt # NoExpiry}
  BY DEF DataInv, ExpiryIndexExact
<1>5. /\ IndexType' /\ IndexInverse'
      /\ DOMAIN expiresIndexMap' = {j \in DOMAIN map' : map'[j].expiresAt # NoExpiry}
  <2>1. CASE e.expiresAt # NoExpiry
    <3>1. IndexType' /\ IndexInverse' /\ DOMAIN expiresIndexMap' = DOMAIN expiresIndexMap \cup {k}
      BY <1>3, <2>1, TrackKeepsIndex
    <3>2. QED
      BY <1>1, <1>4, <2>1, <3>1
  <2>2. CASE e.expiresAt = NoExpiry
    <3>1. IndexType' /\ IndexInverse' /\ DOMAIN expiresIndexMap' = DOMAIN expiresIndexMap \ {k}
      BY <1>3, <2>2, UntrackKeepsIndex
    <3>2. QED
      BY <1>1, <1>4, <2>2, <3>1
  <2>3. QED
    BY <2>1, <2>2
<1>6. DataType'
  BY <1>1, <1>2, <1>5 DEF DataType, IndexType, DataInv
<1>7. QED
  BY <1>1, <1>2, <1>5, <1>6 DEF DataInv, ExpiryIndexExact, IndexInverse

\* INCR and GET keep every deadline.
LEMMA SameDeadlinesKeepsData ==
    ASSUME DataInv, NEW k \in DOMAIN map,
           DOMAIN map' = DOMAIN map, map' \in [DOMAIN map' -> Entry],
           \A j \in DOMAIN map : map'[j].expiresAt = map[j].expiresAt,
           lruList' = MoveToFront(lruList, k),
           UNCHANGED <<expiresList, expiresIndexMap>>
    PROVE  DataInv'
<1>1. lruList' \in Seq(Key) /\ ListMatchesMap'
  BY TouchKeepsList
<1>2. DataType'
  BY <1>1 DEF DataType, DataInv
<1>3. ExpiryIndexExact'
  BY DEF ExpiryIndexExact, DataInv
<1>4. QED
  BY <1>1, <1>2, <1>3 DEF DataInv

LEMMA UnchangedKeepsData ==
    ASSUME DataInv, UNCHANGED data
    PROVE  DataInv' /\ DOMAIN map' = DOMAIN map
BY DEF DataInv, DataType, ListMatchesMap, ExpiryIndexExact, Distinct, ToSet, data
-----------------------------------------------------------------------------
(***************************************************************************)
(* The entry a set is about to insert is not in the map: nothing but the   *)
(* set itself runs until it is.  Without this an insertion could leave a   *)
(* key in the array whose new entry has no deadline.                       *)
(***************************************************************************)
PendingAbsent == task.op = "makeRoom" => task.key \notin DOMAIN map

EngineInv == TypeOK /\ ListMatchesMap /\ ExpiryIndexExact /\ PendingAbsent

LEMMA TypeGivesDataType == TypeOK => DataType
BY DEF TypeOK, DataType

\* Every deadline the engine computes from its clock is one TypeOK allows.
LEMMA DeadlineType ==
    ASSUME clock \in Nat, NEW ex \in Ttl
    PROVE  /\ Deadline(ex) \in Nat \cup {NoExpiry}
           /\ Deadline(ex) # NoExpiry <=> ex > 0
BY InputAssumption DEF Deadline, NoExpiry

\* An idle engine is in no method.
LEMMA IdleTask == ASSUME task = Idle PROVE task.op = "idle"
BY DEF Idle

LEMMA EngineInit == Init => EngineInv
<1> SUFFICES ASSUME Init PROVE EngineInv
  OBVIOUS
<1>1. DOMAIN map = {} /\ map \in [DOMAIN map -> Entry]
  BY DEF Init
<1>2. DOMAIN expiresIndexMap = {} /\ expiresIndexMap \in [DOMAIN expiresIndexMap -> Nat \ {0}]
  BY DEF Init
<1>3. lruList = <<>> /\ expiresList = <<>> /\ task = Idle
  BY DEF Init
<1>4. TypeOK
  BY <1>1, <1>2, <1>3 DEF Init, TypeOK, Task
<1>5. ListMatchesMap
  BY <1>1, <1>3 DEF ListMatchesMap, Distinct, ToSet
<1>6. ExpiryIndexExact
  BY <1>1, <1>2, <1>3 DEF ExpiryIndexExact
<1>7. QED
  BY <1>3, <1>4, <1>5, <1>6, IdleTask DEF EngineInv, PendingAbsent, Idle

\* What TypeOK says besides the entries.
RestType ==
    /\ ttlTimer \in BOOLEAN
    /\ hits \in Nat /\ misses \in Nat /\ totalOps \in Nat
    /\ clock \in Nat
    /\ task \in Task
    /\ reply \in {NoReply} \cup Result
    /\ lastUse \in [Key -> Nat]

LEMMA InvParts == EngineInv <=> DataInv /\ RestType /\ PendingAbsent
BY DEF EngineInv, DataInv, TypeOK, DataType, RestType

LEMMA InvPartsNext == DataInv' /\ RestType' /\ PendingAbsent' => EngineInv'
BY DEF EngineInv, DataInv, TypeOK, DataType, RestType

\* The steps that leave the entries alone keep everything said of them.
LEMMA QuietStep ==
    ASSUME EngineInv, UNCHANGED data, RestType',
           task'.op = "makeRoom" => (task'.key \notin DOMAIN map)
    PROVE  EngineInv'
BY InvParts, InvPartsNext, UnchangedKeepsData DEF PendingAbsent, data

\* What a SET was asked for is a result, and what a DEL was asked for is a set of keys.
LEMMA SetResultType ==
    ASSUME NEW k \in Key, NEW v \in Value, NEW ex \in Ttl
    PROVE  SetResult(k, v, ex) \in Result
BY InputAssumption DEF SetResult, Result

LEMMA ToSetType ==
    ASSUME NEW s \in Seq(Key)
    PROVE  ToSet(s) \in SUBSET Key
BY DEF ToSet

LEMMA EngineStep == EngineInv /\ [Next]_vars => EngineInv'
<1> SUFFICES ASSUME EngineInv, [Next]_vars PROVE EngineInv'
  OBVIOUS
<1>0. DataInv /\ RestType /\ PendingAbsent
  BY InvParts
<1> USE DEF Start, Return, Run, Touch
<1>1. ASSUME NEW k \in Key, getMiss(k)
      PROVE  EngineInv'
  <2>1. RestType'
    BY <1>0, <1>1, OptionAssumption, ValueAssumption, BoundAssumption, InputAssumption
       DEF RestType, getMiss, Task, Result, Idle, stats
  <2>2. UNCHANGED data /\ (task'.op = "makeRoom" => task'.key \notin DOMAIN map)
    BY <1>0, <1>1 DEF PendingAbsent, getMiss, Task, Result, Idle, stats
  <2>3. QED
    BY <2>1, <2>2, QuietStep
<1>2. ASSUME NEW k \in Key, getExpired(k)
      PROVE  EngineInv'
  <2>1. RestType'
    BY <1>0, <1>2 DEF RestType, getExpired, Resident, Task, Result, Idle, stats
  <2>2. DataInv' /\ DOMAIN map' \subseteq DOMAIN map
    BY <1>0, <1>2, DeleteKeepsData, UnchangedKeepsData DEF getExpired, Resident
  <2>3. PendingAbsent'
    BY <1>0, <1>2, <2>2 DEF PendingAbsent, getExpired, Resident, Idle, Task
  <2>4. QED
    BY <2>1, <2>2, <2>3, InvPartsNext
<1>3. ASSUME NEW k \in Key, getHit(k)
      PROVE  EngineInv'
  <2>1. k \in DOMAIN map /\ map[k].value \in Value
    BY <1>0, <1>3 DEF getHit, Fresh, Resident, DataInv, DataType, Entry
  <2>2. RestType'
    BY <1>0, <1>3, <2>1 DEF RestType, getHit, Task, Result, Idle, stats
  <2>3. DataInv'
    BY <1>0, <1>3, <2>1, SameDeadlinesKeepsData DEF getHit, DataInv, DataType
  <2>4. PendingAbsent'
    BY <1>3 DEF PendingAbsent, getHit, Idle
  <2>5. QED
    BY <2>2, <2>3, <2>4, InvPartsNext
<1>4. ASSUME NEW k \in Key, NEW v \in SetValues, NEW ex \in Ttl, setExisting(k, v, ex)
      PROVE  EngineInv'
  <2> DEFINE e == [value |-> v, expiresAt |-> Deadline(ex)]
  <2>1. clock \in Nat /\ v \in Value
    BY <1>0, BoundAssumption DEF RestType, SetValues, Value
  <2>2. e \in Entry /\ (e.expiresAt # NoExpiry <=> ex > 0)
    BY <2>1, DeadlineType DEF Entry
  <2>3. RestType'
    BY <1>0, <1>4, <2>1, SetResultType DEF RestType, setExisting, Task, Idle, stats
  <2>4. k \in DOMAIN map /\ map' = [map EXCEPT ![k] = e] /\ lruList' = MoveToFront(lruList, k)
    BY <1>4 DEF setExisting, Resident
  <2>5. IF e.expiresAt # NoExpiry THEN trackExpiry(k) ELSE untrackExpiry(k)
    BY <1>4, <2>2 DEF setExisting, retrack
  <2> HIDE DEF e
  <2>6. DataInv'
    BY <1>0, <2>2, <2>4, <2>5, OverwriteKeepsData
  <2>7. PendingAbsent'
    BY <1>4 DEF PendingAbsent, setExisting
  <2>8. QED
    BY <2>3, <2>6, <2>7, InvPartsNext
<1>5. ASSUME NEW k \in Key, NEW v \in SetValues, NEW ex \in Ttl, setNew(k, v, ex)
      PROVE  EngineInv'
  <2>1. v \in Value /\ Deadline(ex) \in Nat \cup {NoExpiry}
    BY <1>0, DeadlineType DEF RestType, SetValues, Value
  <2>2. RestType'
    BY <1>0, <1>5, <2>1, SetResultType DEF RestType, setNew, Task, Idle, stats
  <2>3. UNCHANGED data /\ task'.key \notin DOMAIN map
    BY <1>5 DEF setNew, Resident
  <2>4. QED
    BY <2>2, <2>3, QuietStep
<1>6. ASSUME NEW k \in Key, incrAbsent(k)
      PROVE  EngineInv'
  <2>1. RestType'
    BY <1>0, <1>6 DEF RestType, incrAbsent, Value, Task, Result, Idle, stats
  <2>2. DataInv' /\ k \notin DOMAIN map'
    BY <1>0, <1>6, DeleteKeepsData, UnchangedKeepsData DEF incrAbsent, Resident
  <2>3. PendingAbsent'
    BY <1>6, <2>2 DEF PendingAbsent, incrAbsent
  <2>4. QED
    BY <2>1, <2>2, <2>3, InvPartsNext
<1>7. ASSUME NEW k \in Key, incrPresent(k)
      PROVE  EngineInv'
  <2>1. k \in DOMAIN map /\ map[k] \in Entry /\ map[k].value \in Int
    BY <1>0, <1>7 DEF incrPresent, Fresh, Resident, DataInv, DataType
  <2>2. RestType'
    BY <1>0, <1>7, <2>1 DEF RestType, incrPresent, Task, Result, Idle, stats
  <2>3. /\ DOMAIN map' = DOMAIN map /\ map' \in [DOMAIN map' -> Entry]
        /\ \A j \in DOMAIN map : map'[j].expiresAt = map[j].expiresAt
    <3> DEFINE e == Bumped(map[k])
    <3>1. e \in Entry /\ e.expiresAt = map[k].expiresAt
      BY <2>1 DEF Bumped, Entry, Value
    <3> HIDE DEF e
    <3>2. map' = [map EXCEPT ![k] = e]
      BY <1>7 DEF incrPresent, e
    <3>3. map \in [DOMAIN map -> Entry]
      BY <1>0 DEF DataInv, DataType
    <3> QED
      BY <2>1, <3>1, <3>2, <3>3
  <2>4. DataInv'
    BY <1>0, <1>7, <2>1, <2>3, SameDeadlinesKeepsData DEF incrPresent
  <2>5. PendingAbsent'
    BY <1>7 DEF PendingAbsent, incrPresent, Idle
  <2>6. QED
    BY <2>2, <2>4, <2>5, InvPartsNext
<1>8. ASSUME NEW k \in Key, incrNotInteger(k)
      PROVE  EngineInv'
  <2>1. RestType'
    BY <1>0, <1>8, OptionAssumption, ValueAssumption, BoundAssumption, InputAssumption
       DEF RestType, incrNotInteger, Task, Result, Idle, stats
  <2>2. UNCHANGED data /\ (task'.op = "makeRoom" => task'.key \notin DOMAIN map)
    BY <1>0, <1>8 DEF PendingAbsent, incrNotInteger, Task, Result, Idle, stats
  <2>3. QED
    BY <2>1, <2>2, QuietStep
<1>9. ASSUME NEW k \in Key, ttlExpired(k)
      PROVE  EngineInv'
  <2>1. RestType'
    BY <1>0, <1>9 DEF RestType, ttlExpired, Resident, Task, Result, Idle, stats
  <2>2. DataInv' /\ DOMAIN map' \subseteq DOMAIN map
    BY <1>0, <1>9, DeleteKeepsData, UnchangedKeepsData DEF ttlExpired, Resident
  <2>3. PendingAbsent'
    BY <1>0, <1>9, <2>2 DEF PendingAbsent, ttlExpired, Resident, Idle, Task
  <2>4. QED
    BY <2>1, <2>2, <2>3, InvPartsNext
<1>10. ASSUME NEW k \in Key, ttlLeft(k)
      PROVE  EngineInv'
  <2>1. CASE ~Resident(k) \/ map[k].expiresAt = NoExpiry
    <3>1. RestType'
      BY <1>0, <1>10, <2>1 DEF RestType, ttlLeft, Task, Result, Idle, stats
    <3>2. UNCHANGED data /\ task'.op # "makeRoom"
      BY <1>10 DEF ttlLeft, Idle
    <3>3. QED
      BY <3>1, <3>2, QuietStep
  <2>2. CASE Resident(k) /\ map[k].expiresAt # NoExpiry
    <3>1. map[k].expiresAt \in Nat /\ clock \in Nat /\ ~(clock >= map[k].expiresAt)
      BY <1>0, <1>10, <2>2 DEF RestType, DataInv, DataType, Entry, Resident, Expired, ttlLeft
    <3>2. map[k].expiresAt - clock \in Nat
      BY <3>1
    <3>3. RestType'
      BY <1>0, <1>10, <2>2, <3>2 DEF RestType, ttlLeft, Task, Result, Idle, stats
    <3>4. UNCHANGED data /\ task'.op # "makeRoom"
      BY <1>10 DEF ttlLeft, Idle
    <3>5. QED
      BY <3>3, <3>4, QuietStep
  <2>3. QED
    BY <2>1, <2>2
<1>11. ASSUME NEW keys \in DelLists, del(keys)
      PROVE  EngineInv'
  <2>0. keys \in Seq(Key) /\ ToSet(keys) \in SUBSET Key
    BY InputAssumption, ToSetType
  <2>1. RestType'
    BY <1>0, <1>11, <2>0 DEF RestType, del, Task, stats
  <2>2. UNCHANGED data /\ (task'.op = "makeRoom" => task'.key \notin DOMAIN map)
    BY <1>0, <1>11 DEF PendingAbsent, del, Task, Result, Idle, stats
  <2>3. QED
    BY <2>1, <2>2, QuietStep
<1>12. ASSUME delOne
      PROVE  EngineInv'
  <2>1. task.op = "del" /\ task.keys \in Seq(Key) /\ task.keys # <<>> /\ task.deleted \in Nat
    BY <1>0, <1>12 DEF RestType, delOne, Task, Result, Idle, stats
  <2>2. Tail(task.keys) \in Seq(Key)
    BY <2>1, HeadTailProperties
  <2>3. task' \in Task /\ task'.op = "del"
    <3>1. task \in [op : {"del"}, all : SUBSET Key, keys : Seq(Key), now : Nat, deleted : Nat]
      BY <1>0, <2>1 DEF RestType, Task, Idle
    <3>2. task' = [task EXCEPT !.keys = Tail(task.keys), !.deleted = task'.deleted]
          /\ task'.deleted \in Nat
      BY <1>12, <3>1 DEF delOne
    <3>3. task' \in [op : {"del"}, all : SUBSET Key, keys : Seq(Key), now : Nat, deleted : Nat]
      BY <2>2, <3>1, <3>2
    <3>4. QED
      BY <3>3 DEF Task
  <2>4. RestType'
    BY <1>0, <1>12, <2>3 DEF RestType, delOne, stats
  <2>5. DataInv'
    BY <1>0, <1>12, DeleteKeepsData, UnchangedKeepsData DEF delOne, Resident
  <2>6. PendingAbsent'
    BY <2>3 DEF PendingAbsent
  <2>7. QED
    BY <2>4, <2>5, <2>6, InvPartsNext
<1>13. ASSUME delDone
      PROVE  EngineInv'
  <2>1. RestType'
    BY <1>0, <1>13, OptionAssumption, ValueAssumption, BoundAssumption, InputAssumption
       DEF RestType, delDone, Task, Result, Idle, stats
  <2>2. UNCHANGED data /\ (task'.op = "makeRoom" => task'.key \notin DOMAIN map)
    BY <1>0, <1>13 DEF PendingAbsent, delDone, Task, Result, Idle, stats
  <2>3. QED
    BY <2>1, <2>2, QuietStep
<1>14. ASSUME sweepStart
      PROVE  EngineInv'
  <2>1. Batch(clock) \in Task /\ Batch(clock).op = "sweep"
    BY <1>0, LenProperties, OptionAssumption DEF RestType, DataInv, DataType, Batch, Task
  <2>2. RestType'
    BY <1>0, <1>14, <2>1 DEF RestType, sweepStart, stats
  <2>3. UNCHANGED data /\ task'.op # "makeRoom"
    BY <1>14, <2>1 DEF sweepStart
  <2>4. QED
    BY <2>2, <2>3, QuietStep
<1>15. ASSUME NEW i \in DOMAIN expiresList, sweepPick(i)
      PROVE  EngineInv'
  <2>1. task' \in Task /\ task'.op = "sweep"
    <3>1. task \in [op : {"sweep"}, now : Nat, size : Nat, left : Nat, expired : Nat]
      BY <1>0, <1>15 DEF RestType, sweepPick, Task, Idle
    <3>2. /\ task.left > 0
          /\ \/ task' = [task EXCEPT !.left = @ - 1, !.expired = @ + 1]
             \/ task' = [task EXCEPT !.left = @ - 1]
      BY <1>15 DEF sweepPick
    <3>a. task.left - 1 \in Nat /\ task.expired + 1 \in Nat
      BY <3>1, <3>2
    <3>3. task' \in [op : {"sweep"}, now : Nat, size : Nat, left : Nat, expired : Nat]
      <4>1. CASE task' = [task EXCEPT !.left = @ - 1, !.expired = @ + 1]
        BY <3>1, <3>a, <4>1
      <4>2. CASE task' = [task EXCEPT !.left = @ - 1]
        BY <3>1, <3>a, <4>2
      <4>3. QED
        BY <3>2, <4>1, <4>2
    <3>4. QED
      BY <3>3 DEF Task
  <2>2. RestType'
    BY <1>0, <1>15, <2>1 DEF RestType, sweepPick, stats
  <2>3. DataInv'
    BY <1>0, <1>15, DeleteKeepsData, UnchangedKeepsData DEF sweepPick, Resident
  <2>4. PendingAbsent'
    BY <2>1 DEF PendingAbsent
  <2>5. QED
    BY <2>2, <2>3, <2>4, InvPartsNext
<1>16. ASSUME sweepAgain
      PROVE  EngineInv'
  <2>1. Batch(clock) \in Task /\ Batch(clock).op = "sweep"
    BY <1>0, LenProperties, OptionAssumption DEF RestType, DataInv, DataType, Batch, Task
  <2>2. RestType'
    BY <1>0, <1>16, <2>1 DEF RestType, sweepAgain, stats
  <2>3. UNCHANGED data /\ task'.op # "makeRoom"
    BY <1>16, <2>1 DEF sweepAgain
  <2>4. QED
    BY <2>2, <2>3, QuietStep
<1>17. ASSUME sweepStop
      PROVE  EngineInv'
  <2>1. RestType'
    BY <1>0, <1>17, OptionAssumption, ValueAssumption, BoundAssumption, InputAssumption
       DEF RestType, sweepStop, Task, Result, Idle, stats
  <2>2. UNCHANGED data /\ (task'.op = "makeRoom" => task'.key \notin DOMAIN map)
    BY <1>0, <1>17 DEF PendingAbsent, sweepStop, Task, Result, Idle, stats
  <2>3. QED
    BY <2>1, <2>2, QuietStep
<1>18. ASSUME startTtlSweep
      PROVE  EngineInv'
  <2>1. RestType'
    BY <1>0, <1>18, OptionAssumption, ValueAssumption, BoundAssumption, InputAssumption
       DEF RestType, startTtlSweep, Task, Result, Idle, stats
  <2>2. UNCHANGED data /\ (task'.op = "makeRoom" => task'.key \notin DOMAIN map)
    BY <1>0, <1>18 DEF PendingAbsent, startTtlSweep, Task, Result, Idle, stats
  <2>3. QED
    BY <2>1, <2>2, QuietStep
<1>19. ASSUME stopTtlSweep
      PROVE  EngineInv'
  <2>1. RestType'
    BY <1>0, <1>19, OptionAssumption, ValueAssumption, BoundAssumption, InputAssumption
       DEF RestType, stopTtlSweep, Task, Result, Idle, stats
  <2>2. UNCHANGED data /\ (task'.op = "makeRoom" => task'.key \notin DOMAIN map)
    BY <1>0, <1>19 DEF PendingAbsent, stopTtlSweep, Task, Result, Idle, stats
  <2>3. QED
    BY <2>1, <2>2, QuietStep
<1>20. ASSUME Tick
      PROVE  EngineInv'
  <2>1. RestType'
    BY <1>0, <1>20, OptionAssumption, ValueAssumption, BoundAssumption, InputAssumption
       DEF RestType, Tick, Task, Result, Idle, stats
  <2>2. UNCHANGED data /\ (task'.op = "makeRoom" => task'.key \notin DOMAIN map)
    BY <1>0, <1>20 DEF PendingAbsent, Tick, Task, Result, Idle, stats
  <2>3. QED
    BY <2>1, <2>2, QuietStep
<1>21. ASSUME Evict
      PROVE  EngineInv'
  <2>1. task' \in Task /\ task'.op = task.op /\ (task.op = "makeRoom" => task'.key = task.key)
    <3>1. task \in Task /\ task' = [task EXCEPT !.evicted = @ + 1]
      BY <1>0, <1>21 DEF RestType, Evict
    <3>2. CASE task.op = "makeRoom"
      <4>1. task \in [op : {"makeRoom"}, key : Key, value : Value,
                      expiresAt : Nat \cup {NoExpiry}, result : Result, evicted : Nat]
        BY <3>1, <3>2 DEF Task, Idle
      <4>2. task' \in [op : {"makeRoom"}, key : Key, value : Value,
                       expiresAt : Nat \cup {NoExpiry}, result : Result, evicted : Nat]
        BY <3>1, <4>1
      <4> QED
        BY <3>1, <4>1, <4>2 DEF Task
    <3>3. CASE task.op = "trim"
      <4>1. task \in [op : {"trim"}, result : Result, evicted : Nat]
        BY <3>1, <3>3 DEF Task, Idle
      <4>2. task' \in [op : {"trim"}, result : Result, evicted : Nat]
        BY <3>1, <4>1
      <4> QED
        BY <3>1, <3>3, <4>1, <4>2 DEF Task
    <3> QED
      BY <1>21, <3>2, <3>3 DEF Evict
  <2>2. RestType'
    BY <1>0, <1>21, <2>1 DEF RestType, Evict, stats
  <2>3. DataInv' /\ DOMAIN map' \subseteq DOMAIN map
    BY <1>0, <1>21, EvictKeepsData DEF Evict
  <2>4. PendingAbsent'
    BY <1>0, <2>1, <2>3 DEF PendingAbsent
  <2>5. QED
    BY <2>2, <2>3, <2>4, InvPartsNext
<1>22. ASSUME Insert
      PROVE  EngineInv'
  <2> DEFINE k == task.key
             e == [value |-> task.value, expiresAt |-> task.expiresAt]
  <2>1. /\ task.op = "makeRoom" /\ k \in Key /\ e \in Entry /\ task.result \in Result
        /\ k \notin DOMAIN map
    BY <1>0, <1>22 DEF RestType, Insert, Task, Idle, Entry, PendingAbsent
  <2>2. RestType' /\ task'.op = "trim"
    BY <1>0, <1>22, <2>1 DEF RestType, Insert, Task, stats
  <2>3. /\ DOMAIN map' = DOMAIN map \cup {k} /\ map'[k] = e
        /\ \A j \in DOMAIN map : map'[j] = map[j]
    BY <1>22, <2>1 DEF Insert
  <2>4. map' = [j \in DOMAIN map \cup {k} |-> IF j = k THEN e ELSE map[j]]
    BY <1>22 DEF Insert
  <2>5. /\ lruList' = PushFront(lruList, k)
        /\ IF e.expiresAt # NoExpiry
           THEN trackExpiry(k) ELSE UNCHANGED <<expiresList, expiresIndexMap>>
    BY <1>22 DEF Insert
  <2> HIDE DEF k, e
  <2>6. map' \in [DOMAIN map' -> Entry]
    BY <1>0, <2>1, <2>3, <2>4 DEF DataInv, DataType
  <2>7. DataInv'
    BY <1>0, <2>1, <2>3, <2>5, <2>6, InsertKeepsData
  <2>8. PendingAbsent'
    BY <2>2 DEF PendingAbsent
  <2>9. QED
    BY <2>2, <2>7, <2>8, InvPartsNext
<1>23. ASSUME WriteDone
      PROVE  EngineInv'
  <2>1. RestType'
    BY <1>0, <1>23, OptionAssumption, ValueAssumption, BoundAssumption, InputAssumption
       DEF RestType, WriteDone, Task, Result, Idle, stats
  <2>2. UNCHANGED data /\ (task'.op = "makeRoom" => task'.key \notin DOMAIN map)
    BY <1>0, <1>23 DEF PendingAbsent, WriteDone, Task, Result, Idle, stats
  <2>3. QED
    BY <2>1, <2>2, QuietStep
<1>24. ASSUME clear
      PROVE  EngineInv'
  <2>1. RestType'
    BY <1>0, <1>24 DEF RestType, clear, Task, Result, stats
  <2>2. DOMAIN map' = {} /\ map' \in [DOMAIN map' -> Entry]
    BY <1>24 DEF clear
  <2>3. /\ lruList' = <<>> /\ expiresList' = <<>>
        /\ DOMAIN expiresIndexMap' = {} /\ expiresIndexMap' \in [DOMAIN expiresIndexMap' -> Nat \ {0}]
    BY <1>24 DEF clear
  <2>4. DataInv'
    BY <2>2, <2>3
       DEF DataInv, DataType, ListMatchesMap, ExpiryIndexExact, Distinct, ToSet
  <2>5. PendingAbsent'
    BY <2>2 DEF PendingAbsent
  <2>6. QED
    BY <2>1, <2>4, <2>5, InvPartsNext
<1>25. ASSUME UNCHANGED vars
      PROVE  EngineInv'
  <2>1. RestType'
    BY <1>0, <1>25, OptionAssumption, ValueAssumption, BoundAssumption, InputAssumption
       DEF RestType, vars, Task, Result, Idle, stats
  <2>2. UNCHANGED data /\ (task'.op = "makeRoom" => task'.key \notin DOMAIN map)
    BY <1>0, <1>25 DEF PendingAbsent, vars, Task, Result, Idle, stats
  <2>3. QED
    BY <2>1, <2>2, QuietStep
<1>26. QED
  BY <1>1, <1>2, <1>3, <1>4, <1>5, <1>6, <1>7, <1>8, <1>9, <1>10, <1>11, <1>12,
     <1>13, <1>14, <1>15, <1>16, <1>17, <1>18, <1>19, <1>20, <1>21, <1>22, <1>23, <1>24, <1>25
     DEF Next, Request, Progress, get, set, incr, ttl

\* TypeOK: the fields of the engine, and of the method that runs, keep their types.
THEOREM EngineTypes == Spec => []TypeOK
<1>1. Spec => []EngineInv
  BY EngineInit, EngineStep, PTL DEF Spec
<1>2. EngineInv => TypeOK
  BY DEF EngineInv
<1>3. QED
  BY <1>1, <1>2, PTL

\* The recency list holds exactly the keys of the map, each once, for every number
\* of keys and every limit.
THEOREM ListAlwaysMatchesMap == Spec => []ListMatchesMap
<1>1. Spec => []EngineInv
  BY EngineInit, EngineStep, PTL DEF Spec
<1>2. EngineInv => ListMatchesMap
  BY DEF EngineInv
<1>3. QED
  BY <1>1, <1>2, PTL

\* The packed array and its index always agree with the deadlines in the map.
THEOREM ExpiryIndexAlwaysExact == Spec => []ExpiryIndexExact
<1>1. Spec => []EngineInv
  BY EngineInit, EngineStep, PTL DEF Spec
<1>2. EngineInv => ExpiryIndexExact
  BY DEF EngineInv
<1>3. QED
  BY <1>1, <1>2, PTL
-----------------------------------------------------------------------------
(***************************************************************************)
(* Recency.                                                                *)
(***************************************************************************)
\* The nodes of s come in descending order of f.
Descending(s, f) == \A i, j \in DOMAIN s : i < j => f[s[i]] > f[s[j]]

\* unlink leaves the other nodes in their order.
LEMMA UnlinkDescends ==
    ASSUME NEW S, NEW s \in Seq(S), NEW n \in ToSet(s), NEW f, Descending(s, f)
    PROVE  Descending(Unlink(s, n), f)
<1> DEFINE u == Unlink(s, n)
           p == Position(s, n)
<1>1. /\ p \in 1..Len(s) /\ u \in Seq(S) /\ Len(u) = Len(s) - 1
      /\ \A i \in 1..Len(s) - 1 : u[i] = IF i < p THEN s[i] ELSE s[i + 1]
  BY UnlinkShape
<1> HIDE DEF u, p
<1>2. DOMAIN s = 1..Len(s) /\ DOMAIN u = 1..Len(s) - 1 /\ Len(s) \in Nat
  BY <1>1, LenProperties
<1>3. ASSUME NEW i \in DOMAIN u, NEW j \in DOMAIN u, i < j
      PROVE  f[u[i]] > f[u[j]]
  <2>1. PICK a \in DOMAIN s : u[i] = s[a] /\ a = IF i < p THEN i ELSE i + 1
    BY <1>1, <1>2
  <2>2. PICK b \in DOMAIN s : u[j] = s[b] /\ b = IF j < p THEN j ELSE j + 1
    BY <1>1, <1>2
  <2>3. a < b
    BY <1>1, <1>2, <1>3, <2>1, <2>2
  <2> QED
    BY <2>1, <2>2, <2>3 DEF Descending
<1> QED
  BY <1>3 DEF Descending, u

\* popTail too.
LEMMA PopTailDescends ==
    ASSUME NEW S, NEW s \in Seq(S), s # <<>>, NEW f, Descending(s, f)
    PROVE  Descending(PopTail(s), f)
<1> DEFINE q == PopTail(s)
<1>1. q \in Seq(S) /\ Len(q) = Len(s) - 1 /\ \A i \in 1..Len(s) - 1 : q[i] = s[i]
  BY PopTailShape
<1> HIDE DEF q
<1>2. DOMAIN s = 1..Len(s) /\ DOMAIN q = 1..Len(s) - 1 /\ Len(s) \in Nat
  BY <1>1, LenProperties
<1>3. ASSUME NEW i \in DOMAIN q, NEW j \in DOMAIN q, i < j
      PROVE  f[q[i]] > f[q[j]]
  <2>1. i \in DOMAIN s /\ j \in DOMAIN s /\ q[i] = s[i] /\ q[j] = s[j]
    BY <1>1, <1>2
  <2> QED
    BY <1>3, <2>1 DEF Descending
<1> QED
  BY <1>3 DEF Descending, q

\* A node that is used later than every node of the list goes in front of them.
LEMMA PushFrontDescends ==
    ASSUME NEW S, NEW s \in Seq(S), NEW n \in S, NEW f, NEW g, Descending(s, f),
           \A m \in ToSet(s) : g[m] = f[m] /\ g[n] > g[m]
    PROVE  Descending(PushFront(s, n), g)
<1> DEFINE q == PushFront(s, n)
<1>1. q \in Seq(S) /\ Len(q) = Len(s) + 1 /\ q[1] = n /\ \A i \in 2..Len(s) + 1 : q[i] = s[i - 1]
  BY PushFrontShape
<1> HIDE DEF q
<1>2. DOMAIN s = 1..Len(s) /\ DOMAIN q = 1..Len(s) + 1 /\ Len(s) \in Nat
  BY <1>1, LenProperties
<1>3. ASSUME NEW i \in DOMAIN q, NEW j \in DOMAIN q, i < j
      PROVE  g[q[i]] > g[q[j]]
  <2>1. j \in 2..Len(s) + 1 /\ j - 1 \in DOMAIN s /\ q[j] = s[j - 1]
    BY <1>1, <1>2, <1>3
  <2>2. s[j - 1] \in ToSet(s)
    BY <2>1 DEF ToSet
  <2>3. CASE i = 1
    BY <1>1, <2>1, <2>2, <2>3
  <2>4. CASE i # 1
    <3>1. i - 1 \in DOMAIN s /\ q[i] = s[i - 1] /\ i - 1 < j - 1
      BY <1>1, <1>2, <1>3, <2>4
    <3>2. s[i - 1] \in ToSet(s)
      BY <3>1 DEF ToSet
    <3> QED
      BY <2>1, <2>2, <3>1, <3>2 DEF Descending
  <2> QED
    BY <2>3, <2>4
<1> QED
  BY <1>3 DEF Descending, q

\* moveToFront of the node that is used now.
LEMMA MoveToFrontDescends ==
    ASSUME NEW S, NEW s \in Seq(S), Distinct(s), NEW n \in ToSet(s), NEW f, NEW g, Descending(s, f),
           \A m \in ToSet(s) \ {n} : g[m] = f[m] /\ g[n] > g[m]
    PROVE  Descending(MoveToFront(s, n), g)
<1>1. Unlink(s, n) \in Seq(S) /\ n \in S /\ ToSet(Unlink(s, n)) = ToSet(s) \ {n}
  <2>1. n \in S
    BY DEF ToSet
  <2> QED
    BY <2>1, UnlinkShape, UnlinkMembers
<1>2. Descending(Unlink(s, n), f)
  BY UnlinkDescends
<1> QED
  BY <1>1, <1>2, PushFrontDescends DEF MoveToFront

\* While set makes room for a new key, no other key is as recent as it will be.
RecencyInv ==
    /\ Descending(lruList, lastUse)
    /\ \A k \in Key : lastUse[k] <= totalOps
    /\ task.op = "makeRoom" => \A k \in Key : lastUse[k] < totalOps

\* A step that uses no key.
LEMMA NothingUsed ==
    ASSUME RestType, RestType', RecencyInv, UNCHANGED lastUse, Descending(lruList', lastUse),
           totalOps' >= totalOps,
           task'.op = "makeRoom" => totalOps' > totalOps \/ (task.op = "makeRoom" /\ UNCHANGED totalOps)
    PROVE  RecencyInv'
BY DEF RecencyInv, RestType

\* A step that uses a resident key.
LEMMA KeyUsed ==
    ASSUME DataInv, RestType, RestType', RecencyInv, NEW k \in DOMAIN map, totalOps' > totalOps,
           lruList' = MoveToFront(lruList, k), lastUse' = [lastUse EXCEPT ![k] = totalOps'],
           task'.op # "makeRoom"
    PROVE  RecencyInv'
<1>1. /\ lruList \in Seq(Key) /\ Distinct(lruList) /\ k \in ToSet(lruList)
      /\ ToSet(lruList) \subseteq Key /\ k \in Key
  BY DEF DataInv, DataType, ListMatchesMap
<1>2. /\ lastUse' \in [Key -> Nat] /\ lastUse'[k] = totalOps' /\ totalOps \in Nat /\ totalOps' \in Nat
      /\ \A j \in Key \ {k} : lastUse'[j] = lastUse[j] /\ lastUse[j] <= totalOps /\ lastUse[j] \in Nat
  BY <1>1 DEF RestType, RecencyInv
<1>3. \A j \in ToSet(lruList) \ {k} : lastUse'[j] = lastUse[j] /\ lastUse'[k] > lastUse'[j]
  BY <1>1, <1>2
<1>4. Descending(lruList', lastUse')
  BY <1>1, <1>3, MoveToFrontDescends DEF RecencyInv
<1> QED
  BY <1>2, <1>4 DEF RecencyInv

\* A deletion.
LEMMA DeleteDescends ==
    ASSUME DataInv, RecencyInv, NEW k \in DOMAIN map, deleteKey(k)
    PROVE  Descending(lruList', lastUse)
<1>1. lruList \in Seq(Key) /\ k \in ToSet(lruList)
  BY DEF DataInv, DataType, ListMatchesMap
<1> QED
  BY <1>1, UnlinkDescends DEF RecencyInv, deleteKey

\* Every step of the engine keeps the order of the last uses.
LEMMA RecencyStep == EngineInv /\ RecencyInv /\ [Next]_vars => RecencyInv'
<1> SUFFICES ASSUME EngineInv, RecencyInv, [Next]_vars PROVE RecencyInv'
  OBVIOUS
<1>0. /\ DataInv /\ RestType /\ PendingAbsent /\ RestType'
      /\ Descending(lruList, lastUse)
  BY InvParts, EngineStep DEF RecencyInv, EngineInv, TypeOK, RestType
<1> USE DEF Start, Return, Run, Touch
<1>1. CASE /\ UNCHANGED <<lruList, lastUse>> /\ totalOps' >= totalOps
           /\ task'.op = "makeRoom" =>
                  totalOps' > totalOps \/ (task.op = "makeRoom" /\ UNCHANGED totalOps)
  BY <1>0, <1>1, NothingUsed
<1>2. CASE /\ \E k \in DOMAIN map : deleteKey(k)
           /\ UNCHANGED lastUse /\ totalOps' >= totalOps
           /\ task'.op = "makeRoom" => totalOps' > totalOps
  BY <1>0, <1>2, DeleteDescends, NothingUsed
<1>3. ASSUME NEW k \in Key, getMiss(k) \/ getExpired(k) \/ getHit(k)
      PROVE  RecencyInv'
  <2>1. CASE getMiss(k)
    BY <1>0, <1>1, <2>1 DEF getMiss, data, RestType, Idle
  <2>2. CASE getExpired(k)
    BY <1>0, <1>2, <2>2 DEF getExpired, Resident, RestType, Idle
  <2>3. CASE getHit(k)
    <3>1. k \in DOMAIN map /\ lruList' = MoveToFront(lruList, k)
      BY <2>3 DEF getHit, Fresh, Resident
    <3>2. lastUse' = [lastUse EXCEPT ![k] = totalOps'] /\ totalOps' > totalOps
      BY <1>0, <2>3 DEF getHit, RestType
    <3>3. task'.op # "makeRoom"
      BY <2>3 DEF getHit, Idle
    <3> QED
      BY <1>0, <3>1, <3>2, <3>3, KeyUsed
  <2> QED
    BY <1>3, <2>1, <2>2, <2>3
<1>4. ASSUME NEW k \in Key, NEW v \in SetValues, NEW ex \in Ttl, set(k, v, ex)
      PROVE  RecencyInv'
  <2>1. CASE setExisting(k, v, ex)
    <3>1. k \in DOMAIN map /\ lruList' = MoveToFront(lruList, k)
      BY <2>1 DEF setExisting, Resident
    <3>2. lastUse' = [lastUse EXCEPT ![k] = totalOps'] /\ totalOps' > totalOps
      BY <1>0, <2>1 DEF setExisting, RestType
    <3>3. task'.op # "makeRoom"
      BY <2>1 DEF setExisting, Idle
    <3> QED
      BY <1>0, <3>1, <3>2, <3>3, KeyUsed
  <2>2. CASE setNew(k, v, ex)
    BY <1>0, <1>1, <2>2 DEF setNew, data, RestType
  <2> QED
    BY <1>4, <2>1, <2>2 DEF set
<1>5. ASSUME NEW k \in Key, incr(k)
      PROVE  RecencyInv'
  <2>1. CASE incrAbsent(k)
    BY <1>0, <1>1, <1>2, <2>1 DEF incrAbsent, Resident, data, RestType
  <2>2. CASE incrPresent(k)
    <3>1. k \in DOMAIN map /\ lruList' = MoveToFront(lruList, k)
      BY <2>2 DEF incrPresent, Fresh, Resident
    <3>2. lastUse' = [lastUse EXCEPT ![k] = totalOps'] /\ totalOps' > totalOps
      BY <1>0, <2>2 DEF incrPresent, RestType
    <3>3. task'.op # "makeRoom"
      BY <2>2 DEF incrPresent, Idle
    <3> QED
      BY <1>0, <3>1, <3>2, <3>3, KeyUsed
  <2>3. CASE incrNotInteger(k)
    BY <1>0, <1>1, <2>3 DEF incrNotInteger, data, RestType, Idle
  <2> QED
    BY <1>5, <2>1, <2>2, <2>3 DEF incr
<1>6. ASSUME NEW k \in Key, ttl(k)
      PROVE  RecencyInv'
  <2>1. CASE ttlExpired(k)
    BY <1>0, <1>2, <2>1 DEF ttlExpired, Resident, RestType, Idle
  <2>2. CASE ttlLeft(k)
    BY <1>0, <1>1, <2>2 DEF ttlLeft, data, RestType, Idle
  <2> QED
    BY <1>6, <2>1, <2>2 DEF ttl
<1>7. ASSUME NEW keys \in DelLists, del(keys)
      PROVE  RecencyInv'
  BY <1>0, <1>1, <1>7 DEF del, data, RestType
<1>8. ASSUME delOne
      PROVE  RecencyInv'
  <2>1. task'.op = "del" /\ UNCHANGED lastUse /\ totalOps' >= totalOps
    <3>1. task.op = "del" /\ task \in Task
      BY <1>0, <1>8 DEF delOne, RestType
    <3>2. task'.op = task.op
      BY <1>8, <3>1 DEF delOne, Task, Idle
    <3> QED
      BY <1>0, <1>8, <3>1, <3>2 DEF delOne, stats, RestType
  <2>2. (\E k \in DOMAIN map : deleteKey(k)) \/ UNCHANGED lruList
    BY <1>8 DEF delOne, Resident, data
  <2> QED
    BY <1>1, <1>2, <2>1, <2>2
<1>9. ASSUME NEW i \in DOMAIN expiresList, sweepPick(i)
      PROVE  RecencyInv'
  <2>1. task'.op = "sweep" /\ UNCHANGED lastUse /\ totalOps' >= totalOps
    <3>1. task.op = "sweep" /\ task \in Task
      BY <1>0, <1>9 DEF sweepPick, RestType
    <3>2. task'.op = task.op
      BY <1>9, <3>1 DEF sweepPick, Task, Idle
    <3> QED
      BY <1>0, <1>9, <3>1, <3>2 DEF sweepPick, stats, RestType
  <2>2. (\E k \in DOMAIN map : deleteKey(k)) \/ UNCHANGED lruList
    BY <1>9 DEF sweepPick, Resident, data
  <2> QED
    BY <1>1, <1>2, <2>1, <2>2
<1>10. ASSUME sweepStart \/ sweepAgain \/ sweepStop \/ delDone \/ WriteDone
       PROVE  RecencyInv'
  <2>1. task'.op # "makeRoom"
    BY <1>10 DEF sweepStart, sweepAgain, sweepStop, delDone, WriteDone, Batch, Idle
  <2>2. UNCHANGED <<lruList, lastUse, totalOps>>
    BY <1>10 DEF sweepStart, sweepAgain, sweepStop, delDone, WriteDone, data, stats
  <2> QED
    BY <1>0, <1>1, <2>1, <2>2 DEF RestType
<1>11. ASSUME startTtlSweep \/ stopTtlSweep \/ Tick \/ UNCHANGED vars
       PROVE  RecencyInv'
  <2>1. UNCHANGED <<lruList, lastUse, totalOps, task>>
    BY <1>11 DEF startTtlSweep, stopTtlSweep, Tick, vars, data, stats
  <2> QED
    BY <1>0, <1>1, <2>1 DEF RestType
<1>12. ASSUME clear
       PROVE  RecencyInv'
  <2>1. Descending(lruList', lastUse) /\ UNCHANGED <<lastUse, totalOps, task>>
    BY <1>12 DEF clear, stats, Descending
  <2> QED
    BY <1>0, <2>1, NothingUsed DEF RestType
<1>13. ASSUME Evict
       PROVE  RecencyInv'
  <2>1. task'.op = task.op
    BY <1>0, <1>13 DEF RestType, Evict, Task, Idle
  <2>2. Descending(lruList', lastUse)
    BY <1>0, <1>13, PopTailDescends DEF Evict, evictOneLru, DataInv, DataType
  <2> QED
    BY <1>0, <1>13, <2>1, <2>2, NothingUsed DEF Evict, stats, RestType
<1>14. ASSUME Insert
       PROVE  RecencyInv'
  <2> DEFINE k == task.key
  <2>1. task.op = "makeRoom" /\ k \in Key /\ k \notin DOMAIN map
    BY <1>0, <1>14 DEF RestType, Insert, Task, Idle, PendingAbsent
  <2>2. /\ lruList' = PushFront(lruList, k) /\ lastUse' = [lastUse EXCEPT ![k] = totalOps]
        /\ UNCHANGED totalOps /\ task'.op = "trim"
    BY <1>14 DEF Insert, stats
  <2> HIDE DEF k
  <2>3. lruList \in Seq(Key) /\ k \notin ToSet(lruList) /\ ToSet(lruList) \subseteq Key
    BY <1>0, <2>1 DEF DataInv, DataType, ListMatchesMap
  <2>4. /\ lastUse'[k] = totalOps /\ totalOps \in Nat
        /\ \A j \in Key \ {k} : lastUse'[j] = lastUse[j] /\ lastUse[j] < totalOps /\ lastUse[j] \in Nat
    BY <1>0, <2>1, <2>2 DEF RestType, RecencyInv
  <2>5. \A j \in ToSet(lruList) : lastUse'[j] = lastUse[j] /\ lastUse'[k] > lastUse'[j]
    BY <2>3, <2>4
  <2>6. Descending(lruList', lastUse')
    BY <1>0, <2>1, <2>2, <2>3, <2>5, PushFrontDescends
  <2> QED
    BY <2>2, <2>4, <2>6 DEF RecencyInv
<1> QED
  BY <1>3, <1>4, <1>5, <1>6, <1>7, <1>8, <1>9, <1>10, <1>11, <1>12, <1>13, <1>14
     DEF Next, Request, Progress, get

\* The list is sorted by the last use of its keys, for every number of keys and every
\* limit: the eviction takes the least recently used one.
THEOREM RecencyAlwaysOrdered == Spec => []RecencyOrder
<1>1. Init => RecencyInv
  BY DEF Init, RecencyInv, Descending, Idle
<1>2. Spec => [](EngineInv /\ RecencyInv)
  BY <1>1, EngineInit, EngineStep, RecencyStep, PTL DEF Spec
<1>3. RecencyInv => RecencyOrder
  BY DEF RecencyInv, Descending, RecencyOrder
<1> QED
  BY <1>2, <1>3, PTL
-----------------------------------------------------------------------------
(***************************************************************************)
(* The limit on the number of keys.                                        *)
(***************************************************************************)
\* After an insertion there may be one key too many, until one was evicted; meanwhile the
\* new key is the most recently used one.
LimitsInv ==
    /\ IsFiniteSet(DOMAIN map)
    /\ MaxKeys > 0 /\ task.op # "trim" => Cardinality(DOMAIN map) <= MaxKeys
    /\ MaxKeys > 0 /\ task.op = "trim" =>
          Cardinality(DOMAIN map) <= IF task.evicted = 0 THEN MaxKeys + 1 ELSE MaxKeys
    /\ task.op = "makeRoom" => task.result.key = task.key
    /\ task.op = "trim" /\ ~MemoryLimit => lruList # <<>> /\ lruList[1] = task.result.key

\* What is pushed is in front.
LEMMA PushedIsFirst ==
    ASSUME NEW S, NEW s \in Seq(S), NEW n \in S
    PROVE  PushFront(s, n) # <<>> /\ PushFront(s, n)[1] = n
<1>1. Len(PushFront(s, n)) = Len(s) + 1 /\ PushFront(s, n)[1] = n
  BY PushFrontShape
<1>2. Len(s) \in Nat /\ Len(<<>>) = 0
  BY LenProperties
<1> QED
  BY <1>1, <1>2

\* A step that writes nothing and does not belong to a write.
LEMMA NothingAdded ==
    ASSUME LimitsInv, DOMAIN map' \subseteq DOMAIN map, task.op # "trim", task'.op # "trim",
           task'.op = "makeRoom" => task'.result.key = task'.key
    PROVE  LimitsInv'
<1>1. IsFiniteSet(DOMAIN map') /\ Cardinality(DOMAIN map') <= Cardinality(DOMAIN map)
  BY FS_Subset DEF LimitsInv
<1>2. Cardinality(DOMAIN map') \in Nat /\ Cardinality(DOMAIN map) \in Nat
  BY <1>1, FS_CardinalityType DEF LimitsInv
<1>3. MaxKeys > 0 => Cardinality(DOMAIN map') <= MaxKeys
  BY <1>1, <1>2, OptionAssumption DEF LimitsInv
<1> QED
  BY <1>1, <1>3 DEF LimitsInv

\* A write of a key the map has.
LEMMA Overwritten ==
    ASSUME DataInv, LimitsInv, task.op # "trim", NEW k \in DOMAIN map, DOMAIN map' = DOMAIN map,
           lruList' = MoveToFront(lruList, k),
           task'.op = "trim", task'.result.key = k, task'.evicted = 0
    PROVE  LimitsInv'
<1>1. lruList \in Seq(Key) /\ k \in ToSet(lruList)
  BY DEF DataInv, DataType, ListMatchesMap
<1>2. Unlink(lruList, k) \in Seq(Key) /\ k \in Key
  BY <1>1, UnlinkShape DEF DataInv, DataType
<1>3. PushFront(Unlink(lruList, k), k) # <<>> /\ PushFront(Unlink(lruList, k), k)[1] = k
  BY <1>2, PushedIsFirst
<1>4. lruList' # <<>> /\ lruList'[1] = k
  BY <1>3 DEF MoveToFront
<1>5. Cardinality(DOMAIN map) \in Nat
  BY FS_CardinalityType DEF LimitsInv
<1>6. MaxKeys > 0 => Cardinality(DOMAIN map') <= MaxKeys + 1
  <2>1. MaxKeys \in Nat /\ (MaxKeys > 0 => Cardinality(DOMAIN map) <= MaxKeys)
    BY OptionAssumption DEF LimitsInv
  <2> QED
    BY <1>5, <2>1
<1> QED
  BY <1>4, <1>6 DEF LimitsInv

\* A list of more than one key: what is popped is not what is in front.
LEMMA FrontStays ==
    ASSUME DataInv, IsFiniteSet(DOMAIN map), Cardinality(DOMAIN map) > 1
    PROVE  PopTail(lruList) # <<>> /\ PopTail(lruList)[1] = lruList[1]
<1>1. lruList \in Seq(Key) /\ ToSet(lruList) = DOMAIN map /\ Len(lruList) \in Nat
      /\ DOMAIN lruList = 1..Len(lruList)
  BY LenProperties DEF DataInv, DataType, ListMatchesMap
<1>2. Len(lruList) # 0
  <2>1. SUFFICES ASSUME Len(lruList) = 0 PROVE FALSE
    OBVIOUS
  <2>2. ToSet(lruList) = {}
    BY <1>1, <2>1 DEF ToSet
  <2> QED
    BY <1>1, <2>2, FS_EmptySet
<1>3. Len(lruList) # 1
  <2>1. SUFFICES ASSUME Len(lruList) = 1 PROVE FALSE
    OBVIOUS
  <2>2. DOMAIN lruList = {1}
    BY <1>1, <2>1
  <2>3. ToSet(lruList) = {lruList[1]}
    BY <2>2 DEF ToSet
  <2>4. Cardinality(DOMAIN map) = 1
    BY <1>1, <2>3, FS_Singleton
  <2> QED
    BY <2>4
<1>4. lruList # <<>>
  BY <1>1, <1>2
<1>5. /\ Len(PopTail(lruList)) = Len(lruList) - 1
      /\ \A i \in 1..Len(lruList) - 1 : PopTail(lruList)[i] = lruList[i]
  BY <1>1, <1>4, PopTailShape, Zenon
<1>6. 1 \in 1..Len(lruList) - 1 /\ Len(PopTail(lruList)) # 0
  BY <1>1, <1>2, <1>3, <1>5
<1> QED
  BY <1>5, <1>6

\* Every step of the engine keeps the limit, as far as it can be kept before the method ends.
LEMMA LimitsStep == EngineInv /\ LimitsInv /\ [Next]_vars => LimitsInv'
<1> SUFFICES ASSUME EngineInv, LimitsInv, [Next]_vars PROVE LimitsInv'
  OBVIOUS
<1>0. DataInv /\ RestType /\ PendingAbsent
  BY InvParts
<1>a. Idle.op = "idle" /\ \A k \in DOMAIN map : deleteKey(k) => DOMAIN map' \subseteq DOMAIN map
  BY DEF Idle, deleteKey
<1> USE DEF Start, Return, Run, Touch
<1>1. ASSUME NEW k \in Key, get(k) \/ incr(k) \/ ttl(k)
      PROVE  LimitsInv'
  <2>1. task = Idle /\ task'.op # "trim" /\ (task'.op = "makeRoom" => task'.result.key = task'.key)
    BY <1>1 DEF get, getMiss, getExpired, getHit, incr, incrAbsent, incrPresent, incrNotInteger,
                ttl, ttlExpired, ttlLeft, Idle
  <2>2. (\E j \in DOMAIN map : deleteKey(j)) \/ UNCHANGED map \/ DOMAIN map' = DOMAIN map
    BY <1>1 DEF get, getMiss, getExpired, getHit, incr, incrAbsent, incrPresent, incrNotInteger,
                ttl, ttlExpired, ttlLeft, Resident, data
  <2> QED
    BY <1>a, <2>1, <2>2, NothingAdded
<1>2. ASSUME NEW k \in Key, NEW v \in SetValues, NEW ex \in Ttl, set(k, v, ex)
      PROVE  LimitsInv'
  <2>1. CASE setExisting(k, v, ex)
    <3>1. k \in DOMAIN map /\ DOMAIN map' = DOMAIN map /\ lruList' = MoveToFront(lruList, k)
      BY <2>1 DEF setExisting, Resident
    <3>2. task.op # "trim" /\ task'.op = "trim" /\ task'.result.key = k /\ task'.evicted = 0
      BY <1>a, <2>1 DEF setExisting, SetResult
    <3> QED
      BY <1>0, <3>1, <3>2, Overwritten
  <2>2. CASE setNew(k, v, ex)
    <3>1. /\ task.op # "trim" /\ task'.op # "trim" /\ task'.result.key = task'.key
          /\ DOMAIN map' \subseteq DOMAIN map
      BY <1>a, <2>2 DEF setNew, SetResult, data
    <3> QED
      BY <3>1, NothingAdded
  <2> QED
    BY <1>2, <2>1, <2>2 DEF set
<1>3. ASSUME (\E keys \in DelLists : del(keys)) \/ delDone \/ sweepStart \/ sweepAgain \/ sweepStop
      PROVE  LimitsInv'
  <2>1. task.op # "trim" /\ task'.op \notin {"trim", "makeRoom"}
    BY <1>3 DEF del, delDone, sweepStart, sweepAgain, sweepStop, Batch, BatchOver, Idle
  <2>2. UNCHANGED map
    BY <1>3 DEF del, delDone, sweepStart, sweepAgain, sweepStop, data
  <2> QED
    BY <2>1, <2>2, NothingAdded
<1>4. ASSUME delOne \/ \E i \in DOMAIN expiresList : sweepPick(i)
      PROVE  LimitsInv'
  <2>1. task.op \in {"del", "sweep"} /\ task \in Task
    BY <1>0, <1>4 DEF delOne, sweepPick, RestType
  <2>2. task'.op = task.op
    BY <1>4, <2>1 DEF delOne, sweepPick, Task, Idle
  <2>3. (\E j \in DOMAIN map : deleteKey(j)) \/ UNCHANGED map
    BY <1>4 DEF delOne, sweepPick, Resident, data
  <2> QED
    BY <1>a, <2>1, <2>2, <2>3, NothingAdded
<1>5. ASSUME startTtlSweep \/ stopTtlSweep \/ Tick \/ UNCHANGED vars
      PROVE  LimitsInv'
  <2>1. UNCHANGED <<map, lruList, task>>
    BY <1>5 DEF startTtlSweep, stopTtlSweep, Tick, vars, data
  <2> QED
    BY <2>1 DEF LimitsInv
<1>6. ASSUME clear
      PROVE  LimitsInv'
  <2>1. DOMAIN map' \subseteq DOMAIN map /\ task = Idle /\ task' = Idle
    BY <1>6 DEF clear
  <2> QED
    BY <1>a, <2>1, NothingAdded
<1>7. ASSUME Evict
      PROVE  LimitsInv'
  <2> DEFINE D == DOMAIN map
             E == DOMAIN map'
  <2>1. /\ IsFiniteSet(E) /\ Cardinality(E) = Cardinality(D) - 1
        /\ Cardinality(D) \in Nat /\ Cardinality(E) \in Nat
    <3>1. E = D \ {Last(lruList)} /\ Last(lruList) \in D
      BY <1>0, <1>7, EvictKeepsData DEF Evict
    <3>2. IsFiniteSet(D)
      BY DEF LimitsInv
    <3>3. IsFiniteSet(E) /\ Cardinality(E) = Cardinality(D) - 1
      BY <3>1, <3>2, FS_RemoveElement
    <3> QED
      BY <3>2, <3>3, FS_CardinalityType
  <2>2. CASE task.op = "makeRoom"
    <3>1. task' = [task EXCEPT !.evicted = task.evicted + 1] /\ task \in Task
      BY <1>0, <1>7 DEF Evict, RestType
    <3>2. task'.op = "makeRoom" /\ task'.result = task.result /\ task'.key = task.key
      BY <2>2, <3>1 DEF Task, Idle
    <3>3. E \subseteq D
      BY <1>0, <1>7, EvictKeepsData DEF Evict
    <3> QED
      BY <2>2, <3>2, <3>3, NothingAdded DEF LimitsInv
  <2>3. CASE task.op = "trim"
    <3>1. task' = [task EXCEPT !.evicted = task.evicted + 1] /\ task \in Task
      BY <1>0, <1>7 DEF Evict, RestType
    <3>2. task'.op = "trim" /\ task'.result = task.result /\ task'.evicted > 0
      BY <2>3, <3>1 DEF Task, Idle
    <3>3. MaxKeys > 0 => Cardinality(E) <= MaxKeys
      BY <2>1, <2>3, OptionAssumption DEF LimitsInv
    <3>4. ASSUME ~MemoryLimit
          PROVE  lruList' # <<>> /\ lruList'[1] = task'.result.key
      <4>1. lruList' = PopTail(lruList) /\ OverKeys
        BY <1>7, <3>4 DEF Evict, MayEvict, evictOneLru
      <4>2. Cardinality(D) > 1
        BY <2>1, <4>1, OptionAssumption DEF OverKeys
      <4>3. lruList' # <<>> /\ lruList'[1] = lruList[1]
        BY <1>0, <4>1, <4>2, FrontStays DEF LimitsInv
      <4> QED
        BY <2>3, <3>2, <3>4, <4>3 DEF LimitsInv
    <3>5. task'.evicted # 0
      BY <2>3, <3>1 DEF Task, Idle
    <3> QED
      BY <2>1, <3>2, <3>3, <3>4, <3>5 DEF LimitsInv
  <2> QED
    BY <1>7, <2>2, <2>3 DEF Evict
<1>8. ASSUME Insert
      PROVE  LimitsInv'
  <2> DEFINE k == task.key
  <2>1. task.op = "makeRoom" /\ k \in Key /\ k \notin DOMAIN map /\ task.result.key = k
    BY <1>0, <1>8 DEF RestType, Insert, Task, Idle, PendingAbsent, LimitsInv
  <2>2. /\ DOMAIN map' = DOMAIN map \cup {k} /\ lruList' = PushFront(lruList, k)
        /\ task'.op = "trim" /\ task'.result = task.result /\ task'.evicted = 0
    BY <1>8 DEF Insert
  <2> HIDE DEF k
  <2>3. lruList' # <<>> /\ lruList'[1] = k
    <3>1. lruList \in Seq(Key)
      BY <1>0 DEF DataInv, DataType
    <3>2. PushFront(lruList, k) # <<>> /\ PushFront(lruList, k)[1] = k
      BY <2>1, <3>1, PushedIsFirst
    <3> QED
      BY <2>2, <3>2
  <2>4. IsFiniteSet(DOMAIN map') /\ Cardinality(DOMAIN map') = Cardinality(DOMAIN map) + 1
    BY <2>1, <2>2, FS_AddElement DEF LimitsInv
  <2>5. Cardinality(DOMAIN map) \in Nat
    BY FS_CardinalityType DEF LimitsInv
  <2>6. MaxKeys > 0 => Cardinality(DOMAIN map') <= MaxKeys + 1
    BY <2>1, <2>4, <2>5, OptionAssumption DEF LimitsInv
  <2> QED
    BY <2>1, <2>2, <2>3, <2>4, <2>6 DEF LimitsInv
<1>9. ASSUME WriteDone
      PROVE  LimitsInv'
  <2>1. task.op = "trim" /\ task' = Idle /\ UNCHANGED <<map, lruList>> /\ ~MustEvict
    BY <1>9 DEF WriteDone, data
  <2>2. task.evicted \in Nat
    BY <1>0, <2>1 DEF RestType, Task, Idle
  <2>3. IsFiniteSet(DOMAIN map) /\ Cardinality(DOMAIN map) \in Nat
    BY FS_CardinalityType DEF LimitsInv
  <2>4. MaxKeys > 0 => Cardinality(DOMAIN map) <= MaxKeys
    <3>1. SUFFICES ASSUME MaxKeys > 0 PROVE Cardinality(DOMAIN map) <= MaxKeys
      OBVIOUS
    <3>2. CASE task.evicted = 0
      <4>1. BudgetLeft
        BY <3>2, OptionAssumption DEF BudgetLeft
      <4>2. lruList = <<>> \/ ~OverKeys
        BY <2>1, <4>1 DEF MustEvict
      <4>3. CASE lruList = <<>>
        <5>1. DOMAIN map = {}
          BY <1>0, <4>3 DEF DataInv, ListMatchesMap, ToSet
        <5> QED
          BY <3>1, <5>1, FS_EmptySet, OptionAssumption
      <4>4. CASE ~OverKeys
        BY <2>3, <3>1, <4>4, OptionAssumption DEF OverKeys
      <4> QED
        BY <4>2, <4>3, <4>4
    <3>3. CASE task.evicted # 0
      BY <2>1, <3>1, <3>3 DEF LimitsInv
    <3> QED
      BY <3>2, <3>3
  <2> QED
    BY <1>a, <2>1, <2>3, <2>4 DEF LimitsInv
<1> QED
  BY <1>1, <1>2, <1>3, <1>4, <1>5, <1>6, <1>7, <1>8, <1>9 DEF Next, Request, Progress

\* A write returns with no more keys than the limit, and when only the number of keys is
\* limited, the entry it wrote is not among those it evicted.
THEOREM LimitsAlwaysKept == Spec => []LimitsKept
<1>1. Init => LimitsInv
  BY FS_EmptySet, OptionAssumption DEF Init, LimitsInv, Idle
<1>2. Spec => [](EngineInv /\ LimitsInv)
  BY <1>1, EngineInit, EngineStep, LimitsStep, PTL DEF Spec
<1>3. EngineInv /\ LimitsInv => LimitsKept
  <2> SUFFICES ASSUME EngineInv, LimitsInv PROVE LimitsKept
    OBVIOUS
  <2>1. DataInv /\ RestType
    BY InvParts
  <2>2. WithinMaxKeys
    BY DEF WithinMaxKeys, LimitsInv, Idle
  <2>3. ASSUME task.op = "trim", ~MemoryLimit
        PROVE  Resident(task.result.key)
    <3>1. lruList # <<>> /\ lruList[1] = task.result.key
      BY <2>3 DEF LimitsInv
    <3>2. lruList \in Seq(Key) /\ ToSet(lruList) = DOMAIN map
      BY <2>1 DEF DataInv, DataType, ListMatchesMap
    <3>3. 1 \in DOMAIN lruList
      BY <3>1, <3>2
    <3> QED
      BY <3>1, <3>2, <3>3 DEF ToSet, Resident
  <2> QED
    BY <2>2, <2>3 DEF LimitsKept, WrittenStays
<1> QED
  BY <1>2, <1>3, PTL
-----------------------------------------------------------------------------
(***************************************************************************)
(* The engine is a cache.                                                  *)
(***************************************************************************)
\* A deletion and a sweep judge by a clock that was read before; only a method that does
\* not answer a client leaves the last reply in place.
MethodInv ==
    /\ task.op \in {"del", "sweep"} => task.now <= clock
    /\ task = Idle \/ task.op = "sweep" \/ reply = NoReply
    /\ task.op \in {"makeRoom", "trim"} => task.result.op \in {"set", "incr"}

\* The entries that have not expired, those of some keys, and those with one more.
Live == {k \in DOMAIN map : ~Expired(k, clock)}
Entries(S) == [k \in S |-> map[k]]
EntriesWith(S, k, e) == [j \in S \cup {k} |-> IF j = k THEN e ELSE map[j]]
DelResult == [op |-> "del", keys |-> task.all, deleted |-> task.deleted + Cardinality(ToCount)]

\* What clients see, and what they are owed, by the method that is running.
LEMMA IdleShows == task = Idle => Store = Entries(Live) /\ Owed = {}
BY DEF Store, Owed, Shown, Doomed, Coming, Entries, Live, Idle

LEMMA SweepShows == task.op = "sweep" => Store = Entries(Live) /\ Owed = {}
BY DEF Store, Owed, Shown, Doomed, Coming, Entries, Live

LEMMA TrimShows == task.op = "trim" => Store = Entries(Live) /\ Owed = {task.result}
BY DEF Store, Owed, Shown, Doomed, Coming, Entries, Live

LEMMA DelShows == task.op = "del" => Store = Entries(Live \ ToSet(task.keys)) /\ Owed = {DelResult}
BY DEF Store, Owed, Shown, Doomed, Coming, Entries, Live, DelResult

\* The entry to be inserted shows until its deadline.
LEMMA RoomShows ==
    task.op = "makeRoom" =>
        /\ Owed = {task.result}
        /\ task.expiresAt = NoExpiry \/ clock < task.expiresAt =>
              Store = EntriesWith(Live, task.key,
                                  [value |-> task.value, expiresAt |-> task.expiresAt])
        /\ ~(task.expiresAt = NoExpiry \/ clock < task.expiresAt) => Store = Entries(Live)
BY DEF Store, Owed, Shown, Doomed, Coming, Entries, EntriesWith, Live

\* What a list holds is its head and what its tail holds.
LEMMA HeadAndTail ==
    ASSUME NEW S, NEW s \in Seq(S), s # <<>>
    PROVE  ToSet(s) = ToSet(Tail(s)) \cup {Head(s)}
<1>1. /\ Len(s) \in Nat \ {0} /\ DOMAIN s = 1..Len(s) /\ Tail(s) \in Seq(S)
      /\ Len(Tail(s)) = Len(s) - 1 /\ DOMAIN Tail(s) = 1..Len(s) - 1
      /\ \A i \in 1..Len(s) - 1 : Tail(s)[i] = s[i + 1]
      /\ Head(s) = s[1]
  OBVIOUS
<1>2. \A i \in 1..Len(s) : i = 1 \/ (i - 1 \in 1..Len(s) - 1 /\ s[i] = Tail(s)[i - 1])
  BY <1>1
<1>3. \A i \in 1..Len(s) - 1 : i + 1 \in 1..Len(s)
  BY <1>1
<1>4. 1 \in 1..Len(s)
  BY <1>1
<1>5. ToSet(s) = {s[i] : i \in 1..Len(s)} /\ ToSet(Tail(s)) = {Tail(s)[i] : i \in 1..Len(s) - 1}
  BY <1>1 DEF ToSet
<1>6. ASSUME NEW x \in ToSet(s)
      PROVE  x \in ToSet(Tail(s)) \cup {Head(s)}
  BY <1>1, <1>2, <1>5
<1>7. ASSUME NEW x \in ToSet(Tail(s)) \cup {Head(s)}
      PROVE  x \in ToSet(s)
  BY <1>1, <1>3, <1>4, <1>5
<1> QED
  BY <1>6, <1>7

\* A command that is over at once, and one that will return.
LEMMA AtOnce ==
    ASSUME task = Idle, task' = Idle, UNCHANGED clock, NEW r, reply' = r
    PROVE  KVCache!Takes(r)
<1>1. Owed = {}
  BY IdleShows
<1>2. Owed' = {}
  BY DEF Owed, Idle
<1> QED
  BY <1>1, <1>2 DEF KVCache!Takes

LEMMA Later ==
    ASSUME task = Idle, NEW r, Owed' = {r}, reply' = NoReply, UNCHANGED clock
    PROVE  KVCache!Takes(r)
<1>1. Owed = {}
  BY IdleShows
<1> QED
  BY <1>1 DEF KVCache!Takes, KVCache!NoReply, NoReply

\* Clocks that were read do not run ahead, and no command leaves an old reply.
LEMMA MethodStep == EngineInv /\ MethodInv /\ [Next]_vars => MethodInv'
<1> SUFFICES ASSUME EngineInv, MethodInv, [Next]_vars PROVE MethodInv'
  OBVIOUS
<1>0. clock \in Nat /\ task \in Task
  BY DEF EngineInv, TypeOK
<1> USE DEF Start, Return, Run
<1>1. ASSUME NEW k \in Key, get(k) \/ incr(k) \/ ttl(k)
      PROVE  MethodInv'
  <2>1. task' = Idle \/ (task'.op = "makeRoom" /\ task'.result.op = "incr" /\ reply' = NoReply)
    BY <1>1 DEF get, getMiss, getExpired, getHit, incr, incrAbsent, incrPresent, incrNotInteger,
       ttl, ttlExpired, ttlLeft
  <2> QED
    BY <2>1 DEF MethodInv, Idle
<1>2. ASSUME NEW k \in Key, NEW v \in SetValues, NEW ex \in Ttl, set(k, v, ex)
      PROVE  MethodInv'
  <2>1. task'.op \in {"makeRoom", "trim"} /\ reply' = NoReply
    BY <1>2 DEF set, setExisting, setNew
  <2>2. task'.result.op = "set"
    BY <1>2 DEF set, setExisting, setNew, SetResult
  <2> QED
    BY <2>1, <2>2 DEF MethodInv
<1>3. ASSUME NEW keys \in DelLists, del(keys)
      PROVE  MethodInv'
  BY <1>0, <1>3 DEF del, MethodInv
<1>4. ASSUME startTtlSweep \/ stopTtlSweep \/ clear \/ WriteDone \/ delDone \/ sweepStop
      PROVE  MethodInv'
  <2>1. task' = Idle
    BY <1>4 DEF startTtlSweep, stopTtlSweep, clear, WriteDone, delDone, sweepStop
  <2> QED
    BY <2>1 DEF MethodInv, Idle
<1>5. ASSUME sweepStart \/ sweepAgain
      PROVE  MethodInv'
  <2>1. task' = Batch(clock) /\ clock' = clock
    BY <1>5 DEF sweepStart, sweepAgain
  <2> QED
    BY <1>0, <2>1 DEF MethodInv, Batch
<1>6. ASSUME Evict \/ Insert
      PROVE  MethodInv'
  <2>1. /\ task.op \in {"makeRoom", "trim"} /\ reply' = reply
        /\ \/ task' = [task EXCEPT !.evicted = @ + 1]
           \/ task'.op = "trim" /\ task'.result = task.result
    BY <1>6 DEF Evict, Insert
  <2>2. /\ task'.op \in {"makeRoom", "trim"} /\ task'.result = task.result
        /\ reply = NoReply /\ task.result.op \in {"set", "incr"}
    BY <1>0, <2>1 DEF Task, Idle, MethodInv
  <2> QED
    BY <2>1, <2>2 DEF MethodInv
<1>7. ASSUME delOne \/ \E i \in DOMAIN expiresList : sweepPick(i)
      PROVE  MethodInv'
  <2>1. task'.op = task.op /\ task'.now = task.now /\ clock' = clock /\ reply' = reply /\ task # Idle
    <3>1. CASE delOne
      <4>1. task \in [op : {"del"}, all : SUBSET Key, keys : Seq(Key), now : Nat, deleted : Nat]
        BY <1>0, <3>1 DEF delOne, Task, Idle
      <4> QED
        BY <3>1, <4>1 DEF delOne, Idle
    <3>2. CASE \E i \in DOMAIN expiresList : sweepPick(i)
      <4>1. task \in [op : {"sweep"}, now : Nat, size : Nat, left : Nat, expired : Nat]
        BY <1>0, <3>2 DEF sweepPick, Task, Idle
      <4>2. task'.op = task.op /\ task'.now = task.now
        BY <3>2, <4>1 DEF sweepPick
      <4> QED
        BY <3>2, <4>1, <4>2 DEF sweepPick, Idle
    <3> QED
      BY <1>7, <3>1, <3>2
  <2>2. task.op \in {"del", "sweep"}
    BY <1>7 DEF delOne, sweepPick
  <2> QED
    BY <2>1, <2>2 DEF MethodInv
<1>8. ASSUME Tick \/ UNCHANGED vars
      PROVE  MethodInv'
  <2>1. task' = task /\ reply' = reply /\ clock' \in {clock, clock + 1}
    BY <1>8 DEF Tick, vars
  <2>2. task.op \in {"del", "sweep"} => task.now \in Nat
    BY <1>0 DEF Task, Idle
  <2> QED
    BY <1>0, <2>1, <2>2 DEF MethodInv
<1> QED
  BY <1>1, <1>2, <1>3, <1>4, <1>5, <1>6, <1>7, <1>8 DEF Next, Request, Progress

\* Every step of the engine is a step of the cache: a command that takes effect, one that
\* returns, an entry that expires or makes room, or nothing.
LEMMA CacheStep ==
    ASSUME EngineInv, EngineInv', LimitsInv, LimitsInv', MethodInv, [Next]_vars
    PROVE  [KVCache!Next]_(KVCache!vars)
<1>0. /\ clock \in Nat /\ DOMAIN map \subseteq Key /\ map \in [DOMAIN map -> Entry]
      /\ \A j \in DOMAIN map : map[j].expiresAt \in Nat \cup {NoExpiry}
      /\ task \in Task
  BY DEF EngineInv, TypeOK, Entry
<1>i. (task = Idle => Store = Entries(Live) /\ Owed = {})'
  BY IdleShows, PTL
<1>s. (task.op = "sweep" => Store = Entries(Live) /\ Owed = {})'
  BY SweepShows, PTL
<1>t. (task.op = "trim" => Store = Entries(Live) /\ Owed = {task.result})'
  BY TrimShows, PTL
<1>d. (task.op = "del" => Store = Entries(Live \ ToSet(task.keys)) /\ Owed = {DelResult})'
  BY DelShows, PTL
<1>r. (task.op = "makeRoom" =>
          /\ Owed = {task.result}
          /\ task.expiresAt = NoExpiry \/ clock < task.expiresAt =>
                Store = EntriesWith(Live, task.key,
                                    [value |-> task.value, expiresAt |-> task.expiresAt])
          /\ ~(task.expiresAt = NoExpiry \/ clock < task.expiresAt) => Store = Entries(Live))'
  BY RoomShows, PTL
<1> USE DEF Start, Return, Run
<1>1. ASSUME NEW k \in Key, getMiss(k) \/ getExpired(k)
      PROVE  KVCache!Next
  <2>1. /\ task = Idle /\ task' = Idle /\ clock' = clock
        /\ reply' = [op |-> "get", key |-> k, value |-> Nil]
    BY <1>1 DEF getMiss, getExpired
  <2>2. Store = Entries(Live) /\ Store' = Entries(Live)'
    BY <2>1, IdleShows, <1>i
  <2>3. k \notin Live /\ Live' = Live /\ \A j \in Live : map'[j] = map[j]
    BY <1>1 DEF getMiss, getExpired, deleteKey, Live, Resident, Expired, data
  <2>4. Store' = Store /\ k \notin DOMAIN Store
    BY <2>2, <2>3 DEF Entries
  <2>5. KVCache!Takes([op |-> "get", key |-> k, value |-> Nil])
    BY <2>1, AtOnce
  <2>6. KVCache!get(k)
    BY <2>4, <2>5 DEF KVCache!get, KVCache!Holds
  <2> QED
    BY <2>6 DEF KVCache!Next
<1>2. ASSUME NEW k \in Key, getHit(k)
      PROVE  KVCache!Next
  <2>1. /\ task = Idle /\ task' = Idle /\ clock' = clock /\ map' = map
        /\ reply' = [op |-> "get", key |-> k, value |-> map[k].value]
    BY <1>2 DEF getHit
  <2>2. Store = Entries(Live) /\ Store' = Entries(Live)'
    BY <2>1, IdleShows, <1>i
  <2>3. k \in Live /\ Live' = Live
    BY <1>2, <2>1 DEF getHit, Fresh, Live, Resident, Expired
  <2>4. Store' = Store /\ k \in DOMAIN Store /\ Store[k] = map[k]
    BY <2>1, <2>2, <2>3 DEF Entries
  <2>5. KVCache!Takes([op |-> "get", key |-> k, value |-> Store[k].value])
    BY <2>1, <2>4, AtOnce
  <2>6. KVCache!get(k)
    BY <2>4, <2>5 DEF KVCache!get, KVCache!Holds
  <2> QED
    BY <2>6 DEF KVCache!Next
<1>3. ASSUME NEW k \in Key, NEW v \in SetValues, NEW ex \in Ttl, set(k, v, ex)
      PROVE  KVCache!Next
  <2> DEFINE e == [value |-> v, expiresAt |-> Deadline(ex)]
  <2>1. /\ task = Idle /\ clock' = clock /\ reply' = NoReply
    BY <1>3 DEF set, setExisting, setNew
  <2>2. Store = Entries(Live)
    BY <2>1, IdleShows
  <2>3. Deadline(ex) = NoExpiry \/ clock < Deadline(ex)
    BY <1>0, InputAssumption DEF Deadline
  <2>4. Owed' = {SetResult(k, v, ex)} /\ Store' = EntriesWith(Live, k, e)
    <3>1. CASE setExisting(k, v, ex)
      <4>1. /\ task'.op = "trim" /\ task'.result = SetResult(k, v, ex)
            /\ k \in DOMAIN map /\ map' = [map EXCEPT ![k] = e]
        BY <3>1 DEF setExisting, Resident
      <4>2. Owed' = {SetResult(k, v, ex)} /\ Store' = Entries(Live)'
        BY <4>1, <1>t
      <4>3. DOMAIN map' = DOMAIN map /\ map'[k] = e /\ \A j \in DOMAIN map : j # k => map'[j] = map[j]
        BY <4>1
      <4>4. e.expiresAt = Deadline(ex)
        OBVIOUS
      <4> HIDE DEF e
      <4>5. Live' = Live \cup {k}
        <5>1. \A j \in DOMAIN map' : ~Expired(j, clock)' <=> j = k \/ ~Expired(j, clock)
          <6>1. ~(e.expiresAt # NoExpiry /\ clock >= e.expiresAt)
            BY <1>0, <2>3, <4>4, DeadlineType
          <6> QED
            BY <2>1, <4>1, <4>3, <6>1 DEF Expired
        <5> QED
          BY <4>1, <4>3, <5>1 DEF Live
      <4>6. Entries(Live)' = EntriesWith(Live, k, e)
        BY <4>3, <4>5 DEF Entries, EntriesWith, Live
      <4> QED
        BY <4>2, <4>6
    <3>2. CASE setNew(k, v, ex)
      <4>1. /\ task'.op = "makeRoom" /\ task'.result = SetResult(k, v, ex) /\ task'.key = k
            /\ task'.value = v /\ task'.expiresAt = Deadline(ex) /\ UNCHANGED map
        BY <3>2 DEF setNew, data
      <4>2. Owed' = {SetResult(k, v, ex)} /\ Store' = EntriesWith(Live', k, e)
        <5>1. EntriesWith(Live, task.key, [value |-> task.value, expiresAt |-> task.expiresAt])'
                = EntriesWith(Live', k, e)
          BY <4>1 DEF EntriesWith
        <5> QED
          BY <2>1, <2>3, <4>1, <5>1, <1>r
      <4>3. Live' = Live
        BY <2>1, <4>1 DEF Live, Expired
      <4> QED
        BY <4>2, <4>3
    <3> QED
      BY <1>3, <3>1, <3>2 DEF set
  <2>5. KVCache!Takes(SetResult(k, v, ex))
    BY <2>1, <2>4, Later
  <2>6. Store' = KVCache!With(k, e)
    BY <2>2, <2>4 DEF KVCache!With, Entries, EntriesWith
  <2>7. KVCache!set(k, v, ex)
    BY <2>5, <2>6 DEF KVCache!set, SetResult, Deadline, NoExpiry, KVCache!NoExpiry
  <2> QED
    BY <2>7 DEF KVCache!Next
<1>4. ASSUME NEW k \in Key, incrPresent(k)
      PROVE  KVCache!Next
  <2> DEFINE e == [value |-> map[k].value + 1, expiresAt |-> map[k].expiresAt]
  <2>1. /\ task = Idle /\ task' = Idle /\ clock' = clock
        /\ k \in DOMAIN map /\ ~Expired(k, clock) /\ map[k].value \in Int
        /\ map' = [map EXCEPT ![k] = Bumped(map[k])]
        /\ reply' = [op |-> "incr", key |-> k, value |-> map[k].value + 1]
    BY <1>4 DEF incrPresent, Fresh, Resident
  <2>2. Store = Entries(Live) /\ Store' = Entries(Live)'
    BY <2>1, IdleShows, <1>i
  <2>3. Bumped(map[k]) = e
    <3>1. map[k] \in Entry
      BY <1>0, <2>1
    <3> QED
      BY <3>1 DEF Bumped, Entry
  <2>4. /\ DOMAIN map' = DOMAIN map /\ map'[k] = e
        /\ \A j \in DOMAIN map : j # k => map'[j] = map[j]
    BY <2>1, <2>3
  <2>5. k \in Live /\ Live' = Live
    BY <2>1, <2>4 DEF Live, Expired
  <2>6. Store' = EntriesWith(Live, k, e) /\ Store[k] = map[k] /\ k \in DOMAIN Store
    <3> HIDE DEF e
    <3> QED
      BY <2>2, <2>4, <2>5 DEF Entries, EntriesWith, Live
  <2>7. Store' = KVCache!With(k, e)
    <3> HIDE DEF e
    <3> QED
      BY <2>2, <2>6 DEF KVCache!With, Entries, EntriesWith
  <2>8. KVCache!Takes([op |-> "incr", key |-> k, value |-> Store[k].value + 1])
    BY <2>1, <2>6, AtOnce
  <2>9. KVCache!incrPresent(k)
    BY <2>1, <2>6, <2>7, <2>8 DEF KVCache!incrPresent, KVCache!Holds
  <2> QED
    BY <2>9 DEF KVCache!Next
<1>5. ASSUME NEW k \in Key, incrAbsent(k)
      PROVE  KVCache!Next
  <2> DEFINE e == [value |-> 1, expiresAt |-> NoExpiry]
             r == [op |-> "incr", key |-> k, value |-> 1]
  <2>1. /\ task = Idle /\ clock' = clock /\ reply' = NoReply
        /\ task'.op = "makeRoom" /\ task'.result = r /\ task'.key = k
        /\ task'.value = 1 /\ task'.expiresAt = NoExpiry
    BY <1>5 DEF incrAbsent
  <2>2. Store = Entries(Live)
    BY <2>1, IdleShows
  <2>3. k \notin Live /\ Live' = Live /\ \A j \in Live : map'[j] = map[j]
    BY <1>5, <2>1 DEF incrAbsent, deleteKey, Live, Resident, Expired, data
  <2>4. Owed' = {r} /\ Store' = EntriesWith(Live, k, e)
    <3>1. EntriesWith(Live, task.key, [value |-> task.value, expiresAt |-> task.expiresAt])'
            = EntriesWith(Live, k, e)
      BY <2>1, <2>3 DEF EntriesWith
    <3> QED
      BY <2>1, <3>1, <1>r
  <2>5. KVCache!Takes(r)
    BY <2>1, <2>4, Later
  <2>6. Store' = KVCache!With(k, e) /\ k \notin DOMAIN Store
    BY <2>2, <2>3, <2>4 DEF KVCache!With, Entries, EntriesWith
  <2>7. KVCache!incrAbsent(k)
    BY <2>5, <2>6 DEF KVCache!incrAbsent, KVCache!Holds, NoExpiry, KVCache!NoExpiry
  <2> QED
    BY <2>7 DEF KVCache!Next
<1>6. ASSUME NEW k \in Key, incrNotInteger(k)
      PROVE  KVCache!Next
  <2>1. /\ task = Idle /\ task' = Idle /\ clock' = clock /\ map' = map
        /\ reply' = [op |-> "error", key |-> k] /\ map[k].value \notin Int
    BY <1>6 DEF incrNotInteger, data
  <2>2. Store = Entries(Live) /\ Store' = Entries(Live)'
    BY <2>1, IdleShows, <1>i
  <2>3. k \in Live /\ Live' = Live
    BY <1>6, <2>1 DEF incrNotInteger, Fresh, Live, Resident, Expired
  <2>4. Store' = Store /\ k \in DOMAIN Store /\ Store[k] = map[k]
    BY <2>1, <2>2, <2>3 DEF Entries
  <2>5. KVCache!Takes([op |-> "error", key |-> k])
    BY <2>1, AtOnce
  <2>6. KVCache!incrNotInteger(k)
    BY <2>1, <2>4, <2>5 DEF KVCache!incrNotInteger, KVCache!Holds
  <2> QED
    BY <2>6 DEF KVCache!Next
<1>7. ASSUME NEW k \in Key, ttl(k)
      PROVE  KVCache!Next
  <2> DEFINE left == IF k \notin DOMAIN Store THEN -2
                     ELSE IF Store[k].expiresAt = NoExpiry THEN -1
                     ELSE Store[k].expiresAt - clock
  <2>1. task = Idle /\ task' = Idle /\ clock' = clock
    BY <1>7 DEF ttl, ttlExpired, ttlLeft
  <2>2. Store = Entries(Live) /\ Store' = Entries(Live)'
    BY <2>1, IdleShows, <1>i
  <2>3. Live' = Live /\ \A j \in Live : map'[j] = map[j]
    BY <1>7, <2>1 DEF ttl, ttlExpired, ttlLeft, deleteKey, Live, Resident, Expired, data
  <2>4. Store' = Store
    BY <2>2, <2>3 DEF Entries
  <2>5. reply' = [op |-> "ttl", key |-> k, left |-> left]
    <3>1. k \in DOMAIN Store <=> k \in Live
      BY <2>2 DEF Entries
    <3>2. k \in Live => Store[k] = map[k]
      BY <2>2 DEF Entries
    <3>3. k \in Live <=> k \in DOMAIN map /\ ~Expired(k, clock)
      BY DEF Live
    <3> QED
      BY <1>7, <3>1, <3>2, <3>3 DEF ttl, ttlExpired, ttlLeft, Resident
  <2>6. KVCache!Takes([op |-> "ttl", key |-> k, left |-> left])
    <3> HIDE DEF left
    <3> QED
      BY <2>1, <2>5, AtOnce
  <2>7. KVCache!ttl(k)
    BY <2>4, <2>6 DEF KVCache!ttl, KVCache!Holds, NoExpiry, KVCache!NoExpiry
  <2> QED
    BY <2>7 DEF KVCache!Next
<1>8. ASSUME NEW keys \in DelLists, del(keys)
      PROVE  KVCache!Next
  <2> DEFINE S == ToSet(keys)
             r == [op |-> "del", keys |-> S, deleted |-> Cardinality(S \cap Live)]
  <2>1. /\ task = Idle /\ clock' = clock /\ map' = map /\ reply' = NoReply
        /\ task'.op = "del" /\ task'.all = S /\ task'.keys = keys /\ task'.now = clock
        /\ task'.deleted = 0
    BY <1>8 DEF del, data
  <2>2. Store = Entries(Live)
    BY <2>1, IdleShows
  <2>3. Live' = Live
    BY <2>1 DEF Live, Expired
  <2>4. S \subseteq Key
    <3>1. keys \in Seq(Key)
      BY InputAssumption
    <3> QED
      BY <3>1 DEF ToSet
  <2>5. ToCount' = S \cap Live
    BY <2>1 DEF ToCount, Doomed, Live, Expired
  <2>6. Cardinality(S \cap Live) \in Nat
    <3>1. IsFiniteSet(S \cap Live)
      BY FS_Subset DEF LimitsInv, Live
    <3> QED
      BY <3>1, FS_CardinalityType
  <2>7. Owed' = {r} /\ Store' = Entries(Live \ S)
    <3>1. Entries(Live \ ToSet(task.keys))' = Entries(Live \ S)
      BY <2>1, <2>3 DEF Entries
    <3>2. DelResult' = r
      BY <2>1, <2>5, <2>6 DEF DelResult
    <3> QED
      BY <2>1, <3>1, <3>2, <1>d
  <2>8. DOMAIN Store = Live /\ Store' = KVCache!Without(S)
    BY <2>2, <2>7 DEF KVCache!Without, Entries
  <2>9. KVCache!Takes(r)
    BY <2>1, <2>7, Later
  <2>10. KVCache!del(S)
    <3>1. S \cap DOMAIN Store = S \cap Live
      BY <2>8
    <3>2. KVCache!Takes([op |-> "del", keys |-> S, deleted |-> Cardinality(S \cap DOMAIN Store)])
      BY <2>9, <3>1
    <3> HIDE DEF S, r
    <3> QED
      BY <2>8, <3>2 DEF KVCache!del, Cardinality, KVCache!Cardinality
  <2> QED
    BY <2>4, <2>10 DEF KVCache!Next
<1>9. ASSUME clear
      PROVE  KVCache!Next
  <2>1. /\ task = Idle /\ task' = Idle /\ clock' = clock /\ DOMAIN map' = {}
        /\ reply' = [op |-> "clear"]
    BY <1>9 DEF clear
  <2>2. Store' = Entries(Live)' /\ Live' = {}
    BY <2>1, <1>i DEF Live
  <2>3. Store' = KVCache!Without(DOMAIN Store)
    BY <2>2 DEF KVCache!Without, Entries
  <2>4. KVCache!Takes([op |-> "clear"])
    BY <2>1, AtOnce
  <2>5. KVCache!clear
    BY <2>3, <2>4 DEF KVCache!clear
  <2> QED
    BY <2>5 DEF KVCache!Next
<1>10. ASSUME Insert
       PROVE  UNCHANGED KVCache!vars
  <2> DEFINE k == task.key
             e == [value |-> task.value, expiresAt |-> task.expiresAt]
             now == clock
  <2>1. /\ task.op = "makeRoom" /\ k \notin DOMAIN map /\ reply' = reply /\ clock' = clock
        /\ map' = [j \in DOMAIN map \cup {k} |-> IF j = k THEN e ELSE map[j]]
        /\ task'.op = "trim" /\ task'.result = task.result
    BY <1>10 DEF Insert, EngineInv, PendingAbsent
  <2>2. Owed = {task.result} /\ Owed' = {task.result} /\ Store' = Entries(Live)'
    BY <2>1, RoomShows, <1>t
  <2>3. e.expiresAt = task.expiresAt /\ e.expiresAt \in Nat \cup {NoExpiry}
    BY <1>0, <2>1 DEF Task, Idle
  <2>4. /\ e.expiresAt = NoExpiry \/ clock < e.expiresAt => Store = EntriesWith(Live, k, e)
        /\ ~(e.expiresAt = NoExpiry \/ clock < e.expiresAt) => Store = Entries(Live)
    BY <2>1, <2>3, RoomShows
  <2> HIDE DEF e, k
  <2>5. /\ DOMAIN map' = DOMAIN map \cup {k} /\ map'[k] = e
        /\ \A j \in DOMAIN map : map'[j] = map[j]
    BY <2>1
  <2>6. Live' = IF e.expiresAt = NoExpiry \/ clock < e.expiresAt THEN Live \cup {k} ELSE Live
    BY <1>0, <2>1, <2>3, <2>5 DEF Live, Expired
  <2>7. Store' = Store
    BY <2>1, <2>2, <2>4, <2>5, <2>6 DEF Entries, EntriesWith, Live
  <2> QED
    BY <2>1, <2>2, <2>7 DEF KVCache!vars
<1>11. ASSUME Evict
       PROVE  [KVCache!Next]_(KVCache!vars)
  <2> DEFINE k == Last(lruList)
             e == [value |-> task.value, expiresAt |-> task.expiresAt]
             Room == task.op = "makeRoom" /\ (task.expiresAt = NoExpiry \/ clock < task.expiresAt)
  <2>1. /\ task.op \in {"makeRoom", "trim"} /\ reply' = reply /\ clock' = clock
        /\ task'.op = task.op /\ task'.result = task.result
        /\ task.op = "makeRoom" => task'.key = task.key /\ task'.value = task.value
                                   /\ task'.expiresAt = task.expiresAt
    BY <1>0, <1>11 DEF Evict, Task, Idle
  <2>2. /\ map' = [j \in DOMAIN map \ {k} |-> map[j]] /\ lruList # <<>>
        /\ MemoryLimit \/ MaxKeys > 0
    BY <1>11 DEF Evict, evictOneLru, MayEvict, OverKeys
  <2>3. k \in Key /\ k \in DOMAIN map
    <3>1. lruList \in Seq(Key) /\ ToSet(lruList) = DOMAIN map
      BY DEF EngineInv, TypeOK, ListMatchesMap
    <3>2. Len(lruList) \in DOMAIN lruList /\ k = lruList[Len(lruList)]
      BY <2>2, <3>1 DEF Last
    <3> QED
      BY <3>1, <3>2 DEF ToSet
  <2> HIDE DEF k
  <2>4. Live' = Live \ {k} /\ \A j \in Live \ {k} : map'[j] = map[j]
    BY <2>1, <2>2 DEF Live, Expired
  <2>5. Owed = {task.result} /\ Owed' = {task.result}
    BY <2>1, RoomShows, TrimShows, <1>r, <1>t
  <2>6. task.op = "makeRoom" => task.key # k /\ task.result.key = task.key
    BY <2>3 DEF EngineInv, PendingAbsent, LimitsInv
  <2>7. ~MemoryLimit => task.result.key # k
    <3>1. CASE task.op = "makeRoom"
      BY <2>6, <3>1
    <3>2. CASE task.op = "trim" /\ ~MemoryLimit
      <4>1. lruList' # <<>> /\ lruList'[1] = task.result.key
        BY <2>1, <3>2 DEF LimitsInv
      <4>2. lruList' \in Seq(Key) /\ ToSet(lruList') = DOMAIN map'
        BY DEF EngineInv, TypeOK, ListMatchesMap
      <4>3. 1 \in DOMAIN lruList'
        BY <4>1, <4>2
      <4>4. task.result.key \in DOMAIN map'
        BY <4>1, <4>2, <4>3 DEF ToSet
      <4> QED
        BY <2>2, <4>4
    <3> QED
      BY <2>1, <3>1, <3>2
  <2>8. DOMAIN Store = Live \cup (IF Room THEN {task.key} ELSE {})
        /\ \A j \in DOMAIN Store : Store[j] = IF Room /\ j = task.key THEN e ELSE map[j]
    <3>1. CASE Room
      BY <3>1, RoomShows DEF EntriesWith
    <3>2. CASE ~Room
      <4>1. Store = Entries(Live)
        BY <2>1, <3>2, RoomShows, TrimShows
      <4> QED
        BY <3>2, <4>1 DEF Entries
    <3> QED
      BY <3>1, <3>2
  <2>9. Store' = [j \in (Live \ {k}) \cup (IF Room THEN {task.key} ELSE {}) |->
                      IF Room /\ j = task.key THEN e ELSE map[j]]
    <3>1. CASE Room
      <4>1. Store' = EntriesWith(Live, task.key,
                                 [value |-> task.value, expiresAt |-> task.expiresAt])'
        BY <2>1, <3>1, <1>r
      <4>2. EntriesWith(Live, task.key, [value |-> task.value, expiresAt |-> task.expiresAt])'
              = [j \in (Live \ {k}) \cup {task.key} |-> IF j = task.key THEN e ELSE map[j]]
        BY <2>1, <2>4, <3>1 DEF EntriesWith
      <4> QED
        BY <3>1, <4>1, <4>2
    <3>2. CASE ~Room
      <4>1. Store' = Entries(Live)'
        BY <2>1, <3>2, <1>r, <1>t
      <4>2. Entries(Live)' = [j \in Live \ {k} |-> map[j]]
        BY <2>4 DEF Entries
      <4> QED
        BY <3>2, <4>1, <4>2
    <3> QED
      BY <3>1, <3>2
  <2>10. Room => task.key # k
    BY <2>6
  <2> HIDE DEF Room, e
  <2>11. Store' = KVCache!Without({k})
    <3>1. (Live \ {k}) \cup (IF Room THEN {task.key} ELSE {}) = DOMAIN Store \ {k}
      BY <2>8, <2>10
    <3> QED
      BY <2>8, <2>9, <3>1 DEF KVCache!Without
  <2>12. task.result.op \in {"set", "incr"}
    BY <2>1 DEF MethodInv
  <2>13. KVCache!Evict(k)
    BY <2>1, <2>2, <2>5, <2>7, <2>11, <2>12 DEF KVCache!Evict
  <2> QED
    BY <2>3, <2>13 DEF KVCache!Next
<1>12. ASSUME WriteDone
       PROVE  KVCache!Next
  <2>1. /\ task.op = "trim" /\ task' = Idle /\ reply' = task.result /\ clock' = clock /\ map' = map
    BY <1>12 DEF WriteDone, data
  <2>2. Store = Entries(Live) /\ Owed = {task.result} /\ Store' = Entries(Live)' /\ Owed' = {}
    BY <2>1, TrimShows, <1>i
  <2>3. Live' = Live
    BY <2>1 DEF Live, Expired
  <2>4. Store' = Store
    BY <2>1, <2>2, <2>3 DEF Entries
  <2>5. KVCache!Returns
    BY <2>1, <2>2, <2>4 DEF KVCache!Returns
  <2> QED
    BY <2>5 DEF KVCache!Next
<1>13. ASSUME delOne
       PROVE  UNCHANGED KVCache!vars
  <2> DEFINE k == Head(task.keys)
             counts == Resident(k) /\ ~Expired(k, task.now)
  <2>1. task \in [op : {"del"}, all : SUBSET Key, keys : Seq(Key), now : Nat, deleted : Nat]
    BY <1>0, <1>13 DEF delOne, Task, Idle
  <2>2. /\ task.keys # <<>> /\ task.op = "del" /\ reply' = reply /\ clock' = clock
        /\ task'.op = "del" /\ task'.keys = Tail(task.keys) /\ task'.all = task.all
        /\ task'.now = task.now /\ task'.deleted = IF counts THEN task.deleted + 1 ELSE task.deleted
        /\ map' = [j \in DOMAIN map \ {k} |-> map[j]]
    <3>1. map' = [j \in DOMAIN map \ {k} |-> map[j]]
      <4>1. CASE Resident(k)
        BY <1>13, <4>1 DEF delOne, deleteKey
      <4>2. CASE ~Resident(k)
        <5>1. map' = map /\ DOMAIN map \ {k} = DOMAIN map
          BY <1>13, <4>2 DEF delOne, data, Resident
        <5> QED
          BY <1>0, <5>1
      <4> QED
        BY <4>1, <4>2
    <3> QED
      BY <1>13, <2>1, <3>1 DEF delOne
  <2>3. ToSet(task.keys) = ToSet(Tail(task.keys)) \cup {k}
    <3>1. task.keys \in Seq(Key) /\ task.keys # <<>>
      BY <2>1, <2>2
    <3> QED
      BY <3>1, HeadAndTail
  <2> HIDE DEF k
  <2>4. k \notin DOMAIN map'
    BY <2>2
  <2>5. (Live \ ToSet(task.keys))' = Live \ ToSet(task.keys)
        /\ \A j \in Live \ ToSet(task.keys) : map'[j] = map[j]
    BY <2>2, <2>3 DEF Live, Expired
  <2>6. ToCount' = ToCount \ {k} /\ (k \in ToCount <=> counts)
    BY <2>2, <2>3 DEF ToCount, Doomed, Expired, Resident
  <2>7. IsFiniteSet(ToCount)
    BY FS_Subset DEF LimitsInv, ToCount
  <2>8. DelResult' = DelResult
    <3>1. task.deleted \in Nat
      BY <2>1
    <3>2. CASE counts
      <4>1. Cardinality(ToCount \ {k}) = Cardinality(ToCount) - 1 /\ Cardinality(ToCount) \in Nat
        BY <2>6, <2>7, <3>2, FS_RemoveElement, FS_CardinalityType
      <4> QED
        BY <2>2, <2>6, <3>1, <3>2, <4>1 DEF DelResult
    <3>3. CASE ~counts
      <4>1. ToCount \ {k} = ToCount
        BY <2>6, <3>3
      <4> QED
        BY <2>2, <2>6, <3>3, <4>1 DEF DelResult
    <3> QED
      BY <3>2, <3>3
  <2>9. Store' = Store /\ Owed' = Owed
    <3>1. Entries(Live \ ToSet(task.keys))' = Entries(Live \ ToSet(task.keys))
      BY <2>5 DEF Entries
    <3> QED
      BY <2>2, <2>8, <3>1, DelShows, <1>d
  <2> QED
    BY <2>2, <2>9 DEF KVCache!vars
<1>14. ASSUME delDone
       PROVE  KVCache!Next
  <2>1. /\ task.op = "del" /\ task.keys = <<>> /\ task' = Idle /\ clock' = clock /\ map' = map
        /\ reply' = [op |-> "del", keys |-> task.all, deleted |-> task.deleted]
    BY <1>14 DEF delDone, data
  <2>2. task.deleted \in Nat
    BY <1>0, <2>1 DEF Task, Idle
  <2>3. ToSet(task.keys) = {} /\ ToCount = {}
    BY <2>1 DEF ToSet, ToCount, Doomed
  <2>4. DelResult = reply'
    BY <2>1, <2>2, <2>3, FS_EmptySet DEF DelResult
  <2>5. Store = Entries(Live) /\ Owed = {reply'} /\ Store' = Entries(Live)' /\ Owed' = {}
    <3>1. Live \ ToSet(task.keys) = Live
      BY <2>3
    <3> QED
      BY <2>1, <2>4, <3>1, DelShows, <1>i
  <2>6. Live' = Live
    BY <2>1 DEF Live, Expired
  <2>7. Store' = Store
    BY <2>1, <2>5, <2>6 DEF Entries
  <2>8. KVCache!Returns
    BY <2>1, <2>5, <2>7 DEF KVCache!Returns
  <2> QED
    BY <2>8 DEF KVCache!Next
<1>15. ASSUME \/ sweepStart \/ sweepAgain \/ sweepStop \/ startTtlSweep \/ stopTtlSweep
              \/ \E i \in DOMAIN expiresList : sweepPick(i)
       PROVE  UNCHANGED KVCache!vars
  <2>1. /\ task = Idle \/ task.op = "sweep"
        /\ task' = Idle \/ task'.op = "sweep"
        /\ reply' = reply /\ clock' = clock
    <3>1. CASE \E i \in DOMAIN expiresList : sweepPick(i)
      <4>1. task \in [op : {"sweep"}, now : Nat, size : Nat, left : Nat, expired : Nat]
        BY <1>0, <3>1 DEF sweepPick, Task, Idle
      <4> QED
        BY <3>1, <4>1 DEF sweepPick
    <3> QED
      BY <1>15, <3>1 DEF sweepStart, sweepAgain, sweepStop, startTtlSweep, stopTtlSweep, Batch,
         BatchOver
  <2>2. Live' = Live /\ \A j \in Live : map'[j] = map[j]
    <3>1. CASE map' = map
      BY <2>1, <3>1 DEF Live, Expired
    <3>2. ASSUME NEW i \in DOMAIN expiresList, sweepPick(i), Expired(expiresList[i], task.now),
                 deleteKey(expiresList[i])
          PROVE  Live' = Live /\ \A j \in Live : map'[j] = map[j]
      <4> DEFINE k == expiresList[i]
      <4>1. task.now \in Nat /\ task.now <= clock
        BY <1>0, <3>2 DEF sweepPick, Task, Idle, MethodInv
      <4>2. map' = [j \in DOMAIN map \ {k} |-> map[j]]
        BY <3>2 DEF deleteKey
      <4>3. Expired(k, task.now)
        BY <3>2
      <4> HIDE DEF k
      <4>4. k \notin Live
        BY <1>0, <4>1, <4>3 DEF Live, Expired
      <4> QED
        BY <2>1, <4>2, <4>4 DEF Live, Expired
    <3> QED
      BY <1>15, <3>1, <3>2 DEF sweepStart, sweepAgain, sweepStop, startTtlSweep, stopTtlSweep,
         sweepPick, data
  <2>3. Store = Entries(Live) /\ Owed = {} /\ Store' = Entries(Live)' /\ Owed' = {}
    BY <2>1, IdleShows, SweepShows, <1>i, <1>s
  <2>4. Store' = Store
    BY <2>2, <2>3 DEF Entries
  <2> QED
    BY <2>1, <2>3, <2>4 DEF KVCache!vars
<1>16. ASSUME Tick
       PROVE  KVCache!Next
  <2>1. task' = task /\ reply' = reply /\ clock' = clock + 1 /\ map' = map
    BY <1>16 DEF Tick, data
  <2>2. Doomed' = Doomed /\ ToCount' = ToCount
    BY <2>1 DEF Doomed, ToCount, Expired
  <2>3. Owed' = Owed
    BY <2>1, <2>2 DEF Owed
  <2> DEFINE At(j) == IF j \in Coming THEN [value |-> task.value, expiresAt |-> task.expiresAt]
                      ELSE map[j]
             Ended == {j \in DOMAIN Store : Store[j].expiresAt = clock'}
  <2>4. DOMAIN Store = Shown \cup Coming /\ \A j \in DOMAIN Store : Store[j] = At(j)
    BY DEF Store
  <2>5. Coming' = {j \in Coming : task.expiresAt # clock + 1}
    <3>1. task.op = "makeRoom" => task.expiresAt \in Nat \cup {NoExpiry}
      BY <1>0 DEF Task, Idle
    <3> QED
      BY <1>0, <2>1, <3>1 DEF Coming, NoExpiry
  <2>6. Shown' = {j \in Shown : map[j].expiresAt # clock + 1}
    BY <1>0, <2>1, <2>2 DEF Shown, Expired, NoExpiry
  <2>7. Coming \cap Shown = {}
    BY DEF Coming, Shown, EngineInv, PendingAbsent
  <2>8. \A j \in Coming : At(j).expiresAt = task.expiresAt
    OBVIOUS
  <2>9. Shown' \cup Coming' = DOMAIN Store \ Ended
    BY <2>1, <2>4, <2>5, <2>6, <2>7, <2>8
  <2>10. \A j \in Shown' \cup Coming' : (j \in Coming' <=> j \in Coming) /\ j \in DOMAIN Store
    BY <2>4, <2>5, <2>6, <2>7
  <2>11. Store' = [j \in Shown' \cup Coming' |-> At(j)]
    <3>1. Store' = [j \in Shown' \cup Coming' |->
                       IF j \in Coming' THEN [value |-> task.value, expiresAt |-> task.expiresAt]
                       ELSE map[j]]
      BY <2>1 DEF Store
    <3> QED
      BY <2>10, <3>1
  <2>12. Store' = [j \in DOMAIN Store \ Ended |-> Store[j]]
    <3> HIDE DEF At, Ended
    <3> QED
      BY <2>4, <2>9, <2>11
  <2>13. KVCache!Tick
    BY <2>1, <2>3, <2>12 DEF KVCache!Tick, KVCache!Without
  <2> QED
    BY <2>13 DEF KVCache!Next
<1>17. CASE UNCHANGED vars
  <2>1. UNCHANGED <<map, clock, task, reply>>
    BY <1>17 DEF vars, data
  <2>2. UNCHANGED <<Shown, Coming, Doomed, ToCount>>
    BY <2>1 DEF Shown, Coming, Doomed, ToCount, Expired
  <2> QED
    BY <2>1, <2>2 DEF KVCache!vars, Store, Owed
<1> QED
  BY <1>1, <1>2, <1>3, <1>4, <1>5, <1>6, <1>7, <1>8, <1>9, <1>10, <1>11, <1>12, <1>13, <1>14, <1>15,
     <1>16, <1>17 DEF Next, Request, Progress, get, incr

\* Nothing shows in the beginning.
LEMMA CacheInit == Init => MethodInv /\ LimitsInv /\ KVCache!Init
<1> SUFFICES ASSUME Init PROVE MethodInv /\ LimitsInv /\ KVCache!Init
  OBVIOUS
<1>1. map = [k \in {} |-> [value |-> 0, expiresAt |-> NoExpiry]] /\ task = Idle /\ reply = NoReply
      /\ clock = 0
  BY DEF Init
<1>2. MethodInv /\ LimitsInv
  BY <1>1, FS_EmptySet, OptionAssumption DEF MethodInv, LimitsInv, Idle
<1>3. Store = Entries(Live) /\ Owed = {} /\ Live = {}
  BY <1>1, IdleShows DEF Live
<1>4. KVCache!Init
  BY <1>1, <1>3 DEF KVCache!Init, Entries, NoReply, KVCache!NoReply, NoExpiry, KVCache!NoExpiry
<1> QED
  BY <1>2, <1>4

\* Every SET, GET, INCR, TTL and DEL does to the entries that have not expired what it was
\* asked for, and returns what they say; nothing else changes what clients see.
THEOREM EngineIsACache == Spec => ImplementsCache
<1>1. Init => EngineInv /\ LimitsInv /\ MethodInv /\ KVCache!Init
  BY EngineInit, CacheInit
<1>2. EngineInv /\ LimitsInv /\ MethodInv /\ [Next]_vars
          => EngineInv' /\ LimitsInv' /\ MethodInv' /\ [KVCache!Next]_(KVCache!vars)
  BY EngineStep, LimitsStep, MethodStep, CacheStep
<1> QED
  BY <1>1, <1>2, PTL DEF Spec, ImplementsCache, KVCache!Spec
-----------------------------------------------------------------------------
(***************************************************************************)
(* Cold storage: the steps of the worker, and what a snapshot knows.       *)
(***************************************************************************)
\* A snapshot is under way.
Active == snapshot.stage \in {"shipping", "evicting"}

\* A key that was collected is still as it was, or somebody has used it since.
SnapshotInv ==
    /\ snapshot.stage \in {"none", "shipping", "evicting"}
    /\ Active =>
          /\ snapshot.at \in Nat /\ snapshot.at <= totalOps
          /\ task.op = "makeRoom" => totalOps > snapshot.at
          /\ DOMAIN snapshot = {"stage", "left", "entries", "at", "saved"}
          /\ snapshot.left \in Seq(DOMAIN snapshot.entries)
          /\ DOMAIN snapshot.entries \subseteq Key
          /\ \A k \in DOMAIN snapshot.entries \cap DOMAIN map :
                map[k] = snapshot.entries[k] \/ lastUse[k] > snapshot.at
    /\ snapshot.stage = "evicting" =>
          /\ snapshot.saved
          /\ \/ task = Idle
             \/ task.op = "del" /\ task.keys \in Seq(DOMAIN snapshot.entries)

\* Entries only leave, none changes.
Shrinks == \A j \in DOMAIN map' : j \in DOMAIN map /\ map'[j] = map[j]

\* Taking a key out leaves the other entries.
LEMMA DeletedShrinks ==
    ASSUME NEW k, (UNCHANGED data) \/ deleteKey(k)
    PROVE  Shrinks
BY DEF Shrinks, deleteKey, data

\* What a step of the engine does to the entries: they leave, or have been used.
LEMMA EngineUses ==
    ASSUME EngineInv, Next
    PROVE  /\ totalOps' \in Nat /\ totalOps' >= totalOps
           /\ task'.op = "makeRoom" => task.op = "makeRoom" \/ totalOps' > totalOps
           /\ \A k \in DOMAIN map' :
                 \/ k \in DOMAIN map /\ map'[k] = map[k] /\ lastUse'[k] = lastUse[k]
                 \/ lastUse'[k] = totalOps' /\ (task.op = "makeRoom" \/ totalOps' > totalOps)
<1> DEFINE Goes(k) == k \in DOMAIN map /\ map'[k] = map[k] /\ lastUse'[k] = lastUse[k]
           Used(k) == lastUse'[k] = totalOps' /\ (task.op = "makeRoom" \/ totalOps' > totalOps)
           Fits == /\ totalOps' \in Nat /\ totalOps' >= totalOps
                   /\ task'.op = "makeRoom" => task.op = "makeRoom" \/ totalOps' > totalOps
<1>0. totalOps \in Nat /\ DOMAIN map \subseteq Key /\ lastUse \in [Key -> Nat]
  BY DEF EngineInv, TypeOK
<1> USE DEF Start, Return, Run, Touch
<1>1. ASSUME NEW k \in Key, NEW j \in Key, lastUse' = [lastUse EXCEPT ![k] = totalOps']
      PROVE  lastUse'[j] = IF j = k THEN totalOps' ELSE lastUse[j]
  BY <1>0, <1>1
<1>2. ASSUME Shrinks, UNCHANGED lastUse
      PROVE  \A k \in DOMAIN map' : Goes(k)
  BY <1>2 DEF Shrinks
<1>3. ASSUME NEW k \in Key, getHit(k) \/ incrPresent(k)
             \/ \E v \in SetValues, ex \in Ttl : setExisting(k, v, ex)
      PROVE  Fits /\ \A j \in DOMAIN map' : Goes(j) \/ Used(j)
  <2>1. /\ lastUse' = [lastUse EXCEPT ![k] = totalOps'] /\ totalOps' = totalOps + 1
        /\ DOMAIN map' = DOMAIN map /\ \A j \in DOMAIN map : j # k => map'[j] = map[j]
    BY <1>3 DEF getHit, incrPresent, setExisting
  <2>2. task' = Idle \/ task'.op = "trim"
    BY <1>3 DEF getHit, incrPresent, setExisting
  <2> QED
    BY <1>0, <1>1, <2>1, <2>2 DEF Idle
<1>4. ASSUME Insert
      PROVE  Fits /\ \A j \in DOMAIN map' : Goes(j) \/ Used(j)
  <2>1. task.op = "makeRoom" /\ task.key \in Key
    BY <1>4 DEF Insert, EngineInv, TypeOK, Task, Idle
  <2>2. /\ lastUse' = [lastUse EXCEPT ![task.key] = totalOps'] /\ totalOps' = totalOps
        /\ \A j \in DOMAIN map' : j # task.key => j \in DOMAIN map /\ map'[j] = map[j]
        /\ DOMAIN map' \subseteq Key
    BY <1>0, <1>4, <2>1 DEF Insert, stats
  <2> QED
    BY <1>0, <1>1, <2>1, <2>2
<1>5. ASSUME NEW k \in Key, getMiss(k) \/ getExpired(k) \/ ttl(k) \/ incrAbsent(k)
             \/ incrNotInteger(k)
                            \/ \E v \in SetValues, ex \in Ttl : setNew(k, v, ex)
      PROVE  Fits /\ Shrinks /\ UNCHANGED lastUse
  <2>1. /\ UNCHANGED lastUse /\ totalOps' \in {totalOps + 1, totalOps + 2}
        /\ (UNCHANGED data) \/ deleteKey(k)
    BY <1>5 DEF getMiss, getExpired, ttl, ttlExpired, ttlLeft, incrAbsent, incrNotInteger, setNew
  <2> QED
    BY <1>0, <2>1, DeletedShrinks
<1>6. ASSUME NEW keys \in DelLists, del(keys)
      PROVE  Fits /\ Shrinks /\ UNCHANGED lastUse
  BY <1>0, <1>6 DEF del, Shrinks, data
<1>7. ASSUME \/ startTtlSweep \/ stopTtlSweep \/ clear \/ Tick \/ sweepStart
             \/ WriteDone \/ delDone \/ sweepAgain \/ sweepStop
      PROVE  Fits /\ Shrinks /\ UNCHANGED lastUse
  <2>1. UNCHANGED <<totalOps, lastUse>> /\ (task' = task \/ task' = Idle \/ task' = Batch(clock))
    BY <1>7 DEF startTtlSweep, stopTtlSweep, clear, Tick, sweepStart, WriteDone, delDone,
       sweepAgain, sweepStop, stats
  <2>2. Shrinks
    BY <1>7 DEF startTtlSweep, stopTtlSweep, clear, Tick, sweepStart, WriteDone, delDone,
       sweepAgain, sweepStop, data, Shrinks
  <2> QED
    BY <1>0, <2>1, <2>2 DEF Idle, Batch
<1>8. ASSUME Evict \/ delOne \/ \E i \in DOMAIN expiresList : sweepPick(i)
      PROVE  Fits /\ Shrinks /\ UNCHANGED lastUse
  <2>1. UNCHANGED <<totalOps, lastUse>>
    BY <1>8 DEF Evict, delOne, sweepPick, stats
  <2>2. Shrinks
    BY <1>8, DeletedShrinks DEF Evict, evictOneLru, delOne, sweepPick, Shrinks
  <2>3. task'.op = task.op
    <3>1. task \in Task /\ task.op \in {"makeRoom", "trim", "del", "sweep"}
      BY <1>8 DEF Evict, delOne, sweepPick, EngineInv, TypeOK
    <3>2. CASE Evict
      BY <3>1, <3>2 DEF Evict, Task, Idle
    <3>3. CASE delOne
      <4>1. task \in [op : {"del"}, all : SUBSET Key, keys : Seq(Key), now : Nat, deleted : Nat]
        BY <3>1, <3>3 DEF delOne, Task, Idle
      <4> QED
        BY <3>3, <4>1 DEF delOne
    <3>4. CASE \E i \in DOMAIN expiresList : sweepPick(i)
      <4>1. task \in [op : {"sweep"}, now : Nat, size : Nat, left : Nat, expired : Nat]
        BY <3>1, <3>4 DEF sweepPick, Task, Idle
      <4> QED
        BY <3>4, <4>1 DEF sweepPick
    <3> QED
      BY <1>8, <3>2, <3>3, <3>4
  <2> QED
    BY <1>0, <2>1, <2>2, <2>3
<1> QED
  BY <1>2, <1>3, <1>4, <1>5, <1>6, <1>7, <1>8 DEF Next, Request, Progress, get, set, incr

\* A running deletion takes out a key of its list, and takes it off the list.
LEMMA DelGoesOn ==
    ASSUME task.op = "del", task \in Task, Progress, NEW S, task.keys \in Seq(S)
    PROVE  /\ task' = Idle \/ (task'.op = "del" /\ task'.keys \in Seq(S))
           /\ DOMAIN map \ DOMAIN map' \subseteq S
<1>1. task \in [op : {"del"}, all : SUBSET Key, keys : Seq(Key), now : Nat, deleted : Nat]
  BY DEF Task, Idle
<1>2. delOne \/ delDone
  BY DEF Progress, Evict, Insert, WriteDone, sweepPick, sweepAgain, sweepStop, BatchOver
<1>3. CASE delDone
  BY <1>3 DEF delDone, Return, data
<1>4. CASE delOne
  <2>1. task.keys # <<>> /\ Head(task.keys) \in S /\ Tail(task.keys) \in Seq(S)
    BY <1>4, HeadTailProperties DEF delOne
  <2>2. task'.op = "del" /\ task'.keys = Tail(task.keys)
    BY <1>1, <1>4 DEF delOne
  <2>3. (UNCHANGED map) \/ DOMAIN map' = DOMAIN map \ {Head(task.keys)}
    BY <1>4 DEF delOne, deleteKey, data
  <2> QED
    BY <2>1, <2>2, <2>3
<1> QED
  BY <1>2, <1>3, <1>4

\* The worker's own steps leave the entries, and begin a deletion at most.
LEMMA WorkerQuiet ==
    ASSUME EngineInv, SnapshotInv, start \/ stop \/ createSnapshot \/ Worker
    PROVE  EngineInv'
<1>1. CASE UNCHANGED vars
  <2>1. UNCHANGED <<data, task, reply, clock, stats, ttlTimer, lastUse>>
    BY <1>1 DEF vars
  <2> QED
    BY <1>1, <2>1, EngineStep
<1>2. CASE EvictNext
  <2>1. Head(snapshot.left) \in Key
    BY <1>2, HeadTailProperties DEF EvictNext, SnapshotInv, Active
  <2>2. /\ task' = [op |-> "del", all |-> ToSet(<<Head(snapshot.left)>>),
                    keys |-> <<Head(snapshot.left)>>, now |-> clock, deleted |-> 0]
        /\ reply' = NoReply /\ totalOps' = totalOps + 1
        /\ UNCHANGED <<data, ttlTimer, hits, misses, clock, lastUse>>
    BY <1>2 DEF EvictNext, Run
  <2>3. RestType'
    <3>1. <<Head(snapshot.left)>> \in Seq(Key)
      BY <2>1
    <3>2. ToSet(<<Head(snapshot.left)>>) \in SUBSET Key
      BY <3>1, ToSetType
    <3> QED
      BY <2>2, <3>1, <3>2, InvParts DEF RestType, Task
  <2>4. EngineInv'
    BY <2>2, <2>3, QuietStep
  <2> QED
    BY <2>4
<1> QED
  BY <1>1, <1>2 DEF start, stop, createSnapshot, Worker, saveSnapshot, saveSnapshotFails, EvictDone

\* What a snapshot knows stays true, and only what it has saved is deleted.
LEMMA SnapshotStep ==
    ASSUME EngineInv, SnapshotInv, ColdNext
    PROVE  /\ SnapshotInv'
           /\ \A k \in DOMAIN map \ DOMAIN map' :
                 snapshot.stage = "evicting" =>
                    /\ snapshot.saved /\ k \in DOMAIN snapshot.entries
                    /\ map[k] = snapshot.entries[k] \/ lastUse[k] > snapshot.at
<1>0. totalOps \in Nat /\ task \in Task /\ lruList \in Seq(Key) /\ lastUse \in [Key -> Nat]
      /\ ToSet(lruList) = DOMAIN map
  BY DEF EngineInv, TypeOK, ListMatchesMap
<1>1. CASE Engine
  <2>1. Next /\ UNCHANGED cold
    BY <1>1 DEF Engine, Next
  <2>2. snapshot' = snapshot
    BY <2>1 DEF cold
  <2>3. /\ totalOps' \in Nat /\ totalOps' >= totalOps
        /\ task'.op = "makeRoom" => task.op = "makeRoom" \/ totalOps' > totalOps
        /\ \A k \in DOMAIN map' :
              \/ k \in DOMAIN map /\ map'[k] = map[k] /\ lastUse'[k] = lastUse[k]
              \/ lastUse'[k] = totalOps' /\ (task.op = "makeRoom" \/ totalOps' > totalOps)
    BY <2>1, EngineUses
  <2>4. Active => snapshot.at \in Nat /\ snapshot.at <= totalOps
        /\ (task.op = "makeRoom" => totalOps > snapshot.at)
    BY DEF SnapshotInv
  <2>5. ASSUME Active, NEW k \in DOMAIN snapshot.entries \cap DOMAIN map'
        PROVE  map'[k] = snapshot.entries[k] \/ lastUse'[k] > snapshot.at
    <3>1. CASE k \in DOMAIN map /\ map'[k] = map[k] /\ lastUse'[k] = lastUse[k]
      BY <2>5, <3>1 DEF SnapshotInv
    <3>2. CASE lastUse'[k] = totalOps' /\ (task.op = "makeRoom" \/ totalOps' > totalOps)
      BY <1>0, <2>3, <2>4, <2>5, <3>2
    <3> QED
      BY <2>3, <2>5, <3>1, <3>2
  <2>6. ASSUME snapshot.stage = "evicting"
        PROVE  /\ task' = Idle \/ (task'.op = "del" /\ task'.keys \in Seq(DOMAIN snapshot.entries))
               /\ DOMAIN map \ DOMAIN map' \subseteq DOMAIN snapshot.entries
    <3>1. Progress \/ Tick
      BY <1>1, <2>6 DEF Engine, EventLoopFree
    <3>2. CASE Tick
      BY <2>6, <3>2 DEF Tick, SnapshotInv, data
    <3>3. CASE Progress
      <4>1. task # Idle
        BY <3>3 DEF Progress, Evict, Insert, WriteDone, delOne, delDone, sweepPick, sweepAgain,
           sweepStop, BatchOver, Idle
      <4>2. task.op = "del" /\ task.keys \in Seq(DOMAIN snapshot.entries)
        BY <2>6, <4>1 DEF SnapshotInv
      <4> QED
        BY <1>0, <3>3, <4>2, DelGoesOn
    <3> QED
      BY <3>1, <3>2, <3>3
  <2>7. SnapshotInv'
    BY <1>0, <2>2, <2>3, <2>4, <2>5, <2>6 DEF SnapshotInv, Active
  <2> QED
    BY <2>6, <2>7 DEF SnapshotInv, Active
<1>2. CASE start \/ stop
  <2>1. UNCHANGED <<map, lastUse, totalOps, task, snapshot>>
    BY <1>2 DEF start, stop, vars, data, stats
  <2> QED
    BY <2>1 DEF SnapshotInv, Active
<1>3. CASE createSnapshot
  <2>1. /\ UNCHANGED <<map, lastUse, totalOps, task>> /\ task = Idle
        /\ snapshot' = [stage |-> "shipping", left |-> getColdEntries,
                        entries |-> [k \in ToSet(getColdEntries) |-> map[k]],
                        at |-> totalOps, saved |-> FALSE]
    BY <1>3 DEF createSnapshot, EventLoopFree, vars, data, stats
  <2>2. getColdEntries \in Seq(Key) /\ getColdEntries \in Seq(ToSet(getColdEntries))
        /\ ToSet(getColdEntries) \subseteq Key
    <3> DEFINE n == IF BatchSize < Len(lruList) THEN BatchSize ELSE Len(lruList)
    <3>1. /\ Len(lruList) \in Nat /\ n \in Nat /\ n <= Len(lruList)
          /\ \A i \in 1..Len(lruList) : lruList[i] \in Key
      BY <1>0, ColdAssumption, LenProperties, ElementOfSeq
    <3>2. getColdEntries = [i \in 1..n |-> lruList[Len(lruList) + 1 - i]]
      BY DEF getColdEntries, TailNodes
    <3>3. \A i \in 1..n : lruList[Len(lruList) + 1 - i] \in Key
      BY <3>1
    <3> HIDE DEF n
    <3>4. DOMAIN getColdEntries = 1..n
      BY <3>2
    <3>5. \A i \in 1..n : getColdEntries[i] \in ToSet(getColdEntries)
      BY <3>4 DEF ToSet
    <3>6. getColdEntries = [i \in 1..n |-> getColdEntries[i]]
      BY <3>2
    <3>7. getColdEntries \in Seq(ToSet(getColdEntries))
      BY <3>1, <3>5, <3>6, IsASeq
    <3>8. getColdEntries \in Seq(Key)
      BY <3>1, <3>2, <3>3, IsASeq
    <3> QED
      BY <3>2, <3>3, <3>4, <3>7, <3>8 DEF ToSet
  <2>3. SnapshotInv'
    BY <1>0, <2>1, <2>2 DEF SnapshotInv, Active, Idle
  <2> QED
    BY <2>1, <2>3
<1>4. CASE saveSnapshot \/ saveSnapshotFails \/ EvictDone
  <2>1. UNCHANGED <<map, lastUse, totalOps, task>>
    BY <1>4 DEF saveSnapshot, saveSnapshotFails, EvictDone, vars, data, stats
  <2>2. \/ snapshot' = NoSnapshot
        \/ /\ snapshot.stage = "shipping" /\ task = Idle
           /\ snapshot' = [snapshot EXCEPT !.stage = "evicting", !.saved = TRUE]
    BY <1>4 DEF saveSnapshot, saveSnapshotFails, EvictDone, Finally, Rejected, EventLoopFree
  <2>3. CASE snapshot' = NoSnapshot
    BY <2>1, <2>3 DEF SnapshotInv, Active, NoSnapshot
  <2>4. CASE /\ snapshot.stage = "shipping" /\ task = Idle
             /\ snapshot' = [snapshot EXCEPT !.stage = "evicting", !.saved = TRUE]
    <3>1. /\ snapshot'.stage = "evicting" /\ snapshot'.saved /\ DOMAIN snapshot' = DOMAIN snapshot
          /\ snapshot'.left = snapshot.left /\ snapshot'.entries = snapshot.entries
          /\ snapshot'.at = snapshot.at
      BY <2>4 DEF SnapshotInv, Active
    <3> QED
      BY <2>1, <2>4, <3>1 DEF SnapshotInv, Active, Idle
  <2> QED
    BY <2>2, <2>3, <2>4
<1>5. CASE EvictNext
  <2>1. /\ UNCHANGED <<map, lastUse>> /\ totalOps' = totalOps + 1 /\ task'.op = "del"
        /\ task'.keys = <<Head(snapshot.left)>> /\ snapshot.stage = "evicting"
        /\ snapshot.left # <<>>
        /\ snapshot' = [snapshot EXCEPT !.left = Tail(snapshot.left)]
    BY <1>5 DEF EvictNext, Run, data
  <2>2. /\ Head(snapshot.left) \in DOMAIN snapshot.entries
        /\ Tail(snapshot.left) \in Seq(DOMAIN snapshot.entries)
    BY <2>1, HeadTailProperties DEF SnapshotInv, Active
  <2>3. /\ snapshot'.stage = "evicting" /\ snapshot'.saved = snapshot.saved
        /\ DOMAIN snapshot' = DOMAIN snapshot
        /\ snapshot'.left = Tail(snapshot.left) /\ snapshot'.entries = snapshot.entries
        /\ snapshot'.at = snapshot.at
    BY <2>1 DEF SnapshotInv, Active
  <2> QED
    BY <1>0, <2>1, <2>2, <2>3 DEF SnapshotInv, Active
<1> QED
  BY <1>1, <1>2, <1>3, <1>4, <1>5 DEF ColdNext, Worker

\* No snapshot is under way in the beginning.
LEMMA ColdStarts == ColdInit => EngineInv /\ SnapshotInv
BY EngineInit DEF ColdInit, SnapshotInv, NoSnapshot, Active

\* All of it stays true, whether the engine takes a step or the worker does.
LEMMA ColdStep ==
    ASSUME EngineInv, SnapshotInv, [ColdNext]_coldVars
    PROVE  /\ EngineInv' /\ SnapshotInv'
           /\ (\A k \in DOMAIN map \ DOMAIN map' :
                 snapshot.stage = "evicting" =>
                    /\ snapshot.saved /\ k \in DOMAIN snapshot.entries
                    /\ map[k] = snapshot.entries[k] \/ lastUse[k] > snapshot.at)
<1>1. CASE Engine
  <2>1. [Next]_vars
    BY <1>1 DEF Engine, Next
  <2> QED
    BY <1>1, <2>1, EngineStep, SnapshotStep DEF ColdNext
<1>2. CASE start \/ stop \/ createSnapshot \/ Worker
  BY <1>2, WorkerQuiet, SnapshotStep DEF ColdNext
<1>3. CASE UNCHANGED coldVars
  <2>1. UNCHANGED <<vars, cold>>
    BY <1>3 DEF coldVars
  <2>2. UNCHANGED <<map, lastUse, totalOps, task, snapshot>>
    BY <2>1 DEF vars, cold, data, stats
  <2>3. SnapshotInv'
    BY <2>2 DEF SnapshotInv, Active
  <2> QED
    BY <2>1, <2>2, <2>3, EngineStep
<1> QED
  BY <1>1, <1>2, <1>3 DEF ColdNext

\* The worker deletes what it has saved, and nothing else; an entry that was replaced
\* meanwhile was touched during the upload.
THEOREM ArchivedBeforeDeleted == ColdSpec => ArchivedFirst
<1>1. EngineInv /\ SnapshotInv /\ [ColdNext]_coldVars => EngineInv' /\ SnapshotInv'
  BY ColdStep
<1>2. EngineInv /\ SnapshotInv /\ [ColdNext]_coldVars
          => [\A k \in DOMAIN map \ DOMAIN map' :
                 snapshot.stage = "evicting" =>
                    /\ snapshot.saved /\ k \in DOMAIN snapshot.entries
                    /\ map[k] = snapshot.entries[k] \/ lastUse[k] > snapshot.at]_coldVars
  BY ColdStep
<1> QED
  BY <1>1, <1>2, ColdStarts, PTL DEF ColdSpec, ArchivedFirst
-----------------------------------------------------------------------------
(***************************************************************************)
(* The list with its pointers.  A chain is the cells from the head to the  *)
(* tail: c[0] is the head, c[m + 1] the tail, the nodes are between.       *)
(***************************************************************************)
Chain(c, m) ==
    /\ m \in Nat
    /\ c \in [0..m + 1 -> Cell]
    /\ c[0] = head /\ c[m + 1] = tail
    /\ \A i \in 1..m : c[i] \in Node
    /\ \A i, j \in 0..m + 1 : c[i] = c[j] => i = j

\* The pointers p and x lead along the chain, and from no other node.
Linked(p, x, c, m) ==
    /\ p \in [Cell -> Cell \cup {Null}] /\ x \in [Cell -> Cell \cup {Null}]
    /\ \A i \in 0..m : x[c[i]] = c[i + 1] /\ p[c[i + 1]] = c[i]
    /\ p[head] = Null /\ x[tail] = Null
    /\ \A n \in Node : (\A i \in 1..m : c[i] # n) => p[n] = Null /\ x[n] = Null

\* The list is the nodes of a chain, and counts them.
Holds(c, m) == Chain(c, m) /\ Linked(prev, next, c, m) /\ count = m

ListInv == (\E c, m : Holds(c, m)) /\ popped \in Node \cup {Null}

\* The chain without its cell p, and with n as its first node.
Without(c, m, p) == [i \in 0..m |-> IF i < p THEN c[i] ELSE c[i + 1]]
WithFirst(c, m, n) == [i \in 0..m + 2 |-> IF i = 0 THEN head ELSE IF i = 1 THEN n ELSE c[i - 1]]

\* The cells of a chain are the sentinels and its nodes.
LEMMA ChainCells ==
    ASSUME NEW c, NEW m, Chain(c, m)
    PROVE  /\ \A i \in 0..m + 1 : c[i] \in Cell /\ c[i] # Null
           /\ \A i \in 0..m : i + 1 \in 0..m + 1 /\ c[i] # tail
           /\ \A i \in 1..m : i - 1 \in 0..m /\ i \in 0..m /\ i \in 0..m + 1
           /\ \A i \in 0..m : c[i + 1] # head
           /\ Node \subseteq Cell /\ head \in Cell /\ tail \in Cell /\ head # tail
           /\ Null \notin Cell
BY SentinelAssumption DEF Chain, Cell

\* Removing a node joins its neighbours.
LEMMA Unlinks ==
    ASSUME NEW c, NEW m, Chain(c, m), NEW k \in 1..m, NEW p, NEW x, Linked(p, x, c, m)
    PROVE  /\ m - 1 \in Nat
           /\ Chain(Without(c, m, k), m - 1)
           /\ Linked([p EXCEPT ![x[c[k]]] = p[c[k]], ![c[k]] = Null],
                     [x EXCEPT ![p[c[k]]] = x[c[k]], ![c[k]] = Null], Without(c, m, k), m - 1)
           /\ \A i \in 1..m - 1 : Without(c, m, k)[i] # c[k]
<1> DEFINE d == Without(c, m, k)
           q == [p EXCEPT ![x[c[k]]] = p[c[k]], ![c[k]] = Null]
           y == [x EXCEPT ![p[c[k]]] = x[c[k]], ![c[k]] = Null]
<1>0. /\ m \in Nat /\ m - 1 \in Nat /\ k - 1 \in 0..m /\ k \in 0..m /\ k + 1 \in 0..m + 1
      /\ c \in [0..m + 1 -> Cell] /\ c[k] \in Node /\ c[k] \in Cell
  BY ChainCells DEF Chain
<1>1. x[c[k]] = c[k + 1] /\ p[c[k]] = c[k - 1]
  BY <1>0 DEF Linked
<1>2. /\ q = [p EXCEPT ![c[k + 1]] = c[k - 1], ![c[k]] = Null]
      /\ y = [x EXCEPT ![c[k - 1]] = c[k + 1], ![c[k]] = Null]
  BY <1>1
<1>3. /\ c[k + 1] \in Cell /\ c[k - 1] \in Cell /\ c[k] # c[k + 1] /\ c[k] # c[k - 1]
      /\ c[k - 1] # c[k + 1]
  BY <1>0 DEF Chain
<1>4. /\ q \in [Cell -> Cell \cup {Null}] /\ y \in [Cell -> Cell \cup {Null}]
      /\ q[c[k]] = Null /\ y[c[k]] = Null /\ q[c[k + 1]] = c[k - 1] /\ y[c[k - 1]] = c[k + 1]
      /\ \A a \in Cell : a # c[k] /\ a # c[k + 1] => q[a] = p[a]
      /\ \A a \in Cell : a # c[k] /\ a # c[k - 1] => y[a] = x[a]
  <2>1. p \in [Cell -> Cell \cup {Null}] /\ x \in [Cell -> Cell \cup {Null}]
    BY DEF Linked
  <2> QED
    BY <1>0, <1>2, <1>3, <2>1
<1> HIDE DEF q, y
<1>5. /\ \A i \in 0..m : i < k => d[i] = c[i]
      /\ \A i \in 0..m : i >= k => d[i] = c[i + 1]
  BY <1>0 DEF Without
<1>6. Chain(d, m - 1)
  <2>1. d \in [0..m -> Cell] /\ d[0] = head /\ d[m] = tail
    BY <1>0, <1>5 DEF Chain, Without
  <2>2. ASSUME NEW i \in 1..m - 1
        PROVE  d[i] \in Node
    BY <1>0, <1>5 DEF Chain
  <2>3. ASSUME NEW i \in 0..m, NEW j \in 0..m, d[i] = d[j]
        PROVE  i = j
    <3> DEFINE a == IF i < k THEN i ELSE i + 1
               b == IF j < k THEN j ELSE j + 1
    <3>1. a \in 0..m + 1 /\ b \in 0..m + 1 /\ d[i] = c[a] /\ d[j] = c[b]
      BY <1>0, <1>5
    <3>2. a = b
      BY <2>3, <3>1 DEF Chain
    <3> QED
      BY <1>0, <3>2
  <2>4. m - 1 + 1 = m
    BY <1>0
  <2> HIDE DEF d
  <2> QED
    BY <1>0, <2>1, <2>2, <2>3, <2>4 DEF Chain
<1>7. ASSUME NEW i \in 0..m - 1
      PROVE  y[d[i]] = d[i + 1] /\ q[d[i + 1]] = d[i]
  <2>1. i \in 0..m /\ i + 1 \in 0..m
    BY <1>0
  <2>2. CASE i + 1 < k
    <3>1. d[i] = c[i] /\ d[i + 1] = c[i + 1] /\ i # k /\ i # k - 1 /\ i + 1 # k /\ i + 1 # k + 1
      BY <1>0, <1>5, <2>1, <2>2
    <3>2. c[i] # c[k] /\ c[i] # c[k - 1] /\ c[i + 1] # c[k] /\ c[i + 1] # c[k + 1]
          /\ c[i] \in Cell /\ c[i + 1] \in Cell
      BY <1>0, <2>1, <3>1 DEF Chain
    <3>3. x[c[i]] = c[i + 1] /\ p[c[i + 1]] = c[i]
      BY <2>1 DEF Linked
    <3> QED
      BY <1>4, <3>1, <3>2, <3>3
  <2>3. CASE i + 1 = k
    <3>1. d[i] = c[k - 1] /\ d[i + 1] = c[k + 1]
      BY <1>0, <1>5, <2>1, <2>3
    <3> QED
      BY <1>4, <3>1
  <2>4. CASE i + 1 > k
    <3>1. d[i] = c[i + 1] /\ d[i + 1] = c[i + 1 + 1] /\ i + 1 \in 0..m /\ i + 1 + 1 \in 0..m + 1
          /\ i + 1 # k /\ i + 1 # k - 1 /\ i + 1 + 1 # k /\ i + 1 + 1 # k + 1
      BY <1>0, <1>5, <2>1, <2>4
    <3>2. c[i + 1] # c[k] /\ c[i + 1] # c[k - 1] /\ c[i + 1 + 1] # c[k] /\ c[i + 1 + 1] # c[k + 1]
          /\ c[i + 1] \in Cell /\ c[i + 1 + 1] \in Cell
      BY <1>0, <2>1, <3>1 DEF Chain
    <3>3. x[c[i + 1]] = c[i + 1 + 1] /\ p[c[i + 1 + 1]] = c[i + 1]
      BY <3>1 DEF Linked
    <3> QED
      BY <1>4, <3>1, <3>2, <3>3
  <2> QED
    BY <1>0, <2>1, <2>2, <2>3, <2>4
<1>8. q[head] = Null /\ y[tail] = Null
  <2>1. head # c[k] /\ head # c[k + 1] /\ tail # c[k] /\ tail # c[k - 1] /\ head \in Cell
        /\ tail \in Cell
    BY <1>0, ChainCells DEF Chain
  <2> QED
    BY <1>4, <2>1 DEF Linked
<1>9. ASSUME NEW n \in Node, \A i \in 1..m - 1 : d[i] # n
      PROVE  q[n] = Null /\ y[n] = Null
  <2>1. CASE n = c[k]
    BY <1>4, <2>1
  <2>2. CASE n # c[k]
    <3>1. \A i \in 1..m : c[i] # n
      <4>1. ASSUME NEW i \in 1..m, i < k
            PROVE  c[i] # n
        BY <1>0, <1>5, <1>9, <4>1
      <4>2. ASSUME NEW i \in 1..m, i > k
            PROVE  c[i] # n
        <5>1. i - 1 \in 1..m - 1 /\ i - 1 \in 0..m /\ i - 1 >= k /\ i - 1 + 1 = i
          BY <1>0, <4>2
        <5> HIDE DEF d
        <5> QED
          BY <1>5, <1>9, <5>1
      <4> QED
        BY <1>0, <2>2, <4>1, <4>2
    <3>2. n # c[k + 1] /\ n # c[k - 1] /\ n \in Cell
      <4>1. k + 1 \in 1..m \/ k + 1 = m + 1
        BY <1>0
      <4>2. k - 1 \in 1..m \/ k - 1 = 0
        BY <1>0
      <4>3. n # head /\ n # tail /\ n \in Cell
        BY SentinelAssumption DEF Cell
      <4> QED
        BY <3>1, <4>1, <4>2, <4>3 DEF Chain
    <3> QED
      BY <1>4, <2>2, <3>1, <3>2 DEF Linked
  <2> QED
    BY <2>1, <2>2
<1>10. Linked(q, y, d, m - 1)
  BY <1>4, <1>7, <1>8, <1>9 DEF Linked
<1>11. ASSUME NEW i \in 1..m - 1
       PROVE  d[i] # c[k]
  BY <1>0, <1>5 DEF Chain
<1> QED
  BY <1>0, <1>6, <1>10, <1>11 DEF q, y

\* A node that is in no list goes between the head and the first.
LEMMA Fronts ==
    ASSUME NEW c, NEW m, Chain(c, m), NEW n \in Node, \A i \in 1..m : c[i] # n,
           NEW p, NEW x, Linked(p, x, c, m)
    PROVE  /\ Chain(WithFirst(c, m, n), m + 1)
           /\ Linked(FrontPrev(p, x, n), FrontNext(x, n), WithFirst(c, m, n), m + 1)
<1> DEFINE d == WithFirst(c, m, n)
           q == FrontPrev(p, x, n)
           y == FrontNext(x, n)
<1>0. /\ m \in Nat /\ 0 \in 0..m /\ 1 \in 0..m + 1 /\ c[0] = head /\ c[m + 1] = tail
      /\ c \in [0..m + 1 -> Cell] /\ n \in Cell /\ head \in Cell /\ tail \in Cell
      /\ n # head /\ n # tail /\ head # tail
  BY SentinelAssumption DEF Chain, Cell
<1>1. x[head] = c[1] /\ c[1] \in Cell /\ c[1] # n /\ c[1] # head
  <2>1. x[head] = c[1]
    <3>1. x[c[0]] = c[0 + 1]
      BY <1>0 DEF Linked
    <3> QED
      BY <1>0, <3>1
  <2>2. c[1] # head
    BY <1>0 DEF Chain
  <2>3. c[1] # n
    BY <1>0
  <2> QED
    BY <1>0, <2>1, <2>2, <2>3
<1>2. /\ q \in [Cell -> Cell \cup {Null}] /\ y \in [Cell -> Cell \cup {Null}]
      /\ q[n] = head /\ q[c[1]] = n /\ y[n] = c[1] /\ y[head] = n
      /\ \A a \in Cell : a # n /\ a # c[1] => q[a] = p[a]
      /\ \A a \in Cell : a # n /\ a # head => y[a] = x[a]
  <2>1. p \in [Cell -> Cell \cup {Null}] /\ x \in [Cell -> Cell \cup {Null}]
    BY DEF Linked
  <2> QED
    BY <1>0, <1>1, <2>1 DEF FrontPrev, FrontNext
<1> HIDE DEF q, y
<1>3. /\ d[0] = head /\ d[1] = n
      /\ \A i \in 2..m + 2 : d[i] = c[i - 1]
      /\ d \in [0..m + 2 -> Cell]
  BY <1>0 DEF WithFirst
<1> HIDE DEF d
<1>4. Chain(d, m + 1)
  <2>1. d[m + 2] = tail /\ m + 1 + 1 = m + 2
    BY <1>0, <1>3
  <2>2. ASSUME NEW i \in 1..m + 1
        PROVE  d[i] \in Node
    BY <1>0, <1>3 DEF Chain
  <2>3. ASSUME NEW i \in 2..m + 2
        PROVE  d[i] # head /\ d[i] # n
    <3>1. i - 1 \in 1..m \/ i - 1 = m + 1
      BY <1>0
    <3>2. i - 1 \in 0..m + 1 /\ i - 1 # 0
      BY <1>0
    <3> QED
      BY <1>0, <1>3, <3>1, <3>2 DEF Chain
  <2>4. ASSUME NEW i \in 0..m + 2, NEW j \in 0..m + 2, d[i] = d[j]
        PROVE  i = j
    <3>1. CASE i \in 2..m + 2 /\ j \in 2..m + 2
      <4>1. c[i - 1] = c[j - 1] /\ i - 1 \in 0..m + 1 /\ j - 1 \in 0..m + 1
        BY <1>0, <1>3, <2>4, <3>1
      <4>2. i - 1 = j - 1
        BY <4>1 DEF Chain
      <4> QED
        BY <4>2
    <3>2. CASE i \notin 2..m + 2 /\ j \notin 2..m + 2
      BY <1>0, <1>3, <2>4, <3>2
    <3>3. CASE i \in 2..m + 2 /\ j \notin 2..m + 2
      <4>1. j = 0 \/ j = 1
        BY <1>0, <3>3
      <4> QED
        BY <1>3, <2>3, <2>4, <3>3, <4>1
    <3>4. CASE i \notin 2..m + 2 /\ j \in 2..m + 2
      <4>1. i = 0 \/ i = 1
        BY <1>0, <3>4
      <4> QED
        BY <1>3, <2>3, <2>4, <3>4, <4>1
    <3> QED
      BY <3>1, <3>2, <3>3, <3>4
  <2> QED
    BY <1>0, <1>3, <2>1, <2>2, <2>4 DEF Chain
<1>5. ASSUME NEW i \in 0..m + 1
      PROVE  y[d[i]] = d[i + 1] /\ q[d[i + 1]] = d[i]
  <2>1. CASE i = 0
    BY <1>2, <1>3, <2>1
  <2>2. CASE i = 1
    <3>1. d[2] = c[1]
      BY <1>0, <1>3
    <3> QED
      BY <1>2, <1>3, <2>2, <3>1
  <2>3. CASE i >= 2
    <3>1. d[i] = c[i - 1] /\ d[i + 1] = c[i] /\ i - 1 \in 1..m /\ i - 1 \in 0..m /\ i - 1 + 1 = i
          /\ i \in 0..m + 1 /\ i # 0 /\ i # 1 /\ i - 1 # 0
      <4>1. i + 1 \in 2..m + 2 /\ i \in 2..m + 2 /\ i + 1 - 1 = i
        BY <1>0, <2>3
      <4>2. d[i + 1] = c[i + 1 - 1] /\ d[i] = c[i - 1]
        BY <1>3, <4>1
      <4> QED
        BY <1>0, <2>3, <4>1, <4>2
    <3>2. x[c[i - 1]] = c[i] /\ p[c[i]] = c[i - 1]
      BY <3>1 DEF Linked
    <3>3. c[i - 1] # head /\ c[i - 1] # n /\ c[i] # c[1] /\ c[i - 1] \in Cell /\ c[i] \in Cell
      BY <1>0, <3>1 DEF Chain
    <3>4. c[i] # n
      <4>1. i \in 1..m \/ i = m + 1
        BY <1>0, <2>3
      <4> QED
        BY <1>0, <4>1
    <3> QED
      BY <1>2, <3>1, <3>2, <3>3, <3>4
  <2> QED
    BY <2>1, <2>2, <2>3
<1>6. q[head] = Null /\ y[tail] = Null
  BY <1>0, <1>1, <1>2 DEF Linked
<1>7. ASSUME NEW a \in Node, \A i \in 1..m + 1 : d[i] # a
      PROVE  q[a] = Null /\ y[a] = Null
  <2>1. a # n
    <3>1. 1 \in 1..m + 1
      BY <1>0
    <3> QED
      BY <1>3, <1>7, <3>1
  <2>2. ASSUME NEW i \in 1..m
        PROVE  c[i] # a
    <3>1. i + 1 \in 1..m + 1 /\ i + 1 \in 2..m + 2 /\ i + 1 - 1 = i
      BY <1>0
    <3>2. d[i + 1] = c[i]
      BY <1>3, <3>1
    <3> QED
      BY <1>7, <3>1, <3>2
  <2>3. a # c[1] /\ a # head /\ a \in Cell
    <3>1. 1 \in 1..m \/ 1 = m + 1
      BY <1>0
    <3>2. a # head /\ a # tail /\ a \in Cell
      BY SentinelAssumption DEF Cell
    <3> QED
      BY <1>0, <2>2, <3>1, <3>2
  <2> QED
    BY <1>2, <2>1, <2>2, <2>3 DEF Linked
<1>8. Linked(q, y, d, m + 1)
  BY <1>2, <1>5, <1>6, <1>7 DEF Linked
<1> QED
  BY <1>4, <1>8 DEF d, q, y

\* The nodes of a chain, in order.
NodesOf(c, m) == [i \in 1..m |-> c[i]]

\* There are no more nodes in a chain than there are, and as many as it is long.
LEMMA NodesFit ==
    ASSUME NEW c, NEW m, Chain(c, m)
    PROVE  /\ Cardinality(Node) \in Nat /\ m <= Cardinality(Node)
           /\ Cardinality({c[i] : i \in 1..m}) = m
<1> DEFINE f == [i \in 1..m |-> c[i]]
           S == {c[i] : i \in 1..m}
<1>1. m \in Nat /\ IsFiniteSet(1..m) /\ Cardinality(1..m) = m
  <2>1. m \in Nat
    BY DEF Chain
  <2> QED
    BY <2>1, FS_Interval
<1>2. f \in Injection(1..m, Node) /\ f \in Bijection(1..m, S)
  BY <1>1 DEF Chain, Injection, IsInjective, Bijection, Surjection
<1>3. Cardinality(Node) \in Nat
  BY NodeAssumption, FS_CardinalityType
<1> HIDE DEF f, S
<1>4. m <= Cardinality(Node)
  BY <1>1, <1>2, NodeAssumption, FS_Injection
<1>5. ExistsBijection(1..m, S)
  BY <1>2 DEF ExistsBijection
<1>6. Cardinality(S) = m
  BY <1>1, <1>5, FS_Bijection
<1> QED
  BY <1>3, <1>4, <1>6 DEF S

\* A walk along the pointers x to the end.
WalkTo(x, from, end, n) ==
    CHOOSE f : f = [i \in 0..n |-> IF i = 0 THEN x[from]
                                  ELSE IF f[i - 1] \in {end, Null} THEN end ELSE x[f[i - 1]]]

\* Where it is after each step.
LEMMA WalkExists ==
    ASSUME NEW x \in [Cell -> Cell \cup {Null}], NEW from, NEW end, from \in Cell, end \in Cell,
           x[from] \in Cell,
           NEW n \in Nat, NEW w, w = WalkTo(x, from, end, n)
    PROVE  /\ w[0] = x[from]
           /\ \A i \in 1..n : w[i] = IF w[i - 1] \in {end, Null} THEN end ELSE x[w[i - 1]]
<1> DEFINE X == Cell \cup {Null}
           step == [y \in X |-> IF y \in {end, Null} THEN end ELSE x[y]]
           Is(f) == f = [i \in 0..n |-> IF i = 0 THEN x[from]
                                        ELSE IF f[i - 1] \in {end, Null} THEN end ELSE x[f[i - 1]]]
<1>1. \A y \in X : step[y] \in X
  OBVIOUS
<1>2. PICK g : Iterates(g, x[from], step, n) /\ g \in [0..n -> X]
  <2> HIDE DEF X, step
  <2>1. x[from] \in X
    BY DEF X
  <2> QED
    BY <1>1, <2>1, Iterated
<1>3. ASSUME NEW i \in 1..n
      PROVE  step[g[i - 1]] = IF g[i - 1] \in {end, Null} THEN end ELSE x[g[i - 1]]
  BY <1>2
<1>4. g = [i \in 0..n |-> IF i = 0 THEN x[from] ELSE step[g[i - 1]]]
  BY <1>2 DEF Iterates
<1> HIDE DEF step
<1>5. Is(g)
  <2>1. \A i \in 0..n : i # 0 => i \in 1..n
    OBVIOUS
  <2> QED
    BY <1>3, <1>4, <2>1
<1>6. Is(w)
  BY <1>5, Zenon DEF WalkTo
<1> DEFINE r == [i \in 0..n |-> IF i = 0 THEN x[from]
                               ELSE IF w[i - 1] \in {end, Null} THEN end ELSE x[w[i - 1]]]
<1>7. w = r
  BY <1>6
<1>8. /\ r[0] = x[from]
      /\ \A i \in 1..n : r[i] = IF w[i - 1] \in {end, Null} THEN end ELSE x[w[i - 1]]
  OBVIOUS
<1> HIDE DEF r, Is, X
<1>9. \A i \in 0..n : w[i] = r[i]
  BY <1>7
<1>10. 0 \in 0..n /\ \A i \in 1..n : i \in 0..n
  OBVIOUS
<1> QED
  BY <1>8, <1>9, <1>10

\* Both walks pass the nodes of the chain in turn.
LEMMA WalksRun == \A c, m : Chain(c, m) /\ Linked(prev, next, c, m) =>
    \A i \in 0..Cardinality(Node) :
        /\ Walk[i] = IF i < m THEN c[i + 1] ELSE tail
        /\ BackWalk[i] = IF i < m THEN c[m - i] ELSE head
<1> SUFFICES ASSUME NEW c, NEW m, Chain(c, m), Linked(prev, next, c, m)
             PROVE  \A i \in 0..Cardinality(Node) :
                        /\ Walk[i] = IF i < m THEN c[i + 1] ELSE tail
                        /\ BackWalk[i] = IF i < m THEN c[m - i] ELSE head
  OBVIOUS
<1>0. PICK n \in Nat : n = Cardinality(Node)
  BY NodesFit
<1>1. /\ m \in Nat /\ c[0] = head /\ c[m + 1] = tail /\ c \in [0..m + 1 -> Cell] /\ Null \notin Cell
      /\ prev \in [Cell -> Cell \cup {Null}] /\ next \in [Cell -> Cell \cup {Null}]
      /\ head \in Cell /\ tail \in Cell
  BY ChainCells DEF Chain, Linked
<1>2. next[head] = c[1] /\ prev[tail] = c[m] /\ c[1] \in Cell /\ c[m] \in Cell
  <2>1. 0 \in 0..m /\ m \in 0..m /\ 0 + 1 = 1 /\ 1 \in 0..m + 1 /\ m \in 0..m + 1
    BY <1>1
  <2>2. next[c[0]] = c[0 + 1] /\ prev[c[m + 1]] = c[m]
    BY <2>1 DEF Linked
  <2> QED
    BY <1>1, <2>1, <2>2
<1>3. /\ Walk[0] = c[1]
      /\ \A i \in 1..n : Walk[i] = IF Walk[i - 1] \in {tail, Null} THEN tail ELSE next[Walk[i - 1]]
  <2>1. Walk = WalkTo(next, head, tail, n)
    BY <1>0 DEF Walk, WalkTo
  <2>2. PICK w : w = Walk
    OBVIOUS
  <2>3. /\ w[0] = next[head]
        /\ \A i \in 1..n : w[i] = IF w[i - 1] \in {tail, Null} THEN tail ELSE next[w[i - 1]]
    BY <1>1, <1>2, <2>1, <2>2, WalkExists
  <2> QED
    BY <1>2, <2>2, <2>3
<1>4. /\ BackWalk[0] = c[m]
      /\ \A i \in 1..n : BackWalk[i] = IF BackWalk[i - 1] \in {head, Null} THEN head
                                       ELSE prev[BackWalk[i - 1]]
  <2>1. BackWalk = WalkTo(prev, tail, head, n)
    BY <1>0 DEF BackWalk, WalkTo
  <2>2. PICK w : w = BackWalk
    OBVIOUS
  <2>3. /\ w[0] = prev[tail]
        /\ \A i \in 1..n : w[i] = IF w[i - 1] \in {head, Null} THEN head ELSE prev[w[i - 1]]
    BY <1>1, <1>2, <2>1, <2>2, WalkExists
  <2> QED
    BY <1>2, <2>2, <2>3
<1> DEFINE S == {i \in 0..n : /\ Walk[i] = IF i < m THEN c[i + 1] ELSE tail
                              /\ BackWalk[i] = IF i < m THEN c[m - i] ELSE head}
<1>5. 0 \in S
  BY <1>1, <1>3, <1>4
<1>6. ASSUME NEW i \in 1..n, i - 1 \in S
      PROVE  i \in S
  <2>1. CASE i - 1 < m
    <3>1. /\ i \in 1..m /\ i - 1 + 1 = i /\ m - (i - 1) \in 1..m /\ i \in 0..m /\ m - i \in 0..m
          /\ m - (i - 1) = m - i + 1 /\ m - (i - 1) \in 0..m + 1 /\ m - (i - 1) # 0
      BY <1>1, <2>1
    <3>2. Walk[i - 1] = c[i] /\ BackWalk[i - 1] = c[m - i + 1]
      BY <1>6, <2>1, <3>1
    <3>3. next[c[i]] = c[i + 1] /\ prev[c[m - i + 1]] = c[m - i]
      BY <3>1 DEF Linked
    <3>4. c[i] \notin {tail, Null} /\ c[m - i + 1] \notin {head, Null}
      <4>1. c[i] # tail /\ c[i] # Null /\ c[m - i + 1] # head /\ c[m - i + 1] # Null
        BY <3>1, ChainCells
      <4> QED
        BY <4>1
    <3>5. Walk[i] = c[i + 1] /\ BackWalk[i] = c[m - i]
      BY <1>3, <1>4, <3>2, <3>3, <3>4
    <3>6. ~(i < m) => c[i + 1] = tail /\ c[m - i] = head
      BY <1>1, <3>1
    <3> QED
      BY <3>5, <3>6
  <2>2. CASE ~(i - 1 < m)
    <3>1. Walk[i - 1] = tail /\ BackWalk[i - 1] = head /\ ~(i < m)
      BY <1>1, <1>6, <2>2
    <3> QED
      BY <1>3, <1>4, <3>1
  <2> QED
    BY <2>1, <2>2
<1> HIDE DEF S
<1>7. \A i \in 0..n : i \in S
  BY <1>5, <1>6, Reached
<1> QED
  BY <1>0, <1>7 DEF S

\* What is reached from the head are the nodes of the chain, in order.
LEMMA OrderIs == \A c, m : Chain(c, m) /\ Linked(prev, next, c, m) =>
    /\ Order = NodesOf(c, m)
    /\ Walked = {c[i] : i \in 1..m}
<1> SUFFICES ASSUME NEW c, NEW m, Chain(c, m), Linked(prev, next, c, m)
             PROVE  Order = NodesOf(c, m) /\ Walked = {c[i] : i \in 1..m}
  OBVIOUS
<1>0. PICK n \in Nat : n = Cardinality(Node) /\ m <= n /\ m \in Nat
           /\ Cardinality({c[i] : i \in 1..m}) = m
  <2>1. Cardinality(Node) \in Nat /\ m <= Cardinality(Node) /\ Cardinality({c[i] : i \in 1..m}) = m
    BY NodesFit
  <2> QED
    BY <2>1 DEF Chain
<1>1. \A i \in 0..n : Walk[i] = IF i < m THEN c[i + 1] ELSE tail
  BY <1>0, WalksRun
<1>2. Walked = {c[i] : i \in 1..m}
  <2>1. ASSUME NEW a \in Walked
        PROVE  \E i \in 1..m : a = c[i]
    <3>1. PICK i \in 0..n : a = Walk[i] /\ a # tail
      BY <1>0, <2>1 DEF Walked
    <3>2. i < m /\ a = c[i + 1] /\ i + 1 \in 1..m
      BY <1>0, <1>1, <3>1
    <3> QED
      BY <3>2
  <2>2. ASSUME NEW i \in 1..m
        PROVE  c[i] \in Walked
    <3>1. i - 1 \in 0..n /\ i - 1 < m /\ i - 1 + 1 = i /\ i \in 0..m /\ i \in 0..m + 1
      BY <1>0
    <3>2. Walk[i - 1] = c[i]
      BY <1>1, <3>1
    <3>3. c[i] # tail /\ c[i] # Null
      BY <3>1, ChainCells
    <3> QED
      BY <1>0, <3>1, <3>2, <3>3 DEF Walked
  <2> QED
    BY <2>1, <2>2
<1>3. ASSUME NEW i \in 1..m
      PROVE  Walk[i - 1] = c[i]
  <2>1. i - 1 \in 0..n /\ i - 1 < m /\ i - 1 + 1 = i
    BY <1>0
  <2> QED
    BY <1>1, <2>1
<1>4. Order = [i \in 1..m |-> Walk[i - 1]]
  BY <1>0, <1>2 DEF Order
<1>5. Order = NodesOf(c, m)
  BY <1>3, <1>4 DEF NodesOf
<1> QED
  BY <1>2, <1>5

\* The nodes with pointers are those of the chain.
LEMMA LinkedNodes == \A c, m : Chain(c, m) /\ Linked(prev, next, c, m) =>
    /\ \A n \in Node : InList(n) <=> \E i \in 1..m : c[i] = n
    /\ \A n \in Node : prev[n] = Null <=> ~ \E i \in 1..m : c[i] = n
    /\ \A n \in Node : next[n] = Null <=> ~ \E i \in 1..m : c[i] = n
<1> SUFFICES ASSUME NEW c, NEW m, Chain(c, m), Linked(prev, next, c, m), NEW n \in Node
             PROVE  /\ InList(n) <=> \E i \in 1..m : c[i] = n
                    /\ prev[n] = Null <=> ~ \E i \in 1..m : c[i] = n
                    /\ next[n] = Null <=> ~ \E i \in 1..m : c[i] = n
  OBVIOUS
<1>1. ASSUME NEW i \in 1..m, c[i] = n
      PROVE  prev[n] # Null /\ next[n] # Null
  <2>1. i - 1 \in 0..m /\ i \in 0..m /\ i - 1 + 1 = i /\ i + 1 \in 0..m + 1 /\ i - 1 \in 0..m + 1
    BY <1>1 DEF Chain
  <2>2. next[c[i]] = c[i + 1] /\ prev[c[i - 1 + 1]] = c[i - 1]
    BY <2>1 DEF Linked
  <2> QED
    BY <1>1, <2>1, <2>2, ChainCells
<1>2. ASSUME \A i \in 1..m : c[i] # n
      PROVE  prev[n] = Null /\ next[n] = Null
  BY <1>2 DEF Linked
<1> QED
  BY <1>1, <1>2 DEF InList

\* The abstract list's operators are those of LruOps.
LEMMA ListOperators ==
    /\ \A s, n : LruOrder!PushFront(s, n) = PushFront(s, n)
    /\ \A s, n : LruOrder!Unlink(s, n) = Unlink(s, n)
    /\ \A s : LruOrder!PopTail(s) = PopTail(s)
    /\ \A s : LruOrder!Last(s) = Last(s)
    /\ \A s : LruOrder!ToSet(s) = ToSet(s)
<1>1. \A s, n : LruOrder!PushFront(s, n) = PushFront(s, n)
  BY DEF LruOrder!PushFront, PushFront, LruOrder!Cons, Cons
<1>2. \A s, n : LruOrder!Unlink(s, n) = Unlink(s, n)
  BY DEF LruOrder!Unlink, Unlink, LruOrder!RemoveAt, RemoveAt, LruOrder!Position, Position,
     LruOrder!ToSet, ToSet
<1>3. \A s : LruOrder!PopTail(s) = PopTail(s)
  BY DEF LruOrder!PopTail, PopTail, LruOrder!Front, Front
<1>4. \A s : LruOrder!Last(s) = Last(s)
  BY DEF LruOrder!Last, Last
<1>5. \A s : LruOrder!ToSet(s) = ToSet(s)
  BY DEF LruOrder!ToSet, ToSet
<1> QED
  BY <1>1, <1>2, <1>3, <1>4, <1>5

\* The nodes of a chain as a sequence.
LEMMA NodesAre ==
    ASSUME NEW c, NEW m, Chain(c, m)
    PROVE  /\ NodesOf(c, m) \in Seq(Node) /\ Len(NodesOf(c, m)) = m /\ m \in Nat
           /\ \A i \in 1..m : NodesOf(c, m)[i] = c[i]
           /\ ToSet(NodesOf(c, m)) = {c[i] : i \in 1..m}
<1>1. m \in Nat /\ \A i \in 1..m : c[i] \in Node
  BY DEF Chain
<1>2. NodesOf(c, m) \in [1..m -> Node]
  BY <1>1 DEF NodesOf
<1>3. NodesOf(c, m) \in Seq(Node) /\ Len(NodesOf(c, m)) = m
  BY <1>1, <1>2
<1>4. \A i \in 1..m : NodesOf(c, m)[i] = c[i]
  BY DEF NodesOf
<1>5. DOMAIN NodesOf(c, m) = 1..m
  BY DEF NodesOf
<1> QED
  BY <1>1, <1>3, <1>4, <1>5 DEF ToSet

\* A sequence that has the nodes of a chain is theirs.
LEMMA NodesEqual ==
    ASSUME NEW c, NEW m, Chain(c, m), NEW s \in Seq(Node), Len(s) = m,
           \A i \in 1..m : s[i] = c[i]
    PROVE  s = NodesOf(c, m)
<1>1. /\ NodesOf(c, m) \in Seq(Node) /\ Len(NodesOf(c, m)) = m /\ m \in Nat
      /\ \A i \in 1..m : NodesOf(c, m)[i] = c[i]
  BY NodesAre
<1> QED
  BY <1>1, SeqEqual

\* Unlinking a node of the chain unlinks it from the sequence.
LEMMA UnlinkedNodes ==
    ASSUME NEW c, NEW m, Chain(c, m), NEW k \in 1..m, Chain(Without(c, m, k), m - 1)
    PROVE  Unlink(NodesOf(c, m), c[k]) = NodesOf(Without(c, m, k), m - 1)
<1>1. PICK s : s = NodesOf(c, m)
  OBVIOUS
<1>2. s \in Seq(Node) /\ Len(s) = m /\ m \in Nat
      /\ (\A i \in 1..m : s[i] = c[i]) /\ c[k] \in ToSet(s)
  <2>1. /\ NodesOf(c, m) \in Seq(Node) /\ Len(NodesOf(c, m)) = m /\ m \in Nat
        /\ \A i \in 1..m : NodesOf(c, m)[i] = c[i]
        /\ ToSet(NodesOf(c, m)) = {c[i] : i \in 1..m}
    BY NodesAre
  <2> QED
    BY <1>1, <2>1
<1>3. PICK n, p, u : n = c[k] /\ p = Position(s, n) /\ u = Unlink(s, n)
  OBVIOUS
<1>4. /\ p \in 1..Len(s) /\ s[p] = n
      /\ u \in Seq(Node) /\ Len(u) = Len(s) - 1
      /\ \A i \in 1..Len(s) - 1 : u[i] = IF i < p THEN s[i] ELSE s[i + 1]
  BY <1>2, <1>3, UnlinkShape
<1>5. p = k
  BY <1>2, <1>3, <1>4 DEF Chain
<1>6. ASSUME NEW i \in 1..m - 1
      PROVE  u[i] = Without(c, m, k)[i]
  <2>1. i \in 0..m /\ i \in 1..m /\ i + 1 \in 1..m
    BY <1>2
  <2>2. Without(c, m, k)[i] = IF i < k THEN c[i] ELSE c[i + 1]
    BY <2>1 DEF Without
  <2> QED
    BY <1>2, <1>4, <1>5, <2>1, <2>2
<1>7. u = NodesOf(Without(c, m, k), m - 1)
  BY <1>2, <1>4, <1>6, NodesEqual
<1> QED
  BY <1>1, <1>3, <1>7

\* A node put in front of the chain is put in front of the sequence.
LEMMA PushedNodes ==
    ASSUME NEW c, NEW m, Chain(c, m), NEW n \in Node, Chain(WithFirst(c, m, n), m + 1)
    PROVE  PushFront(NodesOf(c, m), n) = NodesOf(WithFirst(c, m, n), m + 1)
<1>1. PICK s, u : s = NodesOf(c, m) /\ u = PushFront(s, n)
  OBVIOUS
<1>2. s \in Seq(Node) /\ Len(s) = m /\ m \in Nat /\ (\A i \in 1..m : s[i] = c[i])
  <2>1. /\ NodesOf(c, m) \in Seq(Node) /\ Len(NodesOf(c, m)) = m /\ m \in Nat
        /\ \A i \in 1..m : NodesOf(c, m)[i] = c[i]
    BY NodesAre
  <2> QED
    BY <1>1, <2>1
<1>3. u \in Seq(Node) /\ Len(u) = Len(s) + 1 /\ u[1] = n /\ \A i \in 2..Len(s) + 1 : u[i] = s[i - 1]
  <2>1. /\ PushFront(s, n) \in Seq(Node)
        /\ Len(PushFront(s, n)) = Len(s) + 1
        /\ PushFront(s, n)[1] = n
        /\ \A i \in 2..Len(s) + 1 : PushFront(s, n)[i] = s[i - 1]
    <3>1. s \in Seq(Node) /\ n \in Node
      BY <1>2
    <3> QED
      BY <3>1 DEF PushFront, Cons
  <2> QED
    BY <1>1, <2>1
<1>4. ASSUME NEW i \in 1..m + 1
      PROVE  u[i] = WithFirst(c, m, n)[i]
  <2>1. i \in 0..m + 2 /\ i # 0 /\ (i = 1 \/ (i \in 2..m + 1 /\ i - 1 \in 1..m))
    BY <1>2
  <2>2. WithFirst(c, m, n)[i] = IF i = 1 THEN n ELSE c[i - 1]
    BY <2>1 DEF WithFirst
  <2> QED
    BY <1>2, <1>3, <2>1, <2>2
<1>5. u = NodesOf(WithFirst(c, m, n), m + 1)
  BY <1>2, <1>3, <1>4, NodesEqual
<1> QED
  BY <1>1, <1>5

\* The node in front of the tail is the last of the sequence.
LEMMA PoppedNodes ==
    ASSUME NEW c, NEW m, Chain(c, m), m # 0, Chain(Without(c, m, m), m - 1)
    PROVE  /\ NodesOf(c, m) # <<>> /\ Last(NodesOf(c, m)) = c[m]
           /\ PopTail(NodesOf(c, m)) = NodesOf(Without(c, m, m), m - 1)
<1>1. PICK s, u : s = NodesOf(c, m) /\ u = PopTail(s)
  OBVIOUS
<1>2. s \in Seq(Node) /\ Len(s) = m /\ m \in Nat
      /\ (\A i \in 1..m : s[i] = c[i]) /\ s # <<>> /\ m \in 1..m
  <2>1. s \in Seq(Node) /\ Len(s) = m /\ m \in Nat /\ (\A i \in 1..m : s[i] = c[i])
    BY <1>1, NodesAre
  <2> QED
    BY <2>1, EmptySeq
<1>3. u \in Seq(Node) /\ Len(u) = Len(s) - 1
      /\ (\A i \in 1..Len(s) - 1 : u[i] = s[i]) /\ Last(s) = s[Len(s)]
  BY <1>1, <1>2, PopTailShape, Zenon
<1>4. ASSUME NEW i \in 1..m - 1
      PROVE  u[i] = Without(c, m, m)[i]
  <2>1. i \in 0..m /\ i \in 1..m /\ i < m
    BY <1>2
  <2> QED
    BY <1>2, <1>3, <2>1 DEF Without
<1>5. u = NodesOf(Without(c, m, m), m - 1)
  BY <1>2, <1>3, <1>4, NodesEqual
<1> QED
  BY <1>1, <1>2, <1>3, <1>5

\* An empty chain has no nodes.
LEMMA EmptyNodes ==
    ASSUME NEW c, NEW m, Chain(c, m)
    PROVE  m = 0 <=> NodesOf(c, m) = <<>>
BY NodesAre, EmptySeq

\* OrderIs in the next state.
LEMMA OrderNext == \A c, m : Chain(c, m) /\ Linked(prev', next', c, m) => Order' = NodesOf(c, m)
<1>1. (\A c, m : Chain(c, m) /\ Linked(prev, next, c, m) =>
          /\ Order = NodesOf(c, m)
          /\ Walked = {c[i] : i \in 1..m})'
  BY OrderIs, PTL
<1> QED
  BY <1>1

\* The list begins as the chain of its two sentinels.
LEMMA ListStarts == ListInit => ListInv /\ LruOrder!Init
<1> SUFFICES ASSUME ListInit PROVE ListInv /\ LruOrder!Init
  OBVIOUS
<1> DEFINE c == [i \in 0..1 |-> IF i = 0 THEN head ELSE tail]
<1>1. c[0] = head /\ c[1] = tail /\ c \in [0..1 -> Cell] /\ head \in Cell /\ tail \in Cell
      /\ head # tail
  BY SentinelAssumption DEF Cell
<1> HIDE DEF c
<1>2. Chain(c, 0)
  <2>1. \A i \in 0..1 : i = 0 \/ i = 1
    OBVIOUS
  <2> QED
    BY <1>1, <2>1 DEF Chain
<1>3. Linked(prev, next, c, 0)
  <2>1. prev = [a \in Cell |-> IF a = tail THEN head ELSE Null]
        /\ next = [a \in Cell |-> IF a = head THEN tail ELSE Null]
    BY DEF ListInit
  <2>2. next[c[0]] = c[1] /\ prev[c[1]] = c[0] /\ prev[head] = Null /\ next[tail] = Null
    BY <1>1, <2>1
  <2>3. \A n \in Node : n \in Cell /\ n # head /\ n # tail
    BY SentinelAssumption DEF Cell
  <2>4. \A n \in Node : prev[n] = Null /\ next[n] = Null
    BY <2>1, <2>3
  <2> QED
    BY <1>1, <2>1, <2>2, <2>4 DEF Linked
<1>4. ListInv
  BY <1>2, <1>3 DEF ListInv, Holds, ListInit
<1>5. Order = <<>>
  <2>1. Order = NodesOf(c, 0)
    BY <1>2, <1>3, OrderIs
  <2> QED
    BY <1>2, <2>1, EmptyNodes
<1> QED
  BY <1>4, <1>5 DEF LruOrder!Init, ListInit

\* Every call of the list keeps the chain and does to the order what LruOrder says.
LEMMA ListStep == ListInv /\ [ListNext]_listVars => ListInv' /\ [LruOrder!Next]_(LruOrder!vars)
<1> SUFFICES ASSUME ListInv, [ListNext]_listVars
             PROVE  ListInv' /\ [LruOrder!Next]_(LruOrder!vars)
  OBVIOUS
<1>0. PICK c, m : Holds(c, m)
  BY DEF ListInv
<1>1. /\ Chain(c, m) /\ Linked(prev, next, c, m) /\ count = m /\ m \in Nat
      /\ Order = NodesOf(c, m) /\ popped \in Node \cup {Null}
      /\ ToSet(Order) = {c[i] : i \in 1..m}
  <2>1. Chain(c, m) /\ Linked(prev, next, c, m) /\ count = m /\ popped \in Node \cup {Null}
    BY <1>0 DEF Holds, ListInv
  <2>2. Order = NodesOf(c, m)
    BY <2>1, OrderIs
  <2>3. m \in Nat /\ ToSet(NodesOf(c, m)) = {c[i] : i \in 1..m}
    BY <2>1, NodesAre
  <2> QED
    BY <2>1, <2>2, <2>3
<1>2. ASSUME NEW d, NEW j, Chain(d, j), Linked(prev', next', d, j), count' = j,
             popped' \in Node \cup {Null}
      PROVE  ListInv' /\ Order' = NodesOf(d, j)
  BY <1>2, OrderNext DEF ListInv, Holds
<1>3. ASSUME NEW n \in Node, InList(n)
      PROVE  \E k \in 1..m : c[k] = n
  BY <1>1, <1>3, LinkedNodes
<1>4. ASSUME NEW k \in 1..m, unlink(c[k]), popped' \in Node \cup {Null}
      PROVE  /\ ListInv' /\ Order' = NodesOf(Without(c, m, k), m - 1)
             /\ Order' = Unlink(Order, c[k]) /\ c[k] \in Node
             /\ Chain(Without(c, m, k), m - 1)
  <2>1. c[k] \in Node /\ InList(c[k])
    BY <1>1, LinkedNodes DEF Chain
  <2>2. prev' = UnlinkedPrev(c[k]) /\ next' = UnlinkedNext(c[k]) /\ count' = count - 1
    BY <1>4, <2>1 DEF unlink
  <2>3. /\ m - 1 \in Nat /\ Chain(Without(c, m, k), m - 1)
        /\ Linked(prev', next', Without(c, m, k), m - 1)
    BY <1>1, <2>2, Unlinks DEF UnlinkedPrev, UnlinkedNext
  <2>4. ListInv' /\ Order' = NodesOf(Without(c, m, k), m - 1)
    BY <1>1, <1>2, <1>4, <2>2, <2>3
  <2>5. Order' = Unlink(Order, c[k])
    BY <1>1, <2>3, <2>4, UnlinkedNodes
  <2> QED
    BY <2>1, <2>3, <2>4, <2>5
<1>5. ASSUME NEW n \in Node, pushFront(n)
      PROVE  ListInv' /\ LruOrder!Push(n)
  <2>1. \A i \in 1..m : c[i] # n
    BY <1>1, <1>5, LinkedNodes DEF pushFront
  <2>2. /\ Chain(WithFirst(c, m, n), m + 1)
        /\ Linked(prev', next', WithFirst(c, m, n), m + 1)
    BY <1>1, <1>5, <2>1, Fronts DEF pushFront
  <2>3. ListInv' /\ Order' = NodesOf(WithFirst(c, m, n), m + 1)
    BY <1>1, <1>2, <1>5, <2>2 DEF pushFront
  <2>4. Order' = PushFront(Order, n)
    BY <1>1, <2>2, <2>3, PushedNodes
  <2> QED
    BY <1>1, <1>5, <2>1, <2>3, <2>4, ListOperators DEF pushFront, LruOrder!Push
<1>6. ASSUME NEW n \in Node, moveToFront(n)
      PROVE  ListInv' /\ LruOrder!Touch(n)
  <2>1. PICK k \in 1..m : c[k] = n
    BY <1>3, <1>6 DEF moveToFront
  <2>2. PICK d : d = Without(c, m, k)
    OBVIOUS
  <2>3. /\ m - 1 \in Nat /\ Chain(d, m - 1) /\ Linked(UnlinkedPrev(n), UnlinkedNext(n), d, m - 1)
        /\ \A i \in 1..m - 1 : d[i] # n
    BY <1>1, <2>1, <2>2, Unlinks DEF UnlinkedPrev, UnlinkedNext
  <2>4. /\ Chain(WithFirst(d, m - 1, n), m - 1 + 1)
        /\ Linked(prev', next', WithFirst(d, m - 1, n), m - 1 + 1)
    BY <1>6, <2>3, Fronts DEF moveToFront
  <2>5. ListInv' /\ Order' = NodesOf(WithFirst(d, m - 1, n), m - 1 + 1)
    BY <1>1, <1>2, <1>6, <2>4 DEF moveToFront, Recounted
  <2>6. Unlink(Order, n) = NodesOf(d, m - 1)
    BY <1>1, <2>1, <2>2, <2>3, UnlinkedNodes
  <2>7. Order' = PushFront(Unlink(Order, n), n)
    BY <2>3, <2>4, <2>5, <2>6, PushedNodes
  <2>8. Order' = LruOrder!MoveToFront(Order, n)
    BY <2>7, ListOperators DEF LruOrder!MoveToFront
  <2>9. n \in LruOrder!ToSet(Order)
    BY <1>1, <2>1, ListOperators
  <2> QED
    BY <1>6, <2>5, <2>8, <2>9 DEF moveToFront, LruOrder!Touch
<1>7. ASSUME NEW n \in Node, remove(n)
      PROVE  ListInv' /\ LruOrder!Drop(n)
  <2>1. CASE InList(n)
    <3>1. PICK k \in 1..m : c[k] = n
      BY <1>3, <2>1
    <3>2. ListInv' /\ Order' = Unlink(Order, n)
      BY <1>1, <1>4, <1>7, <3>1 DEF remove
    <3> QED
      BY <1>7, <3>2, ListOperators DEF remove, LruOrder!Drop
  <2>2. CASE ~InList(n)
    <3>1. n \notin ToSet(Order)
      BY <1>1, <2>2, LinkedNodes
    <3>2. UNCHANGED <<prev, next, count, popped>>
      BY <1>7, <2>2 DEF remove, unlink
    <3>3. ListInv' /\ Order' = Order
      BY <1>1, <1>2, <3>2
    <3>4. Order' = Unlink(Order, n)
      BY <3>1, <3>3 DEF Unlink
    <3> QED
      BY <3>2, <3>3, <3>4, ListOperators DEF LruOrder!Drop
  <2> QED
    BY <2>1, <2>2
<1>8. ASSUME popTail
      PROVE  ListInv' /\ LruOrder!Pop
  <2>1. CASE count = 0
    <3>1. popped' = Null /\ UNCHANGED <<prev, next, count>>
      BY <1>8, <2>1 DEF popTail
    <3>2. ListInv' /\ Order' = Order
      BY <1>1, <1>2, <3>1
    <3>3. Order = <<>>
      BY <1>1, <2>1, EmptyNodes
    <3>4. LruOrder!PopTail(Order) = Order
      BY <3>3, ListOperators DEF PopTail
    <3> QED
      BY <3>1, <3>2, <3>3, <3>4 DEF LruOrder!Pop
  <2>2. CASE count # 0
    <3>1. m \in 1..m /\ m \in 0..m
      BY <1>1, <2>2
    <3>2. prev[tail] = c[m]
      BY <1>1, <3>1 DEF Linked, Chain
    <3>3. popped' = c[m] /\ unlink(c[m]) /\ c[m] \in Node
      BY <1>1, <1>8, <2>2, <3>1, <3>2 DEF popTail, Chain
    <3>4. ListInv' /\ Order' = NodesOf(Without(c, m, m), m - 1) /\ Chain(Without(c, m, m), m - 1)
      BY <1>4, <3>1, <3>3
    <3>5. Order # <<>> /\ Last(Order) = c[m] /\ PopTail(Order) = NodesOf(Without(c, m, m), m - 1)
      BY <1>1, <2>2, <3>4, PoppedNodes
    <3> QED
      BY <3>3, <3>4, <3>5, ListOperators DEF LruOrder!Pop
  <2> QED
    BY <2>1, <2>2
<1>9. ASSUME clearList
      PROVE  ListInv' /\ LruOrder!Clear
  <2> DEFINE d == [i \in 0..1 |-> IF i = 0 THEN head ELSE tail]
  <2>1. d[0] = head /\ d[1] = tail /\ d \in [0..1 -> Cell] /\ head \in Cell /\ tail \in Cell
        /\ head # tail
    BY SentinelAssumption DEF Cell
  <2> HIDE DEF d
  <2>2. Chain(d, 0)
    <3>1. \A i \in 0..1 : i = 0 \/ i = 1
      OBVIOUS
    <3> QED
      BY <2>1, <3>1 DEF Chain
  <2>3. Walked = {c[i] : i \in 1..m}
    BY <1>1, OrderIs
  <2>4. /\ prev' = [a \in Cell |-> IF a \in Walked THEN Null ELSE IF a = tail THEN head ELSE prev[a]]
        /\ next' = [a \in Cell |-> IF a \in Walked THEN Null ELSE IF a = head THEN tail ELSE next[a]]
        /\ count' = 0 /\ popped' = popped
    BY <1>9 DEF clearList
  <2>5. head \notin Walked /\ tail \notin Walked
    BY <1>1, <2>3, SentinelAssumption DEF Chain
  <2>6. Linked(prev', next', d, 0)
    <3>1. /\ prev \in [Cell -> Cell \cup {Null}] /\ next \in [Cell -> Cell \cup {Null}]
          /\ prev[head] = Null /\ next[tail] = Null
          /\ \A n \in Node : n \notin Walked => prev[n] = Null /\ next[n] = Null
      BY <1>1, <2>3 DEF Linked
    <3>2. prev' \in [Cell -> Cell \cup {Null}] /\ next' \in [Cell -> Cell \cup {Null}]
      BY <2>1, <2>4, <3>1
    <3>3. prev'[tail] = head /\ next'[head] = tail /\ prev'[head] = Null /\ next'[tail] = Null
      BY <2>1, <2>4, <2>5, <3>1
    <3>4. \A n \in Node : n \in Cell /\ n # head /\ n # tail
      BY SentinelAssumption DEF Cell
    <3>5. \A n \in Node : prev'[n] = Null /\ next'[n] = Null
      BY <2>4, <3>1, <3>4
    <3> QED
      BY <2>1, <3>2, <3>3, <3>5 DEF Linked
  <2>7. ListInv' /\ Order' = NodesOf(d, 0)
    BY <1>1, <1>2, <2>2, <2>4, <2>6
  <2>8. Order' = <<>>
    BY <2>2, <2>7, EmptyNodes
  <2> QED
    BY <2>4, <2>7, <2>8 DEF LruOrder!Clear
<1>10. CASE UNCHANGED listVars
  <2>1. UNCHANGED <<prev, next, count, popped>>
    BY <1>10 DEF listVars
  <2>2. ListInv' /\ Order' = Order
    BY <1>1, <1>2, <2>1
  <2> QED
    BY <2>1, <2>2 DEF LruOrder!vars
<1> QED
  BY <1>5, <1>6, <1>7, <1>8, <1>9, <1>10 DEF ListNext, LruOrder!Next

\* A list that is a chain is well linked.
LEMMA ChainWellLinked == ListInv => WellLinked
<1> SUFFICES ASSUME ListInv PROVE WellLinked
  OBVIOUS
<1>0. PICK c, m : Holds(c, m)
  BY DEF ListInv
<1>1. /\ Chain(c, m) /\ Linked(prev, next, c, m) /\ count = m /\ m \in Nat
      /\ Order = NodesOf(c, m) /\ popped \in Node \cup {Null}
      /\ c[0] = head /\ c[m + 1] = tail /\ c \in [0..m + 1 -> Cell] /\ Null \notin Cell
  <2>1. Chain(c, m) /\ Linked(prev, next, c, m) /\ count = m /\ popped \in Node \cup {Null}
    BY <1>0 DEF Holds, ListInv
  <2>2. Order = NodesOf(c, m) /\ Null \notin Cell
    BY <2>1, OrderIs, ChainCells
  <2> QED
    BY <2>1, <2>2 DEF Chain
<1>2. ListTypeOK
  BY <1>1 DEF ListTypeOK, Linked
<1>3. CountExact
  <2>1. {n \in Node : InList(n)} = {c[i] : i \in 1..m}
    BY <1>1, LinkedNodes DEF Chain
  <2> QED
    BY <1>1, <2>1, NodesFit DEF CountExact
<1>4. DoublyLinked
  <2>1. prev[head] = Null /\ next[tail] = Null
    BY <1>1 DEF Linked
  <2>2. next[head] # Null /\ prev[tail] # Null
    <3>1. 0 \in 0..m /\ m \in 0..m /\ 0 + 1 \in 0..m + 1
      BY <1>1
    <3>2. next[c[0]] = c[0 + 1] /\ prev[c[m + 1]] = c[m]
      BY <1>1, <3>1 DEF Linked
    <3> QED
      BY <1>1, <3>1, <3>2
  <2>3. ASSUME NEW a \in Cell
        PROVE  a = tail \/ (\E i \in 0..m : a = c[i]) \/ (a \in Node /\ next[a] = Null)
    <3>1. \A i \in 1..m : i \in 0..m
      BY <1>1
    <3>2. 0 \in 0..m
      BY <1>1
    <3> QED
      BY <1>1, <3>1, <3>2 DEF Cell, Linked
  <2>4. ASSUME NEW a \in Cell
        PROVE  a = head \/ (\E i \in 0..m : a = c[i + 1]) \/ (a \in Node /\ prev[a] = Null)
    <3>1. \A i \in 1..m : i - 1 \in 0..m /\ i - 1 + 1 = i
      BY <1>1
    <3>2. m \in 0..m
      BY <1>1
    <3>3. a = tail => a = c[m + 1]
      BY <1>1
    <3>4. CASE a \in Node
      <4>1. CASE \E i \in 1..m : c[i] = a
        <5>1. PICK i \in 1..m : c[i] = a
          BY <4>1
        <5>2. i - 1 \in 0..m /\ a = c[i - 1 + 1]
          BY <3>1, <5>1
        <5> QED
          BY <5>2
      <4>2. CASE \A i \in 1..m : c[i] # a
        BY <1>1, <3>4, <4>2 DEF Linked
      <4> QED
        BY <4>1, <4>2
    <3> QED
      BY <3>2, <3>3, <3>4 DEF Cell
  <2>5. ASSUME NEW a \in Cell, next[a] # Null
        PROVE  prev[next[a]] = a
    <3>1. PICK i \in 0..m : a = c[i]
      BY <2>1, <2>3, <2>5
    <3> QED
      BY <1>1, <3>1 DEF Linked
  <2>6. ASSUME NEW a \in Cell, prev[a] # Null
        PROVE  next[prev[a]] = a
    <3>1. PICK i \in 0..m : a = c[i + 1]
      BY <2>1, <2>4, <2>6
    <3> QED
      BY <1>1, <3>1 DEF Linked
  <2>7. \A n \in Node : prev[n] = Null <=> next[n] = Null
    BY <1>1, LinkedNodes
  <2> QED
    BY <2>1, <2>2, <2>5, <2>6, <2>7 DEF DoublyLinked
<1>5. TailWalkAgrees
  <2>0. PICK n \in Nat : n = Cardinality(Node) /\ m <= n
    BY <1>1, NodesFit
  <2>1. \A i \in 0..n : BackWalk[i] = IF i < m THEN c[m - i] ELSE head
    BY <1>1, <2>0, WalksRun
  <2>2. ASSUME NEW b \in 0..n
        PROVE  getTailNodes(b) = LruOrder!TailNodes(Order, b)
    <3> DEFINE r == IF b < m THEN b ELSE m
               reached == {i \in 1..n : i <= b /\ BackWalk[i - 1] \notin {head, Null}}
    <3>1. ASSUME NEW i \in 1..n
          PROVE  /\ i <= m => /\ BackWalk[i - 1] = c[m + 1 - i]
                              /\ BackWalk[i - 1] \notin {head, Null}
                              /\ m + 1 - i \in 1..m
                 /\ ~(i <= m) => BackWalk[i - 1] = head
      <4>1. i - 1 \in 0..n /\ (i - 1 < m <=> i <= m) /\ m - (i - 1) = m + 1 - i
        BY <1>1, <2>0
      <4>2. i <= m => m + 1 - i \in 1..m
        BY <1>1
      <4>3. \A j \in 1..m : c[j] \notin {head, Null}
        BY <1>1, SentinelAssumption DEF Chain
      <4> QED
        BY <2>1, <4>1, <4>2, <4>3
    <3>2. reached = 1..r
      BY <1>1, <2>0, <3>1
    <3>3. \A i \in 1..r : BackWalk[i - 1] = Order[m + 1 - i]
      <4>1. ASSUME NEW i \in 1..r
            PROVE  BackWalk[i - 1] = Order[m + 1 - i]
        <5>1. i \in 1..n /\ i <= m
          BY <1>1, <2>0
        <5> QED
          BY <1>1, <3>1, <5>1, NodesAre
      <4> QED
        BY <4>1
    <3>4. getTailNodes(b) = [i \in reached |-> BackWalk[i - 1]]
      BY <2>0 DEF getTailNodes
    <3>5. Len(Order) = m
      BY <1>1, NodesAre
    <3>6. LruOrder!TailNodes(Order, b) = [i \in 1..r |-> Order[m + 1 - i]]
      BY <3>5 DEF LruOrder!TailNodes
    <3> HIDE DEF r, reached
    <3> QED
      BY <3>2, <3>3, <3>4, <3>6
  <2> QED
    BY <2>0, <2>2 DEF TailWalkAgrees
<1> QED
  BY <1>2, <1>3, <1>4, <1>5 DEF WellLinked

\* The pointers form one list in both directions, as long as the count says, and
\* getTailNodes finds its last nodes, for any number of nodes and every order of calls.
THEOREM ListAlwaysWellLinked == ListSpec => []WellLinked
<1>1. ListInv /\ [ListNext]_listVars => ListInv'
  BY ListStep
<1>2. ListInit => ListInv
  BY ListStarts
<1> QED
  BY <1>1, <1>2, ChainWellLinked, PTL DEF ListSpec

\* The list is a sequence ordered by recency: popTail returns the last node, the
\* least recently used.
THEOREM ListIsASequence == ListSpec => ImplementsLruOrder
<1>1. ListInv /\ [ListNext]_listVars => ListInv' /\ [LruOrder!Next]_(LruOrder!vars)
  BY ListStep
<1>2. ListInit => ListInv /\ LruOrder!Init
  BY ListStarts
<1> QED
  BY <1>1, <1>2, PTL DEF ListSpec, ImplementsLruOrder, LruOrder!Spec
=============================================================================
