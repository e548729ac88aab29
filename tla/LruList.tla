------------------------------ MODULE LruList -------------------------------
(***************************************************************************)
(* src/src/lru-list.ts with its pointers: sentinel nodes head and tail,    *)
(* the prev and next fields of every LruNode, and the count field.  The    *)
(* nodes are the ones StorageEngine creates; a node whose prev and next    *)
(* are null is not in the list.                                            *)
(***************************************************************************)
EXTENDS Integers, FiniteSets

CONSTANTS Node,          \* the LruNode objects
          head, tail,    \* the two sentinels
          Null

ASSUME SentinelAssumption ==
    /\ head # tail
    /\ {head, tail} \cap Node = {}
    /\ Null \notin Node \cup {head, tail}
ASSUME NodeAssumption == IsFiniteSet(Node)

Cell == Node \cup {head, tail}

VARIABLES prev, next,    \* the pointer fields of every cell
          count,         \* DoublyLinkedList.count
          popped         \* what the last popTail returned

listVars == <<prev, next, count, popped>>

ListInit ==
    /\ prev = [c \in Cell |-> IF c = tail THEN head ELSE Null]
    /\ next = [c \in Cell |-> IF c = head THEN tail ELSE Null]
    /\ count = 0
    /\ popped = Null

InList(n) == prev[n] # Null /\ next[n] # Null

(***************************************************************************)
(* unlink and the insertion at the head, as functions of the pointers they *)
(* are given: moveToFront runs the one on the result of the other.         *)
(***************************************************************************)
\* Mutant: the next node keeps pointing back at the removed one.
UnlinkedPrev_Stale(n) == [prev EXCEPT ![n] = Null]

UnlinkedPrev(n) == [prev EXCEPT ![next[n]] = prev[n], ![n] = Null]
UnlinkedNext(n) == [next EXCEPT ![prev[n]] = next[n], ![n] = Null]

\* Mutant: the old first node is cut off with all that follows.
FrontNext_CutsOff(x, n) == [x EXCEPT ![n] = tail, ![head] = n]

\* The insertion writes node.prev and node.next first, then the neighbours.
FrontPrev(p, x, n) == [p EXCEPT ![n] = head, ![x[head]] = n]
FrontNext(x, n) == [x EXCEPT ![n] = x[head], ![head] = n]

\* StorageEngine.set pushes the node it has just constructed.
pushFront(n) ==
    /\ prev[n] = Null /\ next[n] = Null
    /\ prev' = FrontPrev(prev, next, n)
    /\ next' = FrontNext(next, n)
    /\ count' = count + 1
    /\ UNCHANGED popped

Recounted == (count - 1) + 1

(***************************************************************************)
(* Called with a node of the engine's map, which is in the list.  A node   *)
(* that is already first stays where it is.                                *)
(***************************************************************************)
moveToFront(n) ==
    /\ InList(n)
    /\ prev[n] # head
    /\ prev' = FrontPrev(UnlinkedPrev(n), UnlinkedNext(n), n)
    /\ next' = FrontNext(UnlinkedNext(n), n)
    /\ count' = Recounted
    /\ UNCHANGED popped

unlink(n) ==
    IF InList(n)
    THEN /\ prev' = UnlinkedPrev(n)
         /\ next' = UnlinkedNext(n)
         /\ count' = count - 1
    ELSE UNCHANGED <<prev, next, count>>

remove(n) == unlink(n) /\ UNCHANGED popped

popTail ==
    \/ /\ count = 0
       /\ popped' = Null
       /\ UNCHANGED <<prev, next, count>>
    \/ /\ count # 0
       /\ popped' = prev[tail]
       /\ unlink(prev[tail])

\* clear walks the list and nulls the pointers of every node on the way.
Walk[i \in 0..Cardinality(Node)] ==
    IF i = 0 THEN next[head]
    ELSE IF Walk[i - 1] \in {tail, Null} THEN tail ELSE next[Walk[i - 1]]

Walked == {Walk[i] : i \in 0..Cardinality(Node)} \ {tail, Null}

clearList ==
    /\ prev' = [c \in Cell |-> IF c \in Walked THEN Null
                               ELSE IF c = tail THEN head ELSE prev[c]]
    /\ next' = [c \in Cell |-> IF c \in Walked THEN Null
                               ELSE IF c = head THEN tail ELSE next[c]]
    /\ count' = 0
    /\ UNCHANGED popped

ListNext ==
    \/ popTail
    \/ clearList
    \/ \E n \in Node : pushFront(n) \/ moveToFront(n) \/ remove(n)

ListSpec == ListInit /\ [][ListNext]_listVars
-----------------------------------------------------------------------------
ListTypeOK ==
    /\ prev \in [Cell -> Cell \cup {Null}]
    /\ next \in [Cell -> Cell \cup {Null}]
    /\ count \in Nat
    /\ popped \in Node \cup {Null}

(***************************************************************************)
(* The nodes reached from the head, in order: the sequence LruOrder keeps. *)
(* getTailNodes walks the prev pointers from the tail instead.             *)
(***************************************************************************)
Order == [i \in 1..Cardinality(Walked) |-> Walk[i - 1]]

BackWalk[i \in 0..Cardinality(Node)] ==
    IF i = 0 THEN prev[tail]
    ELSE IF BackWalk[i - 1] \in {head, Null} THEN head ELSE prev[BackWalk[i - 1]]

getTailNodes(maxCount) ==
    LET reached == {i \in 1..Cardinality(Node) :
                        i <= maxCount /\ BackWalk[i - 1] \notin {head, Null}}
    IN  [i \in reached |-> BackWalk[i - 1]]

LruOrder == INSTANCE LruOrder WITH order <- Order

\* lru-list.ts behaves as a sequence ordered by recency: every pushFront,
\* moveToFront, remove, popTail and clear on the pointers is that operation on
\* the sequence, and popTail returns the least recently used node.
ImplementsLruOrder == LruOrder!Spec

\* Both directions of the list agree: the cold entries getTailNodes reports by
\* the prev pointers are the last nodes of the list in next order.
TailWalkAgrees ==
    \A m \in 0..Cardinality(Node) :
        getTailNodes(m) = LruOrder!TailNodes(Order, m)

\* Neighbours point at each other, and a node is linked on both sides or none.
DoublyLinked ==
    /\ prev[head] = Null /\ next[head] # Null
    /\ next[tail] = Null /\ prev[tail] # Null
    /\ \A n \in Node : prev[n] = Null <=> next[n] = Null
    /\ \A c \in Cell : next[c] # Null => prev[next[c]] = c
    /\ \A c \in Cell : prev[c] # Null => next[prev[c]] = c

\* The size the list reports is the number of nodes that are linked.
CountExact == count = Cardinality({n \in Node : InList(n)})

\* The pointers form one list in both directions, and the count is its length.
WellLinked == ListTypeOK /\ DoublyLinked /\ CountExact /\ TailWalkAgrees
=============================================================================
