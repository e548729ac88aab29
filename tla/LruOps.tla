------------------------------- MODULE LruOps -------------------------------
(***************************************************************************)
(* The recency list of src/src/lru-list.ts as what it means: a sequence of *)
(* nodes without repetition, the most recently used one first.  LruList    *)
(* models the same class with its prev/next pointers and is checked to     *)
(* implement LruOrder, the state machine over these operators.             *)
(***************************************************************************)
EXTENDS Integers, Sequences, SequencesExt

Distinct(s) == \A i, j \in DOMAIN s : s[i] = s[j] => i = j

Position(s, n) == CHOOSE i \in DOMAIN s : s[i] = n

\* Mutants: a new node goes to the wrong end, a used one stays where it is.
PushFront_AtTail(s, n) == Append(s, n)
MoveToFront_Stays(s, n) == s

\* pushFront: a node not in the list becomes the most recently used one.
PushFront(s, n) == Cons(n, s)

\* remove / unlink: nothing happens when the node is not in the list.
Unlink(s, n) == IF n \in ToSet(s) THEN RemoveAt(s, Position(s, n)) ELSE s

\* moveToFront
MoveToFront(s, n) == PushFront(Unlink(s, n), n)

\* popTail drops the least recently used node: the last of the sequence.
PopTail(s) == IF s = <<>> THEN s ELSE Front(s)

\* getTailNodes: up to maxCount nodes, the least recently used one first.
TailNodes(s, maxCount) ==
    LET n == IF maxCount < Len(s) THEN maxCount ELSE Len(s)
    IN  [i \in 1..n |-> s[Len(s) + 1 - i]]
=============================================================================
