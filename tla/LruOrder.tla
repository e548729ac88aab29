------------------------------ MODULE LruOrder ------------------------------
(***************************************************************************)
(* What DoublyLinkedList promises its caller, StorageEngine: a list of     *)
(* distinct nodes ordered by recency, and popTail hands out the least      *)
(* recently used node (or null when there is none).                        *)
(***************************************************************************)
EXTENDS LruOps

CONSTANTS Node, Null

VARIABLES order,     \* the nodes in the list, most recently used first
          popped     \* what the last popTail returned

vars == <<order, popped>>

Init == order = <<>> /\ popped = Null

Push(n) == n \notin ToSet(order) /\ order' = PushFront(order, n) /\ UNCHANGED popped
Touch(n) == n \in ToSet(order) /\ order' = MoveToFront(order, n) /\ UNCHANGED popped
Drop(n) == order' = Unlink(order, n) /\ UNCHANGED popped

Pop ==
    /\ order' = PopTail(order)
    /\ popped' = IF order = <<>> THEN Null ELSE Last(order)

Clear == order' = <<>> /\ UNCHANGED popped

Next == Pop \/ Clear \/ \E n \in Node : Push(n) \/ Touch(n) \/ Drop(n)

Spec == Init /\ [][Next]_vars
=============================================================================
