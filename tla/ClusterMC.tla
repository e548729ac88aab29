----------------------------- MODULE ClusterMC ------------------------------
(* Two shards of three virtual nodes, and a key on each of them. *)
EXTENDS ClusterCoordinator

CONSTANTS k1, k3

\* Both shards have a point at 4: k1 is there, between two entries.  k3 is past the last
\* point, which is not of the shard that has the first.
MCVnodeHashes == (0 :> <<3, 6, 4>>) @@ (1 :> <<4, 1, 5>>)
MCKeyHash == (k1 :> 4) @@ (k3 :> 7)
TwoKeys == {k1, k3}
TwoKeyDels == {<<k1>>, <<k1, k1>>, <<k3, k1>>}

\* The functions of the ring, on every small one.
SmallRings == {ring \in SeqOf([hash : {1, 3, 4}, node : Node], 4) : Sorted(ring)}
ASSUME SearchFindsFirst ==
    \A ring \in SmallRings : \A target \in 0..5 : IsFirst(ring, target, binarySearch(ring, target))
ASSUME NodesComeAndGo ==
    \A ring \in SmallRings, n \in Node :
        LET without == removeNode(ring, n)
            with == addNode(without, n)
        IN  Sorted(with) /\ Grown(without, ring, n) /\ (Len(without) < 3 => Grown(without, with, n))
=============================================================================
