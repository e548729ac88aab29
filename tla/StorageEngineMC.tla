-------------------------- MODULE StorageEngineMC ---------------------------
(* Small instances of StorageEngine for TLC. *)
EXTENDS StorageEngine

CONSTANTS k1, k2, k3

MCKeys == {k1, k2, k3}

\* One key, two keys in either order, and the same key twice.
MCDelLists == {<<j>> : j \in Key} \cup {<<j, k>> : j, k \in Key}

\* Nothing orders the keys, and the argument lists contain every permutation.
KeySymmetry == Permutations(Key)
=============================================================================
