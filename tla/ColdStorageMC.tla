--------------------------- MODULE ColdStorageMC ----------------------------
(* Two keys under memory pressure, and a worker that archives them. *)
EXTENDS ColdStorage

CONSTANTS k1, k2

TwoKeys == {k1, k2}
SingleDels == {<<j>> : j \in Key}
=============================================================================
