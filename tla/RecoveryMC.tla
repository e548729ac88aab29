----------------------------- MODULE RecoveryMC -----------------------------
(* Small instances of Recovery for TLC. *)
EXTENDS Recovery

MCDelLists == {<<j>> : j \in Key} \cup {<<j, k>> : j, k \in Key}
=============================================================================
