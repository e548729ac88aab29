---------------------------- MODULE AtomicLockMC ----------------------------
(* Three locks, and requests that form a circle when they are not sorted. *)
EXTENDS AtomicLock

MCRequests == {<<>>, <<0, 1, 0>>, <<1, 2>>, <<2, 0>>}
=============================================================================
