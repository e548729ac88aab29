----------------------------- MODULE RespServerMC -----------------------------
(***************************************************************************)
(* One busy client and one that only connects, ends or resets.  A chunk    *)
(* whose command waits, pipelines, requests behind QUIT in its chunk and   *)
(* in later ones, a chunk that ends in a protocol error.                   *)
(***************************************************************************)
EXTENDS RespServer

CONSTANTS c1, c2

MCConn == {c1, c2}
MCMaxSent == (c1 :> 3) @@ (c2 :> 0)
MCChunks == {<<"set">>, <<"incr", "get">>, <<"quit">>, <<"quit", "get">>, <<"get", "bad">>}
=============================================================================
