-------------------------- MODULE ClusterServerMC ---------------------------
(* One connection, a dashboard, an API request, and two shards. *)
EXTENDS ClusterServer

CONSTANTS c1, v1

MCCasts == {{c1, api}, {c1, 1, 2}, {v1, api, 1, 2}, {traffic, v1, 1, 2}}

MCChunks == {<<"command">>, <<"command", "command">>, <<"quit", "command">>,
             <<"odd">>, <<"command", "malformed">>}
=============================================================================
