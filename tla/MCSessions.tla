----------------------------- MODULE MCSessions -----------------------------
(***************************************************************************)
(* Two clients of the registry, and a model with an indexed shard, either  *)
(* of which is replaced while they are at work.                            *)
(***************************************************************************)
EXTENDS Sessions, TLC

CONSTANTS c1, c2

Clients == Permutations({c1, c2})
=============================================================================
