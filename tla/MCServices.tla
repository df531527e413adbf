----------------------------- MODULE MCServices -----------------------------
(***************************************************************************)
(* Two clients, and a model whose files are touched and then replaced by   *)
(* something that cannot be analyzed.                                      *)
(***************************************************************************)
EXTENDS Services

CONSTANTS c1, c2, a, b

MCContentOf == [v \in 0..Versions |-> IF v = 2 THEN b ELSE a]
MCOutcome == [k \in Content |-> IF k = a THEN "graph" ELSE "unsupported_architecture"]
MCUses == [c \in Client |-> IF c = c1 THEN {"architecture"} ELSE {"architecture", "neurons"}]
=============================================================================
