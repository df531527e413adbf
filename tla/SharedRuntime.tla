---------------------------- MODULE SharedRuntime ----------------------------
(***************************************************************************)
(* The operation runtime as an implementation of SharedProduction: what a  *)
(* client can tell of the table of flights and of the consumers.           *)
(***************************************************************************)
EXTENDS OperationRuntime

\* A flight is stopping from the release that requests its cancellation until it has
\* settled, whatever its producer does in the meantime.
WorkOf(k) ==
    IF table[k] = None THEN "idle"
    ELSE IF table[k] \in finished THEN "over"
    ELSE IF table[k] \in abandoned THEN "stopping"
    ELSE "running"

WantOf(c) == IF c \in registered /\ terminal[c] = "none" THEN key[c] ELSE None

Shared == INSTANCE SharedProduction
    WITH work <- [k \in Key |-> WorkOf(k)],
         want <- [c \in Consumer |-> WantOf(c)],
         got <- pos,
         told <- terminal

\* The runtime keeps the promise: every step of its flights, readers and disposals is a
\* step of SharedProduction or invisible.  A subscriber that joined a flight already
\* cancelled, a flight that outlived its last consumer in the table, or a "complete"
\* told before the producer had settled would each be a step that it does not allow.
ImplementsShared == Shared!Spec
=============================================================================
