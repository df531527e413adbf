--------------------------- MODULE MCModelObserver ---------------------------
(***************************************************************************)
(* Instances of ModelObserver for TLC: two streams, and a model that is    *)
(* replaced by a broken and an unreadable checkpoint and then removed.     *)
(***************************************************************************)
EXTENDS ModelObserver

CONSTANTS s1, s2, observer
=============================================================================
