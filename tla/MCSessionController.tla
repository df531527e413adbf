------------------------ MODULE MCSessionController -------------------------
(***************************************************************************)
(* Instances of SessionController for TLC: two models, whose first change  *)
(* takes them away for a while, and a failure or a restart.                *)
(***************************************************************************)
EXTENDS SessionController

CONSTANTS m1, m2
=============================================================================
