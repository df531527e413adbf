------------------------- MODULE MCDeviceScheduler -------------------------
(* Instances of DeviceScheduler for TLC. *)
EXTENDS DeviceScheduler, TLC

CONSTANTS j1, j2, j3, j4

\* Three jobs of one device under two names, and one that needs no slot.
MCDevice == (j1 :> "cuda:0") @@ (j2 :> "cuda") @@ (j3 :> "cuda:0") @@ (j4 :> "cpu")
=============================================================================
