----------------------------- MODULE MCDelivery -----------------------------
(***************************************************************************)
(* A stream of two three-byte words, with producers that end early, on     *)
(* time, in the middle of a word and too late.                             *)
(***************************************************************************)
EXTENDS Delivery

MCLengths == {3, 5, 6, 9}
=============================================================================
