---------------------------- MODULE MCEmailQueue ----------------------------
(* Small instances of EmailQueue for TLC. *)
EXTENDS EmailQueue, TLC

CONSTANTS w1, w2, d1, d2, d3, ann

AllToAnn == d1 :> ann @@ d2 :> ann @@ d3 :> ann
=============================================================================
