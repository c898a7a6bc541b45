----------------------------- MODULE MCHwFence -----------------------------
(***************************************************************************)
(* The instance of HwFence for TLC: two arrays share a fence, and all      *)
(* hashes are the same, so that every lookup probes.                       *)
(***************************************************************************)
EXTENDS HwFence, TLC

CONSTANTS a, b, c1, j1, j2

MCKids == j1 :> <<b, a>> @@ j2 :> <<a>>

MCOwner == a :> c1 @@ b :> c1

MCHome == [k \in {a, b, j1, j2} |-> 0]
=============================================================================
