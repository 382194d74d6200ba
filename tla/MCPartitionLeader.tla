------------------------- MODULE MCPartitionLeader -------------------------
(***************************************************************************)
(* PartitionLeader for TLC: with one follower there is no symmetry to use. *)
(***************************************************************************)
EXTENDS PartitionLeader, TLC
=============================================================================
