--------------------------- MODULE MCReplication ---------------------------
(***************************************************************************)
(* Replication for TLC.  Servers are interchangeable: the safety runs take *)
(* their permutations as a symmetry set, the liveness runs do not.         *)
(***************************************************************************)
EXTENDS Replication, TLC

Replicas == Permutations(Server)
=============================================================================
