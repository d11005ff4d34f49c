---------------------------- MODULE MCReplicator ----------------------------
(* An instance of Replicator for TLC: three objects for one database. *)
EXTENDS Replicator

CONSTANTS d1, p1, p2, p3

MCDbOf == [p \in Proc |-> d1]
=============================================================================
