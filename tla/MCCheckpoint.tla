---------------------------- MODULE MCCheckpoint ----------------------------
(***************************************************************************)
(* Checkpoint on small instances.                                          *)
(***************************************************************************)
EXTENDS Checkpoint

SameSystem == [b \in Backends |-> "cpu"]
=============================================================================
