------------------------------ MODULE MCClient ------------------------------
(***************************************************************************)
(* A small instance of the client for TLC.  Databases and texts are        *)
(* interchangeable.                                                        *)
(***************************************************************************)
EXTENDS Client, TLC

Symmetry == Permutations(Databases) \cup Permutations(Drafts)
=============================================================================
