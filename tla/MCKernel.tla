------------------------------ MODULE MCKernel ------------------------------
(***************************************************************************)
(* Small instances of the store for TLC.                                   *)
(***************************************************************************)
EXTENDS Verify, KernelRefinement, TLC

\* Message keys and contents are interchangeable: nothing orders or names them.
MessageSymmetry == Permutations(Keys) \cup Permutations(Payloads)
=============================================================================
