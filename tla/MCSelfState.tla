----------------------------- MODULE MCSelfState -----------------------------
(***************************************************************************)
(* Small instances of the self-state policy for TLC.  Runtimes and terms   *)
(* are interchangeable: nothing tells two of them apart.                   *)
(***************************************************************************)
EXTENDS SelfState, TLC

Symmetry == Permutations(Runtimes) \cup Permutations(Texts) \cup Permutations(Ids)

ProfileWrite == {[Null EXCEPT !.profile = [data |-> d, revision |-> 1]] : d \in Profiles}
=============================================================================
