----------------------------- MODULE MCProgress -----------------------------
(***************************************************************************)
(* Small instances of polling workers for TLC.                             *)
(***************************************************************************)
EXTENDS Progress, TLC

CONSTANTS w1, e1

OneRoute == (w1 :> "route")
OneExecutor == <<e1>>
=============================================================================
