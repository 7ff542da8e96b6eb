------------------------------- MODULE MCHost -------------------------------
(***************************************************************************)
(* Small instances of a host, with a plain runtime on the same subject.    *)
(***************************************************************************)
EXTENDS Host, TLC

CONSTANTS h, w, e1

RoutedHost == (h :> "route") @@ (w :> "result")
GuardedHost == (h :> "self") @@ (w :> "result")
AloneHost == (h :> "route")
OneExecutor == <<e1>>
=============================================================================
