------------------------------ MODULE MCRuntime ------------------------------
(***************************************************************************)
(* Small instances of workers on one subject for TLC.                      *)
(***************************************************************************)
EXTENDS Runtime, TLC

CONSTANTS w1, w2, e1, e2, e3

\* A route with a fallback beside a self-state runtime.
RouteAndSelf == (w1 :> "route") @@ (w2 :> "self")

\* ... and beside Runtime::step.
RouteAndStep == (w1 :> "route") @@ (w2 :> "step")
TwoExecutors == <<e1, e2>>

\* The second one lacks a capability that the route requires.
ThreeExecutors == <<e1, e3, e2>>
=============================================================================
