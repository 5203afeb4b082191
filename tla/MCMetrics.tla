------------------------------ MODULE MCMetrics ------------------------------
(***************************************************************************)
(* The metered reconciler for model checking, pods up to renaming.         *)
(***************************************************************************)
EXTENDS Metrics, MCReconciler
=============================================================================
