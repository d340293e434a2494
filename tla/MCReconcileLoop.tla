-------------------------- MODULE MCReconcileLoop --------------------------
(***************************************************************************)
(* A small instance of ReconcileLoop: three shoots of one project          *)
(* namespace that compete for its slots.                                   *)
(***************************************************************************)
EXTENDS ReconcileLoop, TLC

CONSTANTS s1, s2, s3, na

MCNamespace == [k \in Requests |-> na]
=============================================================================
