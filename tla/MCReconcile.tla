------------------------------ MODULE MCReconcile ------------------------------
(* Instances of ReconcileCycle for TLC; the bounds are in the configurations. *)
EXTENDS ReconcileCycle
=============================================================================
