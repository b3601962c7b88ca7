---------------------------- MODULE MCLifecycle -----------------------------
(* Lifecycle with finite sets for TLC.  Hosts and calls are interchangeable; *)
(* agents are not, the cascade visits them in creation order.                *)
EXTENDS Lifecycle, TLC

Symmetry == Permutations(Hosts) \cup Permutations(Calls)
=============================================================================
