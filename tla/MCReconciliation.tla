-------------------------- MODULE MCReconciliation --------------------------
(* Bounded instance of Reconciliation for TLC. *)
EXTENDS Reconciliation, TLC

\* Handlers are interchangeable, and so are payments.
Symmetry == Permutations(Calls) \cup Permutations(Payments)
=============================================================================
