------------------------------ MODULE MCOutbox ------------------------------
(* Bounded instances of Outbox for TLC. *)
EXTENDS Outbox, TLC

\* Workers are interchangeable, and so are events.
Symmetry == Permutations(Workers) \cup Permutations(Events)
=============================================================================
