------------------------- MODULE MCIdempotentCreate -------------------------
(* Bounded instances of IdempotentCreate for TLC. *)
EXTENDS IdempotentCreate

\* Refused (zero and less), and two amounts that tell payments apart.
MCAmounts == -1 .. 2
=============================================================================
