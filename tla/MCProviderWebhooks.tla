------------------------- MODULE MCProviderWebhooks -------------------------
(* Bounded instances of ProviderWebhooks for TLC. *)
EXTENDS ProviderWebhooks, TLC

CONSTANTS captured, refunded, paid, failed, malformed, unsupported

\* Two payment events that depend on each other's order, two payout events that
\* contradict each other, and one of each kind that is turned away.
MCEventOf ==
  captured    :> [type |-> "payment.captured", amount |-> 2] @@
  refunded    :> [type |-> "payment.refunded", amount |-> 1] @@
  paid        :> [type |-> "payout.paid",      amount |-> 0] @@
  failed      :> [type |-> "payout.failed",    amount |-> 0] @@
  malformed   :> [type |-> "payment.captured", amount |-> 0] @@
  unsupported :> [type |-> "other",            amount |-> 0]

\* Deliveries are interchangeable.
Symmetry == Permutations(Deliveries)
=============================================================================
