-------------------------- MODULE MCMerchantLedger --------------------------
(* Bounded instances of MerchantLedger for TLC. *)
EXTENDS MerchantLedger

\* Every payment belongs to the first merchant of the instance.
OneOwner == [p \in Payments |-> CHOOSE m \in Merchants : TRUE]

\* Amounts clients send: outside the limits on both sides and inside them.
ClientAmounts == -1 .. 2
=============================================================================
