-------------------------- MODULE MCPaymentService --------------------------
(* Bounded instances of PaymentService for TLC. *)
EXTENDS PaymentService

\* Amounts clients send, when the database stores multiples of 3: below and above the
\* limits; 1 is rounded to nothing, 2 up and 4 down.
ClientAmounts == {-1, 1, 2, 4, 6, 8}
=============================================================================
