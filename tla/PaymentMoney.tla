---------------------------- MODULE PaymentMoney ----------------------------
(***************************************************************************)
(* What the payment ledger promises, without requests, locks, statuses or  *)
(* events: the money of a payment is held once, captured within the hold   *)
(* and refunded within what was captured, each in a single step.           *)
(***************************************************************************)
EXTENDS Integers

CONSTANT Payments

VARIABLES limit, held, captured, refunded

moneyVars == <<limit, held, captured, refunded>>

Init ==
  /\ limit    = [p \in Payments |-> 0]
  /\ held     = [p \in Payments |-> 0]
  /\ captured = [p \in Payments |-> 0]
  /\ refunded = [p \in Payments |-> 0]

Open(p) ==
  /\ limit[p] = 0
  /\ limit'[p] \in Nat \ {0}
  /\ limit' = [limit EXCEPT ![p] = limit'[p]]
  /\ UNCHANGED <<held, captured, refunded>>

Hold(p) ==
  /\ limit[p] > 0
  /\ held[p] = 0
  /\ held' = [held EXCEPT ![p] = limit[p]]
  /\ UNCHANGED <<limit, captured, refunded>>

Capture(p) ==
  /\ \E a \in 1 .. (held[p] - captured[p]) :
       captured' = [captured EXCEPT ![p] = @ + a]
  /\ UNCHANGED <<limit, held, refunded>>

Refund(p) ==
  /\ \E a \in 1 .. (captured[p] - refunded[p]) :
       refunded' = [refunded EXCEPT ![p] = @ + a]
  /\ UNCHANGED <<limit, held, captured>>

Next == \E p \in Payments : Open(p) \/ Hold(p) \/ Capture(p) \/ Refund(p)

Spec == Init /\ [][Next]_moneyVars
=============================================================================
