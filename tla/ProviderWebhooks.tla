-------------------------- MODULE ProviderWebhooks --------------------------
(***************************************************************************)
(* Callbacks of the payment provider (internal/httpapi/webhook.go): the    *)
(* handlers of /v1/provider/webhooks and /v1/provider/payout-webhooks.     *)
(*                                                                         *)
(* A handler checks the request, records the event id in                   *)
(* processed_webhooks and only then acts on the event, in a transaction of *)
(* its own.  An event id that is already recorded is answered with 200 and *)
(* ignored.  The provider delivers an event more than once, also           *)
(* concurrently, until it gets a 2xx answer (external).  The commands the  *)
(* handlers call are modules PaymentService and MerchantLedger; here they  *)
(* are single steps on one payment and one payout.                         *)
(***************************************************************************)
EXTENDS Domain

CONSTANTS
  Events,      \* ids of provider events
  EventOf,     \* EventOf[e] = type and amount of e
  Deliveries,  \* HTTP requests that carry an event
  None,        \* no event
  Authorized,  \* the amount of the payment
  Crashes      \* may a handler die, or lose its database connection?

PaymentEvents == {"payment.captured", "payment.refunded"}
PayoutEvents == {"payout.paid", "payout.failed"}

ASSUME WebhookAssumption ==
  /\ None \notin Events
  /\ EventOf \in [Events -> [type: PaymentEvents \cup PayoutEvents \cup {"other"},
                             amount: Int]]
  /\ Authorized \in Nat \ {0}
  /\ Crashes \in BOOLEAN

VARIABLES
  payment,    \* amounts and status of the payment's row
  payout,     \* status of the payout's row
  processed,  \* the processed_webhooks table
  applied,    \* applied[e] = how many times e took effect
  delivery,   \* delivery[d] = what the handler of d is doing
  acked       \* external: the events the provider has a 2xx answer for

vars == <<payment, payout, processed, applied, delivery, acked>>
-----------------------------------------------------------------------------
Running == {"register", "process"}
Finished == {"ok", "error", "lost"}

\* authorize() is yet to come: the provider may be ahead of the ledger.
Init ==
  /\ payment = [amount |-> Authorized, captured |-> 0, refunded |-> 0, status |-> "created"]
  /\ payout = "pending"
  /\ processed = {}
  /\ applied = [e \in Events |-> 0]
  /\ delivery = [d \in Deliveries |-> [pc |-> "idle", event |-> None]]
  /\ acked = {}

\* PaymentService.Authorize commits.
Authorize ==
  /\ CanTransition(payment.status, "authorized")
  /\ payment' = [payment EXCEPT !.status = "authorized"]
  /\ UNCHANGED <<payout, processed, applied, delivery, acked>>

Goto(d, pc) == delivery' = [delivery EXCEPT ![d].pc = pc]

\* The handler answers 200, and the answer reaches the provider or does not.
AnswerOK(d) ==
  /\ Goto(d, "ok")
  /\ acked' \in {acked, acked \cup {delivery[d].event}}
-----------------------------------------------------------------------------
(***************************************************************************)
(* The checks before the event is recorded: form, amount and type.  The    *)
(* signature check keeps other senders out.                                *)
(***************************************************************************)
Wellformed(e) ==
  \/ EventOf[e].type \in PaymentEvents /\ EventOf[e].amount > 0
  \/ EventOf[e].type \in PayoutEvents

Deliver(d, e) ==
  /\ delivery[d].pc = "idle"
  /\ Wellformed(e)
  /\ delivery' = [delivery EXCEPT ![d] = [pc |-> "register", event |-> e]]
  /\ UNCHANGED <<payment, payout, processed, applied, acked>>

Reject(d, e) ==
  /\ delivery[d].pc = "idle"
  /\ ~Wellformed(e)
  /\ delivery' = [delivery EXCEPT ![d] = [pc |-> "error", event |-> e]]
  /\ UNCHANGED <<payment, payout, processed, applied, acked>>
-----------------------------------------------------------------------------
(***************************************************************************)
(* RegisterWebhook: INSERT ... ON CONFLICT DO NOTHING, one statement.      *)
(***************************************************************************)

\* The caller does not look at the number of rows.
FaultyRegister(d) ==
  /\ delivery[d].pc = "register"
  /\ processed' = processed \cup {delivery[d].event}
  /\ Goto(d, "process")
  /\ UNCHANGED <<payment, payout, applied, acked>>

Register(d) ==
  /\ delivery[d].pc = "register"
  /\ delivery[d].event \notin processed
  /\ processed' = processed \cup {delivery[d].event}
  /\ Goto(d, "process")
  /\ UNCHANGED <<payment, payout, applied, acked>>

DuplicateIgnored(d) ==
  /\ delivery[d].pc = "register"
  /\ delivery[d].event \in processed
  /\ AnswerOK(d)
  /\ UNCHANGED <<payment, payout, processed, applied>>

\* The error answer 500 does not say that the row was not inserted.
RegisterFails(d) ==
  /\ Crashes
  /\ delivery[d].pc = "register"
  /\ processed' \in {processed, processed \cup {delivery[d].event}}
  /\ Goto(d, "error")
  /\ UNCHANGED <<payment, payout, applied, acked>>
-----------------------------------------------------------------------------
(***************************************************************************)
(* The effect: Capture, Refund or PayoutService.Complete.                  *)
(***************************************************************************)

\* A payout that is already settled may be settled again.
FaultyAllowed(e) ==
  LET type == EventOf[e].type
      amount == EventOf[e].amount IN
  \/ /\ type = "payment.captured"
     /\ CanTransition(payment.status, "captured") /\ ValidateCapture(payment, amount)
  \/ /\ type = "payment.refunded"
     /\ CanTransition(payment.status, "refunded") /\ ValidateRefund(payment, amount)
  \/ type \in PayoutEvents

Allowed(e) ==
  LET type == EventOf[e].type
      amount == EventOf[e].amount IN
  \/ /\ type = "payment.captured"
     /\ CanTransition(payment.status, "captured") /\ ValidateCapture(payment, amount)
  \/ /\ type = "payment.refunded"
     /\ CanTransition(payment.status, "refunded") /\ ValidateRefund(payment, amount)
  \/ /\ type \in PayoutEvents
     /\ payout = "pending"

\* A refund is booked with the wrong sign.
FaultyEffect(e) ==
  LET amount == EventOf[e].amount IN
  /\ payment' = CASE EventOf[e].type = "payment.captured" ->
                       [payment EXCEPT !.captured = @ + amount, !.status = "captured"]
                  [] EventOf[e].type = "payment.refunded" ->
                       [payment EXCEPT !.refunded = @ - amount, !.status = "refunded"]
                  [] OTHER -> payment
  /\ payout' = CASE EventOf[e].type = "payout.paid"   -> "paid"
                 [] EventOf[e].type = "payout.failed" -> "failed"
                 [] OTHER                             -> payout
  /\ applied' = [applied EXCEPT ![e] = @ + 1]

Effect(e) ==
  LET amount == EventOf[e].amount IN
  /\ payment' = CASE EventOf[e].type = "payment.captured" ->
                       [payment EXCEPT !.captured = @ + amount, !.status = "captured"]
                  [] EventOf[e].type = "payment.refunded" ->
                       [payment EXCEPT !.refunded = @ + amount, !.status = "refunded"]
                  [] OTHER -> payment
  /\ payout' = CASE EventOf[e].type = "payout.paid"   -> "paid"
                 [] EventOf[e].type = "payout.failed" -> "failed"
                 [] OTHER                             -> payout
  /\ applied' = [applied EXCEPT ![e] = @ + 1]

Process(d) ==
  /\ delivery[d].pc = "process"
  /\ Allowed(delivery[d].event)
  /\ Effect(delivery[d].event)
  /\ AnswerOK(d)
  /\ UNCHANGED processed

\* 422: the command is refused in the state the row is in.
Refused(d) ==
  /\ delivery[d].pc = "process"
  /\ ~Allowed(delivery[d].event)
  /\ Goto(d, "error")
  /\ UNCHANGED <<payment, payout, processed, applied, acked>>

\* A statement fails or the handler dies, before the effect or behind it.
Crash(d) ==
  /\ Crashes
  /\ delivery[d].pc \in Running
  /\ \/ UNCHANGED <<payment, payout, applied>>
     \/ /\ delivery[d].pc = "process"
        /\ Allowed(delivery[d].event)
        /\ Effect(delivery[d].event)
  /\ Goto(d, "lost")
  /\ UNCHANGED <<processed, acked>>
-----------------------------------------------------------------------------
Next ==
  \/ Authorize
  \/ \E d \in Deliveries :
       \/ \E e \in Events : Deliver(d, e) \/ Reject(d, e)
       \/ Register(d) \/ DuplicateIgnored(d) \/ RegisterFails(d)
       \/ Process(d) \/ Refused(d) \/ Crash(d)

Spec == Init /\ [][Next]_vars
-----------------------------------------------------------------------------
(***************************************************************************)
(* Properties                                                              *)
(***************************************************************************)
\* The rows the callbacks act on stay within their types, amounts not negative.
TypeOK ==
  /\ payment \in [amount: Nat, captured: Nat, refunded: Nat, status: PaymentStatus]
  /\ payout \in {"pending", "paid", "failed"}
  /\ processed \subseteq Events
  /\ applied \in [Events -> Nat]
  /\ delivery \in [Deliveries -> [pc: {"idle"} \cup Running \cup Finished,
                                  event: Events \cup {None}]]
  /\ acked \subseteq Events

(***************************************************************************)
(* An event takes effect at most once, and only after it was recorded,     *)
(* however often and however concurrently the provider delivers it and     *)
(* wherever handlers die.                                                  *)
(***************************************************************************)
AppliedAtMostOnce ==
  \A e \in Events : applied[e] <= 1 /\ (applied[e] = 1 => e \in processed)

(***************************************************************************)
(* Callbacks that contradict each other do not both win: at most one event *)
(* settles the payout, and the row says which (the payout is settled only  *)
(* while it is pending, store/postgres.go, TransitionPayout).              *)
(***************************************************************************)
OneTerminalCallback ==
  \A e \in Events : EventOf[e].type \in PayoutEvents /\ applied[e] > 0 =>
    /\ payout = IF EventOf[e].type = "payout.paid" THEN "paid" ELSE "failed"
    /\ \A f \in Events : EventOf[f].type \in PayoutEvents /\ applied[f] > 0 => f = e

(***************************************************************************)
(* A statement of the documentation that the code does not keep.           *)
(***************************************************************************)

\* README: "retries are safe".  An event whose delivery the provider believes to have
\* succeeded has taken effect, or some handler is still at it.
AcknowledgedIsApplied ==
  \A e \in acked :
    \/ applied[e] = 1
    \/ \E d \in Deliveries : delivery[d] = [pc |-> "process", event |-> e]
=============================================================================
