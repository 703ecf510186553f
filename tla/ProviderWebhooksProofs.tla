----------------------- MODULE ProviderWebhooksProofs -----------------------
(***************************************************************************)
(* Proofs about ProviderWebhooks, for any number of events and deliveries. *)
(*                                                                         *)
(* That an event is applied at most once rests on what a handler behind    *)
(* RegisterWebhook owns: it is the only one at its event, which is         *)
(* recorded and has had no effect yet (OwnsEvent).                         *)
(***************************************************************************)
EXTENDS ProviderWebhooks, TLAPS

OwnsEvent ==
  \A d \in Deliveries : delivery[d].pc = "process" =>
    /\ delivery[d].event \in processed
    /\ applied[delivery[d].event] = 0
    /\ \A c \in Deliveries :
         delivery[c].pc = "process" /\ delivery[c].event = delivery[d].event => c = d

\* A running handler has an event.
KnownEvent == \A d \in Deliveries : delivery[d].pc \in Running => delivery[d].event \in Events

\* While the payout is pending no callback has settled it.
PendingUntouched ==
  payout = "pending" =>
    \A e \in Events : EventOf[e].type \in PayoutEvents => applied[e] = 0

IInv ==
  /\ TypeOK
  /\ KnownEvent
  /\ OwnsEvent
  /\ AppliedAtMostOnce
  /\ PendingUntouched
  /\ OneTerminalCallback

\* Nothing recorded and nothing applied satisfies the invariant.
LEMMA InitInvariant == Init => IInv
<1> SUFFICES ASSUME Init PROVE IInv
  OBVIOUS
<1>1. TypeOK
  BY WebhookAssumption DEF Init, TypeOK, PaymentStatus
<1>2. KnownEvent /\ OwnsEvent
  BY DEF Init, KnownEvent, OwnsEvent, Running
<1>3. AppliedAtMostOnce /\ PendingUntouched /\ OneTerminalCallback
  BY DEF Init, AppliedAtMostOnce, PendingUntouched, OneTerminalCallback
<1> QED BY <1>1, <1>2, <1>3 DEF IInv

\* Goto moves one handler.
LEMMA GotoFacts ==
  ASSUME TypeOK, NEW d \in Deliveries, NEW pc \in Running \cup Finished, Goto(d, pc)
  PROVE  /\ delivery' \in [Deliveries -> [pc: {"idle"} \cup Running \cup Finished,
                                          event: Events \cup {None}]]
         /\ \A c \in Deliveries \ {d} : delivery'[c] = delivery[c]
         /\ delivery'[d].pc = pc /\ delivery'[d].event = delivery[d].event
  BY DEF TypeOK, Goto

\* A step that changes no row: one handler moves, not into the effect.
LEMMA QuietStep ==
  ASSUME IInv, NEW d \in Deliveries, UNCHANGED <<payment, payout, applied>>,
         processed \subseteq processed', processed' \subseteq Events, acked' \subseteq Events,
         delivery' \in [Deliveries -> [pc: {"idle"} \cup Running \cup Finished,
                                       event: Events \cup {None}]],
         \A c \in Deliveries \ {d} : delivery'[c] = delivery[c],
         delivery'[d].pc # "process",
         delivery'[d].pc \in Running => delivery'[d].event \in Events
  PROVE  IInv'
<1> USE DEF IInv
<1>1. TypeOK'
  BY DEF TypeOK
<1>2. KnownEvent'
  BY DEF KnownEvent
<1>3. OwnsEvent'
  BY DEF OwnsEvent
<1>4. AppliedAtMostOnce' /\ PendingUntouched' /\ OneTerminalCallback'
  BY DEF AppliedAtMostOnce, PendingUntouched, OneTerminalCallback
<1> QED BY <1>1, <1>2, <1>3, <1>4

\* RegisterWebhook inserts the id of an event that no handler owns.
LEMMA RegisterStep ==
  ASSUME IInv, NEW d \in Deliveries, Register(d)
  PROVE  IInv'
<1>1. /\ UNCHANGED <<payment, payout, applied, acked>>
      /\ delivery[d].pc = "register" /\ delivery[d].event \notin processed
      /\ processed' = processed \cup {delivery[d].event}
      /\ delivery[d].event \in Events
  BY DEF Register, IInv, KnownEvent, Running
<1>2. /\ delivery' \in [Deliveries -> [pc: {"idle"} \cup Running \cup Finished,
                                       event: Events \cup {None}]]
      /\ \A c \in Deliveries \ {d} : delivery'[c] = delivery[c]
      /\ delivery'[d].pc = "process" /\ delivery'[d].event = delivery[d].event
  BY GotoFacts DEF Register, IInv, Running
<1>3. TypeOK' /\ KnownEvent'
  BY <1>1, <1>2 DEF IInv, TypeOK, KnownEvent
<1>4. applied[delivery[d].event] = 0
  BY <1>1 DEF IInv, TypeOK, AppliedAtMostOnce
<1>5. OwnsEvent'
  BY <1>1, <1>2, <1>4 DEF IInv, OwnsEvent
<1>6. AppliedAtMostOnce' /\ PendingUntouched' /\ OneTerminalCallback'
  BY <1>1 DEF IInv, AppliedAtMostOnce, PendingUntouched, OneTerminalCallback
<1> QED BY <1>3, <1>5, <1>6 DEF IInv

\* What a command leaves of the two rows.
LEMMA EffectFacts ==
  ASSUME TypeOK, NEW e \in Events, Allowed(e), Effect(e)
  PROVE  /\ payment' \in [amount: Nat, captured: Nat, refunded: Nat, status: PaymentStatus]
         /\ applied' = [applied EXCEPT ![e] = applied[e] + 1]
         /\ EventOf[e].type \notin PayoutEvents => payout' = payout
         /\ EventOf[e].type \in PayoutEvents =>
              /\ payout = "pending"
              /\ payout' = IF EventOf[e].type = "payout.paid" THEN "paid" ELSE "failed"
<1>1. EventOf[e].amount \in Int
  BY WebhookAssumption
<1>2. payment' \in [amount: Nat, captured: Nat, refunded: Nat, status: PaymentStatus]
  <2>1. CASE EventOf[e].type = "payment.captured"
    <3>1. EventOf[e].amount > 0
      BY <2>1 DEF Allowed, ValidateCapture, PayoutEvents
    <3> DEFINE n == payment.captured + EventOf[e].amount
    <3>2. n \in Nat
      BY <1>1, <3>1 DEF TypeOK
    <3>3. payment' = [payment EXCEPT !.captured = n, !.status = "captured"]
      BY <2>1 DEF Effect
    <3> HIDE DEF n
    <3>4. payment' = [amount |-> payment.amount, captured |-> n, refunded |-> payment.refunded,
                      status |-> "captured"]
      BY <3>3 DEF TypeOK
    <3> QED BY <3>2, <3>4 DEF TypeOK, PaymentStatus
  <2>2. CASE EventOf[e].type = "payment.refunded"
    <3>1. EventOf[e].amount > 0
      BY <2>2 DEF Allowed, ValidateRefund, PayoutEvents
    <3> DEFINE n == payment.refunded + EventOf[e].amount
    <3>2. n \in Nat
      BY <1>1, <3>1 DEF TypeOK
    <3>3. payment' = [payment EXCEPT !.refunded = n, !.status = "refunded"]
      BY <2>2 DEF Effect
    <3> HIDE DEF n
    <3>4. payment' = [amount |-> payment.amount, captured |-> payment.captured, refunded |-> n,
                      status |-> "refunded"]
      BY <3>3 DEF TypeOK
    <3> QED BY <3>2, <3>4 DEF TypeOK, PaymentStatus
  <2>3. CASE EventOf[e].type \notin PaymentEvents
    BY <2>3 DEF Effect, TypeOK, PaymentEvents
  <2> QED BY <2>1, <2>2, <2>3 DEF PaymentEvents
<1>3. EventOf[e].type \notin PayoutEvents => payout' = payout
  BY DEF Effect, PayoutEvents
<1>4. EventOf[e].type \in PayoutEvents =>
        /\ payout = "pending"
        /\ payout' = IF EventOf[e].type = "payout.paid" THEN "paid" ELSE "failed"
  BY DEF Effect, Allowed, PayoutEvents
<1> QED BY <1>2, <1>3, <1>4 DEF Effect

\* The command commits, and its handler is no longer at the event.
LEMMA EffectStep ==
  ASSUME IInv, NEW d \in Deliveries, delivery[d].pc = "process",
         Allowed(delivery[d].event), Effect(delivery[d].event),
         NEW pc \in Finished, Goto(d, pc), processed' = processed, acked' \subseteq Events
  PROVE  IInv'
<1> DEFINE e == delivery[d].event
<1>1. e \in Events /\ e \in processed /\ applied[e] = 0
  BY DEF IInv, KnownEvent, OwnsEvent, Running
<1>2. /\ delivery' \in [Deliveries -> [pc: {"idle"} \cup Running \cup Finished,
                                       event: Events \cup {None}]]
      /\ \A c \in Deliveries \ {d} : delivery'[c] = delivery[c]
      /\ delivery'[d].pc = pc
  BY GotoFacts DEF IInv
<1>3. /\ payment' \in [amount: Nat, captured: Nat, refunded: Nat, status: PaymentStatus]
      /\ applied' = [applied EXCEPT ![e] = applied[e] + 1]
      /\ EventOf[e].type \notin PayoutEvents => payout' = payout
      /\ EventOf[e].type \in PayoutEvents =>
           /\ payout = "pending"
           /\ payout' = IF EventOf[e].type = "payout.paid" THEN "paid" ELSE "failed"
  BY <1>1, EffectFacts DEF IInv
<1>4. /\ applied' \in [Events -> Nat] /\ applied'[e] = 1
      /\ \A f \in Events \ {e} : applied'[f] = applied[f]
  BY <1>1, <1>3 DEF IInv, TypeOK
<1>5. payout' \in {"pending", "paid", "failed"}
  BY <1>3 DEF IInv, TypeOK
<1>6. TypeOK' /\ KnownEvent'
  BY <1>2, <1>3, <1>4, <1>5 DEF IInv, TypeOK, KnownEvent, Finished, Running
<1>7. OwnsEvent'
  <2> SUFFICES ASSUME NEW c \in Deliveries, delivery'[c].pc = "process"
               PROVE  /\ delivery'[c].event \in processed'
                      /\ applied'[delivery'[c].event] = 0
                      /\ \A b \in Deliveries :
                           delivery'[b].pc = "process" /\ delivery'[b].event = delivery'[c].event
                             => b = c
    BY DEF OwnsEvent
  <2>1. c # d /\ delivery'[c] = delivery[c] /\ delivery[c].event # e
        /\ delivery[c].event \in Events
    BY <1>2 DEF IInv, OwnsEvent, KnownEvent, Finished, Running
  <2> QED BY <1>2, <1>4, <2>1 DEF IInv, OwnsEvent, Finished
<1>8. AppliedAtMostOnce'
  BY <1>1, <1>4 DEF IInv, AppliedAtMostOnce
<1>9. PendingUntouched'
  BY <1>3, <1>4 DEF IInv, PendingUntouched
<1>10. OneTerminalCallback'
  <2>1. CASE EventOf[e].type \in PayoutEvents
    <3>1. \A f \in Events \ {e} : EventOf[f].type \in PayoutEvents => applied'[f] = 0
      BY <1>3, <1>4, <2>1 DEF IInv, PendingUntouched
    <3> QED BY <1>3, <2>1, <3>1 DEF OneTerminalCallback
  <2>2. CASE EventOf[e].type \notin PayoutEvents
    BY <1>3, <1>4, <2>2 DEF IInv, OneTerminalCallback
  <2> QED BY <2>1, <2>2
<1> QED BY <1>6, <1>7, <1>8, <1>9, <1>10 DEF IInv

\* Every step of every handler keeps the inductive invariant.
LEMMA NextInvariant == IInv /\ [Next]_vars => IInv'
<1> SUFFICES ASSUME IInv, [Next]_vars PROVE IInv'
  OBVIOUS
<1>1. CASE Authorize
  <2>1. TypeOK'
    BY <1>1 DEF Authorize, IInv, TypeOK, PaymentStatus
  <2> QED BY <1>1, <2>1 DEF Authorize, IInv, KnownEvent, OwnsEvent, AppliedAtMostOnce,
                            PendingUntouched, OneTerminalCallback
<1>2. ASSUME NEW d \in Deliveries, NEW e \in Events, Deliver(d, e) \/ Reject(d, e)
      PROVE  IInv'
  <2>1. PICK pc \in {"register", "error"} :
          delivery' = [delivery EXCEPT ![d] = [pc |-> pc, event |-> e]]
    BY <1>2 DEF Deliver, Reject
  <2>2. UNCHANGED <<payment, payout, processed, applied, acked>>
    BY <1>2 DEF Deliver, Reject
  <2>3. /\ delivery' \in [Deliveries -> [pc: {"idle"} \cup Running \cup Finished,
                                         event: Events \cup {None}]]
        /\ \A c \in Deliveries \ {d} : delivery'[c] = delivery[c]
        /\ delivery'[d].pc # "process" /\ delivery'[d].event \in Events
    BY <2>1 DEF IInv, TypeOK, Running, Finished
  <2> QED BY <2>2, <2>3, QuietStep DEF IInv, TypeOK
<1>3. ASSUME NEW d \in Deliveries, DuplicateIgnored(d) \/ RegisterFails(d) \/ Refused(d)
      PROVE  IInv'
  <2>1. delivery[d].event \in Events
    BY <1>3 DEF DuplicateIgnored, RegisterFails, Refused, IInv, KnownEvent, Running
  <2>2. /\ UNCHANGED <<payment, payout, applied>>
        /\ processed \subseteq processed' /\ processed' \subseteq Events
        /\ acked' \subseteq Events
        /\ \E pc \in Finished : Goto(d, pc)
    BY <1>3, <2>1 DEF DuplicateIgnored, RegisterFails, Refused, AnswerOK, IInv, TypeOK, Finished
  <2> QED BY <2>2, GotoFacts, QuietStep DEF IInv, Running, Finished
<1>4. ASSUME NEW d \in Deliveries, Register(d) PROVE IInv'
  BY <1>4, RegisterStep
<1>5. ASSUME NEW d \in Deliveries, Process(d) PROVE IInv'
  <2>1. /\ delivery[d].pc = "process" /\ Allowed(delivery[d].event)
        /\ Effect(delivery[d].event) /\ Goto(d, "ok") /\ processed' = processed
    BY <1>5 DEF Process, AnswerOK
  <2>2. acked' \subseteq Events
    BY <1>5 DEF Process, AnswerOK, IInv, TypeOK, KnownEvent, Running
  <2> QED BY <2>1, <2>2, EffectStep DEF Finished
<1>6. ASSUME NEW d \in Deliveries, Crash(d) PROVE IInv'
  <2>1. Goto(d, "lost") /\ processed' = processed /\ acked' = acked
    BY <1>6 DEF Crash
  <2>2. processed' \subseteq Events /\ acked' \subseteq Events
    BY <2>1 DEF IInv, TypeOK
  <2>3. CASE UNCHANGED <<payment, payout, applied>>
    BY <2>1, <2>2, <2>3, GotoFacts, QuietStep DEF IInv, Running, Finished
  <2>4. CASE /\ delivery[d].pc = "process" /\ Allowed(delivery[d].event)
             /\ Effect(delivery[d].event)
    BY <2>1, <2>2, <2>4, EffectStep DEF Finished
  <2> QED BY <1>6, <2>3, <2>4 DEF Crash
<1>7. CASE UNCHANGED vars
  BY <1>7 DEF vars, IInv, TypeOK, KnownEvent, OwnsEvent, AppliedAtMostOnce,
              PendingUntouched, OneTerminalCallback
<1> QED BY <1>1, <1>2, <1>3, <1>4, <1>5, <1>6, <1>7 DEF Next

\* The inductive invariant holds in every reachable state.
LEMMA InvariantHolds == Spec => []IInv
  BY InitInvariant, NextInvariant, PTL DEF Spec

\* The rows, the event ids and the variables of the handlers keep their types.
THEOREM TypeCorrect == Spec => []TypeOK
<1>1. IInv => TypeOK
  BY DEF IInv
<1> QED BY <1>1, InvariantHolds, PTL

\* No provider event is applied twice or unrecorded, however many deliveries of it race
\* through RegisterWebhook and wherever their handlers die.
THEOREM EventsAppliedAtMostOnce == Spec => []AppliedAtMostOnce
<1>1. IInv => AppliedAtMostOnce
  BY DEF IInv
<1> QED BY <1>1, InvariantHolds, PTL

\* Of contradicting payout callbacks one wins, and the payout's row says which.
THEOREM PayoutSettledOnce == Spec => []OneTerminalCallback
<1>1. IInv => OneTerminalCallback
  BY DEF IInv
<1> QED BY <1>1, InvariantHolds, PTL
=============================================================================
