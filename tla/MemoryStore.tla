---------------------------- MODULE MemoryStore ----------------------------
(***************************************************************************)
(* The in-memory store (internal/store/store.go) with the commands that    *)
(* the services send to it.  One mutex makes every operation a single      *)
(* step, so the module is at the same time the abstract specification of   *)
(* a store: PaymentService, MerchantLedger and IdempotentCreate relate the *)
(* PostgreSQL transactions, which take several steps, to it.               *)
(*                                                                         *)
(* A read, a replay and an error change nothing and are not actions.       *)
(***************************************************************************)
EXTENDS Domain

CONSTANTS
  Payments,   \* payment ids
  Merchants,  \* owners of accounts
  Owner,      \* Owner[p] = the owner of the accounts p is booked on
  Accounts,   \* the accounts of an owner
  Keys,       \* idempotency keys
  Rows,       \* ids of payouts and disputes
  None,       \* no payment, no merchant
  Amounts     \* amounts of requests

VARIABLES
  payments,   \* payments[p] = the row of p
  keys,       \* keys[k] = the payment created under k, or None
  ledger,     \* ledger[m][a] = sum of credit - debit on account a of m
  outbox,     \* which changes of which row have been announced
  payouts,    \* payouts[q] = the row of payout q
  disputes    \* disputes[q] = the row of dispute q

vars == <<payments, keys, ledger, outbox, payouts, disputes>>

NoPayment == [amount |-> 0, captured |-> 0, refunded |-> 0,
              status |-> "absent", reference |-> ""]
NoRow == [status |-> "absent", merchant |-> None, payment |-> None, amount |-> 0]

Init ==
  /\ payments = [p \in Payments |-> NoPayment]
  /\ keys = [k \in Keys |-> None]
  /\ ledger = [m \in Merchants |-> [a \in Accounts |-> 0]]
  /\ outbox = {}
  /\ payouts = [q \in Rows |-> NoRow]
  /\ disputes = [q \in Rows |-> NoRow]

\* Entries and event of a command are appended together with its row.  Events are
\* kept by row and kind: a second one of the same kind is the same element.
Record(m, entries, row, type) ==
  /\ ValidateBalanced(entries)
  /\ ledger' = [ledger EXCEPT ![m] = Post(@, entries)]
  /\ outbox' = outbox \cup {[aggregate |-> row, type |-> type]}
-----------------------------------------------------------------------------
(***************************************************************************)
(* Payments                                                                *)
(***************************************************************************)
CreatePayment(p, k, amount) ==
  /\ payments[p].status = "absent"
  /\ keys[k] = None
  /\ NewPaymentAllowed(amount)
  /\ payments' = [payments EXCEPT
       ![p] = [NoPayment EXCEPT !.amount = amount, !.status = "created"]]
  /\ keys' = [keys EXCEPT ![k] = p]
  /\ UNCHANGED <<ledger, outbox, payouts, disputes>>

SetStatus(p, to, reference) ==
  /\ payments' = [payments EXCEPT ![p].status = to, ![p].reference = reference]
  /\ UNCHANGED <<keys, ledger, outbox, payouts, disputes>>

Transition(p, to, reference) ==
  /\ CanTransition(payments[p].status, to)
  /\ SetStatus(p, to, reference)

CommandEntries(p, status, amount) ==
  CASE status = "authorized" ->
         Transfer("customer_pending", "pending", payments[p].amount)
    [] status = "captured" -> Transfer("pending", "available", amount)
    [] status = "refunded" -> Transfer("available", "customer_refunded", amount)

CommitPaymentCommand(p, status, amount, reference) ==
  LET captured == IF status = "captured" THEN amount ELSE 0
      refunded == IF status = "refunded" THEN amount ELSE 0 IN
  /\ CanTransition(payments[p].status, status)
  /\ status = "captured" => ValidateCapture(payments[p], amount)
  /\ status = "refunded" => ValidateRefund(payments[p], amount)
  /\ payments' = [payments EXCEPT
       ![p].status = status,
       ![p].captured = @ + captured,
       ![p].refunded = @ + refunded,
       ![p].reference = IF reference # "" THEN reference ELSE @]
  /\ Record(Owner[p], CommandEntries(p, status, amount), p, status)
  /\ UNCHANGED <<keys, payouts, disputes>>
-----------------------------------------------------------------------------
(***************************************************************************)
(* Payouts and disputes                                                    *)
(***************************************************************************)
AvailableBalance(m) == ledger[m]["available"]

InsertPayout(q, m, amount) ==
  /\ payouts[q].status = "absent"
  /\ NewPayoutAllowed(amount)
  /\ payouts' = [payouts EXCEPT
       ![q] = [NoRow EXCEPT !.status = "pending", !.merchant = m, !.amount = amount]]
  /\ Record(m, Transfer("available", "payout_pending", amount), q, "created")
  /\ UNCHANGED <<payments, keys, disputes>>

CreatePayout(q, m, amount) ==
  /\ AvailableBalance(m) >= amount
  /\ InsertPayout(q, m, amount)

TransitionPayout(q, to) ==
  LET account == IF to = "paid" THEN "payout_settled" ELSE "available" IN
  /\ payouts[q].status = "pending"
  /\ payouts' = [payouts EXCEPT ![q].status = to]
  /\ Record(payouts[q].merchant,
            Transfer("payout_pending", account, payouts[q].amount), q, to)
  /\ UNCHANGED <<payments, keys, disputes>>

CreateDispute(q, p, amount) ==
  /\ disputes[q].status = "absent"
  /\ NewDisputeAllowed(amount)
  /\ disputes' = [disputes EXCEPT
       ![q] = [status |-> "open", merchant |-> Owner[p], payment |-> p, amount |-> amount]]
  /\ Record(Owner[p], Transfer("available", "dispute_frozen", amount), q, "opened")
  /\ UNCHANGED <<payments, keys, payouts>>

ResolveDispute(q, to) ==
  LET account == IF to = "won" THEN "available" ELSE "chargeback" IN
  /\ disputes[q].status = "open"
  /\ disputes' = [disputes EXCEPT ![q].status = to]
  /\ Record(disputes[q].merchant,
            Transfer("dispute_frozen", account, disputes[q].amount), q, to)
  /\ UNCHANGED <<payments, keys, payouts>>
-----------------------------------------------------------------------------
\* What Authorize records in place of a reference when it fails, and what the
\* provider returns.
FailureReasons == {"risk_blocked", "provider_error"}
CommandReferences == {"", "provider_ref"} \cup FailureReasons

Next ==
  \/ \E p \in Payments :
       \/ \E k \in Keys, a \in Amounts : CreatePayment(p, k, a)
       \/ \E reference \in FailureReasons : Transition(p, "failed", reference)
       \/ \E status \in {"authorized", "captured", "refunded"}, a \in Amounts,
             reference \in CommandReferences :
            CommitPaymentCommand(p, status, a, reference)
  \/ \E q \in Rows :
       \/ \E m \in Merchants, a \in Amounts : CreatePayout(q, m, a)
       \/ \E to \in {"paid", "failed"} : TransitionPayout(q, to)
       \/ \E p \in Payments, a \in Amounts : CreateDispute(q, p, a)
       \/ \E to \in {"won", "lost"} : ResolveDispute(q, to)
=============================================================================
