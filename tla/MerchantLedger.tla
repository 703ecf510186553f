--------------------------- MODULE MerchantLedger ---------------------------
(***************************************************************************)
(* A merchant's balances under payouts and disputes: PayoutService and     *)
(* DisputeService (internal/service/payout.go, dispute.go) on the          *)
(* PostgreSQL store, together with the captures and refunds that feed and  *)
(* drain the same available account.                                       *)
(*                                                                         *)
(* A payout request waits for the advisory lock of its merchant, reads the *)
(* balance, and commits.  A provider callback and a dispute resolution     *)
(* lock the row they settle.  Opening a dispute reads the payment and      *)
(* commits later, with no lock at all.  Captures and refunds, the subject  *)
(* of PaymentService, are single steps here.                               *)
(***************************************************************************)
EXTENDS Domain, FiniteSets

CONSTANTS
  Merchants,  \* merchant and currency: the key of an advisory lock
  Payments,   \* payments that are authorized at the start
  Owner,      \* Owner[p] = the merchant of p
  Calls,      \* requests and callbacks; a row is named by the call that inserts it
  None,       \* no call
  Amounts,    \* amounts that clients and admins send
  Authorized, \* the amount of every payment
  Crashes     \* may a handler die, or lose its database connection?

ASSUME MerchantAssumption ==
  /\ Owner \in [Payments -> Merchants]
  /\ None \notin Calls
  /\ IsFiniteSet(Calls) /\ IsFiniteSet(Payments)
  /\ Amounts \subseteq Int
  /\ Authorized \in Nat \ {0}
  /\ Crashes \in BOOLEAN

VARIABLES
  payments,  \* payments[p] = amounts and status of p's row
  payouts,   \* the payouts table
  disputes,  \* the disputes table
  ledger,    \* ledger[m][a] = SUM(credit - debit) on a of the entries made for m
  outbox,    \* the events of payouts and disputes
  advisory,  \* advisory[m] = the call that holds the advisory lock of m
  rowLock,   \* rowLock[q] = the call that holds the lock of row q
  call       \* call[c] = the local variables of the handler of c

tables == <<payments, payouts, disputes, ledger, outbox>>
locks == <<advisory, rowLock>>
vars == <<payments, payouts, disputes, ledger, outbox, advisory, rowLock, call>>
-----------------------------------------------------------------------------
Accounts == {"pending", "available", "customer_refunded", "payout_pending",
             "payout_settled", "dispute_frozen", "chargeback"}

NoRow == [status |-> "absent", merchant |-> None, payment |-> None, amount |-> 0]

NoCall == [pc |-> "idle", op |-> "none", target |-> None, to |-> "none",
           merchant |-> None, payment |-> None, amount |-> 0]

Running == {"lock", "balance", "commit"}
Finished == {"ok", "error", "dead"}

Init ==
  /\ payments = [p \in Payments |-> [amount |-> Authorized, captured |-> 0,
                                     refunded |-> 0, status |-> "authorized"]]
  /\ payouts = [q \in Calls |-> NoRow]
  /\ disputes = [q \in Calls |-> NoRow]
  /\ ledger = [m \in Merchants |-> [a \in Accounts |->
       IF a = "pending" THEN Authorized * Cardinality({p \in Payments : Owner[p] = m})
                        ELSE 0]]
  /\ outbox = {}
  /\ advisory = [m \in Merchants |-> None]
  /\ rowLock = [q \in Calls |-> None]
  /\ call = [c \in Calls |-> NoCall]
-----------------------------------------------------------------------------
(***************************************************************************)
(* Captures and refunds: CommitPaymentCommand on the row of p.             *)
(***************************************************************************)
Capture(p, amount) ==
  /\ CanTransition(payments[p].status, "captured")
  /\ ValidateCapture(payments[p], amount)
  /\ payments' = [payments EXCEPT ![p].captured = @ + amount, ![p].status = "captured"]
  /\ ledger' = [ledger EXCEPT
       ![Owner[p]] = Post(@, Transfer("pending", "available", amount))]
  /\ UNCHANGED <<payouts, disputes, outbox, locks, call>>

Refund(p, amount) ==
  /\ CanTransition(payments[p].status, "refunded")
  /\ ValidateRefund(payments[p], amount)
  /\ payments' = [payments EXCEPT ![p].refunded = @ + amount, ![p].status = "refunded"]
  /\ ledger' = [ledger EXCEPT
       ![Owner[p]] = Post(@, Transfer("available", "customer_refunded", amount))]
  /\ UNCHANGED <<payouts, disputes, outbox, locks, call>>
-----------------------------------------------------------------------------
(***************************************************************************)
(* The first step of a call, up to where it first waits or writes.         *)
(***************************************************************************)
Start(c, record) ==
  /\ call[c].pc = "idle"
  /\ call' = [call EXCEPT ![c] = record]
  /\ UNCHANGED <<tables, locks>>

\* PayoutService.Create up to the advisory lock.
CreatePayout(c, m, amount) ==
  /\ NewPayoutAllowed(amount)
  /\ Start(c, [NoCall EXCEPT !.pc = "lock", !.op = "payout",
                             !.merchant = m, !.amount = amount])

\* PayoutService.Complete: GetPayout, and the entries of the branch the provider
\* callback chose.
CompletePayout(c, q, to) ==
  /\ payouts[q].status # "absent"
  /\ Start(c, [NoCall EXCEPT !.pc = "lock", !.op = "complete", !.target = q, !.to = to,
                             !.merchant = payouts[q].merchant,
                             !.amount = payouts[q].amount])

\* The limit is the amount that was authorized.
FaultyOpenDispute(c, p, amount) ==
  /\ amount <= payments[p].amount - payments[p].refunded
  /\ NewDisputeAllowed(amount)
  /\ Start(c, [NoCall EXCEPT !.pc = "commit", !.op = "dispute", !.payment = p,
                             !.merchant = Owner[p], !.amount = amount])

\* DisputeService.Open: GetPayment without a lock, then on to CreateDispute.
OpenDispute(c, p, amount) ==
  /\ amount <= payments[p].captured - payments[p].refunded
  /\ NewDisputeAllowed(amount)
  /\ Start(c, [NoCall EXCEPT !.pc = "commit", !.op = "dispute", !.payment = p,
                             !.merchant = Owner[p], !.amount = amount])

\* DisputeService.Resolve: GetDispute, and the entries of the admin's decision.
ResolveDispute(c, q, to) ==
  /\ disputes[q].status # "absent"
  /\ Start(c, [NoCall EXCEPT !.pc = "lock", !.op = "resolve", !.target = q, !.to = to,
                             !.merchant = disputes[q].merchant,
                             !.payment = disputes[q].payment,
                             !.amount = disputes[q].amount])

\* The early returns: a bad amount, no such row.
Reject(c, op) ==
  /\ \/ op = "payout" /\ \E a \in Amounts : ~NewPayoutAllowed(a)
     \/ op = "dispute" /\ \E a \in Amounts, p \in Payments :
          a > payments[p].captured - payments[p].refunded \/ ~NewDisputeAllowed(a)
     \/ op = "complete" /\ \E q \in Calls : payouts[q].status = "absent"
     \/ op = "resolve" /\ \E q \in Calls : disputes[q].status = "absent"
  /\ Start(c, [NoCall EXCEPT !.pc = "error", !.op = op])
-----------------------------------------------------------------------------
Entries(c) ==
  LET to(account) == Transfer("payout_pending", account, c.amount)
      thaw(account) == Transfer("dispute_frozen", account, c.amount) IN
  CASE c.op = "payout"   -> Transfer("available", "payout_pending", c.amount)
    [] c.op = "complete" -> to(IF c.to = "paid" THEN "payout_settled" ELSE "available")
    [] c.op = "dispute"  -> Transfer("available", "dispute_frozen", c.amount)
    [] c.op = "resolve"  -> thaw(IF c.to = "won" THEN "available" ELSE "chargeback")

(***************************************************************************)
(* CreatePayout: pg_advisory_xact_lock waits; the SUM that follows sees    *)
(* everything committed by then; a balance below the amount is refused.    *)
(***************************************************************************)

\* The lock is taken for each payout instead of for the merchant.
FaultyMerchantFree(m) == TRUE

MerchantFree(m) == advisory[m] = None

LockMerchant(c) ==
  /\ call[c].op = "payout" /\ call[c].pc = "lock"
  /\ MerchantFree(call[c].merchant)
  /\ advisory' = [advisory EXCEPT ![call[c].merchant] = c]
  /\ call' = [call EXCEPT ![c].pc = "balance"]
  /\ UNCHANGED <<tables, rowLock>>

AvailableBalance(m) == ledger[m]["available"]

CheckBalance(c) ==
  /\ call[c].pc = "balance"
  /\ AvailableBalance(call[c].merchant) >= call[c].amount
  /\ ValidateBalanced(Entries(call[c]))
  /\ call' = [call EXCEPT ![c].pc = "commit"]
  /\ UNCHANGED <<tables, locks>>

\* The early return that keeps the transaction, and its lock, open.
FaultyInsufficientBalance(c) ==
  /\ call[c].pc = "balance"
  /\ AvailableBalance(call[c].merchant) < call[c].amount
  /\ call' = [call EXCEPT ![c].pc = "error"]
  /\ UNCHANGED <<tables, locks>>

InsufficientBalance(c) ==
  /\ call[c].pc = "balance"
  /\ AvailableBalance(call[c].merchant) < call[c].amount
  /\ advisory' = [advisory EXCEPT ![call[c].merchant] = None]
  /\ call' = [call EXCEPT ![c].pc = "error"]
  /\ UNCHANGED <<tables, rowLock>>

(***************************************************************************)
(* TransitionPayout and ResolveDispute: SELECT ... FOR UPDATE, then only a *)
(* pending payout or an open dispute may be settled.                       *)
(***************************************************************************)

\* A callback settles a payout again.
FaultyUnsettled(c) ==
  \/ call[c].op = "complete" /\ payouts[call[c].target].status # "absent"
  \/ call[c].op = "resolve" /\ disputes[call[c].target].status = "open"

Unsettled(c) ==
  \/ call[c].op = "complete" /\ payouts[call[c].target].status = "pending"
  \/ call[c].op = "resolve" /\ disputes[call[c].target].status = "open"

\* The status is read without FOR UPDATE.
FaultyRowFree(q) == TRUE

RowFree(q) == rowLock[q] = None

LockRow(c) ==
  /\ call[c].op \in {"complete", "resolve"} /\ call[c].pc = "lock"
  /\ RowFree(call[c].target)
  /\ Unsettled(c)
  /\ ValidateBalanced(Entries(call[c]))
  /\ rowLock' = [rowLock EXCEPT ![call[c].target] = c]
  /\ call' = [call EXCEPT ![c].pc = "commit"]
  /\ UNCHANGED <<tables, advisory>>

AlreadySettled(c) ==
  /\ call[c].op \in {"complete", "resolve"} /\ call[c].pc = "lock"
  /\ RowFree(call[c].target)
  /\ ~Unsettled(c)
  /\ call' = [call EXCEPT ![c].pc = "error"]
  /\ UNCHANGED <<tables, locks>>
-----------------------------------------------------------------------------
(***************************************************************************)
(* COMMIT: the row, the two ledger entries and the event become visible    *)
(* together, and the locks of the transaction are released.  The handler   *)
(* may die behind it.  The four transactions end with the same statements. *)
(***************************************************************************)
Release(c) ==
  /\ advisory' = [m \in Merchants |-> IF advisory[m] = c THEN None ELSE advisory[m]]
  /\ rowLock' = [q \in Calls |-> IF rowLock[q] = c THEN None ELSE rowLock[q]]

Row(c, status) == [status |-> status, merchant |-> call[c].merchant,
                   payment |-> call[c].payment, amount |-> call[c].amount]

EventType(c) == CASE call[c].op = "payout"  -> "created"
                  [] call[c].op = "dispute" -> "opened"
                  [] OTHER                  -> call[c].to

Aggregate(c) == IF call[c].target = None THEN c ELSE call[c].target

Commit(c) ==
  /\ call[c].pc = "commit"
  /\ payouts' = CASE call[c].op = "payout" -> [payouts EXCEPT ![c] = Row(c, "pending")]
                  [] call[c].op = "complete" ->
                       [payouts EXCEPT ![call[c].target].status = call[c].to]
                  [] OTHER -> payouts
  /\ disputes' = CASE call[c].op = "dispute" -> [disputes EXCEPT ![c] = Row(c, "open")]
                   [] call[c].op = "resolve" ->
                        [disputes EXCEPT ![call[c].target].status = call[c].to]
                   [] OTHER -> disputes
  /\ ledger' = [ledger EXCEPT ![call[c].merchant] = Post(@, Entries(call[c]))]
  /\ outbox' = outbox \cup {[id |-> c, aggregate |-> Aggregate(c), type |-> EventType(c)]}
  /\ Release(c)
  /\ \E pc \in {"ok", "dead"} :
       (pc = "dead" => Crashes) /\ call' = [call EXCEPT ![c].pc = pc]
  /\ UNCHANGED payments

\* The handler dies or a statement fails: rollback.
Abort(c) ==
  /\ Crashes
  /\ call[c].pc \in Running
  /\ Release(c)
  /\ call' = [call EXCEPT ![c].pc = "dead"]
  /\ UNCHANGED tables
-----------------------------------------------------------------------------
\* What the routes of merchants, admins and the provider let through.
PayoutRequest(c) == \E m \in Merchants, a \in Amounts : CreatePayout(c, m, a)

AdminRequest(c) ==
  \/ \E p \in Payments, a \in Amounts : OpenDispute(c, p, a)
  \/ \E q \in Calls, to \in {"won", "lost"} : ResolveDispute(c, q, to)

PayoutCallback(c) == \E q \in Calls, to \in {"paid", "failed"} : CompletePayout(c, q, to)

Begin(c) ==
  \/ PayoutRequest(c)
  \/ AdminRequest(c)
  \/ PayoutCallback(c)
  \/ \E op \in {"payout", "dispute", "complete", "resolve"} : Reject(c, op)

Proceed(c) ==
  \/ LockMerchant(c)
  \/ CheckBalance(c)
  \/ InsufficientBalance(c)
  \/ LockRow(c)
  \/ AlreadySettled(c)
  \/ Commit(c)

Next ==
  \/ \E p \in Payments, a \in Amounts : Capture(p, a) \/ Refund(p, a)
  \/ \E c \in Calls : Begin(c) \/ Proceed(c) \/ Abort(c)

Spec == Init /\ [][Next]_vars

\* A handler that can go on does, and a lock is granted once it is free; nothing
\* forces requests to arrive or handlers to die.
Fairness == \A c \in Calls : WF_vars(Proceed(c))

FairSpec == Spec /\ Fairness
-----------------------------------------------------------------------------
(***************************************************************************)
(* Properties                                                              *)
(***************************************************************************)
PaymentRow == [amount: Nat, captured: Nat, refunded: Nat, status: PaymentStatus]

RowType(statuses) ==
  [status: statuses, merchant: Merchants \cup {None},
   payment: Payments \cup {None}, amount: Nat]

Event == [id: Calls, aggregate: Calls,
          type: {"created", "opened", "paid", "failed", "won", "lost"}]

CallType == [pc: {"idle"} \cup Running \cup Finished,
             op: {"none", "payout", "dispute", "complete", "resolve"},
             target: Calls \cup {None}, to: {"none", "paid", "failed", "won", "lost"},
             merchant: Merchants \cup {None}, payment: Payments \cup {None}, amount: Nat]

\* Rows of payouts and disputes have the statuses of their enum types and no negative
\* amount; locks are held by calls.
TypeOK ==
  /\ payments \in [Payments -> PaymentRow]
  /\ payouts \in [Calls -> RowType({"absent", "pending", "paid", "failed"})]
  /\ disputes \in [Calls -> RowType({"absent", "open", "won", "lost"})]
  /\ ledger \in [Merchants -> [Accounts -> Int]]
  /\ outbox \subseteq Event
  /\ advisory \in [Merchants -> Calls \cup {None}]
  /\ rowLock \in [Calls -> Calls \cup {None}]
  /\ call \in [Calls -> CallType]

\* The total of a table's rows of m in a status.
Total(table, m, status) ==
  SumFunctionOnSet([q \in Calls |-> table[q].amount],
                   {q \in Calls : table[q].merchant = m /\ table[q].status = status})

Captured(m) == SumFunctionOnSet([p \in Payments |-> payments[p].captured],
                                {p \in Payments : Owner[p] = m})
Refunded(m) == SumFunctionOnSet([p \in Payments |-> payments[p].refunded],
                                {p \in Payments : Owner[p] = m})

(***************************************************************************)
(* The ledger of a merchant is the sum of its rows: every payout is        *)
(* reserved once and settled or given back once, every dispute frozen once *)
(* and released or charged back once, however callbacks race, repeat or    *)
(* contradict each other; what is left of the captures is available.       *)
(***************************************************************************)
LedgerMatchesRows ==
  \A m \in Merchants :
    /\ ledger[m]["payout_pending"] = Total(payouts, m, "pending")
    /\ ledger[m]["payout_settled"] = Total(payouts, m, "paid")
    /\ ledger[m]["dispute_frozen"] = Total(disputes, m, "open")
    /\ ledger[m]["chargeback"] = Total(disputes, m, "lost")
    /\ ledger[m]["available"] =
         Captured(m) - Refunded(m)
         - Total(payouts, m, "pending") - Total(payouts, m, "paid")
         - Total(disputes, m, "open") - Total(disputes, m, "lost")

(***************************************************************************)
(* Concurrent payout requests do not spend the same balance twice: what is *)
(* reserved for a merchant or paid out never exceeds what was captured for *)
(* it (the advisory lock in CreatePayout).                                 *)
(***************************************************************************)
PayoutsWithinCaptures ==
  \A m \in Merchants :
    ledger[m]["payout_pending"] + ledger[m]["payout_settled"] <= Captured(m)

(***************************************************************************)
(* The events of a row are its history, each step announced once: a payout *)
(* is created and then paid or failed, never both and never twice, and a   *)
(* dispute likewise.                                                       *)
(***************************************************************************)
History(q) == {e \in outbox : e.aggregate = q}

\* The events of a row that begins with first and comes to one of ends.
Steps(row, first, ends) ==
  IF row.status = "absent" THEN {} ELSE {first} \cup ({row.status} \cap ends)

EventsMatchRows ==
  \A q \in Calls :
    /\ \A e, f \in History(q) : e.type = f.type => e = f
    /\ {e.type : e \in History(q)} = Steps(payouts[q], "created", {"paid", "failed"})
                                     \cup Steps(disputes[q], "opened", {"won", "lost"})

(***************************************************************************)
(* A dispute was checked against an unlocked read, and other disputes and  *)
(* refunds may have committed since; one dispute alone still never freezes *)
(* more than was captured on its payment (dispute.go, Open).               *)
(***************************************************************************)
DisputeWithinCaptured ==
  \A q \in Calls : disputes[q].status # "absent" =>
    disputes[q].amount <= payments[disputes[q].payment].captured

(***************************************************************************)
(* Every call that waits for a lock gets it and is answered, unless its    *)
(* handler dies: no transaction keeps a lock it no longer needs.           *)
(***************************************************************************)
CallsFinish == \A c \in Calls : call[c].pc \in Running ~> call[c].pc \in Finished

(***************************************************************************)
(* The transactions of payouts and disputes behave like the operations of  *)
(* the in-memory store, with one exception: refunds and disputes do not    *)
(* take the advisory lock, so a payout may commit after its balance was    *)
(* spent (postgres.go, CreatePayout).  What is then missing is no more     *)
(* than what refunds and disputes have taken; other payouts took none.     *)
(* The module starts with authorized payments and not with an empty store; *)
(* keys and the events of payments are subjects of other modules.          *)
(***************************************************************************)
Store == INSTANCE MemoryStore WITH
  Rows     <- Calls, Keys <- {}, keys <- << >>,
  payments <- [p \in Payments |->
                 [amount |-> payments[p].amount, captured |-> payments[p].captured,
                  refunded |-> payments[p].refunded, status |-> payments[p].status,
                  reference |-> "provider_ref"]],
  outbox   <- {[aggregate |-> e.aggregate, type |-> e.type] : e \in outbox}
              \cup {[aggregate |-> p, type |-> "captured"] :
                      p \in {p \in Payments : payments[p].captured > 0}}
              \cup {[aggregate |-> p, type |-> "refunded"] :
                      p \in {p \in Payments : payments[p].refunded > 0}}

OvertakenPayout ==
  \E q \in Calls, m \in Merchants, amount \in Amounts :
    /\ AvailableBalance(m) < amount
    /\ AvailableBalance(m) + Refunded(m)
         + Total(disputes, m, "open") + Total(disputes, m, "lost") >= amount
    /\ Store!InsertPayout(q, m, amount)

ImplementsStore == [][Store!Next \/ OvertakenPayout]_(Store!vars)
=============================================================================
