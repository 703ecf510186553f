--------------------------- MODULE PaymentService ---------------------------
(***************************************************************************)
(* Authorize, Capture and Refund (internal/service/payment_service.go) on  *)
(* the PostgreSQL store (internal/store/postgres.go), called concurrently  *)
(* by the request handlers of all API replicas.                            *)
(*                                                                         *)
(* A handler runs in steps, and those of others come in between:           *)
(*   read the payment -> provider call -> lock the row, validate           *)
(*   -> write row, ledger entries and outbox event, COMMIT                 *)
(* or, when the risk engine or the provider says no to an authorization,   *)
(*   -> Transition: read the payment again -> UPDATE it to failed.         *)
(*                                                                         *)
(* Clients send amounts with any number of decimals and the program rounds *)
(* nothing: the provider and the payload of an event get the amount as it  *)
(* came, the tables round it to numeric(20,6).  So amounts are in a unit   *)
(* finer than the database's, of which Unit are the smallest amount it     *)
(* stores.                                                                 *)
(***************************************************************************)
EXTENDS Domain

CONSTANTS
  Payments,        \* payment ids (UUIDs drawn by NewPayment)
  Requests,        \* calls of Authorize, Capture or Refund; each runs once
  None,            \* no payment, no lock holder
  Amounts,         \* amounts that clients send
  MaxAmount,       \* ThresholdRisk.MaxAmount
  Unit,            \* the smallest amount the database stores
  ProviderErrors,  \* may a provider call return an error?
  Crashes          \* may a handler die, or lose its database connection?

ASSUME ConstantsAssumption ==
  /\ None \notin Payments /\ None \notin Requests
  /\ Amounts \subseteq Int
  /\ MaxAmount \in Int
  /\ Unit \in Nat \ {0}
  /\ ProviderErrors \in BOOLEAN /\ Crashes \in BOOLEAN

VARIABLES
  payments,  \* the payments table: payments[p] is p's committed row
  ledger,    \* ledger[p][a] = SUM(credit - debit) of p's entries on account a
  outbox,    \* the outbox_events table
  rowLock,   \* rowLock[p] = the request whose transaction holds p's row lock
  req,       \* req[r] = the local variables of the handler of r
  executed   \* external: the requests whose provider call took effect

vars == <<payments, ledger, outbox, rowLock, req, executed>>
-----------------------------------------------------------------------------
(***************************************************************************)
(* Data                                                                    *)
(***************************************************************************)
Ops == {"authorize", "capture", "refund"}

\* The accounts entries with a payment_id are posted to; "pending" and
\* "available" are the merchant's.
Accounts == {"customer_pending", "pending", "available", "customer_refunded"}

\* "" is NULL in the database; "provider_ref" is what Provider.Authorize returns.
References == {"", "provider_ref", "risk_blocked", "provider_error"}

PaymentRow == [amount: Nat, captured: Nat, refunded: Nat,
               status: PaymentStatus \cup {"absent"}, reference: References]

NoRow == [amount |-> 0, captured |-> 0, refunded |-> 0,
          status |-> "absent", reference |-> ""]

\* What the handler of a request does next; the last three are its end.
Steps == {"idle", "provider", "commit", "locked", "transition", "update",
          "ok", "error", "dead"}
Running == {"provider", "commit", "locked", "transition", "update"}
Finished == {"ok", "error", "dead"}

\* The value of a numeric(20,6) column, and what the tables keep of a row and of
\* the two entries of a transaction.
Stored(x) == RoundTo(x, Unit)

StoredRow(row) == [row EXCEPT !.captured = Stored(@), !.refunded = Stored(@)]

StoredEntry(e) == [e EXCEPT !.debit = Stored(@), !.credit = Stored(@)]

StoredEntries(entries) == << StoredEntry(entries[1]), StoredEntry(entries[2]) >>

NoCall == [pc |-> "idle", op |-> "none", pid |-> None, amount |-> 0,
           snap |-> NoRow, row |-> NoRow, reference |-> ""]

Init ==
  /\ payments = [p \in Payments |-> NoRow]
  /\ ledger = [p \in Payments |-> [a \in Accounts |-> 0]]
  /\ outbox = {}
  /\ rowLock = [p \in Payments |-> None]
  /\ req = [r \in Requests |-> NoCall]
  /\ executed = {}
-----------------------------------------------------------------------------
(***************************************************************************)
(* Creating a payment: the INSERT that CreatePayment commits.  The race    *)
(* for the idempotency key is the subject of module IdempotentCreate.  The *)
(* table's CHECK refuses an amount that was rounded to nothing.            *)
(***************************************************************************)
CreatePayment(p, amount) ==
  /\ payments[p].status = "absent"
  /\ NewPaymentAllowed(amount)
  /\ Stored(amount) > 0
  /\ payments' = [payments EXCEPT
       ![p] = [NoRow EXCEPT !.amount = Stored(amount), !.status = "created"]]
  /\ UNCHANGED <<ledger, outbox, rowLock, req, executed>>
-----------------------------------------------------------------------------
(***************************************************************************)
(* First step of a call: GetPayment, which takes no lock, the checks on    *)
(* what it returned and, for Authorize, the risk decision.  ThresholdRisk  *)
(* fails only when its limit is not a number, which is fixed at the start  *)
(* of the program (cmd/api/main.go).                                       *)
(***************************************************************************)
Exists(p) == payments[p].status # "absent"

RiskAllows(p) == payments[p].amount <= MaxAmount

Start(r, op, p, amount, pc, reference) ==
  /\ req[r].pc = "idle"
  /\ req' = [req EXCEPT ![r] =
       [pc |-> pc, op |-> op, pid |-> p, amount |-> amount,
        snap |-> payments[p], row |-> NoRow, reference |-> reference]]
  /\ UNCHANGED <<payments, ledger, outbox, rowLock, executed>>

Authorize(r, p) ==
  /\ Exists(p)
  /\ RiskAllows(p)
  /\ Start(r, "authorize", p, 0, "provider", "")

AuthorizeBlocked(r, p) ==
  /\ Exists(p)
  /\ ~RiskAllows(p)
  /\ Start(r, "authorize", p, 0, "transition", "risk_blocked")

Capture(r, p, amount) ==
  /\ Exists(p)
  /\ ValidateCapture(payments[p], amount)
  /\ Start(r, "capture", p, amount, "provider", "")

Refund(r, p, amount) ==
  /\ Exists(p)
  /\ ValidateRefund(payments[p], amount)
  /\ Start(r, "refund", p, amount, "provider", "")

\* The early returns: no such payment, or an amount outside its limits.
Reject(r, op, p, amount) ==
  /\ \/ ~Exists(p)
     \/ op = "capture" /\ ~ValidateCapture(payments[p], amount)
     \/ op = "refund" /\ ~ValidateRefund(payments[p], amount)
  /\ req[r].pc = "idle"
  /\ req' = [req EXCEPT ![r] = [NoCall EXCEPT !.pc = "error", !.op = op]]
  /\ UNCHANGED <<payments, ledger, outbox, rowLock, executed>>
-----------------------------------------------------------------------------
(***************************************************************************)
(* The provider call.  An error does not say whether the provider acted.   *)
(***************************************************************************)
Finish(r, pc) == [req EXCEPT ![r].pc = pc, ![r].snap = NoRow, ![r].row = NoRow]

ProviderSucceeds(r) ==
  /\ req[r].pc = "provider"
  /\ executed' = executed \cup {r}
  /\ req' = [req EXCEPT
       ![r].pc = "commit",
       ![r].reference = IF req[r].op = "authorize" THEN "provider_ref"
                                                   ELSE req[r].snap.reference]
  /\ UNCHANGED <<payments, ledger, outbox, rowLock>>

\* The error of a capture or a refund is ignored.
FaultyProviderFails(r) ==
  /\ ProviderErrors
  /\ req[r].pc = "provider"
  /\ executed' \in {executed, executed \cup {r}}
  /\ req' = [req EXCEPT ![r].pc = IF req[r].op = "authorize" THEN "transition"
                                                            ELSE "commit"]
  /\ UNCHANGED <<payments, ledger, outbox, rowLock>>

ProviderFails(r) ==
  /\ ProviderErrors
  /\ req[r].pc = "provider"
  /\ executed' \in {executed, executed \cup {r}}
  /\ \/ /\ req[r].op = "authorize"
        /\ req' = [req EXCEPT ![r].pc = "transition",
                              ![r].reference = "provider_error"]
     \/ /\ req[r].op # "authorize"
        /\ req' = Finish(r, "error")
  /\ UNCHANGED <<payments, ledger, outbox, rowLock>>
-----------------------------------------------------------------------------
(***************************************************************************)
(* CommitPaymentCommand: SELECT ... FOR UPDATE waits for the row lock and  *)
(* reads the latest committed row; the command is validated against that   *)
(* row; the writes become visible together at COMMIT.                      *)
(***************************************************************************)
TargetStatus(op) == CASE op = "authorize" -> "authorized"
                      [] op = "capture"   -> "captured"
                      [] op = "refund"    -> "refunded"

\* The ledger transaction of a command; Authorize takes the amount from the
\* payment it read at the start.
Entries(c) ==
  CASE c.op = "authorize" -> Transfer("customer_pending", "pending", c.snap.amount)
    [] c.op = "capture"   -> Transfer("pending", "available", c.amount)
    [] c.op = "refund"    -> Transfer("available", "customer_refunded", c.amount)

\* The row after command c.  commit() also applies it to the payment read at
\* the start of the call, to build the payload of the outbox event.
Apply(c, row) ==
  [row EXCEPT
     !.status = TargetStatus(c.op),
     !.captured = IF c.op = "capture" THEN @ + c.amount ELSE @,
     !.refunded = IF c.op = "refund" THEN @ + c.amount ELSE @,
     !.reference = IF c.reference # "" THEN c.reference ELSE @]

\* CHECK ((debit = 0) <> (credit = 0)): an amount that is rounded to nothing is
\* refused.
EntriesStorable(entries) ==
  \A i \in 1 .. 2 :
    (StoredEntries(entries)[i].debit = 0) # (StoredEntries(entries)[i].credit = 0)

\* Only the limits are checked again under the lock, not the status.
FaultyCommandAllowed(c, row) ==
  /\ c.op = "capture" => ValidateCapture(row, c.amount)
  /\ c.op = "refund" => ValidateRefund(row, c.amount)
  /\ ValidateBalanced(Entries(c))
  /\ EntriesStorable(Entries(c))

\* The validation by the program and by the CHECK constraints of ledger_entries.
\* Those of payments repeat the limits and are left out: by LedgerMatchesPayment no
\* row that is written violates them.
CommandAllowed(c, row) ==
  /\ CanTransition(row.status, TargetStatus(c.op))
  /\ c.op = "capture" => ValidateCapture(row, c.amount)
  /\ c.op = "refund" => ValidateRefund(row, c.amount)
  /\ ValidateBalanced(Entries(c))
  /\ EntriesStorable(Entries(c))

\* SELECT without FOR UPDATE.
FaultyRowFree(p) == TRUE

RowFree(p) == rowLock[p] = None

LockRow(r) ==
  LET p == req[r].pid IN
  /\ req[r].pc = "commit"
  /\ RowFree(p)
  /\ CommandAllowed(req[r], payments[p])
  /\ rowLock' = [rowLock EXCEPT ![p] = r]
  /\ req' = [req EXCEPT ![r].pc = "locked", ![r].row = payments[p]]
  /\ UNCHANGED <<payments, ledger, outbox, executed>>

\* The early return leaves the transaction open.
FaultyCommandRefused(r) ==
  LET p == req[r].pid IN
  /\ req[r].pc = "commit"
  /\ RowFree(p)
  /\ ~CommandAllowed(req[r], payments[p])
  /\ rowLock' = [rowLock EXCEPT ![p] = r]
  /\ req' = Finish(r, "error")
  /\ UNCHANGED <<payments, ledger, outbox, executed>>

\* The command is refused and the transaction rolled back.
CommandRefused(r) ==
  LET p == req[r].pid IN
  /\ req[r].pc = "commit"
  /\ RowFree(p)
  /\ ~CommandAllowed(req[r], payments[p])
  /\ req' = Finish(r, "error")
  /\ UNCHANGED <<payments, ledger, outbox, rowLock, executed>>

\* The amount is added to the payment before commit adds it again.
FaultyEvent(r) == [id |-> r, pid |-> req[r].pid, type |-> req[r].op,
                   payload |-> Apply(req[r], Apply(req[r], req[r].snap))]

\* A refund is subtracted from the payment instead of added to its refunds.
FaultyRefundEvent(r) ==
  [id |-> r, pid |-> req[r].pid, type |-> req[r].op,
   payload |-> [Apply(req[r], req[r].snap) EXCEPT
                  !.refunded = IF req[r].op = "refund"
                               THEN req[r].snap.refunded - req[r].amount ELSE @]]

\* The payload is JSON, in which the amount keeps all its decimals.
Event(r) == [id |-> r, pid |-> req[r].pid, type |-> req[r].op,
             payload |-> Apply(req[r], req[r].snap)]

\* The event is left out of the transaction.
FaultyCommit(r) ==
  LET p == req[r].pid IN
  /\ req[r].pc = "locked"
  /\ payments' = [payments EXCEPT ![p] = StoredRow(Apply(req[r], req[r].row))]
  /\ ledger' = [ledger EXCEPT ![p] = Post(@, StoredEntries(Entries(req[r])))]
  /\ outbox' \in {outbox, outbox \cup {Event(r)}}
  /\ rowLock' = [rowLock EXCEPT ![p] = None]
  /\ req' = Finish(r, "ok")
  /\ UNCHANGED executed

\* The connection may be lost, or the handler die, behind the COMMIT.
Commit(r) ==
  LET p == req[r].pid IN
  /\ req[r].pc = "locked"
  /\ payments' = [payments EXCEPT ![p] = StoredRow(Apply(req[r], req[r].row))]
  /\ ledger' = [ledger EXCEPT ![p] = Post(@, StoredEntries(Entries(req[r])))]
  /\ outbox' = outbox \cup {Event(r)}
  /\ rowLock' = [rowLock EXCEPT ![p] = None]
  /\ \E pc \in {"ok", "dead"} : (pc = "dead" => Crashes) /\ req' = Finish(r, pc)
  /\ UNCHANGED executed
-----------------------------------------------------------------------------
(***************************************************************************)
(* Transition, reached from Authorize only: GetPayment and CanTransition,  *)
(* then an UPDATE by id that waits for the row lock but looks at nothing.  *)
(***************************************************************************)
TransitionRead(r) ==
  /\ req[r].pc = "transition"
  /\ \/ /\ CanTransition(payments[req[r].pid].status, "failed")
        /\ req' = [req EXCEPT ![r].pc = "update"]
     \/ /\ ~CanTransition(payments[req[r].pid].status, "failed")
        /\ req' = Finish(r, "error")
  /\ UNCHANGED <<payments, ledger, outbox, rowLock, executed>>

TransitionUpdate(r) ==
  LET p == req[r].pid IN
  /\ req[r].pc = "update"
  /\ RowFree(p)
  /\ payments' = [payments EXCEPT ![p].status = "failed",
                                  ![p].reference = req[r].reference]
  /\ req' = Finish(r, "error")
  /\ UNCHANGED <<ledger, outbox, rowLock, executed>>
-----------------------------------------------------------------------------
(***************************************************************************)
(* The handler dies, its client goes away, or a statement fails: an open   *)
(* transaction is rolled back and its lock released.                       *)
(***************************************************************************)
Abort(r) ==
  /\ Crashes
  /\ req[r].pc \in Running
  /\ req' = Finish(r, "dead")
  /\ rowLock' = [p \in Payments |-> IF rowLock[p] = r THEN None ELSE rowLock[p]]
  /\ UNCHANGED <<payments, ledger, outbox, executed>>
-----------------------------------------------------------------------------
Begin(r) ==
  \E p \in Payments :
    \/ Authorize(r, p)
    \/ AuthorizeBlocked(r, p)
    \/ \E a \in Amounts :
         \/ Capture(r, p, a)
         \/ Refund(r, p, a)
         \/ \E op \in Ops : Reject(r, op, p, a)

Proceed(r) ==
  \/ ProviderSucceeds(r)
  \/ ProviderFails(r)
  \/ LockRow(r)
  \/ CommandRefused(r)
  \/ Commit(r)
  \/ TransitionRead(r)
  \/ TransitionUpdate(r)

Next ==
  \/ \E p \in Payments, a \in Amounts : CreatePayment(p, a)
  \/ \E r \in Requests : Begin(r) \/ Proceed(r) \/ Abort(r)

Spec == Init /\ [][Next]_vars

\* Go schedules every running handler, a provider call returns, and a row lock
\* is granted once it is free; nothing forces a request to arrive or a handler
\* to die.
Fairness == \A r \in Requests : WF_vars(Proceed(r))

FairSpec == Spec /\ Fairness
-----------------------------------------------------------------------------
(***************************************************************************)
(* Properties                                                              *)
(***************************************************************************)
Call == [pc: Steps, op: Ops \cup {"none"}, pid: Payments \cup {None},
         amount: Int, snap: PaymentRow, row: PaymentRow, reference: References]

EventType == [id: Requests, pid: Payments, type: Ops, payload: PaymentRow]

\* The tables hold what their columns allow (amounts are never negative), and the
\* local variables of a handler are of their kind.
TypeOK ==
  /\ payments \in [Payments -> PaymentRow]
  /\ ledger \in [Payments -> [Accounts -> Int]]
  /\ outbox \subseteq EventType
  /\ rowLock \in [Payments -> Requests \cup {None}]
  /\ req \in [Requests -> Call]
  /\ executed \subseteq Requests

\* What the ledger says was held for p.
Held(p) == - ledger[p]["customer_pending"]

(***************************************************************************)
(* However the calls interleave and wherever they die, the ledger entries  *)
(* of a payment agree with its row: the full amount is held once or not at *)
(* all, what was captured left the merchant's pending account and is       *)
(* available or refunded, and 0 <= refunded <= captured <= held.  The row  *)
(* and the entries are written by the same transaction from a row read     *)
(* under its lock (postgres.go, CommitPaymentCommand).                     *)
(***************************************************************************)
RowAgrees(row, balance) ==
  LET held == - balance["customer_pending"] IN
  /\ held \in {0, row.amount}
  /\ balance["pending"] = held - row.captured
  /\ balance["available"] = row.captured - row.refunded
  /\ balance["customer_refunded"] = row.refunded
  /\ row.refunded <= row.captured
  /\ row.captured <= held
  /\ row.status \in {"absent", "created"} => held = 0
  /\ row.status \in {"authorized", "captured", "refunded"} => held = row.amount

LedgerMatchesPayment == \A p \in Payments : RowAgrees(payments[p], ledger[p])

(***************************************************************************)
(* The row a transaction validated is still the committed row when it      *)
(* writes: captures, refunds and failures of the same payment wait for its *)
(* lock (SELECT ... FOR UPDATE in CommitPaymentCommand).                   *)
(***************************************************************************)
LockedRowIsCurrent ==
  \A r \in Requests : req[r].pc = "locked" =>
    /\ rowLock[req[r].pid] = r
    /\ req[r].row = payments[req[r].pid]
    /\ CommandAllowed(req[r], payments[req[r].pid])

(***************************************************************************)
(* The outbox tells the whole story: the captured and refunded amounts of  *)
(* a payment are the sums of the amounts, as stored, of its captured and   *)
(* refunded events, and money is held exactly when there is one authorized *)
(* event.                                                                  *)
(***************************************************************************)
EventsOf(p, op) == {e \in outbox : e.pid = p /\ e.type = op}

EventSum(p, op) ==
  SumFunctionOnSet([e \in outbox |-> Stored(req[e.id].amount)], EventsOf(p, op))

EventsExplainPayment ==
  \A p \in Payments :
    /\ payments[p].captured = EventSum(p, "capture")
    /\ payments[p].refunded = EventSum(p, "refund")
    /\ Held(p) = payments[p].amount * Cardinality(EventsOf(p, "authorize"))

(***************************************************************************)
(* The ledger is never ahead of the provider: what the outbox announces,   *)
(* the provider has executed, and a request answered with success is in    *)
(* the outbox.                                                             *)
(***************************************************************************)
LedgerBackedByProvider ==
  /\ \A e \in outbox : e.id \in executed
  /\ \A r \in Requests :
       req[r].pc = "ok" => \E e \in outbox : e.id = r /\ e.pid = req[r].pid

(***************************************************************************)
(* The payload of an event is built from a read that is older than the     *)
(* provider call, may miss what other calls committed in between, and is   *)
(* not rounded (payment_service.go, commit).  Rounded as the row is, it    *)
(* never claims more captures or refunds than the row has, at its commit   *)
(* or later: a consumer that keeps the largest amounts it was told is at   *)
(* most behind, or ahead by less than half of the smallest amount stored.  *)
(***************************************************************************)
PayloadNeverAhead ==
  \A e \in outbox :
    /\ e.payload.amount = payments[e.pid].amount
    /\ Stored(e.payload.captured) <= payments[e.pid].captured
    /\ Stored(e.payload.refunded) <= payments[e.pid].refunded

(***************************************************************************)
(* Once a payment has been refunded, even partly, nothing more is captured *)
(* on it, whatever a capture in flight has read and validated before; and  *)
(* a failed payment stays failed.  Its status and its reference may still  *)
(* change: the late failure of an authorization overwrites those of a      *)
(* refunded payment (postgres.go, Transition).                             *)
(***************************************************************************)
ClosedStaysClosed ==
  [][\A p \in Payments :
       /\ payments[p].status \in {"refunded", "failed"} =>
            payments'[p].captured = payments[p].captured
       /\ payments[p].status = "failed" => payments'[p].status = "failed"
    ]_vars

(***************************************************************************)
(* The ledger implements the abstract money specification.                 *)
(***************************************************************************)
Money == INSTANCE PaymentMoney WITH
  limit    <- [p \in Payments |-> IF Exists(p) THEN payments[p].amount ELSE 0],
  held     <- [p \in Payments |-> Held(p)],
  captured <- [p \in Payments |->
                 ledger[p]["available"] + ledger[p]["customer_refunded"]],
  refunded <- [p \in Payments |-> ledger[p]["customer_refunded"]]

ImplementsMoney == Money!Spec

(***************************************************************************)
(* Every call that got past its first step is answered, or its handler     *)
(* died: no call waits for a row lock forever.                             *)
(***************************************************************************)
CallsFinish ==
  \A r \in Requests : req[r].pc \in Running ~> req[r].pc \in Finished

(***************************************************************************)
(* The transactions behave like the operations of the in-memory store,     *)
(* each of which is one step under a mutex: whatever a handler read before *)
(* and whoever came in between, a step that changes the tables is one      *)
(* atomic, guarded operation of that store.  There is one exception.       *)
(* Transition checks the status and overwrites it in two steps, so a       *)
(* failed authorization may hit a payment that was captured, refunded or   *)
(* failed in the meantime (postgres.go, Transition).  It then changes the  *)
(* status and the reference and nothing else.  The amounts of the commands *)
(* are those that the tables keep of what the clients sent.                *)
(***************************************************************************)
Store == INSTANCE MemoryStore WITH
  Merchants <- Payments, Owner <- [p \in Payments |-> p], Keys <- Payments, Rows <- {},
  Amounts   <- {Stored(a) : a \in Amounts},
  keys      <- [p \in Payments |-> IF Exists(p) THEN p ELSE None],
  outbox    <- {[aggregate |-> e.pid, type |-> TargetStatus(e.type)] : e \in outbox},
  payouts   <- << >>,
  disputes  <- << >>

LateFailure ==
  \E p \in Payments, reference \in Store!FailureReasons :
    /\ payments[p].status \in {"captured", "refunded", "failed"}
    /\ Store!SetStatus(p, "failed", reference)

ImplementsStore == Store!Init /\ [][Store!Next \/ LateFailure]_(Store!vars)
=============================================================================
