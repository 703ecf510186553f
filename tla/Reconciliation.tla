--------------------------- MODULE Reconciliation ---------------------------
(***************************************************************************)
(* What the provider has captured, what the database says was captured,    *)
(* and the comparison of the two (internal/service/reconciliation.go).     *)
(*                                                                         *)
(* The two differ for good reasons and bad ones, all of which are here: a  *)
(* capture is executed by the provider before it is committed; the commit  *)
(* may be refused, fail or never happen; a callback that reports a capture *)
(* makes the service capture again (internal/httpapi/webhook.go); and the  *)
(* database rounds amounts to numeric(20,6) that the provider gets as the  *)
(* client sent them.  Reconcile looks up one line of the provider's report *)
(* after the other, while captures go on.                                  *)
(*                                                                         *)
(* Amounts are in a unit finer than the database's: Unit of them are the   *)
(* smallest amount it stores.  PaymentService shows that the locked part   *)
(* of a capture is one step, as it is here.                                *)
(***************************************************************************)
EXTENDS Domain

CONSTANTS
  Payments,   \* authorized payments
  Stranger,   \* a payment in the provider's report that the database never had
  Calls,      \* requests and callbacks to capture
  None,       \* no payment
  Amounts,    \* amounts that clients send
  Authorized, \* the amount of every payment
  Unit        \* the smallest amount the database stores

ASSUME ReconciliationAssumption ==
  /\ Stranger \notin Payments /\ None \notin Payments
  /\ Amounts \subseteq Int
  /\ Unit \in Nat \ {0}
  /\ Authorized \in Nat \ {0} /\ Authorized % Unit = 0

VARIABLES
  row,       \* row[p] = captured_amount of p
  entries,   \* entries[p] = sum of the available credits of p in ledger_entries
  failed,    \* payments that a late failure of Authorize marked failed
  provider,  \* external: provider[p] = what the provider captured on p
  call,      \* call[c] = the local variables of the handler of c
  job        \* the request to reconcile

vars == <<row, entries, failed, provider, call, job>>
-----------------------------------------------------------------------------
Running == {"provider", "commit"}

\* callback: was the call caused by a capture at the provider?  moved: did the
\* provider execute the capture of the call itself?
NoCall == [pc |-> "idle", payment |-> None, amount |-> 0,
           callback |-> FALSE, moved |-> FALSE]

\* quiet: payments on which nothing has happened since the report was drawn.
NoJob == [pc |-> "idle", report |-> << >>, todo |-> {}, found |-> {}, quiet |-> {}]

Init ==
  /\ row = [p \in Payments |-> 0]
  /\ entries = [p \in Payments |-> 0]
  /\ failed = {}
  /\ provider = [p \in Payments |-> 0]
  /\ call = [c \in Calls |-> NoCall]
  /\ job = NoJob

Disturb(p) == job' = [job EXCEPT !.quiet = @ \ {p}]

\* The value of a numeric(20,6) column.
Stored(x) == RoundTo(x, Unit)
-----------------------------------------------------------------------------
(***************************************************************************)
(* Capture, called by a merchant's request or by the handler of a          *)
(* provider's callback.                                                    *)
(***************************************************************************)
Payment(p) == [amount |-> Authorized, captured |-> row[p]]

\* A callback comes with a positive amount that the provider has captured.
Begin(c, p, amount, callback) ==
  /\ call[c].pc = "idle"
  /\ callback => amount > 0
  /\ provider' = [provider EXCEPT ![p] = IF callback THEN @ + amount ELSE @]
  /\ call' = [call EXCEPT ![c] =
       [pc |-> IF ValidateCapture(Payment(p), amount) THEN "provider" ELSE "error",
        payment |-> p, amount |-> amount, callback |-> callback, moved |-> FALSE]]
  /\ Disturb(p)
  /\ UNCHANGED <<row, entries, failed>>

\* The client of the provider repeats a call that timed out.
FaultyProviderCapture(c) ==
  /\ call[c].pc = "provider"
  /\ \E n \in 1 .. 2 :
       provider' = [provider EXCEPT ![call[c].payment] = @ + n * call[c].amount]
  /\ call' = [call EXCEPT ![c].pc = "commit", ![c].moved = TRUE]
  /\ UNCHANGED <<row, entries, failed, job>>

ProviderCapture(c) ==
  /\ call[c].pc = "provider"
  /\ provider' = [provider EXCEPT ![call[c].payment] = @ + call[c].amount]
  /\ call' = [call EXCEPT ![c].pc = "commit", ![c].moved = TRUE]
  /\ UNCHANGED <<row, entries, failed, job>>

\* The CHECK on ledger_entries refuses an entry whose debit and credit are both zero.
CommandAllowed(c) ==
  /\ call[c].payment \notin failed
  /\ ValidateCapture(Payment(call[c].payment), call[c].amount)
  /\ Stored(call[c].amount) > 0

\* The amount is stored in the row as the client sent it.
FaultyCommit(c) ==
  /\ call[c].pc = "commit"
  /\ CommandAllowed(c)
  /\ row' = [row EXCEPT ![call[c].payment] = @ + call[c].amount]
  /\ entries' = [entries EXCEPT ![call[c].payment] = @ + Stored(call[c].amount)]
  /\ call' = [call EXCEPT ![c].pc = "ok"]
  /\ UNCHANGED <<failed, provider, job>>

Commit(c) ==
  /\ call[c].pc = "commit"
  /\ CommandAllowed(c)
  /\ row' = [row EXCEPT ![call[c].payment] = Stored(@ + call[c].amount)]
  /\ entries' = [entries EXCEPT ![call[c].payment] = @ + Stored(call[c].amount)]
  /\ call' = [call EXCEPT ![c].pc = "ok"]
  /\ UNCHANGED <<failed, provider, job>>

CommandRefused(c) ==
  /\ call[c].pc = "commit"
  /\ ~CommandAllowed(c)
  /\ call' = [call EXCEPT ![c].pc = "error"]
  /\ UNCHANGED <<row, entries, failed, provider, job>>

\* The provider answers with an error, having captured or not; a statement fails; the
\* handler dies.
Abort(c) ==
  /\ call[c].pc \in Running
  /\ \/ /\ call' = [call EXCEPT ![c].pc = "error"]
        /\ UNCHANGED provider
     \/ /\ call[c].pc = "provider"
        /\ provider' = [provider EXCEPT ![call[c].payment] = @ + call[c].amount]
        /\ call' = [call EXCEPT ![c].pc = "error", ![c].moved = TRUE]
  /\ UNCHANGED <<row, entries, failed, job>>

\* Transition overwrites the reference with provider_error (module PaymentService).
LateFailure(p) ==
  /\ failed' = failed \cup {p}
  /\ Disturb(p)
  /\ UNCHANGED <<row, entries, provider, call>>
-----------------------------------------------------------------------------
(***************************************************************************)
(* Reconcile                                                               *)
(***************************************************************************)
InFlight(p) == \E c \in Calls : call[c].payment = p /\ call[c].pc \in Running

\* An admin sends the provider's report; it lists some of the payments.
Submit ==
  /\ job.pc = "idle"
  /\ \E listed \in SUBSET (Payments \cup {Stranger}) :
       job' = [pc |-> "reading", todo |-> listed, found |-> {},
               report |-> [p \in listed |-> IF p = Stranger THEN Unit ELSE provider[p]],
               quiet |-> {p \in listed \ {Stranger} : ~InFlight(p)}]
  /\ UNCHANGED <<row, entries, failed, provider, call>>

\* GetPaymentByProviderReference finds the row.
Known(line) == line \in Payments \ failed

\* Only what the provider did not capture is worth a line.
FaultyDiffers(stored, reported) == stored > reported

Differs(stored, reported) == stored # reported

Mismatches(line) ==
  IF ~Known(line) THEN {[line |-> line, reason |-> "unknown_provider_payment"]}
  ELSE IF Differs(row[line], job.report[line])
       THEN {[line |-> line, reason |-> "captured_amount_mismatch"]}
       ELSE {}

ReadLine(line) ==
  /\ job.pc = "reading"
  /\ line \in job.todo
  /\ job' = [job EXCEPT !.todo = @ \ {line}, !.found = @ \cup Mismatches(line)]
  /\ UNCHANGED <<row, entries, failed, provider, call>>

\* The answer lists the mismatches in the order of their references.
Answer ==
  /\ job.pc = "reading"
  /\ job.todo = {}
  /\ job' = [job EXCEPT !.pc = "done"]
  /\ UNCHANGED <<row, entries, failed, provider, call>>

\* A lookup fails: 500 and no list.
ReconcileFails ==
  /\ job.pc = "reading"
  /\ job' = [job EXCEPT !.pc = "error", !.found = {}]
  /\ UNCHANGED <<row, entries, failed, provider, call>>
-----------------------------------------------------------------------------
Next ==
  \/ \E c \in Calls :
       \/ \E p \in Payments, a \in Amounts, callback \in BOOLEAN : Begin(c, p, a, callback)
       \/ ProviderCapture(c) \/ Commit(c) \/ CommandRefused(c) \/ Abort(c)
  \/ \E p \in Payments : LateFailure(p)
  \/ Submit
  \/ \E line \in Payments \cup {Stranger} : ReadLine(line)
  \/ Answer
  \/ ReconcileFails

Spec == Init /\ [][Next]_vars
-----------------------------------------------------------------------------
(***************************************************************************)
(* Properties                                                              *)
(***************************************************************************)
(***************************************************************************)
(* Rounding does not set a payment's row and its ledger entries apart, nor *)
(* does it take a capture over the authorized amount, although the sum in  *)
(* the row and the amount in the entries are rounded separately and the    *)
(* limit is checked before: the row is always a multiple of the unit.      *)
(***************************************************************************)
StoredMoneyAgrees ==
  \A p \in Payments :
    /\ row[p] % Unit = 0
    /\ entries[p] = row[p]
    /\ row[p] <= Authorized

(***************************************************************************)
(* All of the difference between the provider and the database is          *)
(* explained by captures that the provider initiated and captured again    *)
(* when it reported them, captures it executed that were not committed,    *)
(* and what rounding took from or added to the others.                     *)
(***************************************************************************)
Drift(c) ==
    (IF c.callback THEN c.amount ELSE 0)
  + (IF c.moved /\ c.pc # "ok" THEN c.amount ELSE 0)
  + (IF c.pc = "ok" THEN c.amount - Stored(c.amount) ELSE 0)

CallsOn(p) == {c \in Calls : call[c].payment = p}

DriftExplained ==
  \A p \in Payments :
    provider[p] - row[p] = SumFunctionOnSet([c \in Calls |-> Drift(call[c])], CallsOn(p))

(***************************************************************************)
(* A finished reconciliation is exact for every payment in the report that *)
(* was left alone since the report was drawn: it is in the list if and     *)
(* only if provider and database really differ, whatever happened to the   *)
(* payments before and to others meanwhile; a payment whose reference a    *)
(* late failure overwrote is listed as unknown.                            *)
(***************************************************************************)
ReconcileFindsDrift ==
  job.pc = "done" =>
    \A p \in job.quiet :
      {m.reason : m \in {m \in job.found : m.line = p}} =
        IF p \in failed THEN {"unknown_provider_payment"}
        ELSE IF provider[p] # row[p] THEN {"captured_amount_mismatch"}
        ELSE {}
=============================================================================
