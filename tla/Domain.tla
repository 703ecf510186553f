------------------------------- MODULE Domain -------------------------------
(***************************************************************************)
(* The pure rules of internal/domain/payment.go: the payment state         *)
(* machine, the capture and refund limits, and the shape of a ledger       *)
(* transaction.  Money (decimal.Decimal) is an integer number of a small   *)
(* unit: one finer than the database's where rounding matters, the         *)
(* database's own elsewhere.                                               *)
(*                                                                         *)
(* Operators whose names start with Faulty are plausible mistakes in the   *)
(* operator they precede.  No specification uses them: they exist so that  *)
(* each property can be shown to notice a mistake of that kind.            *)
(***************************************************************************)
EXTENDS Integers, Sequences, FiniteSetsExt

\* What a numeric(20,6) column holds after x was stored in it: a multiple of unit,
\* the smallest amount it can hold.  Half a unit is rounded up; amounts that get
\* to a column are not negative.
RoundTo(x, unit) == ((2 * x + unit) \div (2 * unit)) * unit

(***************************************************************************)
(* Payments                                                                *)
(***************************************************************************)
PaymentStatus == {"created", "authorized", "captured", "refunded", "failed"}

\* A failed authorization may be tried again.
FaultyCanTransition(from, to) ==
  \/ from = "created"    /\ to \in {"authorized", "failed"}
  \/ from = "authorized" /\ to \in {"captured", "failed"}
  \/ from = "captured"   /\ to \in {"captured", "refunded"}
  \/ from = "refunded"   /\ to = "refunded"
  \/ from = "failed"     /\ to = "authorized"

CanTransition(from, to) ==
  \/ from = "created"    /\ to \in {"authorized", "failed"}
  \/ from = "authorized" /\ to \in {"captured", "failed"}
  \/ from = "captured"   /\ to \in {"captured", "refunded"}
  \/ from = "refunded"   /\ to = "refunded"

ValidateCapture(p, amount) == amount > 0 /\ p.captured + amount <= p.amount

\* The limit is the authorized amount instead of the captured one.
FaultyValidateRefund(p, amount) == amount > 0 /\ p.refunded + amount <= p.amount

ValidateRefund(p, amount) == amount > 0 /\ p.refunded + amount <= p.captured

\* The sign of the amount is not checked.
FaultyNewPaymentAllowed(amount) == amount # 0

\* NewPayment.  The checks on merchant, customer and currency are on the form
\* of strings, which the model does not have.
NewPaymentAllowed(amount) == amount > 0

\* The same mistake in NewPayout.
FaultyNewPayoutAllowed(amount) == amount # 0

\* NewPayout and NewDispute, for the same part of their checks.
NewPayoutAllowed(amount) == amount > 0
NewDisputeAllowed(amount) == amount > 0

(***************************************************************************)
(* Ledger transactions                                                     *)
(***************************************************************************)
LedgerEntry(account, debit, credit) ==
  [account |-> account, debit |-> debit, credit |-> credit]

\* Every service of the program builds its ledger transactions this way: one
\* debit and one credit of the same amount.
Transfer(from, to, amount) ==
  << LedgerEntry(from, amount, 0), LedgerEntry(to, 0, amount) >>

ValidateBalanced(entries) ==
  /\ Len(entries) >= 2
  /\ \A i \in DOMAIN entries :
       /\ entries[i].debit >= 0
       /\ entries[i].credit >= 0
       /\ (entries[i].debit = 0) # (entries[i].credit = 0)
  /\ SumFunctionOnSet([i \in DOMAIN entries |-> entries[i].debit], DOMAIN entries) =
     SumFunctionOnSet([i \in DOMAIN entries |-> entries[i].credit], DOMAIN entries)

\* Appending a two-entry transaction to the ledger, seen through the balances
\* SUM(credit - debit) of the accounts, the only thing the program reads.
Post(balance, entries) ==
  [balance EXCEPT
     ![entries[1].account] = @ + entries[1].credit - entries[1].debit,
     ![entries[2].account] = @ + entries[2].credit - entries[2].debit]
=============================================================================
