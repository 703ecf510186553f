------------------------ MODULE MerchantLedgerProofs ------------------------
(***************************************************************************)
(* Proofs about MerchantLedger, for any number of merchants, payments,     *)
(* calls and amounts.                                                      *)
(*                                                                         *)
(* None of the safety properties is inductive.  That a row is settled once *)
(* rests on the row lock of the call that is about to settle it, that the  *)
(* amounts a call carries are still those of the row rests on rows never   *)
(* losing them, and that payouts stay within captures rests on what a      *)
(* payout that has read the balance still finds reserved for it under the  *)
(* advisory lock.  CallOK collects what a call knows at each of its steps. *)
(***************************************************************************)
EXTENDS MerchantLedger, DomainTheorems

\* The id a call draws is unused until the call commits.
FreshId(c) == payouts[c].status = "absent" /\ disputes[c].status = "absent"

\* A call that settles a row carries the row's merchant and amount.
Settles(c, table) ==
  /\ call[c].target \in Calls
  /\ table[call[c].target].status # "absent"
  /\ call[c].merchant = table[call[c].target].merchant
  /\ call[c].amount = table[call[c].target].amount

PayoutCall(c) ==
  /\ call[c].target = None /\ call[c].payment = None /\ call[c].amount \in Amounts
  /\ call[c].pc \in {"balance", "commit"} => advisory[call[c].merchant] = c
  /\ call[c].pc = "commit" =>
       ledger[call[c].merchant]["payout_pending"] + ledger[call[c].merchant]["payout_settled"]
         + call[c].amount <= Captured(call[c].merchant)

CompleteCall(c) ==
  /\ call[c].pc # "balance"
  /\ Settles(c, payouts)
  /\ call[c].to \in {"paid", "failed"}
  /\ call[c].pc = "commit" =>
       rowLock[call[c].target] = c /\ payouts[call[c].target].status = "pending"

DisputeCall(c) ==
  /\ call[c].pc = "commit"
  /\ call[c].target = None /\ call[c].amount \in Amounts
  /\ call[c].payment \in Payments
  /\ call[c].merchant = Owner[call[c].payment]
  /\ call[c].amount <= payments[call[c].payment].captured

ResolveCall(c) ==
  /\ call[c].pc # "balance"
  /\ Settles(c, disputes)
  /\ call[c].to \in {"won", "lost"}
  /\ call[c].pc = "commit" =>
       rowLock[call[c].target] = c /\ disputes[call[c].target].status = "open"

\* What is known of a call at each of its steps.
CallOK(c) ==
  /\ call[c].pc = "idle" => FreshId(c)
  /\ call[c].pc \in Running =>
       /\ FreshId(c)
       /\ call[c].merchant \in Merchants /\ call[c].amount > 0
       /\ call[c].op # "none"
       /\ call[c].op = "payout" => PayoutCall(c)
       /\ call[c].op = "complete" => CompleteCall(c)
       /\ call[c].op = "dispute" => DisputeCall(c)
       /\ call[c].op = "resolve" => ResolveCall(c)

\* A row is a payout or a dispute, of a merchant and with an amount.
RowOK(q) ==
  /\ payouts[q].status = "absent" \/ disputes[q].status = "absent"
  /\ payouts[q].status # "absent" =>
       payouts[q].merchant \in Merchants /\ payouts[q].amount > 0
  /\ disputes[q].status # "absent" =>
       /\ disputes[q].merchant \in Merchants /\ disputes[q].amount > 0
       /\ disputes[q].payment \in Payments
       /\ disputes[q].merchant = Owner[disputes[q].payment]

IInv ==
  /\ TypeOK
  /\ \A c \in Calls : CallOK(c)
  /\ \A q \in Calls : RowOK(q)
  /\ LedgerMatchesRows
  /\ PayoutsWithinCaptures
  /\ EventsMatchRows
  /\ DisputeWithinCaptured
-----------------------------------------------------------------------------
(***************************************************************************)
(* Totals                                                                  *)
(***************************************************************************)

\* What a row contributes to a total.
Weight(row, m, status) ==
  IF row.merchant = m /\ row.status = status THEN row.amount ELSE 0

\* The totals of t and u differ by what row x contributes to them.
DifferBy(x, t, u, m, status) ==
  /\ Total(t, m, status) \in Int /\ Total(u, m, status) \in Int
  /\ Total(u, m, status) + Weight(t[x], m, status) =
       Total(t, m, status) + Weight(u[x], m, status)

\* Where two tables differ in one row, their totals differ by what it contributes.
LEMMA TotalStep ==
  ASSUME NEW t, NEW u, NEW x \in Calls, NEW m, NEW status,
         \A q \in Calls : t[q].amount \in Int /\ u[q].amount \in Int,
         \A q \in Calls \ {x} : u[q] = t[q]
  PROVE  DifferBy(x, t, u, m, status)
<1> DEFINE f == [q \in Calls |-> t[q].amount]
           g == [q \in Calls |-> u[q].amount]
           S == {q \in Calls : t[q].merchant = m /\ t[q].status = status}
           T == {q \in Calls : u[q].merchant = m /\ u[q].status = status}
<1>1. IsFiniteSet(S) /\ IsFiniteSet(T)
  BY MerchantAssumption, FS_Subset
<1>2. (\A y \in S : f[y] \in Int) /\ (\A y \in T : g[y] \in Int)
  OBVIOUS
<1>3. S \ {x} = T \ {x} /\ \A y \in S \ {x} : f[y] = g[y]
  OBVIOUS
<1>4. /\ (IF x \in S THEN f[x] ELSE 0) = Weight(t[x], m, status)
      /\ (IF x \in T THEN g[x] ELSE 0) = Weight(u[x], m, status)
  BY DEF Weight
<1>5. Total(t, m, status) = SumFunctionOnSet(f, S) /\ Total(u, m, status) = SumFunctionOnSet(g, T)
  BY Zenon DEF Total
<1> HIDE DEF f, g, S, T
<1>6. QED
  BY <1>1, <1>2, <1>3, <1>4, <1>5, SumStep DEF DifferBy

\* A total of rows is a natural number, and depends on the table only.
LEMMA TotalNat ==
  ASSUME NEW t, NEW m, NEW status, \A q \in Calls : t[q].amount \in Nat
  PROVE  Total(t, m, status) \in Nat
<1> DEFINE f == [q \in Calls |-> t[q].amount]
           S == {q \in Calls : t[q].merchant = m /\ t[q].status = status}
<1>1. IsFiniteSet(S) /\ \A y \in S : f[y] \in Nat
  BY MerchantAssumption, FS_Subset
<1>2. Total(t, m, status) = SumFunctionOnSet(f, S)
  BY Zenon DEF Total
<1> HIDE DEF f, S
<1>3. QED
  BY <1>1, <1>2, SumNat

\* A table of absent rows has no total.
LEMMA TotalEmpty ==
  ASSUME NEW t, NEW m, NEW status, \A q \in Calls : t[q].status # status
  PROVE  Total(t, m, status) = 0
<1>1. {q \in Calls : t[q].merchant = m /\ t[q].status = status} = {}
  OBVIOUS
<1>2. QED
  BY <1>1, SumEmpty, Zenon DEF Total

\* What a merchant's payments have captured and refunded are natural numbers, and
\* change by what one payment's row changes by.
LEMMA PaymentSums ==
  ASSUME TypeOK, NEW m \in Merchants
  PROVE  Captured(m) \in Nat /\ Refunded(m) \in Nat
<1> DEFINE f == [p \in Payments |-> payments[p].captured]
           g == [p \in Payments |-> payments[p].refunded]
           S == {p \in Payments : Owner[p] = m}
<1>1. IsFiniteSet(S) /\ (\A y \in S : f[y] \in Nat) /\ (\A y \in S : g[y] \in Nat)
  BY MerchantAssumption, FS_Subset DEF TypeOK, PaymentRow
<1>2. Captured(m) = SumFunctionOnSet(f, S) /\ Refunded(m) = SumFunctionOnSet(g, S)
  BY Zenon DEF Captured, Refunded
<1> HIDE DEF f, g, S
<1>3. QED
  BY <1>1, <1>2, SumNat

\* The sums of the merchants' payments after one payment changed.
LEMMA PaymentSumsStep ==
  ASSUME TypeOK, TypeOK', NEW x \in Payments, NEW m \in Merchants,
         \A p \in Payments \ {x} : payments'[p] = payments[p]
  PROVE  /\ Captured(m)' \in Nat /\ Refunded(m)' \in Nat
         /\ m # Owner[x] => Captured(m)' = Captured(m) /\ Refunded(m)' = Refunded(m)
         /\ m = Owner[x] =>
              /\ Captured(m)' + payments[x].captured = Captured(m) + payments'[x].captured
              /\ Refunded(m)' + payments[x].refunded = Refunded(m) + payments'[x].refunded
<1> DEFINE f == [p \in Payments |-> payments[p].captured]
           g == [p \in Payments |-> payments[p].refunded]
           h == [p \in Payments |-> payments'[p].captured]
           k == [p \in Payments |-> payments'[p].refunded]
           S == {p \in Payments : Owner[p] = m}
<1>1. /\ IsFiniteSet(S)
      /\ (\A y \in S : f[y] \in Int) /\ (\A y \in S : g[y] \in Int)
      /\ (\A y \in S : h[y] \in Nat) /\ (\A y \in S : k[y] \in Nat)
  BY MerchantAssumption, FS_Subset DEF TypeOK, PaymentRow
<1>2. /\ (\A y \in S \ {x} : f[y] = h[y]) /\ (\A y \in S \ {x} : g[y] = k[y])
      /\ f[x] = payments[x].captured /\ g[x] = payments[x].refunded
      /\ h[x] = payments'[x].captured /\ k[x] = payments'[x].refunded
      /\ x \in S <=> m = Owner[x]
  OBVIOUS
<1>3. /\ Captured(m) = SumFunctionOnSet(f, S) /\ Refunded(m) = SumFunctionOnSet(g, S)
      /\ Captured(m)' = SumFunctionOnSet(h, S) /\ Refunded(m)' = SumFunctionOnSet(k, S)
  BY Zenon DEF Captured, Refunded
<1> HIDE DEF f, g, h, k, S
<1>4. /\ SumFunctionOnSet(f, S) \in Int /\ SumFunctionOnSet(h, S) \in Int
      /\ SumFunctionOnSet(h, S) + (IF x \in S THEN f[x] ELSE 0) =
           SumFunctionOnSet(f, S) + (IF x \in S THEN h[x] ELSE 0)
  BY <1>1, <1>2, SumStep
<1>5. /\ SumFunctionOnSet(g, S) \in Int /\ SumFunctionOnSet(k, S) \in Int
      /\ SumFunctionOnSet(k, S) + (IF x \in S THEN g[x] ELSE 0) =
           SumFunctionOnSet(g, S) + (IF x \in S THEN k[x] ELSE 0)
  BY <1>1, <1>2, SumStep
<1>6. SumFunctionOnSet(h, S) \in Nat /\ SumFunctionOnSet(k, S) \in Nat
  BY <1>1, SumNat
<1>7. QED
  BY <1>2, <1>3, <1>4, <1>5, <1>6

\* A step that leaves the payments alone leaves their sums alone.
LEMMA PaymentSumsSame ==
  ASSUME NEW m, UNCHANGED payments
  PROVE  Captured(m)' = Captured(m) /\ Refunded(m)' = Refunded(m)
BY DEF Captured, Refunded
-----------------------------------------------------------------------------
(***************************************************************************)
(* The initial state                                                       *)
(***************************************************************************)
\* The empty row and the idle call are of their types.
LEMMA EmptyTypes ==
  /\ NoCall \in CallType /\ NoCall.pc = "idle"
  /\ NoRow.status = "absent"
  /\ \A S : "absent" \in S => NoRow \in RowType(S)
BY DEF NoCall, CallType, NoRow, RowType, Running, Finished

\* Authorized payments, and nothing else, satisfy the invariant.
LEMMA InitInvariant == Init => IInv
<1> SUFFICES ASSUME Init PROVE IInv
  OBVIOUS
<1>1. TypeOK
  <2>1. payments \in [Payments -> PaymentRow]
    BY MerchantAssumption DEF Init, PaymentRow, PaymentStatus
  <2>2. ASSUME NEW m \in Merchants PROVE ledger[m] \in [Accounts -> Int]
    <3>1. IsFiniteSet({p \in Payments : Owner[p] = m})
      BY MerchantAssumption, FS_Subset
    <3> DEFINE n == Cardinality({p \in Payments : Owner[p] = m})
    <3>2. n \in Nat
      BY <3>1, FS_CardinalityType
    <3>3. ledger[m] = [a \in Accounts |-> IF a = "pending" THEN Authorized * n ELSE 0]
      BY DEF Init
    <3> HIDE DEF n
    <3>4. Authorized * n \in Int
      BY <3>2, MerchantAssumption
    <3>5. QED
      BY <3>3, <3>4
  <2>3. ledger \in [Merchants -> [Accounts -> Int]]
    BY <2>2 DEF Init
  <2>4. payouts \in [Calls -> RowType({"absent", "pending", "paid", "failed"})]
        /\ disputes \in [Calls -> RowType({"absent", "open", "won", "lost"})]
        /\ call \in [Calls -> CallType]
    BY EmptyTypes DEF Init
  <2>5. QED
    BY <2>1, <2>3, <2>4 DEF Init, TypeOK
<1>2. \A q \in Calls : payouts[q].status = "absent" /\ disputes[q].status = "absent"
                       /\ call[q].pc = "idle"
  BY EmptyTypes DEF Init
<1>3. \A c \in Calls : CallOK(c)
  BY <1>2 DEF CallOK, FreshId, Running
<1>4. \A q \in Calls : RowOK(q)
  BY <1>2 DEF RowOK
<1>5. ASSUME NEW m \in Merchants PROVE Captured(m) = 0 /\ Refunded(m) = 0
  <2> DEFINE z == [p \in Payments |-> 0]
             S == {p \in Payments : Owner[p] = m}
  <2>1. [p \in Payments |-> payments[p].captured] = z
        /\ [p \in Payments |-> payments[p].refunded] = z
    BY DEF Init
  <2>2. Captured(m) = SumFunctionOnSet(z, S) /\ Refunded(m) = SumFunctionOnSet(z, S)
    BY <2>1, Zenon DEF Captured, Refunded
  <2>3. IsFiniteSet(S) /\ \A x \in S : z[x] = 0
    BY MerchantAssumption, FS_Subset
  <2> HIDE DEF z, S
  <2>4. QED
    BY <2>2, <2>3, SumZero
<1>6. ASSUME NEW m \in Merchants
      PROVE  /\ Total(payouts, m, "pending") = 0 /\ Total(payouts, m, "paid") = 0
             /\ Total(disputes, m, "open") = 0 /\ Total(disputes, m, "lost") = 0
             /\ ledger[m]["payout_pending"] = 0 /\ ledger[m]["payout_settled"] = 0
             /\ ledger[m]["dispute_frozen"] = 0 /\ ledger[m]["chargeback"] = 0
             /\ ledger[m]["available"] = 0
  <2>1. /\ Total(payouts, m, "pending") = 0 /\ Total(payouts, m, "paid") = 0
        /\ Total(disputes, m, "open") = 0 /\ Total(disputes, m, "lost") = 0
    BY <1>2, TotalEmpty
  <2>2. \A a \in Accounts \ {"pending"} : ledger[m][a] = 0
    BY DEF Init
  <2>3. QED
    BY <2>1, <2>2 DEF Accounts
<1>7. LedgerMatchesRows /\ PayoutsWithinCaptures
  BY <1>5, <1>6 DEF LedgerMatchesRows, PayoutsWithinCaptures
<1>8. EventsMatchRows
  <2>1. \A q \in Calls : History(q) = {}
    BY DEF Init, History
  <2>2. QED
    BY <1>2, <2>1 DEF EventsMatchRows, Steps
<1>9. DisputeWithinCaptured
  BY <1>2 DEF DisputeWithinCaptured
<1>10. QED
  BY <1>1, <1>3, <1>4, <1>7, <1>8, <1>9 DEF IInv
-----------------------------------------------------------------------------
(***************************************************************************)
(* Calls that do not move                                                  *)
(***************************************************************************)
\* Rows are not deleted and keep their merchant and their amount.
RowsKept(t, u) ==
  \A q \in Calls : t[q].status # "absent" =>
    /\ u[q].status # "absent"
    /\ u[q].merchant = t[q].merchant /\ u[q].amount = t[q].amount

\* What a payout that is about to commit needs.
Reserved(m, amount) ==
  ledger[m]["payout_pending"] + ledger[m]["payout_settled"] + amount <= Captured(m)

\* A call that does not move stays what it was while the steps of others keep what
\* it relies on.
LEMMA OtherCall ==
  ASSUME TypeOK, NEW b \in Calls, CallOK(b), call'[b] = call[b],
         call[b].pc \in {"idle"} \cup Running => FreshId(b)',
         RowsKept(payouts, payouts'), RowsKept(disputes, disputes'),
         \A m \in Merchants : advisory[m] = b => advisory'[m] = b,
         \A q \in Calls : rowLock[q] = b => rowLock'[q] = b,
         call[b].pc = "commit" /\ call[b].op = "complete" =>
           payouts'[call[b].target].status = "pending",
         call[b].pc = "commit" /\ call[b].op = "resolve" =>
           disputes'[call[b].target].status = "open",
         \A p \in Payments : payments[p].captured <= payments'[p].captured,
         \A p \in Payments : payments'[p].captured \in Nat,
         call[b].pc = "commit" /\ call[b].op = "payout" =>
           Reserved(call[b].merchant, call[b].amount)'
  PROVE  CallOK(b)'
<1>1. call[b] \in CallType
  BY DEF TypeOK
<1>2. CASE call[b].pc \notin Running
  BY <1>2 DEF CallOK
<1>3. CASE call[b].pc \in Running
  <2>1. call[b].op = "payout" => PayoutCall(b)'
    BY <1>3 DEF CallOK, PayoutCall, Reserved
  <2>2. call[b].op = "complete" => CompleteCall(b)'
    BY <1>3 DEF CallOK, CompleteCall, Settles, RowsKept
  <2>3. call[b].op = "dispute" => DisputeCall(b)'
    <3> SUFFICES ASSUME call[b].op = "dispute" PROVE DisputeCall(b)'
      OBVIOUS
    <3>1. DisputeCall(b)
      BY <1>3 DEF CallOK
    <3>2. /\ call[b].amount \in Nat
          /\ payments[call[b].payment].captured \in Nat
          /\ payments'[call[b].payment].captured \in Nat
          /\ payments[call[b].payment].captured <= payments'[call[b].payment].captured
      BY <1>1, <3>1 DEF DisputeCall, TypeOK, PaymentRow, CallType
    <3>3. call[b].amount <= payments'[call[b].payment].captured
      BY <3>1, <3>2 DEF DisputeCall
    <3>4. QED
      BY <3>1, <3>3 DEF DisputeCall
  <2>4. call[b].op = "resolve" => ResolveCall(b)'
    BY <1>3 DEF CallOK, ResolveCall, Settles, RowsKept
  <2>5. QED
    BY <1>3, <2>1, <2>2, <2>3, <2>4 DEF CallOK
<1>4. QED
  BY <1>2, <1>3

\* A step that moves one call and changes no table keeps the invariant when the call
\* knows what it must at its new place.
LEMMA QuietStep ==
  ASSUME IInv, NEW c \in Calls, NEW d \in CallType, call' = [call EXCEPT ![c] = d],
         UNCHANGED tables,
         advisory' \in [Merchants -> Calls \cup {None}],
         rowLock' \in [Calls -> Calls \cup {None}],
         \A b \in Calls \ {c} :
           /\ \A m \in Merchants : advisory[m] = b => advisory'[m] = b
           /\ \A q \in Calls : rowLock[q] = b => rowLock'[q] = b,
         CallOK(c)'
  PROVE  IInv'
<1>1. TypeOK'
  BY DEF IInv, TypeOK, tables
<1>2. \A m : Captured(m)' = Captured(m) /\ Refunded(m)' = Refunded(m)
  BY PaymentSumsSame DEF tables
<1>3. ASSUME NEW b \in Calls \ {c} PROVE CallOK(b)'
  <2>1. TypeOK /\ CallOK(b) /\ call'[b] = call[b]
    BY DEF IInv, TypeOK
  <2>2. RowsKept(payouts, payouts') /\ RowsKept(disputes, disputes')
    BY DEF RowsKept, tables
  <2>3. call[b].pc \in {"idle"} \cup Running => FreshId(b)'
    BY <2>1 DEF CallOK, FreshId, tables
  <2>4. /\ call[b].pc = "commit" /\ call[b].op = "complete" =>
             payouts'[call[b].target].status = "pending"
        /\ call[b].pc = "commit" /\ call[b].op = "resolve" =>
             disputes'[call[b].target].status = "open"
    BY <2>1 DEF CallOK, CompleteCall, ResolveCall, tables, Running
  <2>5. /\ \A p \in Payments : payments[p].captured <= payments'[p].captured
        /\ \A p \in Payments : payments'[p].captured \in Nat
    BY <2>1 DEF tables, TypeOK, PaymentRow
  <2>6. call[b].pc = "commit" /\ call[b].op = "payout" =>
          Reserved(call[b].merchant, call[b].amount)'
    BY <1>2, <2>1 DEF CallOK, PayoutCall, Reserved, tables, Running
  <2>7. QED
    BY <2>1, <2>2, <2>3, <2>4, <2>5, <2>6, OtherCall
<1>4. \A b \in Calls : CallOK(b)'
  BY <1>3
<1>5. \A q \in Calls : RowOK(q)'
  BY DEF IInv, RowOK, tables
<1>6. LedgerMatchesRows'
  <2>1. \A m, s : /\ Total(payouts, m, s)' = Total(payouts, m, s)
                  /\ Total(disputes, m, s)' = Total(disputes, m, s)
    BY Zenon DEF tables, Total
  <2>2. LedgerMatchesRows /\ ledger' = ledger
    BY DEF IInv, tables
  <2>3. QED
    BY <1>2, <2>1, <2>2 DEF LedgerMatchesRows
<1>7. PayoutsWithinCaptures'
  BY <1>2 DEF IInv, PayoutsWithinCaptures, tables
<1>8. EventsMatchRows'
  BY Zenon DEF IInv, EventsMatchRows, History, tables
<1>9. DisputeWithinCaptured'
  BY DEF IInv, DisputeWithinCaptured, tables
<1>10. QED
  BY <1>1, <1>4, <1>5, <1>6, <1>7, <1>8, <1>9 DEF IInv
-----------------------------------------------------------------------------
(***************************************************************************)
(* The first steps of calls                                                *)
(***************************************************************************)
\* Starting a call keeps the invariant if the record it starts with is a good one.
LEMMA StartStep ==
  ASSUME IInv, NEW c \in Calls, NEW d \in CallType, Start(c, d), CallOK(c)'
  PROVE  IInv'
<1>1. call' = [call EXCEPT ![c] = d] /\ UNCHANGED tables /\ UNCHANGED <<advisory, rowLock>>
  BY DEF Start, locks
<1>2. /\ advisory' \in [Merchants -> Calls \cup {None}]
      /\ rowLock' \in [Calls -> Calls \cup {None}]
  BY <1>1 DEF IInv, TypeOK
<1>3. QED
  BY <1>1, <1>2, QuietStep

\* A call that has not started uses no id yet, and a start touches no table.
LEMMA StartFacts ==
  ASSUME IInv, NEW c \in Calls, NEW d \in CallType, Start(c, d)
  PROVE  /\ call'[c] = d /\ FreshId(c)'
         /\ UNCHANGED <<payments, payouts, disputes, ledger, advisory, rowLock>>
BY DEF IInv, TypeOK, CallOK, Start, FreshId, tables, locks

\* PayoutService.Create, up to the lock.
LEMMA CreatePayoutStep ==
  ASSUME IInv, NEW c \in Calls, NEW m \in Merchants, NEW a \in Amounts, CreatePayout(c, m, a)
  PROVE  IInv'
<1> DEFINE d == [NoCall EXCEPT !.pc = "lock", !.op = "payout", !.merchant = m, !.amount = a]
<1>1. a \in Nat /\ a > 0
  BY MerchantAssumption DEF CreatePayout, NewPayoutAllowed
<1>2. /\ d \in CallType /\ d.pc = "lock" /\ d.op = "payout" /\ d.merchant = m
      /\ d.amount = a /\ d.target = None /\ d.payment = None
  BY <1>1 DEF NoCall, CallType, Running, Finished
<1>3. Start(c, d)
  BY DEF CreatePayout
<1> HIDE DEF d
<1>4. CallOK(c)'
  BY <1>1, <1>2, <1>3, StartFacts DEF CallOK, PayoutCall, Running
<1>5. QED
  BY <1>2, <1>3, <1>4, StartStep

\* PayoutService.Complete carries merchant and amount of the row it read.
LEMMA CompletePayoutStep ==
  ASSUME IInv, NEW c \in Calls, NEW q \in Calls, NEW to \in {"paid", "failed"},
         CompletePayout(c, q, to)
  PROVE  IInv'
<1> DEFINE d == [NoCall EXCEPT !.pc = "lock", !.op = "complete", !.target = q, !.to = to,
                               !.merchant = payouts[q].merchant,
                               !.amount = payouts[q].amount]
<1>1. payouts[q].status # "absent" /\ payouts[q].merchant \in Merchants
      /\ payouts[q].amount \in Nat /\ payouts[q].amount > 0
  BY DEF IInv, TypeOK, RowType, RowOK, CompletePayout
<1>2. /\ d \in CallType /\ d.pc = "lock" /\ d.op = "complete" /\ d.target = q /\ d.to = to
      /\ d.merchant = payouts[q].merchant /\ d.amount = payouts[q].amount
  BY <1>1 DEF NoCall, CallType, Running, Finished
<1>3. Start(c, d)
  BY DEF CompletePayout
<1> HIDE DEF d
<1>4. CallOK(c)'
  BY <1>1, <1>2, <1>3, StartFacts DEF CallOK, CompleteCall, Settles, Running
<1>5. QED
  BY <1>2, <1>3, <1>4, StartStep

\* DisputeService.Open checks the amount against what it has just read.
LEMMA OpenDisputeStep ==
  ASSUME IInv, NEW c \in Calls, NEW p \in Payments, NEW a \in Amounts, OpenDispute(c, p, a)
  PROVE  IInv'
<1> DEFINE d == [NoCall EXCEPT !.pc = "commit", !.op = "dispute", !.payment = p,
                               !.merchant = Owner[p], !.amount = a]
<1>1. a \in Nat /\ a > 0 /\ Owner[p] \in Merchants
  BY MerchantAssumption DEF OpenDispute, NewDisputeAllowed
<1>2. a <= payments[p].captured
  <2>1. payments[p].captured \in Nat /\ payments[p].refunded \in Nat
    BY DEF IInv, TypeOK, PaymentRow
  <2>2. QED
    BY <1>1, <2>1 DEF OpenDispute
<1>3. /\ d \in CallType /\ d.pc = "commit" /\ d.op = "dispute" /\ d.target = None
      /\ d.payment = p /\ d.merchant = Owner[p] /\ d.amount = a
  BY <1>1 DEF NoCall, CallType, Running, Finished
<1>4. Start(c, d)
  BY DEF OpenDispute
<1> HIDE DEF d
<1>5. CallOK(c)'
  BY <1>1, <1>2, <1>3, <1>4, StartFacts DEF CallOK, DisputeCall, Running
<1>6. QED
  BY <1>3, <1>4, <1>5, StartStep

\* DisputeService.Resolve carries merchant and amount of the row it read.
LEMMA ResolveDisputeStep ==
  ASSUME IInv, NEW c \in Calls, NEW q \in Calls, NEW to \in {"won", "lost"},
         ResolveDispute(c, q, to)
  PROVE  IInv'
<1> DEFINE d == [NoCall EXCEPT !.pc = "lock", !.op = "resolve", !.target = q, !.to = to,
                               !.merchant = disputes[q].merchant,
                               !.payment = disputes[q].payment,
                               !.amount = disputes[q].amount]
<1>1. disputes[q].status # "absent" /\ disputes[q].merchant \in Merchants
      /\ disputes[q].payment \in Payments
      /\ disputes[q].amount \in Nat /\ disputes[q].amount > 0
  BY DEF IInv, TypeOK, RowType, RowOK, ResolveDispute
<1>2. /\ d \in CallType /\ d.pc = "lock" /\ d.op = "resolve" /\ d.target = q /\ d.to = to
      /\ d.merchant = disputes[q].merchant /\ d.amount = disputes[q].amount
  BY <1>1 DEF NoCall, CallType, Running, Finished
<1>3. Start(c, d)
  BY DEF ResolveDispute
<1> HIDE DEF d
<1>4. CallOK(c)'
  BY <1>1, <1>2, <1>3, StartFacts DEF CallOK, ResolveCall, Settles, Running
<1>5. QED
  BY <1>2, <1>3, <1>4, StartStep

\* A call that is refused at once.
LEMMA RejectStep ==
  ASSUME IInv, NEW c \in Calls, NEW op \in {"payout", "dispute", "complete", "resolve"},
         Reject(c, op)
  PROVE  IInv'
<1> DEFINE d == [NoCall EXCEPT !.pc = "error", !.op = op]
<1>1. d \in CallType /\ d.pc = "error"
  BY DEF NoCall, CallType, Running, Finished
<1>2. Start(c, d)
  BY DEF Reject
<1> HIDE DEF d
<1>3. CallOK(c)'
  BY <1>1, <1>2, StartFacts DEF CallOK, Running
<1>4. QED
  BY <1>1, <1>2, <1>3, StartStep
-----------------------------------------------------------------------------
(***************************************************************************)
(* Locks and early returns                                                 *)
(***************************************************************************)
\* Moving the program counter of a call changes nothing else of it.
LEMMA MoveFacts ==
  ASSUME TypeOK, NEW c \in Calls, NEW pc \in {"idle"} \cup Running \cup Finished,
         call' = [call EXCEPT ![c].pc = pc]
  PROVE  /\ [call[c] EXCEPT !.pc = pc] \in CallType
         /\ call' = [call EXCEPT ![c] = [call[c] EXCEPT !.pc = pc]]
         /\ call'[c].pc = pc /\ call'[c].op = call[c].op /\ call'[c].to = call[c].to
         /\ call'[c].target = call[c].target /\ call'[c].merchant = call[c].merchant
         /\ call'[c].payment = call[c].payment /\ call'[c].amount = call[c].amount
<1>1. call[c] \in CallType
  BY DEF TypeOK
<1> DEFINE d == [call[c] EXCEPT !.pc = pc]
<1>2. /\ d \in CallType /\ d.pc = pc /\ d.op = call[c].op /\ d.to = call[c].to
      /\ d.target = call[c].target /\ d.merchant = call[c].merchant
      /\ d.payment = call[c].payment /\ d.amount = call[c].amount
  BY <1>1 DEF CallType
<1>3. call' = [call EXCEPT ![c] = d]
  OBVIOUS
<1> HIDE DEF d
<1>4. call'[c] = d
  BY <1>3 DEF TypeOK
<1>5. QED
  BY <1>2, <1>3, <1>4 DEF d

\* pg_advisory_xact_lock is granted.
LEMMA LockMerchantStep ==
  ASSUME IInv, NEW c \in Calls, LockMerchant(c)
  PROVE  IInv'
<1>1. /\ TypeOK /\ CallOK(c) /\ call[c].pc = "lock" /\ call[c].op = "payout"
      /\ advisory[call[c].merchant] = None
      /\ call' = [call EXCEPT ![c].pc = "balance"]
      /\ UNCHANGED tables /\ rowLock' = rowLock
  BY DEF IInv, LockMerchant, MerchantFree
<1>2. call[c].merchant \in Merchants
  BY <1>1 DEF CallOK, Running
<1>3. advisory' = [advisory EXCEPT ![call[c].merchant] = c]
  BY DEF LockMerchant
<1>4. /\ advisory' \in [Merchants -> Calls \cup {None}]
      /\ advisory'[call[c].merchant] = c
      /\ \A b \in Calls \ {c} : \A m \in Merchants : advisory[m] = b => advisory'[m] = b
  BY <1>1, <1>2, <1>3, MerchantAssumption DEF TypeOK
<1>5. "balance" \in {"idle"} \cup Running \cup Finished
  BY DEF Running
<1>6. CallOK(c)'
  BY <1>1, <1>2, <1>4, <1>5, MoveFacts DEF CallOK, PayoutCall, FreshId, Running, tables
<1>7. PICK d \in CallType : call' = [call EXCEPT ![c] = d]
  BY <1>1, <1>5, MoveFacts
<1>8. rowLock' \in [Calls -> Calls \cup {None}] /\ \A q \in Calls : rowLock'[q] = rowLock[q]
  BY <1>1 DEF TypeOK
<1>9. QED
  BY <1>1, <1>4, <1>6, <1>7, <1>8, QuietStep

\* The balance covers the payout: what is reserved and settled stays within what was
\* captured, because refunds and disputes are not negative.
LEMMA CheckBalanceStep ==
  ASSUME IInv, NEW c \in Calls, CheckBalance(c)
  PROVE  IInv'
<1> DEFINE m == call[c].merchant
<1>1. /\ TypeOK /\ CallOK(c) /\ call[c].pc = "balance"
      /\ call' = [call EXCEPT ![c].pc = "commit"]
      /\ UNCHANGED tables /\ UNCHANGED <<advisory, rowLock>>
      /\ ledger[m]["available"] >= call[c].amount
  BY DEF IInv, CheckBalance, AvailableBalance, locks
<1>2. m \in Merchants /\ call[c].op = "payout" /\ PayoutCall(c) /\ call[c].amount \in Nat
  BY <1>1 DEF CallOK, Running, CompleteCall, DisputeCall, ResolveCall, TypeOK, CallType
<1>3. Reserved(m, call[c].amount)
  <2>1. /\ ledger[m]["payout_pending"] = Total(payouts, m, "pending")
        /\ ledger[m]["payout_settled"] = Total(payouts, m, "paid")
        /\ ledger[m]["available"] =
             Captured(m) - Refunded(m)
             - Total(payouts, m, "pending") - Total(payouts, m, "paid")
             - Total(disputes, m, "open") - Total(disputes, m, "lost")
    BY <1>2 DEF IInv, LedgerMatchesRows
  <2>2. (\A q \in Calls : payouts[q].amount \in Nat) /\ (\A q \in Calls : disputes[q].amount \in Nat)
    BY <1>1 DEF TypeOK, RowType
  <2>3. /\ Total(payouts, m, "pending") \in Nat /\ Total(payouts, m, "paid") \in Nat
        /\ Total(disputes, m, "open") \in Nat /\ Total(disputes, m, "lost") \in Nat
    BY <2>2, TotalNat
  <2>4. Captured(m) \in Nat /\ Refunded(m) \in Nat
    BY <1>1, <1>2, PaymentSums
  <2>5. QED
    BY <1>1, <1>2, <2>1, <2>3, <2>4 DEF Reserved
<1>4. Captured(m)' = Captured(m)
  BY <1>1, PaymentSumsSame DEF tables
<1>5. "commit" \in {"idle"} \cup Running \cup Finished
  BY DEF Running
<1>6. CallOK(c)'
  BY <1>1, <1>2, <1>3, <1>4, <1>5, MoveFacts
  DEF CallOK, PayoutCall, Reserved, FreshId, Running, tables
<1>7. QED
  BY <1>1, <1>5, <1>6, MoveFacts, QuietStep DEF TypeOK

\* The balance is too small: the transaction ends and its lock with it.
LEMMA InsufficientBalanceStep ==
  ASSUME IInv, NEW c \in Calls, InsufficientBalance(c)
  PROVE  IInv'
<1>1. /\ TypeOK /\ CallOK(c) /\ call[c].pc = "balance"
      /\ call' = [call EXCEPT ![c].pc = "error"]
      /\ advisory' = [advisory EXCEPT ![call[c].merchant] = None]
      /\ UNCHANGED tables /\ rowLock' = rowLock
  BY DEF IInv, InsufficientBalance
<1>2. call[c].merchant \in Merchants /\ advisory[call[c].merchant] = c
  BY <1>1 DEF CallOK, Running, PayoutCall, CompleteCall, DisputeCall, ResolveCall, TypeOK, CallType
<1>3. /\ advisory' \in [Merchants -> Calls \cup {None}]
      /\ \A b \in Calls \ {c} : \A m \in Merchants : advisory[m] = b => advisory'[m] = b
  BY <1>1, <1>2 DEF TypeOK
<1>4. "error" \in {"idle"} \cup Running \cup Finished
  BY DEF Finished
<1>5. CallOK(c)'
  BY <1>1, <1>4, MoveFacts DEF CallOK, Running
<1>6. QED
  BY <1>1, <1>3, <1>4, <1>5, MoveFacts, QuietStep DEF TypeOK

\* SELECT ... FOR UPDATE is granted on a row that is not settled.
LEMMA LockRowStep ==
  ASSUME IInv, NEW c \in Calls, LockRow(c)
  PROVE  IInv'
<1>1. /\ TypeOK /\ CallOK(c) /\ call[c].pc = "lock" /\ call[c].op \in {"complete", "resolve"}
      /\ rowLock[call[c].target] = None
      /\ call' = [call EXCEPT ![c].pc = "commit"]
      /\ rowLock' = [rowLock EXCEPT ![call[c].target] = c]
      /\ UNCHANGED tables /\ advisory' = advisory
      /\ Unsettled(c)
  BY DEF IInv, LockRow, RowFree
<1>2. call[c].target \in Calls
  BY <1>1 DEF CallOK, CompleteCall, ResolveCall, Settles, Running
<1>3. /\ rowLock' \in [Calls -> Calls \cup {None}]
      /\ rowLock'[call[c].target] = c
      /\ \A b \in Calls \ {c} : \A q \in Calls : rowLock[q] = b => rowLock'[q] = b
  BY <1>1, <1>2, MerchantAssumption DEF TypeOK
<1>4. "commit" \in {"idle"} \cup Running \cup Finished
  BY DEF Running
<1>5. CallOK(c)'
  BY <1>1, <1>2, <1>3, <1>4, MoveFacts
  DEF CallOK, CompleteCall, ResolveCall, Settles, Unsettled, FreshId, Running, tables
<1>6. /\ advisory' \in [Merchants -> Calls \cup {None}]
      /\ \A b \in Calls \ {c} : \A m \in Merchants : advisory[m] = b => advisory'[m] = b
  BY <1>1 DEF TypeOK
<1>7. PICK d \in CallType : call' = [call EXCEPT ![c] = d]
  BY <1>1, <1>4, MoveFacts
<1>8. \A b \in Calls \ {c} :
        /\ \A m \in Merchants : advisory[m] = b => advisory'[m] = b
        /\ \A q \in Calls : rowLock[q] = b => rowLock'[q] = b
  BY <1>3, <1>6
<1>9. UNCHANGED tables
  BY <1>1
<1>10. rowLock' \in [Calls -> Calls \cup {None}] /\ advisory' \in [Merchants -> Calls \cup {None}]
  BY <1>3, <1>6
<1>11. QED
  BY <1>5, <1>7, <1>8, <1>9, <1>10, QuietStep

\* Another call settled the row first.
LEMMA AlreadySettledStep ==
  ASSUME IInv, NEW c \in Calls, AlreadySettled(c)
  PROVE  IInv'
<1>1. /\ TypeOK /\ call' = [call EXCEPT ![c].pc = "error"]
      /\ UNCHANGED tables /\ UNCHANGED <<advisory, rowLock>>
  BY DEF IInv, AlreadySettled, locks
<1>2. "error" \in {"idle"} \cup Running \cup Finished
  BY DEF Finished
<1>3. CallOK(c)'
  BY <1>1, <1>2, MoveFacts DEF CallOK, Running
<1>4. QED
  BY <1>1, <1>2, <1>3, MoveFacts, QuietStep DEF TypeOK

\* The end of a transaction releases its locks and no others.
LEMMA ReleaseFacts ==
  ASSUME TypeOK, NEW c \in Calls, Release(c)
  PROVE  /\ advisory' \in [Merchants -> Calls \cup {None}]
         /\ rowLock' \in [Calls -> Calls \cup {None}]
         /\ \A b \in Calls \ {c} :
              /\ \A m \in Merchants : advisory[m] = b => advisory'[m] = b
              /\ \A q \in Calls : rowLock[q] = b => rowLock'[q] = b
BY DEF TypeOK, Release

\* A handler that dies rolls back.
LEMMA AbortStep ==
  ASSUME IInv, NEW c \in Calls, Abort(c)
  PROVE  IInv'
<1>1. TypeOK /\ call' = [call EXCEPT ![c].pc = "dead"] /\ UNCHANGED tables /\ Release(c)
  BY DEF IInv, Abort
<1>2. "dead" \in {"idle"} \cup Running \cup Finished
  BY DEF Finished
<1>3. CallOK(c)'
  BY <1>1, <1>2, MoveFacts DEF CallOK, Running
<1>4. QED
  BY <1>1, <1>2, <1>3, MoveFacts, ReleaseFacts, QuietStep
-----------------------------------------------------------------------------
(***************************************************************************)
(* Captures and refunds                                                    *)
(***************************************************************************)
\* A transaction moves an amount between two accounts of one merchant.
Moved(m, from, to, amount) ==
  /\ ledger' \in [Merchants -> [Accounts -> Int]]
  /\ \A n \in Merchants \ {m} : ledger'[n] = ledger[n]
  /\ ledger'[m][from] = ledger[m][from] - amount
  /\ ledger'[m][to] = ledger[m][to] + amount
  /\ \A a \in Accounts \ {from, to} : ledger'[m][a] = ledger[m][a]

\* Posting the two entries of a transfer does that.
LEMMA LedgerStep ==
  ASSUME TypeOK, NEW m \in Merchants, NEW from \in Accounts, NEW to \in Accounts, from # to,
         NEW amount \in Int, NEW r, r = Post(ledger[m], Transfer(from, to, amount)),
         ledger' = [ledger EXCEPT ![m] = r]
  PROVE  Moved(m, from, to, amount)
<1>1. PICK b \in [Accounts -> Int] : b = ledger[m]
  BY DEF TypeOK
<1>2. r = Post(b, Transfer(from, to, amount))
  BY <1>1
<1>3. r \in [Accounts -> Int]
  BY <1>2, PostTransfer
<1>4. r[from] = b[from] - amount
  BY <1>2, PostTransfer
<1>5. r[to] = b[to] + amount
  BY <1>2, PostTransfer
<1>6. \A a \in Accounts \ {from, to} : r[a] = b[a]
  BY <1>2, PostTransfer
<1>7. ledger' \in [Merchants -> [Accounts -> Int]] /\ ledger'[m] = r
      /\ \A n \in Merchants \ {m} : ledger'[n] = ledger[n]
  BY <1>3 DEF TypeOK
<1>8. QED
  BY <1>1, <1>4, <1>5, <1>6, <1>7 DEF Moved

\* The balances of a merchant are integers.
LEMMA LedgerInt ==
  ASSUME TypeOK, NEW m \in Merchants, NEW a \in Accounts
  PROVE  ledger[m][a] \in Int
BY DEF TypeOK

\* The accounts of a merchant.
LEMMA AccountNames ==
  /\ "pending" \in Accounts /\ "available" \in Accounts /\ "customer_refunded" \in Accounts
  /\ "payout_pending" \in Accounts /\ "payout_settled" \in Accounts
  /\ "dispute_frozen" \in Accounts /\ "chargeback" \in Accounts
BY DEF Accounts

\* A step on the row of one payment that does not take back a capture, leaves the
\* tables of payouts and disputes alone and books on the available account what it
\* adds to the captures and the refunds.
LEMMA PaymentStep ==
  ASSUME IInv, NEW x \in Payments, NEW r \in PaymentRow,
         payments' = [payments EXCEPT ![x] = r],
         payments[x].captured <= r.captured,
         ledger' \in [Merchants -> [Accounts -> Int]],
         \A n \in Merchants \ {Owner[x]} : ledger'[n] = ledger[n],
         \A a \in {"payout_pending", "payout_settled", "dispute_frozen", "chargeback"} :
           ledger'[Owner[x]][a] = ledger[Owner[x]][a],
         ledger'[Owner[x]]["available"] =
           ledger[Owner[x]]["available"] + (r.captured - payments[x].captured)
                                         - (r.refunded - payments[x].refunded),
         UNCHANGED <<payouts, disputes, outbox, advisory, rowLock, call>>
  PROVE  IInv'
<1>1. TypeOK /\ TypeOK'
  BY DEF IInv, TypeOK
<1>2. /\ payments'[x] = r /\ \A p \in Payments \ {x} : payments'[p] = payments[p]
      /\ \A p \in Payments : payments[p] \in PaymentRow
      /\ Owner[x] \in Merchants
  BY <1>1, MerchantAssumption DEF TypeOK
<1>3. /\ r.captured \in Nat /\ r.refunded \in Nat
      /\ payments[x].captured \in Nat /\ payments[x].refunded \in Nat
  BY <1>2 DEF PaymentRow
<1>4. ASSUME NEW m \in Merchants
      PROVE  /\ Captured(m) \in Nat /\ Refunded(m) \in Nat
             /\ Captured(m)' \in Nat /\ Refunded(m)' \in Nat
             /\ m # Owner[x] => Captured(m)' = Captured(m) /\ Refunded(m)' = Refunded(m)
             /\ m = Owner[x] =>
                  /\ Captured(m)' = Captured(m) + (r.captured - payments[x].captured)
                  /\ Refunded(m)' = Refunded(m) + (r.refunded - payments[x].refunded)
  <2>1. Captured(m) \in Nat /\ Refunded(m) \in Nat
    BY <1>1, PaymentSums
  <2>2. /\ Captured(m)' \in Nat /\ Refunded(m)' \in Nat
        /\ m # Owner[x] => Captured(m)' = Captured(m) /\ Refunded(m)' = Refunded(m)
        /\ m = Owner[x] =>
              /\ Captured(m)' + payments[x].captured = Captured(m) + payments'[x].captured
              /\ Refunded(m)' + payments[x].refunded = Refunded(m) + payments'[x].refunded
    BY <1>1, <1>2, PaymentSumsStep
  <2>3. QED
    BY <1>2, <1>3, <2>1, <2>2
<1>5. \A m \in Merchants : Captured(m) <= Captured(m)'
  BY <1>3, <1>4
<1>6. ASSUME NEW m \in Merchants
      PROVE  \A a \in {"payout_pending", "payout_settled", "dispute_frozen", "chargeback"} :
               ledger'[m][a] = ledger[m][a]
  OBVIOUS
<1>7. \A p \in Payments : payments[p].captured <= payments'[p].captured
                          /\ payments'[p].captured \in Nat
  BY <1>2, <1>3 DEF PaymentRow
<1>8. ASSUME NEW b \in Calls PROVE CallOK(b)'
  <2>1. CallOK(b) /\ call'[b] = call[b]
    BY DEF IInv
  <2>2. RowsKept(payouts, payouts') /\ RowsKept(disputes, disputes')
    BY DEF RowsKept
  <2>3. call[b].pc \in {"idle"} \cup Running => FreshId(b)'
    BY <2>1 DEF CallOK, FreshId
  <2>4. /\ call[b].pc = "commit" /\ call[b].op = "complete" =>
             payouts'[call[b].target].status = "pending"
        /\ call[b].pc = "commit" /\ call[b].op = "resolve" =>
             disputes'[call[b].target].status = "open"
    BY <2>1 DEF CallOK, CompleteCall, ResolveCall, Running
  <2>5. ASSUME call[b].pc = "commit", call[b].op = "payout"
        PROVE  Reserved(call[b].merchant, call[b].amount)'
    <3> DEFINE m == call[b].merchant
    <3>1. m \in Merchants /\ Reserved(m, call[b].amount) /\ call[b].amount \in Nat
      BY <1>1, <2>1, <2>5 DEF CallOK, PayoutCall, Reserved, Running, TypeOK, CallType
    <3>2. ledger[m]["payout_pending"] \in Int /\ ledger[m]["payout_settled"] \in Int
      BY <1>1, <3>1, LedgerInt, AccountNames
    <3>3. ledger'[m]["payout_pending"] = ledger[m]["payout_pending"]
          /\ ledger'[m]["payout_settled"] = ledger[m]["payout_settled"]
      BY <1>6, <3>1
    <3>4. Captured(m) \in Nat /\ Captured(m)' \in Nat /\ Captured(m) <= Captured(m)'
      BY <1>4, <1>5, <3>1
    <3>5. QED
      BY <2>1, <3>1, <3>2, <3>3, <3>4 DEF Reserved
  <2>6. QED
    BY <1>1, <1>7, <2>1, <2>2, <2>3, <2>4, <2>5, OtherCall
<1>9. \A q \in Calls : RowOK(q)'
  BY DEF IInv, RowOK
<1>10. ASSUME NEW m \in Merchants
       PROVE  /\ ledger'[m]["payout_pending"] = Total(payouts, m, "pending")'
              /\ ledger'[m]["payout_settled"] = Total(payouts, m, "paid")'
              /\ ledger'[m]["dispute_frozen"] = Total(disputes, m, "open")'
              /\ ledger'[m]["chargeback"] = Total(disputes, m, "lost")'
              /\ ledger'[m]["available"] =
                   Captured(m)' - Refunded(m)'
                   - Total(payouts, m, "pending")' - Total(payouts, m, "paid")'
                   - Total(disputes, m, "open")' - Total(disputes, m, "lost")'
  <2>1. \A s : Total(payouts, m, s)' = Total(payouts, m, s)
               /\ Total(disputes, m, s)' = Total(disputes, m, s)
    BY Zenon DEF Total
  <2>2. /\ ledger[m]["payout_pending"] = Total(payouts, m, "pending")
        /\ ledger[m]["payout_settled"] = Total(payouts, m, "paid")
        /\ ledger[m]["dispute_frozen"] = Total(disputes, m, "open")
        /\ ledger[m]["chargeback"] = Total(disputes, m, "lost")
        /\ ledger[m]["available"] =
             Captured(m) - Refunded(m)
             - Total(payouts, m, "pending") - Total(payouts, m, "paid")
             - Total(disputes, m, "open") - Total(disputes, m, "lost")
    BY DEF IInv, LedgerMatchesRows
  <2>3. \A a \in Accounts : ledger[m][a] \in Int
    BY <1>1, LedgerInt
  <2>4. ledger'[m]["available"] = ledger[m]["available"] + (Captured(m)' - Captured(m))
                                                         - (Refunded(m)' - Refunded(m))
    <3>1. CASE m = Owner[x]
      <4> DEFINE A == ledger[m]["available"]
                 dc == r.captured - payments[x].captured
                 dr == r.refunded - payments[x].refunded
      <4>1. dc \in Int /\ dr \in Int /\ A \in Int
        BY <1>3, <2>3, AccountNames
      <4>2. ledger'[m]["available"] = A + dc - dr
        BY <3>1
      <4>3. Captured(m)' = Captured(m) + dc /\ Refunded(m)' = Refunded(m) + dr
        BY <1>4, <3>1
      <4> HIDE DEF A, dc, dr
      <4>4. ledger'[m]["available"] = A + (Captured(m)' - Captured(m)) - (Refunded(m)' - Refunded(m))
        BY <1>4, <4>1, <4>2, <4>3
      <4>5. QED
        BY <4>4 DEF A
    <3>2. CASE m # Owner[x]
      <4>1. ledger'[m] = ledger[m] /\ ledger[m]["available"] \in Int
        BY <2>3, <3>2, AccountNames
      <4>2. Captured(m)' - Captured(m) = 0 /\ Refunded(m)' - Refunded(m) = 0
        BY <1>4, <3>2
      <4>3. QED
        BY <4>1, <4>2
    <3>3. QED
      BY <3>1, <3>2
  <2>5. QED
    BY <1>4, <1>6, <2>1, <2>2, <2>3, <2>4, AccountNames
<1>11. LedgerMatchesRows'
  BY <1>10 DEF LedgerMatchesRows
<1>12. PayoutsWithinCaptures'
  <2> SUFFICES ASSUME NEW m \in Merchants
               PROVE  ledger'[m]["payout_pending"] + ledger'[m]["payout_settled"] <= Captured(m)'
    BY DEF PayoutsWithinCaptures
  <2>1. ledger[m]["payout_pending"] + ledger[m]["payout_settled"] <= Captured(m)
    BY DEF IInv, PayoutsWithinCaptures
  <2>2. ledger[m]["payout_pending"] \in Int /\ ledger[m]["payout_settled"] \in Int
    BY <1>1, LedgerInt, AccountNames
  <2>3. Captured(m) \in Nat /\ Captured(m)' \in Nat /\ Captured(m) <= Captured(m)'
    BY <1>4, <1>5
  <2>4. ledger'[m]["payout_pending"] = ledger[m]["payout_pending"]
        /\ ledger'[m]["payout_settled"] = ledger[m]["payout_settled"]
    BY <1>6
  <2>5. QED
    BY <2>1, <2>2, <2>3, <2>4
<1>13. EventsMatchRows'
  BY Zenon DEF IInv, EventsMatchRows, History
<1>14. DisputeWithinCaptured'
  <2> SUFFICES ASSUME NEW q \in Calls, disputes[q].status # "absent"
               PROVE  disputes[q].amount <= payments'[disputes[q].payment].captured
    BY DEF DisputeWithinCaptured
  <2>1. disputes[q].amount <= payments[disputes[q].payment].captured
        /\ disputes[q].payment \in Payments
    BY DEF IInv, DisputeWithinCaptured, RowOK
  <2>2. disputes[q].amount \in Nat
    BY <1>1 DEF TypeOK, RowType
  <2>3. QED
    BY <1>2, <1>7, <2>1, <2>2 DEF PaymentRow
<1>15. QED
  BY <1>1, <1>8, <1>9, <1>11, <1>12, <1>13, <1>14 DEF IInv

\* A capture.
LEMMA CaptureStep ==
  ASSUME IInv, NEW p \in Payments, NEW a \in Amounts, Capture(p, a)
  PROVE  IInv'
<1> DEFINE n == payments[p].captured + a
           r == [payments[p] EXCEPT !.captured = n, !.status = "captured"]
<1>1. TypeOK /\ payments[p] \in PaymentRow /\ Owner[p] \in Merchants
  BY MerchantAssumption DEF IInv, TypeOK
<1>2. a \in Nat /\ payments[p].captured \in Nat /\ payments[p].refunded \in Nat
  BY <1>1, MerchantAssumption DEF Capture, ValidateCapture, PaymentRow
<1>3. /\ r \in PaymentRow /\ r.captured = n /\ n = payments[p].captured + a
      /\ r.refunded = payments[p].refunded
  <2>1. n \in Nat /\ n = payments[p].captured + a
    BY <1>2
  <2> HIDE DEF n
  <2>2. QED
    BY <1>1, <2>1 DEF PaymentRow, PaymentStatus
<1>4. payments' = [payments EXCEPT ![p] = r]
  BY DEF Capture
<1>5. PICK l : /\ l = Post(ledger[Owner[p]], Transfer("pending", "available", a))
               /\ ledger' = [ledger EXCEPT ![Owner[p]] = l]
  BY DEF Capture
<1>6. /\ ledger' \in [Merchants -> [Accounts -> Int]]
      /\ \A m \in Merchants \ {Owner[p]} : ledger'[m] = ledger[m]
      /\ ledger'[Owner[p]]["available"] = ledger[Owner[p]]["available"] + a
      /\ \A acc \in Accounts \ {"pending", "available"} :
           ledger'[Owner[p]][acc] = ledger[Owner[p]][acc]
  <2>1. a \in Int
    BY <1>2
  <2>2. Moved(Owner[p], "pending", "available", a)
    BY <1>1, <1>5, <2>1, AccountNames, LedgerStep
  <2>3. QED
    BY <2>2, AccountNames DEF Moved
<1>7. ledger[Owner[p]]["available"] \in Int
  BY <1>1, LedgerInt, AccountNames
<1>8. UNCHANGED <<payouts, disputes, outbox, advisory, rowLock, call>>
  BY DEF Capture, locks
<1> HIDE DEF r, n
<1>9. /\ payments[p].captured <= r.captured
      /\ ledger'[Owner[p]]["available"] =
           ledger[Owner[p]]["available"] + (r.captured - payments[p].captured)
                                         - (r.refunded - payments[p].refunded)
  BY <1>2, <1>3, <1>6, <1>7
<1>10. \A acc \in {"payout_pending", "payout_settled", "dispute_frozen", "chargeback"} :
         ledger'[Owner[p]][acc] = ledger[Owner[p]][acc]
  BY <1>6, AccountNames
<1>11. QED
  BY <1>3, <1>4, <1>6, <1>8, <1>9, <1>10, PaymentStep

\* A refund.
LEMMA RefundStep ==
  ASSUME IInv, NEW p \in Payments, NEW a \in Amounts, Refund(p, a)
  PROVE  IInv'
<1> DEFINE n == payments[p].refunded + a
           r == [payments[p] EXCEPT !.refunded = n, !.status = "refunded"]
<1>1. TypeOK /\ payments[p] \in PaymentRow /\ Owner[p] \in Merchants
  BY MerchantAssumption DEF IInv, TypeOK
<1>2. a \in Nat /\ payments[p].captured \in Nat /\ payments[p].refunded \in Nat
  BY <1>1, MerchantAssumption DEF Refund, ValidateRefund, PaymentRow
<1>3. /\ r \in PaymentRow /\ r.refunded = n /\ n = payments[p].refunded + a
      /\ r.captured = payments[p].captured
  <2>1. n \in Nat /\ n = payments[p].refunded + a
    BY <1>2
  <2> HIDE DEF n
  <2>2. QED
    BY <1>1, <2>1 DEF PaymentRow, PaymentStatus
<1>4. payments' = [payments EXCEPT ![p] = r]
  BY DEF Refund
<1>5. PICK l : /\ l = Post(ledger[Owner[p]], Transfer("available", "customer_refunded", a))
               /\ ledger' = [ledger EXCEPT ![Owner[p]] = l]
  BY DEF Refund
<1>6. /\ ledger' \in [Merchants -> [Accounts -> Int]]
      /\ \A m \in Merchants \ {Owner[p]} : ledger'[m] = ledger[m]
      /\ ledger'[Owner[p]]["available"] = ledger[Owner[p]]["available"] - a
      /\ \A acc \in Accounts \ {"available", "customer_refunded"} :
           ledger'[Owner[p]][acc] = ledger[Owner[p]][acc]
  <2>1. a \in Int
    BY <1>2
  <2>2. Moved(Owner[p], "available", "customer_refunded", a)
    BY <1>1, <1>5, <2>1, AccountNames, LedgerStep
  <2>3. QED
    BY <2>2, AccountNames DEF Moved
<1>7. ledger[Owner[p]]["available"] \in Int
  BY <1>1, LedgerInt, AccountNames
<1>8. UNCHANGED <<payouts, disputes, outbox, advisory, rowLock, call>>
  BY DEF Refund, locks
<1> HIDE DEF r, n
<1>9. /\ payments[p].captured <= r.captured
      /\ ledger'[Owner[p]]["available"] =
           ledger[Owner[p]]["available"] + (r.captured - payments[p].captured)
                                         - (r.refunded - payments[p].refunded)
  BY <1>2, <1>3, <1>6, <1>7
<1>10. \A acc \in {"payout_pending", "payout_settled", "dispute_frozen", "chargeback"} :
         ledger'[Owner[p]][acc] = ledger[Owner[p]][acc]
  BY <1>6, AccountNames
<1>11. QED
  BY <1>3, <1>4, <1>6, <1>8, <1>9, <1>10, PaymentStep
-----------------------------------------------------------------------------
(***************************************************************************)
(* Commits                                                                 *)
(***************************************************************************)
\* What a commit adds to the totals of a merchant it adds to the balances too, and
\* takes from what is available.
Delta(m, dp, ds, df, dk) ==
  /\ Total(payouts, m, "pending")' = Total(payouts, m, "pending") + dp
  /\ Total(payouts, m, "paid")' = Total(payouts, m, "paid") + ds
  /\ Total(disputes, m, "open")' = Total(disputes, m, "open") + df
  /\ Total(disputes, m, "lost")' = Total(disputes, m, "lost") + dk
  /\ ledger'[m]["payout_pending"] = ledger[m]["payout_pending"] + dp
  /\ ledger'[m]["payout_settled"] = ledger[m]["payout_settled"] + ds
  /\ ledger'[m]["dispute_frozen"] = ledger[m]["dispute_frozen"] + df
  /\ ledger'[m]["chargeback"] = ledger[m]["chargeback"] + dk
  /\ ledger'[m]["available"] = ledger[m]["available"] - dp - ds - df - dk

\* The totals of both tables are natural numbers.
LEMMA TotalsNat ==
  ASSUME TypeOK, NEW m, NEW s
  PROVE  Total(payouts, m, s) \in Nat /\ Total(disputes, m, s) \in Nat
<1>1. (\A q \in Calls : payouts[q].amount \in Nat) /\ (\A q \in Calls : disputes[q].amount \in Nat)
  BY DEF TypeOK, RowType
<1>2. QED
  BY <1>1, TotalNat

\* Balances that follow the totals still match them.
LEMMA DeltaMatches ==
  ASSUME TypeOK, LedgerMatchesRows, UNCHANGED payments, NEW m \in Merchants,
         NEW dp \in Int, NEW ds \in Int, NEW df \in Int, NEW dk \in Int,
         Delta(m, dp, ds, df, dk)
  PROVE  /\ ledger'[m]["payout_pending"] = Total(payouts, m, "pending")'
         /\ ledger'[m]["payout_settled"] = Total(payouts, m, "paid")'
         /\ ledger'[m]["dispute_frozen"] = Total(disputes, m, "open")'
         /\ ledger'[m]["chargeback"] = Total(disputes, m, "lost")'
         /\ ledger'[m]["available"] =
              Captured(m)' - Refunded(m)'
              - Total(payouts, m, "pending")' - Total(payouts, m, "paid")'
              - Total(disputes, m, "open")' - Total(disputes, m, "lost")'
<1>1. Captured(m)' = Captured(m) /\ Refunded(m)' = Refunded(m)
  BY PaymentSumsSame
<1>2. Captured(m) \in Nat /\ Refunded(m) \in Nat
  BY PaymentSums
<1>3. /\ Total(payouts, m, "pending") \in Nat /\ Total(payouts, m, "paid") \in Nat
      /\ Total(disputes, m, "open") \in Nat /\ Total(disputes, m, "lost") \in Nat
  BY TotalsNat
<1>4. /\ ledger[m]["payout_pending"] = Total(payouts, m, "pending")
      /\ ledger[m]["payout_settled"] = Total(payouts, m, "paid")
      /\ ledger[m]["dispute_frozen"] = Total(disputes, m, "open")
      /\ ledger[m]["chargeback"] = Total(disputes, m, "lost")
      /\ ledger[m]["available"] =
           Captured(m) - Refunded(m)
           - Total(payouts, m, "pending") - Total(payouts, m, "paid")
           - Total(disputes, m, "open") - Total(disputes, m, "lost")
  BY DEF LedgerMatchesRows
<1>5. QED
  BY <1>1, <1>2, <1>3, <1>4 DEF Delta

\* The history of one row, and that all rows match theirs.
HistoryOK(q) ==
  /\ \A e, f \in History(q) : e.type = f.type => e = f
  /\ {e.type : e \in History(q)} = Steps(payouts[q], "created", {"paid", "failed"})
                                   \cup Steps(disputes[q], "opened", {"won", "lost"})

\* Call c writes row x, which is its own or one it has locked, announces that in the
\* row's history and touches no other row.
RowWritten(c, x) ==
  /\ x = c \/ (rowLock[x] = c /\ ~FreshId(x))
  /\ \A q \in Calls \ {x} : /\ payouts'[q] = payouts[q] /\ disputes'[q] = disputes[q]
                            /\ History(q)' = History(q)
  /\ RowsKept(payouts, payouts') /\ RowsKept(disputes, disputes')
  /\ RowOK(x)' /\ HistoryOK(x)'
  /\ disputes'[x].status # "absent" =>
       disputes'[x].amount <= payments[disputes'[x].payment].captured

\* It books that on the accounts of its merchant, and reserves nothing that other
\* payouts count on.
Booked(c, m0, dp, ds, df, dk) ==
  /\ Delta(m0, dp, ds, df, dk)
  /\ \A m \in Merchants \ {m0} : Delta(m, 0, 0, 0, 0)
  /\ dp + ds <= 0 \/ advisory[m0] = c
  /\ Reserved(m0, dp + ds)

\* A commit that writes a row and books it keeps the invariant.
LEMMA CommitFrame ==
  ASSUME IInv, NEW c \in Calls, call[c].pc = "commit", NEW pc \in {"ok", "dead"},
         call' = [call EXCEPT ![c].pc = pc], Release(c), UNCHANGED payments, TypeOK',
         NEW x \in Calls, RowWritten(c, x),
         NEW dp \in Int, NEW ds \in Int, NEW df \in Int, NEW dk \in Int,
         NEW m0 \in Merchants, Booked(c, m0, dp, ds, df, dk)
  PROVE  IInv'
<1> USE DEF RowWritten, Booked
<1>1. TypeOK /\ TypeOK' /\ LedgerMatchesRows
  BY DEF IInv
<1>2. m0 \in Merchants
  OBVIOUS
<1>3. ASSUME NEW m \in Merchants
      PROVE  /\ m = m0 => Delta(m, dp, ds, df, dk)
             /\ m # m0 => Delta(m, 0, 0, 0, 0)
             /\ \A a \in Accounts : ledger[m][a] \in Int
             /\ Captured(m)' = Captured(m) /\ Captured(m) \in Nat
  BY <1>1, LedgerInt, PaymentSums, PaymentSumsSame
<1>4. LedgerMatchesRows'
  <2> SUFFICES ASSUME NEW m \in Merchants
               PROVE  /\ ledger'[m]["payout_pending"] = Total(payouts, m, "pending")'
                      /\ ledger'[m]["payout_settled"] = Total(payouts, m, "paid")'
                      /\ ledger'[m]["dispute_frozen"] = Total(disputes, m, "open")'
                      /\ ledger'[m]["chargeback"] = Total(disputes, m, "lost")'
                      /\ ledger'[m]["available"] =
                           Captured(m)' - Refunded(m)'
                           - Total(payouts, m, "pending")' - Total(payouts, m, "paid")'
                           - Total(disputes, m, "open")' - Total(disputes, m, "lost")'
    BY DEF LedgerMatchesRows
  <2>1. CASE m = m0
    BY <1>1, <1>3, <2>1, DeltaMatches
  <2>2. CASE m # m0
    <3>1. 0 \in Int
      OBVIOUS
    <3>2. Delta(m, 0, 0, 0, 0)
      BY <1>3, <2>2
    <3>3. QED
      BY <1>1, <3>1, <3>2, DeltaMatches
  <2>3. QED
    BY <2>1, <2>2
<1>5. /\ ledger'[m0]["payout_pending"] + ledger'[m0]["payout_settled"] =
           ledger[m0]["payout_pending"] + ledger[m0]["payout_settled"] + (dp + ds)
      /\ \A m \in Merchants \ {m0} :
           ledger'[m]["payout_pending"] + ledger'[m]["payout_settled"] =
             ledger[m]["payout_pending"] + ledger[m]["payout_settled"]
  <2>1. ledger[m0]["payout_pending"] \in Int /\ ledger[m0]["payout_settled"] \in Int
    BY <1>2, <1>3, AccountNames
  <2>2. ledger'[m0]["payout_pending"] = ledger[m0]["payout_pending"] + dp
        /\ ledger'[m0]["payout_settled"] = ledger[m0]["payout_settled"] + ds
    BY <1>2, <1>3 DEF Delta
  <2>3. ASSUME NEW m \in Merchants \ {m0}
        PROVE  ledger'[m]["payout_pending"] = ledger[m]["payout_pending"]
               /\ ledger'[m]["payout_settled"] = ledger[m]["payout_settled"]
    <3>1. ledger[m]["payout_pending"] \in Int /\ ledger[m]["payout_settled"] \in Int
      BY <1>3, AccountNames
    <3>2. Delta(m, 0, 0, 0, 0)
      BY <1>3
    <3>3. QED
      BY <3>1, <3>2 DEF Delta
  <2>4. QED
    BY <2>1, <2>2, <2>3
<1>6. PayoutsWithinCaptures'
  <2> SUFFICES ASSUME NEW m \in Merchants
               PROVE  ledger'[m]["payout_pending"] + ledger'[m]["payout_settled"] <= Captured(m)'
    BY DEF PayoutsWithinCaptures
  <2>1. CASE m = m0
    BY <1>3, <1>5, <2>1 DEF Reserved
  <2>2. CASE m # m0
    BY <1>3, <1>5, <2>2 DEF IInv, PayoutsWithinCaptures
  <2>3. QED
    BY <2>1, <2>2
<1>7. \A b \in Calls \ {c} : /\ \A m \in Merchants : advisory[m] = b => advisory'[m] = b
                             /\ \A q \in Calls : rowLock[q] = b => rowLock'[q] = b
  BY <1>1, ReleaseFacts
<1>8. ASSUME NEW b \in Calls \ {c} PROVE CallOK(b)'
  <2>1. CallOK(b) /\ call'[b] = call[b] /\ call[b] \in CallType
    BY <1>1 DEF IInv, TypeOK
  <2>2. call[b].pc \in {"idle"} \cup Running => FreshId(b)'
    <3> SUFFICES ASSUME call[b].pc \in {"idle"} \cup Running PROVE FreshId(b)'
      OBVIOUS
    <3>1. FreshId(b)
      BY <2>1 DEF CallOK
    <3>2. b # x
      BY <3>1
    <3>3. QED
      BY <3>1, <3>2 DEF FreshId
  <2>3. call[b].pc = "commit" /\ call[b].op = "complete" =>
          payouts'[call[b].target].status = "pending"
    <3> SUFFICES ASSUME call[b].pc = "commit", call[b].op = "complete"
                 PROVE  payouts'[call[b].target].status = "pending"
      OBVIOUS
    <3>1. /\ call[b].target \in Calls /\ rowLock[call[b].target] = b
          /\ payouts[call[b].target].status = "pending"
      BY <2>1 DEF CallOK, CompleteCall, Settles, Running
    <3>2. FreshId(c)
      BY DEF IInv, CallOK, Running
    <3>3. call[b].target # x
      BY <3>1, <3>2 DEF FreshId
    <3>4. QED
      BY <3>1, <3>3
  <2>4. call[b].pc = "commit" /\ call[b].op = "resolve" =>
          disputes'[call[b].target].status = "open"
    <3> SUFFICES ASSUME call[b].pc = "commit", call[b].op = "resolve"
                 PROVE  disputes'[call[b].target].status = "open"
      OBVIOUS
    <3>1. /\ call[b].target \in Calls /\ rowLock[call[b].target] = b
          /\ disputes[call[b].target].status = "open"
      BY <2>1 DEF CallOK, ResolveCall, Settles, Running
    <3>2. FreshId(c)
      BY DEF IInv, CallOK, Running
    <3>3. call[b].target # x
      BY <3>1, <3>2 DEF FreshId
    <3>4. QED
      BY <3>1, <3>3
  <2>5. /\ \A p \in Payments : payments[p].captured <= payments'[p].captured
        /\ \A p \in Payments : payments'[p].captured \in Nat
    BY <1>1 DEF TypeOK, PaymentRow
  <2>6. call[b].pc = "commit" /\ call[b].op = "payout" =>
          Reserved(call[b].merchant, call[b].amount)'
    <3> SUFFICES ASSUME call[b].pc = "commit", call[b].op = "payout"
                 PROVE  Reserved(call[b].merchant, call[b].amount)'
      OBVIOUS
    <3> DEFINE m == call[b].merchant
    <3>1. m \in Merchants /\ advisory[m] = b /\ Reserved(m, call[b].amount) /\ call[b].amount \in Nat
      BY <2>1 DEF CallOK, PayoutCall, Reserved, Running, CallType
    <3>2. ledger[m]["payout_pending"] \in Int /\ ledger[m]["payout_settled"] \in Int
      BY <1>3, <3>1, AccountNames
    <3> DEFINE before == ledger[m]["payout_pending"] + ledger[m]["payout_settled"]
               after == ledger'[m]["payout_pending"] + ledger'[m]["payout_settled"]
    <3>3. before \in Int /\ after \in Int /\ after <= before
      <4>1. CASE m = m0
        <5>1. dp + ds <= 0 /\ dp + ds \in Int
          BY <3>1, <4>1
        <5>2. after = before + (dp + ds) /\ before \in Int
          BY <1>5, <3>2, <4>1
        <5> HIDE DEF before, after
        <5>3. QED
          BY <5>1, <5>2
      <4>2. CASE m # m0
        <5>1. after = before /\ before \in Int
          BY <1>5, <3>1, <3>2, <4>2
        <5> HIDE DEF before, after
        <5>2. QED
          BY <5>1
      <4>3. QED
        BY <4>1, <4>2
    <3>4. before + call[b].amount <= Captured(m) /\ Captured(m)' = Captured(m) /\ Captured(m) \in Nat
      BY <1>3, <3>1 DEF Reserved
    <3>5. after + call[b].amount <= Captured(m)'
      <4> HIDE DEF before, after
      <4>1. QED
        BY <3>1, <3>3, <3>4
    <3>6. QED
      BY <2>1, <3>5 DEF Reserved
  <2>7. QED
    BY <1>1, <1>7, <2>1, <2>2, <2>3, <2>4, <2>5, <2>6, OtherCall
<1>9. CallOK(c)'
  <2>1. pc \in {"idle"} \cup Running \cup Finished
    BY DEF Finished
  <2>2. QED
    BY <1>1, <2>1, MoveFacts DEF CallOK, Running
<1>10. \A q \in Calls : RowOK(q)'
  BY DEF IInv, RowOK
<1>11. EventsMatchRows'
  <2>1. ASSUME NEW q \in Calls \ {x} PROVE HistoryOK(q)'
    <3>1. HistoryOK(q)
      BY DEF IInv, EventsMatchRows, HistoryOK
    <3>2. payouts'[q] = payouts[q] /\ disputes'[q] = disputes[q] /\ History(q)' = History(q)
      OBVIOUS
    <3>3. {e.type : e \in History(q)}' = {e.type : e \in History(q)}
      BY <3>2
    <3>4. QED
      BY <3>1, <3>2, <3>3 DEF HistoryOK
  <2>2. \A q \in Calls : HistoryOK(q)'
    BY <2>1
  <2>3. QED
    BY <2>2 DEF EventsMatchRows, HistoryOK
<1>12. DisputeWithinCaptured'
  BY DEF IInv, DisputeWithinCaptured
<1>13. QED
  BY <1>1, <1>4, <1>6, <1>8, <1>9, <1>10, <1>11, <1>12 DEF IInv

\* The totals of both tables follow what row x contributes to them.
TotalsFollow(x, m, s) ==
  /\ Total(payouts, m, s)' + Weight(payouts[x], m, s) =
       Total(payouts, m, s) + Weight(payouts'[x], m, s)
  /\ Total(disputes, m, s)' + Weight(disputes[x], m, s) =
       Total(disputes, m, s) + Weight(disputes'[x], m, s)
  /\ Total(payouts, m, s)' \in Int /\ Total(payouts, m, s) \in Int
  /\ Total(disputes, m, s)' \in Int /\ Total(disputes, m, s) \in Int

\* They do where x is the only row that changes.
LEMMA RowTotals ==
  ASSUME TypeOK, TypeOK', NEW x \in Calls, NEW m, NEW s,
         \A q \in Calls \ {x} : payouts'[q] = payouts[q] /\ disputes'[q] = disputes[q]
  PROVE  TotalsFollow(x, m, s)
<1>1. /\ \A q \in Calls : payouts[q].amount \in Int /\ payouts'[q].amount \in Int
      /\ \A q \in Calls : disputes[q].amount \in Int /\ disputes'[q].amount \in Int
  BY DEF TypeOK, RowType
<1>2. /\ Total(payouts, m, s) \in Int /\ Total(payouts', m, s) \in Int
      /\ Total(payouts', m, s) + Weight(payouts[x], m, s) =
           Total(payouts, m, s) + Weight(payouts'[x], m, s)
  <2>1. PICK t, u : t = payouts /\ u = payouts'
    OBVIOUS
  <2>2. \A q \in Calls : t[q].amount \in Int /\ u[q].amount \in Int
    BY <1>1, <2>1
  <2>3. \A q \in Calls \ {x} : u[q] = t[q]
    BY <2>1
  <2>4. DifferBy(x, t, u, m, s)
    BY <2>2, <2>3, TotalStep
  <2>5. QED
    BY <2>1, <2>4 DEF DifferBy
<1>3. /\ Total(disputes, m, s) \in Int /\ Total(disputes', m, s) \in Int
      /\ Total(disputes', m, s) + Weight(disputes[x], m, s) =
           Total(disputes, m, s) + Weight(disputes'[x], m, s)
  <2>1. PICK t, u : t = disputes /\ u = disputes'
    OBVIOUS
  <2>2. \A q \in Calls : t[q].amount \in Int /\ u[q].amount \in Int
    BY <1>1, <2>1
  <2>3. \A q \in Calls \ {x} : u[q] = t[q]
    BY <2>1
  <2>4. DifferBy(x, t, u, m, s)
    BY <2>2, <2>3, TotalStep
  <2>5. QED
    BY <2>1, <2>4 DEF DifferBy
<1>4. Total(payouts, m, s)' = Total(payouts', m, s) /\ Total(disputes, m, s)' = Total(disputes', m, s)
  BY Zenon DEF Total
<1>5. QED
  BY <1>2, <1>3, <1>4 DEF TotalsFollow

\* A merchant whose rows and balances a commit does not touch.
LEMMA DeltaZero ==
  ASSUME TypeOK, TypeOK', NEW x \in Calls, NEW m \in Merchants, ledger'[m] = ledger[m],
         \A q \in Calls \ {x} : payouts'[q] = payouts[q] /\ disputes'[q] = disputes[q],
         \A s \in {"pending", "paid"} : /\ Weight(payouts[x], m, s) = 0
                                        /\ Weight(payouts'[x], m, s) = 0,
         \A s \in {"open", "lost"} : /\ Weight(disputes[x], m, s) = 0
                                     /\ Weight(disputes'[x], m, s) = 0
  PROVE  Delta(m, 0, 0, 0, 0)
<1>1. \A a \in Accounts : ledger[m][a] \in Int
  BY LedgerInt
<1>2. \A s \in {"pending", "paid"} : Total(payouts, m, s)' = Total(payouts, m, s)
                                     /\ Total(payouts, m, s) \in Int
  BY RowTotals DEF TotalsFollow
<1>3. \A s \in {"open", "lost"} : Total(disputes, m, s)' = Total(disputes, m, s)
                                  /\ Total(disputes, m, s) \in Int
  BY RowTotals DEF TotalsFollow
<1>4. QED
  BY <1>1, <1>2, <1>3, AccountNames DEF Delta

\* What is common to all commits.
LEMMA CommitFacts ==
  ASSUME IInv, NEW c \in Calls, Commit(c)
  PROVE  /\ TypeOK /\ CallOK(c) /\ call[c] \in CallType /\ call[c].pc = "commit"
         /\ FreshId(c) /\ call[c].merchant \in Merchants
         /\ call[c].amount \in Nat /\ call[c].amount > 0
         /\ UNCHANGED payments /\ Release(c)
         /\ \E pc \in {"ok", "dead"} : call' = [call EXCEPT ![c].pc = pc]
         /\ \E e : /\ e = [id |-> c, aggregate |-> Aggregate(c), type |-> EventType(c)]
                   /\ outbox' = outbox \cup {e}
         /\ \E l : /\ l = Post(ledger[call[c].merchant], Entries(call[c]))
                   /\ ledger' = [ledger EXCEPT ![call[c].merchant] = l]
<1>1. TypeOK /\ CallOK(c) /\ call[c] \in CallType /\ call[c].pc = "commit"
  BY DEF IInv, TypeOK, Commit
<1>2. /\ FreshId(c) /\ call[c].merchant \in Merchants
      /\ call[c].amount \in Nat /\ call[c].amount > 0
  BY <1>1 DEF CallOK, Running, CallType
<1>3. /\ \E pc \in {"ok", "dead"} : call' = [call EXCEPT ![c].pc = pc]
      /\ UNCHANGED payments /\ Release(c)
  BY DEF Commit
<1>4. outbox' = outbox \cup {[id |-> c, aggregate |-> Aggregate(c), type |-> EventType(c)]}
  BY DEF Commit
<1>5. ledger' = [ledger EXCEPT ![call[c].merchant] = Post(ledger[call[c].merchant], Entries(call[c]))]
  BY DEF Commit
<1>6. QED
  BY <1>1, <1>2, <1>3, <1>4, <1>5

\* The types of what a commit writes make up the type invariant.
LEMMA CommitType ==
  ASSUME TypeOK, NEW c \in Calls, NEW pc \in {"ok", "dead"},
         call' = [call EXCEPT ![c].pc = pc], Release(c), UNCHANGED payments,
         payouts' \in [Calls -> RowType({"absent", "pending", "paid", "failed"})],
         disputes' \in [Calls -> RowType({"absent", "open", "won", "lost"})],
         ledger' \in [Merchants -> [Accounts -> Int]],
         NEW e \in Event, outbox' = outbox \cup {e}
  PROVE  TypeOK'
<1>1. pc \in {"idle"} \cup Running \cup Finished
  BY DEF Finished
<1>2. call' \in [Calls -> CallType]
  BY <1>1, MoveFacts DEF TypeOK
<1>3. QED
  BY <1>2, ReleaseFacts DEF TypeOK

\* One more event changes the history of its row only.
LEMMA OutboxStep ==
  ASSUME NEW e, outbox' = outbox \cup {e}
  PROVE  /\ \A q : q # e.aggregate => History(q)' = History(q)
         /\ History(e.aggregate)' = History(e.aggregate) \cup {e}
BY DEF History

\* A row's history after one more event of a kind it did not have.
LEMMA HistoryStep ==
  ASSUME NEW x \in Calls, HistoryOK(x), NEW e, e.aggregate = x, outbox' = outbox \cup {e},
         NEW old, NEW new,
         old = Steps(payouts[x], "created", {"paid", "failed"})
               \cup Steps(disputes[x], "opened", {"won", "lost"}),
         new = Steps(payouts'[x], "created", {"paid", "failed"})
               \cup Steps(disputes'[x], "opened", {"won", "lost"}),
         e.type \notin old, new = old \cup {e.type}
  PROVE  HistoryOK(x)'
<1>1. History(x)' = History(x) \cup {e}
  BY OutboxStep
<1>2. {h.type : h \in History(x)} = old /\ \A h \in History(x) : h.type \in old
  BY DEF HistoryOK
<1>3. {h.type : h \in History(x)'} = old \cup {e.type}
  BY <1>1, <1>2
<1>4. \A h, k \in History(x)' : h.type = k.type => h = k
  BY <1>1, <1>2 DEF HistoryOK
<1>5. QED
  BY <1>3, <1>4 DEF HistoryOK

\* A payout commits: a pending row, reserved from the available balance.
LEMMA CommitPayout ==
  ASSUME IInv, NEW c \in Calls, Commit(c), call[c].op = "payout"
  PROVE  IInv'
<1>a. PICK m0 \in Merchants : m0 = call[c].merchant
  BY CommitFacts
<1> DEFINE a == call[c].amount
           r == Row(c, "pending")
<1>1. /\ TypeOK /\ CallOK(c) /\ call[c] \in CallType /\ call[c].pc = "commit"
      /\ FreshId(c) /\ m0 \in Merchants /\ a \in Nat /\ a > 0
      /\ UNCHANGED payments /\ Release(c)
  BY CommitFacts
<1>2. PICK pc \in {"ok", "dead"} : call' = [call EXCEPT ![c].pc = pc]
  BY CommitFacts
<1>3. call[c].target = None /\ call[c].payment = None /\ advisory[m0] = c /\ Reserved(m0, a)
  BY <1>1, <1>a DEF CallOK, PayoutCall, Reserved, Running
<1>4. /\ r \in RowType({"absent", "pending", "paid", "failed"})
      /\ r.status = "pending" /\ r.merchant = m0 /\ r.amount = a
  BY <1>1, <1>3, <1>a DEF Row, RowType
<1>5. payouts' = [payouts EXCEPT ![c] = r] /\ disputes' = disputes
  BY DEF Commit
<1>6. PICK e : /\ e = [id |-> c, aggregate |-> Aggregate(c), type |-> EventType(c)]
               /\ outbox' = outbox \cup {e}
  BY CommitFacts
<1>7. e \in Event /\ e.aggregate = c /\ e.type = "created"
  <2>1. Aggregate(c) = c /\ EventType(c) = "created"
    BY <1>3 DEF Aggregate, EventType
  <2>2. QED
    BY <1>6, <2>1 DEF Event
<1>8. PICK l : /\ l = Post(ledger[m0], Transfer("available", "payout_pending", a))
               /\ ledger' = [ledger EXCEPT ![m0] = l]
  BY <1>a, CommitFacts DEF Entries
<1>9. Moved(m0, "available", "payout_pending", a)
  <2>1. a \in Int
    BY <1>1
  <2> HIDE DEF a
  <2>2. QED
    BY <1>1, <1>8, <2>1, AccountNames, LedgerStep
<1> HIDE DEF r
<1>10. /\ payouts' \in [Calls -> RowType({"absent", "pending", "paid", "failed"})]
       /\ payouts'[c] = r
       /\ \A q \in Calls \ {c} : payouts'[q] = payouts[q] /\ disputes'[q] = disputes[q]
  BY <1>1, <1>4, <1>5 DEF TypeOK
<1>11. TypeOK'
  BY <1>1, <1>2, <1>5, <1>6, <1>7, <1>9, <1>10, CommitType DEF Moved, TypeOK
<1>12. RowsKept(payouts, payouts') /\ RowsKept(disputes, disputes') /\ RowOK(c)'
  BY <1>1, <1>4, <1>5, <1>10 DEF RowsKept, RowOK, FreshId
<1>13. /\ \A m, s : s # "absent" => Weight(payouts[c], m, s) = 0 /\ Weight(disputes[c], m, s) = 0
       /\ \A m, s : Weight(payouts'[c], m, s) = IF m = m0 /\ s = "pending" THEN a ELSE 0
       /\ \A m, s : s # "absent" => Weight(disputes'[c], m, s) = 0
  BY <1>1, <1>4, <1>5, <1>10 DEF Weight, FreshId
<1>14. Delta(m0, a, 0, 0, 0)
  <2>1. \A acc \in Accounts : ledger[m0][acc] \in Int
    BY <1>1, LedgerInt
  <2>2. /\ Total(payouts, m0, "pending")' = Total(payouts, m0, "pending") + a
        /\ Total(payouts, m0, "paid")' = Total(payouts, m0, "paid") + 0
        /\ Total(disputes, m0, "open")' = Total(disputes, m0, "open") + 0
        /\ Total(disputes, m0, "lost")' = Total(disputes, m0, "lost") + 0
    <3>1. TotalsFollow(c, m0, "pending") /\ TotalsFollow(c, m0, "paid")
          /\ TotalsFollow(c, m0, "open") /\ TotalsFollow(c, m0, "lost")
      BY <1>1, <1>10, <1>11, RowTotals
    <3> HIDE DEF a
    <3>2. QED
      BY <1>1, <1>13, <3>1 DEF TotalsFollow
  <2>3. /\ ledger'[m0]["payout_pending"] = ledger[m0]["payout_pending"] + a
        /\ ledger'[m0]["payout_settled"] = ledger[m0]["payout_settled"] + 0
        /\ ledger'[m0]["dispute_frozen"] = ledger[m0]["dispute_frozen"] + 0
        /\ ledger'[m0]["chargeback"] = ledger[m0]["chargeback"] + 0
        /\ ledger'[m0]["available"] = ledger[m0]["available"] - a - 0 - 0 - 0
    BY <1>1, <1>9, <2>1, AccountNames DEF Moved
  <2>4. QED
    BY <2>2, <2>3 DEF Delta
<1>15. \A m \in Merchants \ {m0} : Delta(m, 0, 0, 0, 0)
  <2> TAKE m \in Merchants \ {m0}
  <2>1. ledger'[m] = ledger[m]
    BY <1>9 DEF Moved
  <2>2. /\ \A s \in {"pending", "paid"} : Weight(payouts[c], m, s) = 0 /\ Weight(payouts'[c], m, s) = 0
        /\ \A s \in {"open", "lost"} : Weight(disputes[c], m, s) = 0 /\ Weight(disputes'[c], m, s) = 0
    BY <1>13
  <2>3. QED
    BY <1>1, <1>10, <1>11, <2>1, <2>2, DeltaZero
<1>16. HistoryOK(c)'
  <2>1. HistoryOK(c)
    BY DEF IInv, EventsMatchRows, HistoryOK
  <2> DEFINE old == Steps(payouts[c], "created", {"paid", "failed"})
                    \cup Steps(disputes[c], "opened", {"won", "lost"})
             new == Steps(payouts'[c], "created", {"paid", "failed"})
                    \cup Steps(disputes'[c], "opened", {"won", "lost"})
  <2>2. old = {} /\ new = {"created"}
    BY <1>1, <1>4, <1>5, <1>10 DEF Steps, FreshId
  <2>3. e.type \notin old /\ new = old \cup {e.type}
    BY <1>7, <2>2
  <2>4. QED
    BY <1>6, <1>7, <2>1, <2>3, HistoryStep
<1>17. \A q \in Calls \ {c} : History(q)' = History(q)
  BY <1>6, <1>7, OutboxStep
<1>18. disputes'[c].status = "absent"
  BY <1>1, <1>5 DEF FreshId
<1>19. a \in Int /\ 0 \in Int /\ a + 0 = a
  BY <1>1
<1>20. RowWritten(c, c)
  BY <1>10, <1>12, <1>16, <1>17, <1>18 DEF RowWritten
<1>21. Booked(c, m0, a, 0, 0, 0)
  <2>1. Reserved(m0, a + 0)
    BY <1>3, <1>19
  <2>2. QED
    BY <1>3, <1>14, <1>15, <2>1 DEF Booked
<1> HIDE DEF a
<1>22. QED
  BY <1>1, <1>2, <1>11, <1>19, <1>20, <1>21, CommitFrame

\* What is reserved and settled lies within the captures: a commit that adds nothing
\* to it needs no reserve.
LEMMA ReservedNothing ==
  ASSUME IInv, NEW m \in Merchants, NEW n \in Int, n <= 0
  PROVE  Reserved(m, n)
<1>1. /\ ledger[m]["payout_pending"] \in Int /\ ledger[m]["payout_settled"] \in Int
      /\ Captured(m) \in Nat
  BY LedgerInt, AccountNames, PaymentSums DEF IInv
<1>2. ledger[m]["payout_pending"] + ledger[m]["payout_settled"] <= Captured(m)
  BY DEF IInv, PayoutsWithinCaptures
<1>3. QED
  BY <1>1, <1>2 DEF Reserved

\* A dispute commits: an open row, frozen from the available balance.
LEMMA CommitDispute ==
  ASSUME IInv, NEW c \in Calls, Commit(c), call[c].op = "dispute"
  PROVE  IInv'
<1>a. PICK m0 \in Merchants : m0 = call[c].merchant
  BY CommitFacts
<1> DEFINE a == call[c].amount
           r == Row(c, "open")
<1>1. /\ TypeOK /\ CallOK(c) /\ call[c] \in CallType /\ call[c].pc = "commit"
      /\ FreshId(c) /\ m0 \in Merchants /\ a \in Nat /\ a > 0
      /\ UNCHANGED payments /\ Release(c)
  BY CommitFacts
<1>2. PICK pc \in {"ok", "dead"} : call' = [call EXCEPT ![c].pc = pc]
  BY CommitFacts
<1>3. /\ call[c].target = None /\ call[c].payment \in Payments
      /\ m0 = Owner[call[c].payment] /\ a <= payments[call[c].payment].captured
  BY <1>1, <1>a DEF CallOK, DisputeCall, Running
<1>4. /\ r \in RowType({"absent", "open", "won", "lost"})
      /\ r.status = "open" /\ r.merchant = m0 /\ r.amount = a
      /\ r.payment = call[c].payment
  BY <1>1, <1>3, <1>a DEF Row, RowType
<1>5. disputes' = [disputes EXCEPT ![c] = r] /\ payouts' = payouts
  BY DEF Commit
<1>6. PICK e : /\ e = [id |-> c, aggregate |-> Aggregate(c), type |-> EventType(c)]
               /\ outbox' = outbox \cup {e}
  BY CommitFacts
<1>7. e \in Event /\ e.aggregate = c /\ e.type = "opened"
  <2>1. Aggregate(c) = c /\ EventType(c) = "opened"
    BY <1>3 DEF Aggregate, EventType
  <2>2. QED
    BY <1>6, <2>1 DEF Event
<1>8. PICK l : /\ l = Post(ledger[m0], Transfer("available", "dispute_frozen", a))
               /\ ledger' = [ledger EXCEPT ![m0] = l]
  BY <1>a, CommitFacts DEF Entries
<1>9. Moved(m0, "available", "dispute_frozen", a)
  <2>1. a \in Int
    BY <1>1
  <2> HIDE DEF a
  <2>2. QED
    BY <1>1, <1>8, <2>1, AccountNames, LedgerStep
<1> HIDE DEF r
<1>10. /\ disputes' \in [Calls -> RowType({"absent", "open", "won", "lost"})]
       /\ disputes'[c] = r
       /\ \A q \in Calls \ {c} : payouts'[q] = payouts[q] /\ disputes'[q] = disputes[q]
  BY <1>1, <1>4, <1>5 DEF TypeOK
<1>11. TypeOK'
  BY <1>1, <1>2, <1>5, <1>6, <1>7, <1>9, <1>10, CommitType DEF Moved, TypeOK
<1>12. RowsKept(payouts, payouts') /\ RowsKept(disputes, disputes') /\ RowOK(c)'
  BY <1>1, <1>3, <1>4, <1>5, <1>10 DEF RowsKept, RowOK, FreshId
<1>13. /\ \A m, s : s # "absent" => Weight(payouts[c], m, s) = 0 /\ Weight(disputes[c], m, s) = 0
       /\ \A m, s : Weight(disputes'[c], m, s) = IF m = m0 /\ s = "open" THEN a ELSE 0
       /\ \A m, s : s # "absent" => Weight(payouts'[c], m, s) = 0
  BY <1>1, <1>4, <1>5, <1>10 DEF Weight, FreshId
<1>14. Delta(m0, 0, 0, a, 0)
  <2>1. \A acc \in Accounts : ledger[m0][acc] \in Int
    BY <1>1, LedgerInt
  <2>2. /\ Total(payouts, m0, "pending")' = Total(payouts, m0, "pending") + 0
        /\ Total(payouts, m0, "paid")' = Total(payouts, m0, "paid") + 0
        /\ Total(disputes, m0, "open")' = Total(disputes, m0, "open") + a
        /\ Total(disputes, m0, "lost")' = Total(disputes, m0, "lost") + 0
    <3>1. TotalsFollow(c, m0, "pending") /\ TotalsFollow(c, m0, "paid")
          /\ TotalsFollow(c, m0, "open") /\ TotalsFollow(c, m0, "lost")
      BY <1>1, <1>10, <1>11, RowTotals
    <3> HIDE DEF a
    <3>2. QED
      BY <1>1, <1>13, <3>1 DEF TotalsFollow
  <2>3. /\ ledger'[m0]["payout_pending"] = ledger[m0]["payout_pending"] + 0
        /\ ledger'[m0]["payout_settled"] = ledger[m0]["payout_settled"] + 0
        /\ ledger'[m0]["dispute_frozen"] = ledger[m0]["dispute_frozen"] + a
        /\ ledger'[m0]["chargeback"] = ledger[m0]["chargeback"] + 0
        /\ ledger'[m0]["available"] = ledger[m0]["available"] - 0 - 0 - a - 0
    BY <1>1, <1>9, <2>1, AccountNames DEF Moved
  <2>4. QED
    BY <2>2, <2>3 DEF Delta
<1>15. \A m \in Merchants \ {m0} : Delta(m, 0, 0, 0, 0)
  <2> TAKE m \in Merchants \ {m0}
  <2>1. ledger'[m] = ledger[m]
    BY <1>9 DEF Moved
  <2>2. /\ \A s \in {"pending", "paid"} : Weight(payouts[c], m, s) = 0 /\ Weight(payouts'[c], m, s) = 0
        /\ \A s \in {"open", "lost"} : Weight(disputes[c], m, s) = 0 /\ Weight(disputes'[c], m, s) = 0
    BY <1>13
  <2>3. QED
    BY <1>1, <1>10, <1>11, <2>1, <2>2, DeltaZero
<1>16. HistoryOK(c)'
  <2>1. HistoryOK(c)
    BY DEF IInv, EventsMatchRows, HistoryOK
  <2> DEFINE old == Steps(payouts[c], "created", {"paid", "failed"})
                    \cup Steps(disputes[c], "opened", {"won", "lost"})
             new == Steps(payouts'[c], "created", {"paid", "failed"})
                    \cup Steps(disputes'[c], "opened", {"won", "lost"})
  <2>2. old = {} /\ new = {"opened"}
    BY <1>1, <1>4, <1>5, <1>10 DEF Steps, FreshId
  <2>3. e.type \notin old /\ new = old \cup {e.type}
    BY <1>7, <2>2
  <2>4. QED
    BY <1>6, <1>7, <2>1, <2>3, HistoryStep
<1>17. \A q \in Calls \ {c} : History(q)' = History(q)
  BY <1>6, <1>7, OutboxStep
<1>18. disputes'[c].amount <= payments[disputes'[c].payment].captured
  BY <1>3, <1>4, <1>10
<1>19. a \in Int /\ 0 \in Int /\ 0 + 0 = 0 /\ 0 + 0 <= 0
  BY <1>1
<1>20. Reserved(m0, 0 + 0)
  BY <1>1, <1>19, ReservedNothing
<1>21. RowWritten(c, c)
  BY <1>10, <1>12, <1>16, <1>17, <1>18 DEF RowWritten
<1>22. Booked(c, m0, 0, 0, a, 0)
  BY <1>14, <1>15, <1>19, <1>20 DEF Booked
<1> HIDE DEF a
<1>23. QED
  BY <1>1, <1>2, <1>11, <1>19, <1>21, <1>22, CommitFrame

\* A payout is settled: its amount leaves the reserve, for good or back to available.
LEMMA CommitComplete ==
  ASSUME IInv, NEW c \in Calls, Commit(c), call[c].op = "complete"
  PROVE  IInv'
<1>a. PICK m0 \in Merchants : m0 = call[c].merchant
  BY CommitFacts
<1>b. PICK x \in Calls : x = call[c].target
  BY CommitFacts DEF CallOK, CompleteCall, Settles, Running
<1> DEFINE a == call[c].amount
           to == call[c].to
           ds == IF to = "paid" THEN a ELSE 0
           r == [payouts[x] EXCEPT !.status = to]
<1>1. /\ TypeOK /\ CallOK(c) /\ call[c] \in CallType /\ call[c].pc = "commit"
      /\ FreshId(c) /\ m0 \in Merchants /\ a \in Nat /\ a > 0
      /\ UNCHANGED payments /\ Release(c)
  BY CommitFacts
<1>2. PICK pc \in {"ok", "dead"} : call' = [call EXCEPT ![c].pc = pc]
  BY CommitFacts
<1>3. /\ x \in Calls /\ to \in {"paid", "failed"} /\ rowLock[x] = c
      /\ payouts[x].status = "pending" /\ payouts[x].merchant = m0 /\ payouts[x].amount = a
  BY <1>1, <1>a, <1>b DEF CallOK, CompleteCall, Settles, Running
<1>4. /\ payouts[x] \in RowType({"absent", "pending", "paid", "failed"})
      /\ RowOK(x) /\ disputes[x].status = "absent"
  BY <1>1, <1>3 DEF TypeOK, IInv, RowOK
<1>5. /\ r \in RowType({"absent", "pending", "paid", "failed"})
      /\ r.status = to /\ r.merchant = m0 /\ r.amount = a
  BY <1>3, <1>4 DEF RowType
<1>6. payouts' = [payouts EXCEPT ![x] = r] /\ disputes' = disputes
  BY <1>b DEF Commit
<1>7. PICK e : /\ e = [id |-> c, aggregate |-> Aggregate(c), type |-> EventType(c)]
               /\ outbox' = outbox \cup {e}
  BY CommitFacts
<1>8. e \in Event /\ e.aggregate = x /\ e.type = to
  <2>1. Aggregate(c) = x /\ EventType(c) = to
    BY <1>3, <1>b, MerchantAssumption DEF Aggregate, EventType
  <2>2. QED
    BY <1>3, <1>7, <2>1 DEF Event
<1> DEFINE account == IF to = "paid" THEN "payout_settled" ELSE "available"
<1>9. PICK l : /\ l = Post(ledger[m0], Transfer("payout_pending", account, a))
               /\ ledger' = [ledger EXCEPT ![m0] = l]
  BY <1>a, CommitFacts DEF Entries
<1>10. account \in Accounts /\ account # "payout_pending"
       /\ (to = "paid" => account = "payout_settled") /\ (to # "paid" => account = "available")
  BY AccountNames
<1>11. Moved(m0, "payout_pending", account, a)
  <2>1. a \in Int
    BY <1>1
  <2> HIDE DEF a, account
  <2>2. QED
    BY <1>1, <1>9, <1>10, <2>1, AccountNames, LedgerStep
<1> HIDE DEF r, account
<1>12. /\ payouts' \in [Calls -> RowType({"absent", "pending", "paid", "failed"})]
       /\ payouts'[x] = r
       /\ \A q \in Calls \ {x} : payouts'[q] = payouts[q] /\ disputes'[q] = disputes[q]
  BY <1>1, <1>3, <1>5, <1>6 DEF TypeOK
<1>13. TypeOK'
  BY <1>1, <1>2, <1>6, <1>7, <1>8, <1>11, <1>12, CommitType DEF Moved, TypeOK
<1>14. RowsKept(payouts, payouts') /\ RowsKept(disputes, disputes') /\ RowOK(x)'
  <2>1. payouts'[x].status # "absent" /\ payouts'[x].merchant = payouts[x].merchant
        /\ payouts'[x].amount = payouts[x].amount
    BY <1>3, <1>5, <1>12
  <2>2. RowsKept(payouts, payouts')
    BY <1>12, <2>1 DEF RowsKept
  <2>3. RowsKept(disputes, disputes')
    BY <1>6 DEF RowsKept
  <2>4. RowOK(x)'
    BY <1>1, <1>3, <1>4, <1>6, <2>1 DEF RowOK
  <2>5. QED
    BY <2>2, <2>3, <2>4
<1>15. /\ \A m, s : Weight(payouts[x], m, s) = IF m = m0 /\ s = "pending" THEN a ELSE 0
       /\ \A m, s : Weight(payouts'[x], m, s) = IF m = m0 /\ s = to THEN a ELSE 0
       /\ \A m, s : s # "absent" => Weight(disputes[x], m, s) = 0 /\ Weight(disputes'[x], m, s) = 0
  BY <1>3, <1>4, <1>5, <1>6, <1>12 DEF Weight
<1>16. Delta(m0, 0 - a, ds, 0, 0)
  <2>1. \A acc \in Accounts : ledger[m0][acc] \in Int
    BY <1>1, LedgerInt
  <2>2. /\ Total(payouts, m0, "pending")' = Total(payouts, m0, "pending") + (0 - a)
        /\ Total(payouts, m0, "paid")' = Total(payouts, m0, "paid") + ds
        /\ Total(disputes, m0, "open")' = Total(disputes, m0, "open") + 0
        /\ Total(disputes, m0, "lost")' = Total(disputes, m0, "lost") + 0
    <3>1. TotalsFollow(x, m0, "pending") /\ TotalsFollow(x, m0, "paid")
          /\ TotalsFollow(x, m0, "open") /\ TotalsFollow(x, m0, "lost")
      BY <1>1, <1>3, <1>12, <1>13, RowTotals
    <3>2. to \in {"paid", "failed"}
      BY <1>3
    <3> HIDE DEF a, to
    <3>3. Total(payouts, m0, "pending")' = Total(payouts, m0, "pending") + (0 - a)
      BY <1>1, <1>15, <3>1, <3>2 DEF TotalsFollow
    <3>4. Total(payouts, m0, "paid")' = Total(payouts, m0, "paid") + ds
      BY <1>1, <1>15, <3>1, <3>2 DEF TotalsFollow
    <3>5. QED
      BY <1>15, <3>1, <3>3, <3>4 DEF TotalsFollow
  <2>3. /\ ledger'[m0]["payout_pending"] = ledger[m0]["payout_pending"] + (0 - a)
        /\ ledger'[m0]["payout_settled"] = ledger[m0]["payout_settled"] + ds
        /\ ledger'[m0]["dispute_frozen"] = ledger[m0]["dispute_frozen"] + 0
        /\ ledger'[m0]["chargeback"] = ledger[m0]["chargeback"] + 0
        /\ ledger'[m0]["available"] = ledger[m0]["available"] - (0 - a) - ds - 0 - 0
    <3>1. CASE to = "paid"
      BY <1>1, <1>10, <1>11, <2>1, <3>1, AccountNames DEF Moved
    <3>2. CASE to # "paid"
      BY <1>1, <1>10, <1>11, <2>1, <3>2, AccountNames DEF Moved
    <3>3. QED
      BY <3>1, <3>2
  <2>4. QED
    BY <2>2, <2>3 DEF Delta
<1>17. \A m \in Merchants \ {m0} : Delta(m, 0, 0, 0, 0)
  <2> TAKE m \in Merchants \ {m0}
  <2>1. ledger'[m] = ledger[m]
    BY <1>11 DEF Moved
  <2>2. /\ \A s \in {"pending", "paid"} : Weight(payouts[x], m, s) = 0 /\ Weight(payouts'[x], m, s) = 0
        /\ \A s \in {"open", "lost"} : Weight(disputes[x], m, s) = 0 /\ Weight(disputes'[x], m, s) = 0
    BY <1>15
  <2>3. QED
    BY <1>1, <1>3, <1>12, <1>13, <2>1, <2>2, DeltaZero
<1>18. HistoryOK(x)'
  <2>1. HistoryOK(x)
    BY <1>3 DEF IInv, EventsMatchRows, HistoryOK
  <2> DEFINE old == Steps(payouts[x], "created", {"paid", "failed"})
                    \cup Steps(disputes[x], "opened", {"won", "lost"})
             new == Steps(payouts'[x], "created", {"paid", "failed"})
                    \cup Steps(disputes'[x], "opened", {"won", "lost"})
  <2>2. old = {"created"} /\ new = {"created", to}
    BY <1>3, <1>4, <1>5, <1>6, <1>12 DEF Steps
  <2>3. e.type \notin old /\ new = old \cup {e.type}
    BY <1>3, <1>8, <2>2
  <2>4. PICK o, n : /\ o = old /\ n = new /\ e.type \notin o /\ n = o \cup {e.type}
    BY <2>3
  <2>5. QED
    BY <1>3, <1>7, <1>8, <2>1, <2>4, HistoryStep
<1>19. \A q \in Calls \ {x} : History(q)' = History(q)
  BY <1>7, <1>8, OutboxStep
<1>20. disputes'[x].status = "absent"
  BY <1>4, <1>6
<1>21. ~FreshId(x)
  BY <1>3 DEF FreshId
<1>22. 0 - a \in Int /\ ds \in Int /\ 0 \in Int /\ (0 - a) + ds <= 0 /\ (0 - a) + ds \in Int
  BY <1>1
<1> HIDE DEF ds
<1>23. Reserved(m0, (0 - a) + ds)
  BY <1>1, <1>22, ReservedNothing
<1>24. RowWritten(c, x)
  BY <1>3, <1>12, <1>14, <1>18, <1>19, <1>20, <1>21 DEF RowWritten
<1>25. PICK dp \in Int : Booked(c, m0, dp, ds, 0, 0)
  BY <1>16, <1>17, <1>22, <1>23 DEF Booked
<1> HIDE DEF a, to
<1>26. QED
  BY <1>1, <1>2, <1>3, <1>13, <1>22, <1>24, <1>25, CommitFrame

\* A dispute is resolved: its amount is released, or charged back.
LEMMA CommitResolve ==
  ASSUME IInv, NEW c \in Calls, Commit(c), call[c].op = "resolve"
  PROVE  IInv'
<1>a. PICK m0 \in Merchants : m0 = call[c].merchant
  BY CommitFacts
<1>b. PICK x \in Calls : x = call[c].target
  BY CommitFacts DEF CallOK, ResolveCall, Settles, Running
<1> DEFINE a == call[c].amount
           to == call[c].to
           ds == IF to = "lost" THEN a ELSE 0
           r == [disputes[x] EXCEPT !.status = to]
<1>1. /\ TypeOK /\ CallOK(c) /\ call[c] \in CallType /\ call[c].pc = "commit"
      /\ FreshId(c) /\ m0 \in Merchants /\ a \in Nat /\ a > 0
      /\ UNCHANGED payments /\ Release(c)
  BY CommitFacts
<1>2. PICK pc \in {"ok", "dead"} : call' = [call EXCEPT ![c].pc = pc]
  BY CommitFacts
<1>3. /\ x \in Calls /\ to \in {"won", "lost"} /\ rowLock[x] = c
      /\ disputes[x].status = "open" /\ disputes[x].merchant = m0 /\ disputes[x].amount = a
  BY <1>1, <1>a, <1>b DEF CallOK, ResolveCall, Settles, Running
<1>4. /\ disputes[x] \in RowType({"absent", "open", "won", "lost"})
      /\ RowOK(x) /\ payouts[x].status = "absent"
  BY <1>1, <1>3 DEF TypeOK, IInv, RowOK
<1>5. /\ r \in RowType({"absent", "open", "won", "lost"})
      /\ r.status = to /\ r.merchant = m0 /\ r.amount = a
  BY <1>3, <1>4 DEF RowType
<1>6. disputes' = [disputes EXCEPT ![x] = r] /\ payouts' = payouts
  BY <1>b DEF Commit
<1>7. PICK e : /\ e = [id |-> c, aggregate |-> Aggregate(c), type |-> EventType(c)]
               /\ outbox' = outbox \cup {e}
  BY CommitFacts
<1>8. e \in Event /\ e.aggregate = x /\ e.type = to
  <2>1. Aggregate(c) = x /\ EventType(c) = to
    BY <1>3, <1>b, MerchantAssumption DEF Aggregate, EventType
  <2>2. QED
    BY <1>3, <1>7, <2>1 DEF Event
<1> DEFINE account == IF to = "won" THEN "available" ELSE "chargeback"
<1>9. PICK l : /\ l = Post(ledger[m0], Transfer("dispute_frozen", account, a))
               /\ ledger' = [ledger EXCEPT ![m0] = l]
  BY <1>a, CommitFacts DEF Entries
<1>10. account \in Accounts /\ account # "dispute_frozen"
       /\ (to = "lost" => account = "chargeback") /\ (to # "lost" => account = "available")
  BY <1>3, AccountNames
<1>11. Moved(m0, "dispute_frozen", account, a)
  <2>1. a \in Int
    BY <1>1
  <2> HIDE DEF a, account
  <2>2. QED
    BY <1>1, <1>9, <1>10, <2>1, AccountNames, LedgerStep
<1> HIDE DEF r, account
<1>12. /\ disputes' \in [Calls -> RowType({"absent", "open", "won", "lost"})]
       /\ disputes'[x] = r
       /\ \A q \in Calls \ {x} : disputes'[q] = disputes[q] /\ payouts'[q] = payouts[q]
  BY <1>1, <1>3, <1>5, <1>6 DEF TypeOK
<1>13. TypeOK'
  BY <1>1, <1>2, <1>6, <1>7, <1>8, <1>11, <1>12, CommitType DEF Moved, TypeOK
<1>14. RowsKept(payouts, payouts') /\ RowsKept(disputes, disputes') /\ RowOK(x)'
  <2>1. r.payment = disputes[x].payment
    BY <1>4 DEF r, RowType
  <2>2. /\ disputes'[x].status # "absent" /\ disputes'[x].merchant = disputes[x].merchant
        /\ disputes'[x].amount = disputes[x].amount
        /\ disputes'[x].payment = disputes[x].payment
    BY <1>3, <1>5, <1>12, <2>1
  <2>3. RowsKept(disputes, disputes')
    BY <1>12, <2>2 DEF RowsKept
  <2>4. RowsKept(payouts, payouts')
    BY <1>6 DEF RowsKept
  <2>5. RowOK(x)'
    BY <1>1, <1>3, <1>4, <1>6, <2>2 DEF RowOK
  <2>6. QED
    BY <2>3, <2>4, <2>5
<1>15. /\ \A m, s : Weight(disputes[x], m, s) = IF m = m0 /\ s = "open" THEN a ELSE 0
       /\ \A m, s : Weight(disputes'[x], m, s) = IF m = m0 /\ s = to THEN a ELSE 0
       /\ \A m, s : s # "absent" => Weight(payouts[x], m, s) = 0 /\ Weight(payouts'[x], m, s) = 0
  BY <1>3, <1>4, <1>5, <1>6, <1>12 DEF Weight
<1>16. Delta(m0, 0, 0, 0 - a, ds)
  <2>1. \A acc \in Accounts : ledger[m0][acc] \in Int
    BY <1>1, LedgerInt
  <2>2. /\ Total(payouts, m0, "pending")' = Total(payouts, m0, "pending") + 0
        /\ Total(payouts, m0, "paid")' = Total(payouts, m0, "paid") + 0
        /\ Total(disputes, m0, "open")' = Total(disputes, m0, "open") + (0 - a)
        /\ Total(disputes, m0, "lost")' = Total(disputes, m0, "lost") + ds
    <3>1. TotalsFollow(x, m0, "pending") /\ TotalsFollow(x, m0, "paid")
          /\ TotalsFollow(x, m0, "open") /\ TotalsFollow(x, m0, "lost")
      BY <1>1, <1>3, <1>12, <1>13, RowTotals
    <3>2. to \in {"won", "lost"}
      BY <1>3
    <3> HIDE DEF a, to
    <3>3. QED
      BY <1>1, <1>15, <3>1, <3>2 DEF TotalsFollow
  <2>3. /\ ledger'[m0]["payout_pending"] = ledger[m0]["payout_pending"] + 0
        /\ ledger'[m0]["payout_settled"] = ledger[m0]["payout_settled"] + 0
        /\ ledger'[m0]["dispute_frozen"] = ledger[m0]["dispute_frozen"] + (0 - a)
        /\ ledger'[m0]["chargeback"] = ledger[m0]["chargeback"] + ds
        /\ ledger'[m0]["available"] = ledger[m0]["available"] - 0 - 0 - (0 - a) - ds
    <3>1. CASE to = "lost"
      BY <1>1, <1>10, <1>11, <2>1, <3>1, AccountNames DEF Moved
    <3>2. CASE to # "lost"
      BY <1>1, <1>10, <1>11, <2>1, <3>2, AccountNames DEF Moved
    <3>3. QED
      BY <3>1, <3>2
  <2>4. QED
    BY <2>2, <2>3 DEF Delta
<1>17. \A m \in Merchants \ {m0} : Delta(m, 0, 0, 0, 0)
  <2> TAKE m \in Merchants \ {m0}
  <2>1. ledger'[m] = ledger[m]
    BY <1>11 DEF Moved
  <2>2. /\ \A s \in {"pending", "paid"} : Weight(payouts[x], m, s) = 0 /\ Weight(payouts'[x], m, s) = 0
        /\ \A s \in {"open", "lost"} : Weight(disputes[x], m, s) = 0 /\ Weight(disputes'[x], m, s) = 0
    BY <1>15
  <2>3. QED
    BY <1>1, <1>3, <1>12, <1>13, <2>1, <2>2, DeltaZero
<1>18. HistoryOK(x)'
  <2>1. HistoryOK(x)
    BY <1>3 DEF IInv, EventsMatchRows, HistoryOK
  <2> DEFINE old == Steps(payouts[x], "created", {"paid", "failed"})
                    \cup Steps(disputes[x], "opened", {"won", "lost"})
             new == Steps(payouts'[x], "created", {"paid", "failed"})
                    \cup Steps(disputes'[x], "opened", {"won", "lost"})
  <2>2. old = {"opened"} /\ new = {"opened", to}
    BY <1>3, <1>4, <1>5, <1>6, <1>12 DEF Steps
  <2>3. e.type \notin old /\ new = old \cup {e.type}
    BY <1>3, <1>8, <2>2
  <2>4. PICK o, n : /\ o = old /\ n = new /\ e.type \notin o /\ n = o \cup {e.type}
    BY <2>3
  <2>5. QED
    BY <1>3, <1>7, <1>8, <2>1, <2>4, HistoryStep
<1>19. \A q \in Calls \ {x} : History(q)' = History(q)
  BY <1>7, <1>8, OutboxStep
<1>20. disputes'[x].amount <= payments[disputes'[x].payment].captured
  <2>1. r.payment = disputes[x].payment
    BY <1>4 DEF r, RowType
  <2>2. disputes[x].amount <= payments[disputes[x].payment].captured
    BY <1>3 DEF IInv, DisputeWithinCaptured
  <2>3. QED
    BY <1>3, <1>5, <1>12, <2>1, <2>2
<1>21. ~FreshId(x)
  BY <1>3 DEF FreshId
<1>22. 0 - a \in Int /\ ds \in Int /\ 0 \in Int /\ 0 + 0 <= 0 /\ 0 + 0 \in Int
  BY <1>1
<1> HIDE DEF ds
<1>23. Reserved(m0, 0 + 0)
  BY <1>1, <1>22, ReservedNothing
<1>24. RowWritten(c, x)
  BY <1>3, <1>12, <1>14, <1>18, <1>19, <1>20, <1>21 DEF RowWritten
<1>25. PICK df \in Int : Booked(c, m0, 0, 0, df, ds)
  BY <1>16, <1>17, <1>22, <1>23 DEF Booked
<1> HIDE DEF a, to
<1>26. QED
  BY <1>1, <1>2, <1>3, <1>13, <1>22, <1>24, <1>25, CommitFrame
-----------------------------------------------------------------------------
(***************************************************************************)
(* The invariant                                                           *)
(***************************************************************************)
\* The four kinds of commits.
LEMMA CommitStep ==
  ASSUME IInv, NEW c \in Calls, Commit(c)
  PROVE  IInv'
<1>1. call[c].op \in {"payout", "complete", "dispute", "resolve"}
  BY CommitFacts DEF CallOK, CallType, Running
<1>2. QED
  BY <1>1, CommitPayout, CommitComplete, CommitDispute, CommitResolve

\* Every step keeps the invariant.
LEMMA NextInvariant == IInv /\ [Next]_vars => IInv'
<1> SUFFICES ASSUME IInv, [Next]_vars PROVE IInv'
  OBVIOUS
<1>1. ASSUME NEW p \in Payments, NEW a \in Amounts, Capture(p, a) \/ Refund(p, a) PROVE IInv'
  BY <1>1, CaptureStep, RefundStep
<1>2. ASSUME NEW c \in Calls, Begin(c) PROVE IInv'
  <2>1. CASE PayoutRequest(c)
    BY <2>1, CreatePayoutStep DEF PayoutRequest
  <2>2. CASE AdminRequest(c)
    BY <2>2, OpenDisputeStep, ResolveDisputeStep DEF AdminRequest
  <2>3. CASE PayoutCallback(c)
    BY <2>3, CompletePayoutStep DEF PayoutCallback
  <2>4. CASE \E op \in {"payout", "dispute", "complete", "resolve"} : Reject(c, op)
    BY <2>4, RejectStep
  <2>5. QED
    BY <1>2, <2>1, <2>2, <2>3, <2>4 DEF Begin
<1>3. ASSUME NEW c \in Calls, Proceed(c) PROVE IInv'
  BY <1>3, LockMerchantStep, CheckBalanceStep, InsufficientBalanceStep, LockRowStep,
     AlreadySettledStep, CommitStep DEF Proceed
<1>4. ASSUME NEW c \in Calls, Abort(c) PROVE IInv'
  BY <1>4, AbortStep
<1>5. CASE UNCHANGED vars
  <2>1. CASE Calls = {}
    <3>1. TypeOK'
      BY <1>5 DEF IInv, TypeOK, vars
    <3>2. /\ \A m : Captured(m)' = Captured(m) /\ Refunded(m)' = Refunded(m)
          /\ \A m, s : /\ Total(payouts, m, s)' = Total(payouts, m, s)
                       /\ Total(disputes, m, s)' = Total(disputes, m, s)
      BY <1>5, Zenon DEF vars, Captured, Refunded, Total
    <3>3. LedgerMatchesRows' /\ PayoutsWithinCaptures'
      BY <1>5, <3>2 DEF IInv, LedgerMatchesRows, PayoutsWithinCaptures, vars
    <3>4. EventsMatchRows' /\ DisputeWithinCaptured' /\ (\A c \in Calls : CallOK(c)')
          /\ (\A q \in Calls : RowOK(q)')
      BY <2>1 DEF EventsMatchRows, DisputeWithinCaptured
    <3>5. QED
      BY <3>1, <3>3, <3>4 DEF IInv
  <2>2. ASSUME NEW c \in Calls PROVE IInv'
    <3>1. TypeOK /\ call[c] \in CallType /\ call' = [call EXCEPT ![c] = call[c]]
      BY <1>5 DEF IInv, TypeOK, vars
    <3>2. UNCHANGED tables /\ UNCHANGED <<advisory, rowLock, call>>
      BY <1>5 DEF vars, tables
    <3>3. CallOK(c)'
      <4>1. CallOK(c) /\ Captured(call[c].merchant)' = Captured(call[c].merchant)
        BY <3>2, PaymentSumsSame DEF IInv, tables, Captured
      <4>2. QED
        BY <3>2, <4>1 DEF CallOK, FreshId, PayoutCall, CompleteCall, DisputeCall,
                          ResolveCall, Settles, tables
    <3>4. QED
      BY <3>1, <3>2, <3>3, QuietStep DEF TypeOK
  <2>3. QED
    BY <2>1, <2>2
<1>6. QED
  BY <1>1, <1>2, <1>3, <1>4, <1>5 DEF Next

\* The invariant holds in every reachable state.
LEMMA InvariantHolds == Spec => []IInv
<1>1. QED
  BY InitInvariant, NextInvariant, PTL DEF Spec

\* Rows, locks and calls are of their kind in every reachable state; no transaction of
\* payouts or disputes writes an unknown status or a negative amount.
THEOREM TypeCorrect == Spec => []TypeOK
<1>1. IInv => TypeOK
  BY DEF IInv
<1>2. QED
  BY <1>1, InvariantHolds, PTL

\* The five balances of a merchant are the totals of its rows: however callbacks,
\* decisions and requests race, a payout is reserved and settled once and a dispute
\* frozen and resolved once.
THEOREM LedgerCorrect == Spec => []LedgerMatchesRows
<1>1. IInv => LedgerMatchesRows
  BY DEF IInv
<1>2. QED
  BY <1>1, InvariantHolds, PTL

\* Under the advisory lock of CreatePayout, payouts never exceed what was captured.
THEOREM PayoutsCovered == Spec => []PayoutsWithinCaptures
<1>1. IInv => PayoutsWithinCaptures
  BY DEF IInv
<1>2. QED
  BY <1>1, InvariantHolds, PTL

\* Each step of a payout or dispute is announced exactly once.
THEOREM HistoriesMatch == Spec => []EventsMatchRows
<1>1. IInv => EventsMatchRows
  BY DEF IInv
<1>2. QED
  BY <1>1, InvariantHolds, PTL

\* A dispute never freezes more than was captured on its payment, although Open reads
\* the payment without a lock.
THEOREM DisputesCovered == Spec => []DisputeWithinCaptured
<1>1. IInv => DisputeWithinCaptured
  BY DEF IInv
<1>2. QED
  BY <1>1, InvariantHolds, PTL
-----------------------------------------------------------------------------
(***************************************************************************)
(* The transactions implement the operations of the in-memory store        *)
(***************************************************************************)
\* The payments and the events that the store is shown to have.
StorePayments ==
  [p \in Payments |->
     [amount |-> payments[p].amount, captured |-> payments[p].captured,
      refunded |-> payments[p].refunded, status |-> payments[p].status,
      reference |-> "provider_ref"]]

StoreOutbox ==
  {[aggregate |-> e.aggregate, type |-> e.type] : e \in outbox}
  \cup {[aggregate |-> p, type |-> "captured"] :
          p \in {p \in Payments : payments[p].captured > 0}}
  \cup {[aggregate |-> p, type |-> "refunded"] :
          p \in {p \in Payments : payments[p].refunded > 0}}

\* The store has the domain rules of this module.
LEMMA SameTransfer ==
  ASSUME NEW from, NEW to, NEW amount
  PROVE  Store!Transfer(from, to, amount) = Transfer(from, to, amount)
BY DEF Store!Transfer, Transfer, Store!LedgerEntry, LedgerEntry

\* The library's sum, reached through the store.
LEMMA SameSum ==
  ASSUME NEW f, NEW S
  PROVE  Store!SumFunctionOnSet(f, S) = SumFunctionOnSet(f, S)
BY Zenon DEF Store!SumFunctionOnSet, SumFunctionOnSet, Store!FoldFunctionOnSet,
             FoldFunctionOnSet, Store!MapThenFoldSet, MapThenFoldSet

\* Balances after a transaction, and its check, in the store.
LEMMA SameBooking ==
  ASSUME NEW b, NEW entries
  PROVE  /\ Store!Post(b, entries) = Post(b, entries)
         /\ ValidateBalanced(entries) => Store!ValidateBalanced(entries)
<1>1. Store!Post(b, entries) = Post(b, entries)
  BY Zenon DEF Store!Post, Post
<1>2. ASSUME ValidateBalanced(entries)
      PROVE  Store!ValidateBalanced(entries)
  <2> DEFINE debits == [i \in DOMAIN entries |-> entries[i].debit]
             credits == [i \in DOMAIN entries |-> entries[i].credit]
  <2>1. SumFunctionOnSet(debits, DOMAIN entries) = SumFunctionOnSet(credits, DOMAIN entries)
    BY <1>2, Zenon DEF ValidateBalanced
  <2>2. Store!SumFunctionOnSet(debits, DOMAIN entries)
          = Store!SumFunctionOnSet(credits, DOMAIN entries)
    BY <2>1, SameSum, Zenon
  <2>3. QED
    BY <1>2, <2>2, Zenon DEF ValidateBalanced, Store!ValidateBalanced
<1>3. QED
  BY <1>1, <1>2

\* Entries and event of a commit are recorded in the store.
LEMMA StoreRecord ==
  ASSUME NEW m, NEW from, NEW to, NEW amount, NEW row, NEW type,
         ValidateBalanced(Transfer(from, to, amount)),
         ledger' = [ledger EXCEPT ![m] = Post(@, Transfer(from, to, amount))],
         StoreOutbox' = StoreOutbox \cup {[aggregate |-> row, type |-> type]}
  PROVE  Store!Record(m, Store!Transfer(from, to, amount), row, type)
<1> DEFINE t == Transfer(from, to, amount)
<1>1. Store!Transfer(from, to, amount) = t
  BY SameTransfer
<1>2. Store!ValidateBalanced(t) /\ Store!Post(ledger[m], t) = Post(ledger[m], t)
  BY SameBooking
<1>3. ledger' = [ledger EXCEPT ![m] = Post(ledger[m], t)]
  OBVIOUS
<1> HIDE DEF t
<1>4. Store!Record(m, t, row, type)
  BY <1>2, <1>3 DEF Store!Record, StoreOutbox
<1>5. QED
  BY <1>1, <1>4

\* Whatever leaves the payments alone leaves those of the store alone.
LEMMA StorePaymentsSame ==
  ASSUME UNCHANGED payments
  PROVE  StorePayments' = StorePayments
BY DEF StorePayments

\* A step that changes no table is invisible in the store.
LEMMA StoreStutter == UNCHANGED tables => UNCHANGED Store!vars
BY DEF tables, Store!vars

\* The event of a commit.
LEMMA StoreEvent ==
  ASSUME UNCHANGED payments, NEW e, outbox' = outbox \cup {e}
  PROVE  StoreOutbox' = StoreOutbox \cup {[aggregate |-> e.aggregate, type |-> e.type]}
BY DEF StoreOutbox

\* A payout that commits is inserted into the store, with its balance or overtaken.
LEMMA StorePayout ==
  ASSUME IInv, NEW c \in Calls, Commit(c), call[c].op = "payout"
  PROVE  Store!Next \/ OvertakenPayout
<1>a. PICK m \in Merchants : m = call[c].merchant
  BY CommitFacts
<1>b. PICK a \in Amounts : a = call[c].amount
  BY CommitFacts DEF CallOK, PayoutCall, Running
<1>1. /\ TypeOK /\ FreshId(c) /\ a \in Int /\ a > 0 /\ UNCHANGED payments
      /\ call[c].target = None /\ call[c].payment = None /\ Reserved(m, a)
  BY <1>a, <1>b, CommitFacts DEF CallOK, PayoutCall, Reserved, Running
<1>2. payouts' = [payouts EXCEPT ![c] = Row(c, "pending")] /\ disputes' = disputes
  BY DEF Commit
<1>3. Row(c, "pending") =
        [Store!NoRow EXCEPT !.status = "pending", !.merchant = m, !.amount = a]
  <2> DEFINE r == [Store!NoRow EXCEPT !.status = "pending", !.merchant = m, !.amount = a]
  <2>1. r = [status |-> "pending", merchant |-> m, payment |-> None, amount |-> a]
    <3>1. [Store!NoRow EXCEPT !.status = "pending"] =
            [status |-> "pending", merchant |-> None, payment |-> None, amount |-> 0]
      BY DEF Store!NoRow
    <3>2. [[status |-> "pending", merchant |-> None, payment |-> None, amount |-> 0]
             EXCEPT !.merchant = m] =
            [status |-> "pending", merchant |-> m, payment |-> None, amount |-> 0]
      OBVIOUS
    <3>3. [[status |-> "pending", merchant |-> m, payment |-> None, amount |-> 0]
             EXCEPT !.amount = a] =
            [status |-> "pending", merchant |-> m, payment |-> None, amount |-> a]
      OBVIOUS
    <3>4. QED
      BY <3>1, <3>2, <3>3
  <2>2. QED
    BY <1>1, <1>a, <1>b, <2>1 DEF Row
<1>4. PICK e : /\ e = [id |-> c, aggregate |-> Aggregate(c), type |-> EventType(c)]
               /\ outbox' = outbox \cup {e}
  BY CommitFacts
<1>5. e.aggregate = c /\ e.type = "created"
  <2>1. Aggregate(c) = c /\ EventType(c) = "created"
    BY <1>1 DEF Aggregate, EventType
  <2>2. QED
    BY <1>4, <2>1
<1>6. StoreOutbox' = StoreOutbox \cup {[aggregate |-> c, type |-> "created"]}
  BY <1>1, <1>4, <1>5, StoreEvent
<1>7. /\ ValidateBalanced(Transfer("available", "payout_pending", a))
      /\ ledger' = [ledger EXCEPT ![m] = Post(@, Transfer("available", "payout_pending", a))]
  BY <1>1, <1>a, <1>b, TransferBalanced DEF Commit, Entries
<1>8. Store!Record(m, Store!Transfer("available", "payout_pending", a), c, "created")
  BY <1>6, <1>7, StoreRecord
<1>9. Store!InsertPayout(c, m, a)
  <2>1. payouts[c].status = "absent" /\ Store!NewPayoutAllowed(a)
    BY <1>1 DEF FreshId, Store!NewPayoutAllowed
  <2>2. StorePayments' = StorePayments
    BY <1>1, StorePaymentsSame
  <2>3. QED
    BY <1>2, <1>3, <1>8, <2>1, <2>2, Zenon DEF Store!InsertPayout, StorePayments
<1>10. CASE AvailableBalance(m) >= a
  <2>1. Store!CreatePayout(c, m, a)
    BY <1>9, <1>10 DEF Store!CreatePayout, Store!AvailableBalance, AvailableBalance
  <2>2. QED
    BY <2>1 DEF Store!Next
<1>11. CASE ~(AvailableBalance(m) >= a)
  <2>1. /\ Total(payouts, m, "pending") \in Nat /\ Total(payouts, m, "paid") \in Nat
        /\ Total(disputes, m, "open") \in Nat /\ Total(disputes, m, "lost") \in Nat
        /\ Captured(m) \in Nat /\ Refunded(m) \in Nat
    BY <1>1, TotalsNat, PaymentSums
  <2>2. /\ ledger[m]["payout_pending"] = Total(payouts, m, "pending")
        /\ ledger[m]["payout_settled"] = Total(payouts, m, "paid")
        /\ ledger[m]["available"] =
             Captured(m) - Refunded(m)
             - Total(payouts, m, "pending") - Total(payouts, m, "paid")
             - Total(disputes, m, "open") - Total(disputes, m, "lost")
    BY DEF IInv, LedgerMatchesRows
  <2>3. /\ AvailableBalance(m) < a
        /\ AvailableBalance(m) + Refunded(m)
             + Total(disputes, m, "open") + Total(disputes, m, "lost") >= a
    BY <1>1, <1>11, <2>1, <2>2 DEF AvailableBalance, Reserved
  <2>4. OvertakenPayout
    BY <1>9, <2>3 DEF OvertakenPayout
  <2>5. QED
    BY <2>4
<1>12. QED
  BY <1>10, <1>11

\* A dispute that commits is opened in the store.
LEMMA StoreDispute ==
  ASSUME IInv, NEW c \in Calls, Commit(c), call[c].op = "dispute"
  PROVE  Store!Next
<1>a. PICK p \in Payments : p = call[c].payment
  BY CommitFacts DEF CallOK, DisputeCall, Running
<1>b. PICK a \in Amounts : a = call[c].amount
  BY CommitFacts DEF CallOK, DisputeCall, Running
<1>1. /\ FreshId(c) /\ a \in Int /\ a > 0 /\ UNCHANGED payments
      /\ call[c].target = None /\ call[c].merchant = Owner[p]
  BY <1>a, <1>b, CommitFacts DEF CallOK, DisputeCall, Running
<1>2. disputes' = [disputes EXCEPT ![c] = Row(c, "open")] /\ payouts' = payouts
  BY DEF Commit
<1>3. Row(c, "open") = [status |-> "open", merchant |-> Owner[p], payment |-> p, amount |-> a]
  BY <1>1, <1>a, <1>b DEF Row
<1>4. PICK e : /\ e = [id |-> c, aggregate |-> Aggregate(c), type |-> EventType(c)]
               /\ outbox' = outbox \cup {e}
  BY CommitFacts
<1>5. e.aggregate = c /\ e.type = "opened"
  <2>1. Aggregate(c) = c /\ EventType(c) = "opened"
    BY <1>1 DEF Aggregate, EventType
  <2>2. QED
    BY <1>4, <2>1
<1>6. StoreOutbox' = StoreOutbox \cup {[aggregate |-> c, type |-> "opened"]}
  BY <1>1, <1>4, <1>5, StoreEvent
<1>7. /\ ValidateBalanced(Transfer("available", "dispute_frozen", a))
      /\ ledger' = [ledger EXCEPT
           ![Owner[p]] = Post(@, Transfer("available", "dispute_frozen", a))]
  BY <1>1, <1>b, TransferBalanced DEF Commit, Entries
<1>8. Store!Record(Owner[p], Store!Transfer("available", "dispute_frozen", a), c, "opened")
  BY <1>6, <1>7, StoreRecord
<1>9. Store!CreateDispute(c, p, a)
  <2>1. disputes[c].status = "absent" /\ Store!NewDisputeAllowed(a)
    BY <1>1 DEF FreshId, Store!NewDisputeAllowed
  <2>2. StorePayments' = StorePayments
    BY <1>1, StorePaymentsSame
  <2>3. QED
    BY <1>2, <1>3, <1>8, <2>1, <2>2, Zenon DEF Store!CreateDispute, StorePayments
<1>10. QED
  BY <1>9 DEF Store!Next

\* The row that a settling call has locked and its event.
LEMMA SettledEvent ==
  ASSUME IInv, NEW c \in Calls, Commit(c), NEW x \in Calls, x = call[c].target,
         NEW to, to = call[c].to, call[c].op \in {"complete", "resolve"}
  PROVE  StoreOutbox' = StoreOutbox \cup {[aggregate |-> x, type |-> to]}
<1>1. PICK e : /\ e = [id |-> c, aggregate |-> Aggregate(c), type |-> EventType(c)]
               /\ outbox' = outbox \cup {e}
  BY CommitFacts
<1>2. Aggregate(c) = x /\ EventType(c) = to
  BY MerchantAssumption DEF Aggregate, EventType
<1>3. e.aggregate = x /\ e.type = to
  BY <1>1, <1>2
<1>4. UNCHANGED payments
  BY CommitFacts
<1>5. QED
  BY <1>1, <1>3, <1>4, StoreEvent

\* A settled payout is settled in the store.
LEMMA StoreComplete ==
  ASSUME IInv, NEW c \in Calls, Commit(c), call[c].op = "complete"
  PROVE  Store!Next
<1>a. PICK x \in Calls : x = call[c].target
  BY CommitFacts DEF CallOK, CompleteCall, Settles, Running
<1>b. PICK to \in {"paid", "failed"} : to = call[c].to
  BY CommitFacts DEF CallOK, CompleteCall, Running
<1> DEFINE account == IF to = "paid" THEN "payout_settled" ELSE "available"
           a == payouts[x].amount
           m == payouts[x].merchant
<1>1. /\ payouts[x].status = "pending" /\ m = call[c].merchant /\ a = call[c].amount
      /\ a \in Int /\ a > 0 /\ UNCHANGED payments
  BY <1>a, CommitFacts DEF CallOK, CompleteCall, Settles, Running
<1>2. payouts' = [payouts EXCEPT ![x].status = to] /\ disputes' = disputes
  BY <1>a, <1>b DEF Commit
<1>3. StoreOutbox' = StoreOutbox \cup {[aggregate |-> x, type |-> to]}
  BY <1>a, <1>b, SettledEvent
<1>4. ledger' = [ledger EXCEPT ![m] = Post(@, Transfer("payout_pending", account, a))]
  BY <1>1, <1>b DEF Commit, Entries
<1>5. ValidateBalanced(Transfer("payout_pending", account, a))
  BY <1>1, TransferBalanced
<1>6. Store!Record(m, Store!Transfer("payout_pending", account, a), x, to)
  BY <1>3, <1>4, <1>5, StoreRecord
<1>7. Store!TransitionPayout(x, to)
  <2>1. StorePayments' = StorePayments
    BY <1>1, StorePaymentsSame
  <2>2. QED
    BY <1>1, <1>2, <1>6, <2>1, Zenon DEF Store!TransitionPayout, StorePayments
<1>8. QED
  BY <1>7 DEF Store!Next

\* A resolved dispute is resolved in the store.
LEMMA StoreResolve ==
  ASSUME IInv, NEW c \in Calls, Commit(c), call[c].op = "resolve"
  PROVE  Store!Next
<1>a. PICK x \in Calls : x = call[c].target
  BY CommitFacts DEF CallOK, ResolveCall, Settles, Running
<1>b. PICK to \in {"won", "lost"} : to = call[c].to
  BY CommitFacts DEF CallOK, ResolveCall, Running
<1> DEFINE account == IF to = "won" THEN "available" ELSE "chargeback"
           a == disputes[x].amount
           m == disputes[x].merchant
<1>1. /\ disputes[x].status = "open" /\ m = call[c].merchant /\ a = call[c].amount
      /\ a \in Int /\ a > 0 /\ UNCHANGED payments
  BY <1>a, CommitFacts DEF CallOK, ResolveCall, Settles, Running
<1>2. disputes' = [disputes EXCEPT ![x].status = to] /\ payouts' = payouts
  BY <1>a, <1>b DEF Commit
<1>3. StoreOutbox' = StoreOutbox \cup {[aggregate |-> x, type |-> to]}
  BY <1>a, <1>b, SettledEvent
<1>4. ledger' = [ledger EXCEPT ![m] = Post(@, Transfer("dispute_frozen", account, a))]
  BY <1>1, <1>b DEF Commit, Entries
<1>5. ValidateBalanced(Transfer("dispute_frozen", account, a))
  BY <1>1, TransferBalanced
<1>6. Store!Record(m, Store!Transfer("dispute_frozen", account, a), x, to)
  BY <1>3, <1>4, <1>5, StoreRecord
<1>7. Store!ResolveDispute(x, to)
  <2>1. StorePayments' = StorePayments
    BY <1>1, StorePaymentsSame
  <2>2. QED
    BY <1>1, <1>2, <1>6, <2>1, Zenon DEF Store!ResolveDispute, StorePayments
<1>8. QED
  BY <1>7 DEF Store!Next

\* The row of a payment in the store.
LEMMA StoreRow ==
  ASSUME NEW p \in Payments
  PROVE  /\ StorePayments[p].amount = payments[p].amount
         /\ StorePayments[p].captured = payments[p].captured
         /\ StorePayments[p].refunded = payments[p].refunded
         /\ StorePayments[p].status = payments[p].status
         /\ StorePayments[p].reference = "provider_ref"
BY DEF StorePayments

\* A changed payment is the only payment that changes in the store.
LEMMA StorePaymentsStep ==
  ASSUME TypeOK, NEW p \in Payments, NEW row \in PaymentRow,
         payments' = [payments EXCEPT ![p] = row]
  PROVE  StorePayments' = [StorePayments EXCEPT
           ![p] = [amount |-> row.amount, captured |-> row.captured,
                   refunded |-> row.refunded, status |-> row.status,
                   reference |-> "provider_ref"]]
BY DEF TypeOK, StorePayments

\* The events that the amounts of a payment stand for.
LEMMA StorePaymentEvent ==
  ASSUME TypeOK, NEW p \in Payments, NEW row \in PaymentRow,
         payments' = [payments EXCEPT ![p] = row], UNCHANGED outbox,
         NEW type,
         \/ /\ type = "captured" /\ row.captured > 0
            /\ row.refunded = payments[p].refunded
         \/ /\ type = "refunded" /\ row.refunded > 0
            /\ row.captured = payments[p].captured
  PROVE  StoreOutbox' = StoreOutbox \cup {[aggregate |-> p, type |-> type]}
<1> DEFINE C == {x \in Payments : payments[x].captured > 0}
           R == {x \in Payments : payments[x].refunded > 0}
           E == {[aggregate |-> e.aggregate, type |-> e.type] : e \in outbox}
           EC(S) == {[aggregate |-> x, type |-> "captured"] : x \in S}
           ER(S) == {[aggregate |-> x, type |-> "refunded"] : x \in S}
<1>1. StoreOutbox = E \cup EC(C) \cup ER(R)
  BY Zenon DEF StoreOutbox
<1>2. StoreOutbox' = E \cup EC(C') \cup ER(R')
  <2>1. E' = E
    OBVIOUS
  <2>2. StoreOutbox' = E' \cup EC(C') \cup ER(R')
    BY Zenon DEF StoreOutbox
  <2>3. QED
    BY <2>1, <2>2, Zenon
<1>3. CASE type = "captured"
  <2>0. row.captured > 0 /\ row.refunded = payments[p].refunded
    BY <1>3
  <2>1. C' = C \cup {p} /\ R' = R
    BY <2>0 DEF TypeOK
  <2> HIDE DEF C, R, E
  <2>2. EC(C \cup {p}) = EC(C) \cup {[aggregate |-> p, type |-> "captured"]}
    BY Zenon
  <2>3. QED
    BY <1>1, <1>2, <1>3, <2>1, <2>2
<1>4. CASE type = "refunded"
  <2>0. row.refunded > 0 /\ row.captured = payments[p].captured
    BY <1>4
  <2>1. R' = R \cup {p} /\ C' = C
    BY <2>0 DEF TypeOK
  <2> HIDE DEF C, R, E
  <2>2. ER(R \cup {p}) = ER(R) \cup {[aggregate |-> p, type |-> "refunded"]}
    BY Zenon
  <2>3. QED
    BY <1>1, <1>2, <1>4, <2>1, <2>2
<1>5. QED
  BY <1>3, <1>4

\* What CommitPaymentCommand makes of the payments of the store, and the same with the
\* row of the payment written out.
StoreCommanded(p, status, captured, refunded) ==
  [StorePayments EXCEPT
     ![p].status = status, ![p].captured = @ + captured, ![p].refunded = @ + refunded,
     ![p].reference = IF "" # "" THEN "" ELSE @]

StoreWritten(p, status, captured, refunded) ==
  [StorePayments EXCEPT
     ![p] = [amount |-> payments[p].amount, captured |-> payments[p].captured + captured,
             refunded |-> payments[p].refunded + refunded, status |-> status,
             reference |-> "provider_ref"]]

\* The row of a payment in the store that a command writes.
LEMMA StoreCommandRow ==
  ASSUME NEW p \in Payments, NEW status, NEW captured, NEW refunded
  PROVE  StoreCommanded(p, status, captured, refunded)
           = StoreWritten(p, status, captured, refunded)
<1>1. PICK f : f = StorePayments
  OBVIOUS
<1>2. PICK r0 : r0 = payments[p]
  OBVIOUS
<1>3. f[p] = [amount |-> r0.amount, captured |-> r0.captured, refunded |-> r0.refunded,
              status |-> r0.status, reference |-> "provider_ref"]
  BY <1>1, <1>2 DEF StorePayments
<1>4. PICK r1 : r1 = [f[p] EXCEPT !.status = status]
  OBVIOUS
<1>5. r1 = [amount |-> r0.amount, captured |-> r0.captured, refunded |-> r0.refunded,
            status |-> status, reference |-> "provider_ref"]
  BY <1>3, <1>4
<1>6. PICK r2 : r2 = [r1 EXCEPT !.captured = f[p].captured + captured]
  OBVIOUS
<1>7. r2 = [amount |-> r0.amount, captured |-> r0.captured + captured,
            refunded |-> r0.refunded, status |-> status, reference |-> "provider_ref"]
  BY <1>3, <1>5, <1>6
<1>8. PICK r3 : r3 = [r2 EXCEPT !.refunded = f[p].refunded + refunded]
  OBVIOUS
<1>9. r3 = [amount |-> r0.amount, captured |-> r0.captured + captured,
            refunded |-> r0.refunded + refunded, status |-> status,
            reference |-> "provider_ref"]
  BY <1>3, <1>7, <1>8
<1>10. [r3 EXCEPT !.reference = f[p].reference] = r3
  BY <1>3, <1>9
<1>11. [f EXCEPT
          ![p].status = status, ![p].captured = @ + captured, ![p].refunded = @ + refunded,
          ![p].reference = IF "" # "" THEN "" ELSE @] =
       [f EXCEPT ![p] = [r3 EXCEPT !.reference = f[p].reference]]
  <2>1. p \in DOMAIN f
    BY <1>1 DEF StorePayments
  <2> HIDE <1>1
  <2> DEFINE f1 == [f EXCEPT ![p].status = status]
             f2 == [f1 EXCEPT ![p].captured = f[p].captured + captured]
             f3 == [f2 EXCEPT ![p].refunded = f[p].refunded + refunded]
  <2> HIDE DEF f1, f2, f3
  <2>3. f1 = [f EXCEPT ![p] = r1]
    BY <1>4, <2>1 DEF f1
  <2>5. f2 = [f EXCEPT ![p] = r2]
    BY <1>6, <2>1, <2>3 DEF f2
  <2>7. f3 = [f EXCEPT ![p] = r3]
    BY <1>8, <2>1, <2>5 DEF f3
  <2>8. [f3 EXCEPT ![p].reference = IF "" # "" THEN "" ELSE f[p].reference] =
          [f EXCEPT ![p] = [r3 EXCEPT !.reference = f[p].reference]]
    BY <2>1, <2>7
  <2>9. QED
    BY <2>8, Zenon DEF f1, f2, f3
<1>12. QED
  BY <1>1, <1>2, <1>9, <1>10, <1>11 DEF StoreCommanded, StoreWritten

\* A capture is the command of the store.
LEMMA StoreCapture ==
  ASSUME IInv, NEW p \in Payments, NEW a \in Amounts, Capture(p, a)
  PROVE  Store!Next
<1> DEFINE n == payments[p].captured + a
           row == [payments[p] EXCEPT !.captured = n, !.status = "captured"]
<1>1. /\ TypeOK /\ payments[p] \in PaymentRow /\ a \in Int /\ a > 0
      /\ payments[p].captured + a <= payments[p].amount
      /\ CanTransition(payments[p].status, "captured")
  BY MerchantAssumption DEF IInv, TypeOK, Capture, ValidateCapture
<1>2. /\ n > 0 /\ row \in PaymentRow
      /\ row.amount = payments[p].amount /\ row.captured = n
      /\ row.refunded = payments[p].refunded /\ row.status = "captured"
  <2>1. n \in Nat /\ n > 0
    BY <1>1 DEF PaymentRow
  <2> HIDE DEF n
  <2>2. QED
    BY <1>1, <2>1 DEF PaymentRow, PaymentStatus
<1>3. payments' = [payments EXCEPT ![p] = row]
  BY DEF Capture
<1> HIDE DEF n, row
<1>4. UNCHANGED <<outbox, payouts, disputes>>
  BY DEF Capture
<1>5. ledger' = [ledger EXCEPT ![Owner[p]] = Post(@, Transfer("pending", "available", a))]
  BY DEF Capture
<1>6. StoreOutbox' = StoreOutbox \cup {[aggregate |-> p, type |-> "captured"]}
  BY <1>1, <1>2, <1>3, <1>4, StorePaymentEvent
<1>7. Store!Record(Owner[p], Store!Transfer("pending", "available", a), p, "captured")
  BY <1>1, <1>5, <1>6, TransferBalanced, StoreRecord
<1>8. Store!CommandEntries(p, "captured", a) = Store!Transfer("pending", "available", a)
  BY DEF Store!CommandEntries
<1>9. StorePayments' = StoreCommanded(p, "captured", a, 0)
  <2>1. StorePayments' = [StorePayments EXCEPT
          ![p] = [amount |-> payments[p].amount, captured |-> n,
                  refunded |-> payments[p].refunded, status |-> "captured",
                  reference |-> "provider_ref"]]
    BY <1>1, <1>2, <1>3, StorePaymentsStep
  <2>2. /\ payments[p].captured + a = n
        /\ payments[p].refunded + 0 = payments[p].refunded
    BY <1>1 DEF PaymentRow, n
  <2>3. StorePayments' = StoreWritten(p, "captured", a, 0)
    BY <2>1, <2>2 DEF StoreWritten
  <2>4. QED
    BY <2>3, StoreCommandRow
<1>10. /\ Store!CanTransition(StorePayments[p].status, "captured")
       /\ Store!ValidateCapture(StorePayments[p], a)
  BY <1>1, StoreRow DEF CanTransition, Store!CanTransition, Store!ValidateCapture
<1>11. Store!CommitPaymentCommand(p, "captured", a, "")
  <2>1. StorePayments' = [StorePayments EXCEPT
          ![p].status = "captured", ![p].captured = @ + a, ![p].refunded = @ + 0,
          ![p].reference = IF "" # "" THEN "" ELSE @]
    BY <1>9 DEF StoreCommanded
  <2>2. QED
    BY <1>4, <1>7, <1>8, <1>10, <2>1, Zenon DEF Store!CommitPaymentCommand, StorePayments
<1>12. QED
  BY <1>11 DEF Store!Next, Store!CommandReferences

\* A refund is the command of the store.
LEMMA StoreRefund ==
  ASSUME IInv, NEW p \in Payments, NEW a \in Amounts, Refund(p, a)
  PROVE  Store!Next
<1> DEFINE n == payments[p].refunded + a
           row == [payments[p] EXCEPT !.refunded = n, !.status = "refunded"]
<1>1. /\ TypeOK /\ payments[p] \in PaymentRow /\ a \in Int /\ a > 0
      /\ payments[p].refunded + a <= payments[p].captured
      /\ CanTransition(payments[p].status, "refunded")
  BY MerchantAssumption DEF IInv, TypeOK, Refund, ValidateRefund
<1>2. /\ n > 0 /\ row \in PaymentRow
      /\ row.amount = payments[p].amount /\ row.captured = payments[p].captured
      /\ row.refunded = n /\ row.status = "refunded"
  <2>1. n \in Nat /\ n > 0
    BY <1>1 DEF PaymentRow
  <2> HIDE DEF n
  <2>2. QED
    BY <1>1, <2>1 DEF PaymentRow, PaymentStatus
<1>3. payments' = [payments EXCEPT ![p] = row]
  BY DEF Refund
<1> HIDE DEF n, row
<1>4. UNCHANGED <<outbox, payouts, disputes>>
  BY DEF Refund
<1>5. ledger' = [ledger EXCEPT ![Owner[p]] = Post(@, Transfer("available", "customer_refunded", a))]
  BY DEF Refund
<1>6. StoreOutbox' = StoreOutbox \cup {[aggregate |-> p, type |-> "refunded"]}
  BY <1>1, <1>2, <1>3, <1>4, StorePaymentEvent
<1>7. Store!Record(Owner[p], Store!Transfer("available", "customer_refunded", a), p, "refunded")
  BY <1>1, <1>5, <1>6, TransferBalanced, StoreRecord
<1>8. Store!CommandEntries(p, "refunded", a) = Store!Transfer("available", "customer_refunded", a)
  BY DEF Store!CommandEntries
<1>9. StorePayments' = StoreCommanded(p, "refunded", 0, a)
  <2>1. StorePayments' = [StorePayments EXCEPT
          ![p] = [amount |-> payments[p].amount, captured |-> payments[p].captured,
                  refunded |-> n, status |-> "refunded",
                  reference |-> "provider_ref"]]
    BY <1>1, <1>2, <1>3, StorePaymentsStep
  <2>2. /\ payments[p].refunded + a = n
        /\ payments[p].captured + 0 = payments[p].captured
    BY <1>1 DEF PaymentRow, n
  <2>3. StorePayments' = StoreWritten(p, "refunded", 0, a)
    BY <2>1, <2>2 DEF StoreWritten
  <2>4. QED
    BY <2>3, StoreCommandRow
<1>10. /\ Store!CanTransition(StorePayments[p].status, "refunded")
       /\ Store!ValidateRefund(StorePayments[p], a)
  BY <1>1, StoreRow DEF CanTransition, Store!CanTransition, Store!ValidateRefund
<1>11. Store!CommitPaymentCommand(p, "refunded", a, "")
  <2>1. StorePayments' = [StorePayments EXCEPT
          ![p].status = "refunded", ![p].captured = @ + 0, ![p].refunded = @ + a,
          ![p].reference = IF "" # "" THEN "" ELSE @]
    BY <1>9 DEF StoreCommanded
  <2>2. QED
    BY <1>4, <1>7, <1>8, <1>10, <2>1, Zenon DEF Store!CommitPaymentCommand, StorePayments
<1>12. QED
  BY <1>11 DEF Store!Next, Store!CommandReferences

\* Every other step leaves the tables alone.
LEMMA StoreStep ==
  ASSUME IInv, [Next]_vars
  PROVE  [Store!Next \/ OvertakenPayout]_(Store!vars)
<1>1. CASE UNCHANGED tables
  BY <1>1, StoreStutter
<1>2. ASSUME NEW p \in Payments, NEW a \in Amounts, Capture(p, a) \/ Refund(p, a)
      PROVE  Store!Next
  BY <1>2, StoreCapture, StoreRefund
<1>3. ASSUME NEW c \in Calls, Begin(c) \/ Proceed(c) \/ Abort(c), ~Commit(c)
      PROVE  UNCHANGED tables
  <2>1. CASE Begin(c)
    BY <2>1, Zenon DEF Begin, PayoutRequest, AdminRequest, PayoutCallback, CreatePayout,
                       CompletePayout, OpenDispute, ResolveDispute, Reject, Start
  <2>2. CASE Proceed(c)
    BY <1>3, <2>2, Zenon DEF Proceed, LockMerchant, CheckBalance, InsufficientBalance,
                             LockRow, AlreadySettled
  <2>3. CASE Abort(c)
    BY <2>3 DEF Abort
  <2>4. QED
    BY <1>3, <2>1, <2>2, <2>3
<1>4. ASSUME NEW c \in Calls, Commit(c)
      PROVE  Store!Next \/ OvertakenPayout
  <2>1. call[c].op \in {"payout", "dispute", "complete", "resolve"}
    BY <1>4, CommitFacts DEF CallOK, CallType, Running
  <2>2. QED
    BY <1>4, <2>1, StorePayout, StoreDispute, StoreComplete, StoreResolve
<1>5. CASE UNCHANGED vars
  BY <1>1, <1>5 DEF vars, tables
<1>6. QED
  BY <1>1, <1>2, <1>3, <1>4, <1>5 DEF Next

(***************************************************************************)
(* The transactions of payouts and disputes, whose checks and writes are   *)
(* steps of their own, change the tables as the single steps of the        *)
(* in-memory store do; only a payout may commit behind a balance that      *)
(* refunds and disputes have taken since, and then by no more than they    *)
(* took (postgres.go, CreatePayout).                                       *)
(***************************************************************************)
THEOREM StoreRefinement == Spec => ImplementsStore
<1>1. IInv /\ [Next]_vars => [Store!Next \/ OvertakenPayout]_(Store!vars)
  BY StoreStep
<1>2. QED
  BY <1>1, InvariantHolds, PTL DEF Spec, ImplementsStore
=============================================================================
