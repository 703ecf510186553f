------------------------ MODULE PaymentServiceProofs ------------------------
(***************************************************************************)
(* Proofs about PaymentService for any set of payments and requests, any   *)
(* amounts, any unit of storage, any risk limit, with and without provider *)
(* errors and crashes.                                                     *)
(*                                                                         *)
(* Neither the types nor the agreement of ledger and row is inductive      *)
(* alone: that a commit stays inside its limits rests on the row lock, the *)
(* lock argument on what a running call knows of its payment, and that row *)
(* and entries are rounded alike on the rows being multiples of the unit.  *)
(* The conjunction IInv of the five is.                                    *)
(***************************************************************************)
EXTENDS PaymentService, DomainTheorems

(***************************************************************************)
(* Every running call works on a payment that exists and whose amount is   *)
(* the one it read: rows are never deleted and amounts never updated.      *)
(***************************************************************************)
CallsKnowTheirPayment ==
  \A r \in Requests : req[r].pc \in Running =>
    /\ req[r].op \in Ops
    /\ req[r].pid \in Payments
    /\ payments[req[r].pid].status # "absent"
    /\ req[r].snap.amount = payments[req[r].pid].amount

\* A row as the tables keep it: its amounts are multiples of the unit.
RowStored(row) ==
  row.amount % Unit = 0 /\ row.captured % Unit = 0 /\ row.refunded % Unit = 0

RowsAreStored == \A p \in Payments : RowStored(payments[p])

IInv ==
  /\ TypeOK
  /\ RowsAreStored
  /\ CallsKnowTheirPayment
  /\ LockedRowIsCurrent
  /\ LedgerMatchesPayment
-----------------------------------------------------------------------------
(***************************************************************************)
(* Lemmas about the operators                                              *)
(***************************************************************************)

\* The empty row and the request that has not arrived are well typed.
LEMMA NoRowType ==
  /\ NoRow \in PaymentRow
  /\ NoRow.amount = 0 /\ NoRow.captured = 0 /\ NoRow.refunded = 0
  /\ NoRow.status = "absent"
BY DEF NoRow, PaymentRow, PaymentStatus, References

\* The initial record of a request is a call that has not begun.
LEMMA NoCallType == NoCall \in Call /\ NoCall.pc = "idle"
BY NoRowType DEF NoCall, Call, Steps, Ops, References

\* The four accounts are different.
LEMMA AccountNames ==
  /\ "customer_pending" \in Accounts /\ "pending" \in Accounts
  /\ "available" \in Accounts /\ "customer_refunded" \in Accounts
BY DEF Accounts

\* What the three ledger transactions do to the balances of a payment.
LEMMA PostAuthorize ==
  ASSUME NEW bal \in [Accounts -> Int], NEW a \in Int, NEW post,
         post = Post(bal, Transfer("customer_pending", "pending", a))
  PROVE  /\ post \in [Accounts -> Int]
         /\ post["customer_pending"] = bal["customer_pending"] - a
         /\ post["pending"] = bal["pending"] + a
         /\ post["available"] = bal["available"]
         /\ post["customer_refunded"] = bal["customer_refunded"]
<1>1. post = [bal EXCEPT !["customer_pending"] = @ + 0 - a, !["pending"] = @ + a - 0]
  BY DEF Post, Transfer, LedgerEntry
<1>2. QED
  BY <1>1, AccountNames

\* What Post does with the two entries of a capture.
LEMMA PostCapture ==
  ASSUME NEW bal \in [Accounts -> Int], NEW a \in Int, NEW post,
         post = Post(bal, Transfer("pending", "available", a))
  PROVE  /\ post \in [Accounts -> Int]
         /\ post["customer_pending"] = bal["customer_pending"]
         /\ post["pending"] = bal["pending"] - a
         /\ post["available"] = bal["available"] + a
         /\ post["customer_refunded"] = bal["customer_refunded"]
<1>1. post = [bal EXCEPT !["pending"] = @ + 0 - a, !["available"] = @ + a - 0]
  BY DEF Post, Transfer, LedgerEntry
<1>2. QED
  BY <1>1, AccountNames

\* What Post does with the two entries of a refund.
LEMMA PostRefund ==
  ASSUME NEW bal \in [Accounts -> Int], NEW a \in Int, NEW post,
         post = Post(bal, Transfer("available", "customer_refunded", a))
  PROVE  /\ post \in [Accounts -> Int]
         /\ post["customer_pending"] = bal["customer_pending"]
         /\ post["pending"] = bal["pending"]
         /\ post["available"] = bal["available"] - a
         /\ post["customer_refunded"] = bal["customer_refunded"] + a
<1>1. post = [bal EXCEPT !["available"] = @ + 0 - a, !["customer_refunded"] = @ + a - 0]
  BY DEF Post, Transfer, LedgerEntry
<1>2. QED
  BY <1>1, AccountNames

\* The row a command writes: a row again, with the fields the command names
\* changed and the others kept.
LEMMA ApplyRow ==
  ASSUME NEW c \in Call, NEW row \in PaymentRow,
         c.op \in Ops, c.op \in {"capture", "refund"} => c.amount > 0
  PROVE  /\ Apply(c, row) \in PaymentRow
         /\ Apply(c, row).amount = row.amount
         /\ Apply(c, row).status = TargetStatus(c.op)
         /\ Apply(c, row).captured =
              IF c.op = "capture" THEN row.captured + c.amount ELSE row.captured
         /\ Apply(c, row).refunded =
              IF c.op = "refund" THEN row.refunded + c.amount ELSE row.refunded
<1>1. c.amount \in Int /\ c.reference \in References
  BY DEF Call
<1>2. /\ row.amount \in Nat /\ row.captured \in Nat /\ row.refunded \in Nat
      /\ row.reference \in References
  BY DEF PaymentRow
<1>3. TargetStatus(c.op) \in PaymentStatus
  BY DEF TargetStatus, Ops, PaymentStatus
<1> DEFINE cap == IF c.op = "capture" THEN row.captured + c.amount ELSE row.captured
           ref == IF c.op = "refund" THEN row.refunded + c.amount ELSE row.refunded
           prv == IF c.reference # "" THEN c.reference ELSE row.reference
           st == TargetStatus(c.op)
<1>4. cap \in Nat /\ ref \in Nat /\ prv \in References
  <2>1. c.op = "capture" => row.captured + c.amount \in Nat
    BY <1>1, <1>2
  <2>2. c.op = "refund" => row.refunded + c.amount \in Nat
    BY <1>1, <1>2
  <2>3. QED
    BY <1>1, <1>2, <2>1, <2>2
<1>5. Apply(c, row) = [row EXCEPT !.status = st, !.captured = cap,
                                  !.refunded = ref, !.reference = prv]
  BY DEF Apply
<1> HIDE DEF cap, ref, prv, st
<1>6. Apply(c, row) = [amount |-> row.amount, captured |-> cap, refunded |-> ref,
                       status |-> st, reference |-> prv]
  BY <1>5 DEF PaymentRow
<1>7. Apply(c, row) \in PaymentRow
  BY <1>2, <1>3, <1>4, <1>6 DEF PaymentRow, st
<1>8. QED
  BY <1>6, <1>7 DEF cap, ref, st

\* A command that passed its validation moves a positive amount.
LEMMA AllowedAmount ==
  ASSUME NEW c \in Call, NEW row \in PaymentRow, CommandAllowed(c, row)
  PROVE  c.op \in {"capture", "refund"} => c.amount > 0
BY DEF CommandAllowed, ValidateCapture, ValidateRefund

\* Rounding gives a multiple, adding a multiple commutes with it, and it neither
\* exceeds a limit that is a multiple nor makes an amount negative.
LEMMA StoredLaws ==
  ASSUME NEW x \in Int, NEW y \in Int, y % Unit = 0
  PROVE  /\ Stored(x) \in Int /\ Stored(x) % Unit = 0
         /\ Stored(y + x) = y + Stored(x) /\ (y + Stored(x)) % Unit = 0
         /\ Stored(y) = y /\ Stored(0) = 0
         /\ x >= 0 => Stored(x) >= 0
<1>1. Unit \in Int /\ Unit > 0
  BY ConstantsAssumption
<1>2. QED
  BY <1>1, RoundToLaws, RoundToSame, RoundToLimit DEF Stored

\* What is rounded still fits below a limit that is a multiple.
LEMMA StoredFits ==
  ASSUME NEW x \in Int, NEW y \in Int, y % Unit = 0, NEW l \in Int, l % Unit = 0,
         y + x <= l
  PROVE  y + Stored(x) <= l
<1>1. Unit \in Int /\ Unit > 0
  BY ConstantsAssumption
<1>2. QED
  BY <1>1, RoundToLimit DEF Stored

\* The empty row is a multiple, and so is whatever is rounded.
LEMMA StoredMultiples ==
  /\ 0 % Unit = 0 /\ Stored(0) = 0
  /\ \A x \in Int : Stored(x) \in Int /\ Stored(x) % Unit = 0
<1>1. Unit \in Int /\ Unit > 0
  BY ConstantsAssumption
<1>2. PICK z \in Int : z = 0
  OBVIOUS
<1>3. z % Unit = 0
  BY <1>1, <1>2
<1>4. QED
  BY <1>2, <1>3, StoredLaws

\* The command with its amount rounded: what the tables see of it.
Rounded(c) == [c EXCEPT !.amount = Stored(@)]

\* Rounding a command changes its amount only.
LEMMA RoundedCall ==
  ASSUME NEW c \in Call, NEW d, d = Rounded(c)
  PROVE  /\ d \in Call /\ d.op = c.op /\ d.pid = c.pid /\ d.snap = c.snap
         /\ d.row = c.row /\ d.reference = c.reference /\ d.amount = Stored(c.amount)
<1>1. c.amount \in Int
  BY DEF Call
<1>2. PICK a \in Int : a = Stored(c.amount)
  BY <1>1, StoredMultiples
<1>3. d = [c EXCEPT !.amount = a]
  BY <1>2 DEF Rounded
<1>4. QED
  BY <1>2, <1>3 DEF Call

\* The entries of a transfer are rounded like its amount.
LEMMA TransferRounds ==
  ASSUME NEW from, NEW to, NEW a \in Int
  PROVE  /\ StoredEntries(Transfer(from, to, a)) = Transfer(from, to, Stored(a))
         /\ EntriesStorable(Transfer(from, to, a)) <=> Stored(a) # 0
<1>1. Stored(0) = 0
  BY StoredMultiples
<1>2. PICK b, z : b = Stored(a) /\ z = Stored(0)
  OBVIOUS
<1>3. /\ StoredEntry(LedgerEntry(from, a, 0)) = LedgerEntry(from, b, z)
      /\ StoredEntry(LedgerEntry(to, 0, a)) = LedgerEntry(to, z, b)
  <2>1. ASSUME NEW x, NEW debit, NEW credit
        PROVE  StoredEntry(LedgerEntry(x, debit, credit))
                 = LedgerEntry(x, Stored(debit), Stored(credit))
    <3>1. PICK e : e = LedgerEntry(x, debit, credit)
      OBVIOUS
    <3>2. e.debit = debit /\ e.credit = credit
      BY <3>1 DEF LedgerEntry
    <3>3. PICK sd, sc : sd = Stored(debit) /\ sc = Stored(credit)
      OBVIOUS
    <3>4. StoredEntry(e) = [e EXCEPT !.debit = sd, !.credit = sc]
      BY <3>2, <3>3 DEF StoredEntry
    <3>5. StoredEntry(e) = LedgerEntry(x, sd, sc)
      BY <3>1, <3>4 DEF LedgerEntry
    <3>6. QED
      BY <3>1, <3>3, <3>5
  <2>2. QED
    BY <1>2, <2>1
<1>4. /\ Transfer(from, to, a)[1] = LedgerEntry(from, a, 0)
      /\ Transfer(from, to, a)[2] = LedgerEntry(to, 0, a)
  BY DEF Transfer
<1>5. StoredEntries(Transfer(from, to, a)) = Transfer(from, to, Stored(a))
  BY <1>1, <1>2, <1>3, <1>4 DEF StoredEntries, Transfer
<1>6. PICK e : e = StoredEntries(Transfer(from, to, a))
  OBVIOUS
<1>7. e = << LedgerEntry(from, b, z), LedgerEntry(to, z, b) >>
  BY <1>3, <1>4, <1>6 DEF StoredEntries
<1>8. /\ e[1].debit = b /\ e[1].credit = 0 /\ e[2].debit = 0 /\ e[2].credit = b
  BY <1>1, <1>2, <1>7 DEF LedgerEntry
<1>9. EntriesStorable(Transfer(from, to, a)) <=>
        \A i \in 1 .. 2 : (e[i].debit = 0) # (e[i].credit = 0)
  BY <1>6 DEF EntriesStorable
<1>10. EntriesStorable(Transfer(from, to, a)) <=> b # 0
  BY <1>8, <1>9
<1>11. QED
  BY <1>2, <1>5, <1>10

\* The row that is written is the row after the rounded command: the row before is
\* a multiple, so rounding the new sum is adding the rounded amount.
LEMMA RowRounds ==
  ASSUME NEW c \in Call, NEW row \in PaymentRow, RowStored(row), c.op \in Ops,
         NEW d, d = Rounded(c)
  PROVE  StoredRow(Apply(c, row)) = Apply(d, row)
<1>1. /\ row.captured \in Int /\ row.refunded \in Int /\ c.amount \in Int
      /\ row.captured % Unit = 0 /\ row.refunded % Unit = 0
  BY DEF PaymentRow, Call, RowStored
<1>2. d.op = c.op /\ d.reference = c.reference /\ d.amount = Stored(c.amount)
  BY RoundedCall
<1> DEFINE cap(a) == IF c.op = "capture" THEN row.captured + a ELSE row.captured
           ref(a) == IF c.op = "refund" THEN row.refunded + a ELSE row.refunded
           prv == IF c.reference # "" THEN c.reference ELSE row.reference
<1>3. /\ Stored(cap(c.amount)) = cap(d.amount) /\ Stored(ref(c.amount)) = ref(d.amount)
  <2>1. PICK x \in Int, k \in Int, f \in Int :
          x = c.amount /\ k = row.captured /\ f = row.refunded
    BY <1>1
  <2>2. k % Unit = 0 /\ f % Unit = 0
    BY <1>1, <2>1
  <2>3. Stored(k + x) = k + Stored(x) /\ Stored(k) = k
    BY <2>2, StoredLaws
  <2>4. Stored(f + x) = f + Stored(x) /\ Stored(f) = f
    BY <2>2, StoredLaws
  <2>5. QED
    BY <1>2, <2>1, <2>3, <2>4
<1>4. PICK st, k1, k2, f1, f2, pr :
        /\ st = TargetStatus(c.op) /\ k1 = cap(c.amount) /\ k2 = cap(d.amount)
        /\ f1 = ref(c.amount) /\ f2 = ref(d.amount) /\ pr = prv
  OBVIOUS
<1>5. Apply(c, row) = [row EXCEPT !.status = st, !.captured = k1,
                                  !.refunded = f1, !.reference = pr]
  BY <1>4 DEF Apply
<1>6. Apply(d, row) = [row EXCEPT !.status = st, !.captured = k2,
                                  !.refunded = f2, !.reference = pr]
  BY <1>2, <1>4 DEF Apply
<1> HIDE DEF cap, ref, prv
<1>7. Stored(k1) = k2 /\ Stored(f1) = f2
  BY <1>3, <1>4
<1>8. Apply(c, row) = [amount |-> row.amount, captured |-> k1, refunded |-> f1,
                       status |-> st, reference |-> pr]
  BY <1>5 DEF PaymentRow
<1>9. Apply(d, row) = [amount |-> row.amount, captured |-> k2, refunded |-> f2,
                       status |-> st, reference |-> pr]
  BY <1>6 DEF PaymentRow
<1>10. PICK w : w = Apply(c, row)
  OBVIOUS
<1>11. StoredRow(w) = [w EXCEPT !.captured = k2, !.refunded = f2]
  BY <1>7, <1>8, <1>10 DEF StoredRow
<1>12. StoredRow(w) = [amount |-> row.amount, captured |-> k2, refunded |-> f2,
                       status |-> st, reference |-> pr]
  <2>1. PICK am : am = row.amount
    OBVIOUS
  <2>2. w = [amount |-> am, captured |-> k1, refunded |-> f1, status |-> st, reference |-> pr]
    BY <1>8, <1>10, <2>1
  <2>3. PICK v : v = [w EXCEPT !.captured = k2]
    OBVIOUS
  <2>4. v = [amount |-> am, captured |-> k2, refunded |-> f1, status |-> st, reference |-> pr]
    BY <2>2, <2>3
  <2>5. StoredRow(w) = [v EXCEPT !.refunded = f2]
    BY <1>11, <2>3, Zenon
  <2>6. QED
    BY <2>1, <2>4, <2>5
<1>13. QED
  BY <1>9, <1>10, <1>12

\* The tables see a validated command as its rounded form, which is valid as well.
LEMMA CommandRounds ==
  ASSUME NEW c \in Call, NEW row \in PaymentRow, RowStored(row), c.op \in Ops,
         c.snap.amount = row.amount, CommandAllowed(c, row), NEW d, d = Rounded(c)
  PROVE  /\ StoredRow(Apply(c, row)) = Apply(d, row)
         /\ StoredEntries(Entries(c)) = Entries(d)
         /\ CommandAllowed(d, row)
         /\ RowStored(Apply(d, row))
<1>1. /\ row.amount \in Nat /\ row.captured \in Nat /\ row.refunded \in Nat /\ c.amount \in Int
      /\ row.amount % Unit = 0 /\ row.captured % Unit = 0 /\ row.refunded % Unit = 0
  BY DEF PaymentRow, Call, RowStored
<1>2. d \in Call /\ d.op = c.op /\ d.snap = c.snap /\ d.amount = Stored(c.amount)
  BY RoundedCall
<1>3. PICK a, b : a = c.amount /\ b = Stored(c.amount)
  OBVIOUS
<1>4. /\ a \in Int /\ b \in Int /\ b % Unit = 0
      /\ (row.captured + b) % Unit = 0 /\ (row.refunded + b) % Unit = 0
      /\ a > 0 => b >= 0
  <2>1. PICK x \in Int, k \in Int, f \in Int :
          x = c.amount /\ k = row.captured /\ f = row.refunded
    BY <1>1
  <2>2. k % Unit = 0 /\ f % Unit = 0
    BY <1>1, <2>1
  <2>3. /\ Stored(x) \in Int /\ Stored(x) % Unit = 0 /\ (k + Stored(x)) % Unit = 0
        /\ x >= 0 => Stored(x) >= 0
    BY <2>2, StoredLaws
  <2>4. (f + Stored(x)) % Unit = 0
    BY <2>2, StoredLaws
  <2>5. QED
    BY <1>3, <2>1, <2>3, <2>4
<1>5. Stored(row.amount) = row.amount
  <2>1. PICK x \in Int : x = row.amount
    BY <1>1
  <2>2. Stored(x) = x
    BY <1>1, <2>1, StoredLaws
  <2>3. QED
    BY <2>1, <2>2
<1>6. /\ StoredEntries(Entries(c)) = Entries(d)
      /\ CommandAllowed(d, row)
      /\ c.op \in {"capture", "refund"} => b > 0
  <2>1. CASE c.op = "authorize"
    <3>1. /\ Entries(c) = Transfer("customer_pending", "pending", row.amount)
          /\ Entries(d) = Entries(c)
      BY <1>2, <2>1 DEF Entries
    <3>2. StoredEntries(Entries(c)) = Entries(d)
      BY <1>1, <1>5, <3>1, TransferRounds
    <3>3. CommandAllowed(d, row)
      BY <1>2, <2>1, <3>1 DEF CommandAllowed
    <3>4. QED
      BY <2>1, <3>2, <3>3
  <2>2. CASE c.op = "capture"
    <3>1. /\ Entries(c) = Transfer("pending", "available", a)
          /\ Entries(d) = Transfer("pending", "available", b)
      BY <1>2, <1>3, <2>2 DEF Entries
    <3>2. a > 0 /\ row.captured + a <= row.amount /\ EntriesStorable(Entries(c))
          /\ CanTransition(row.status, TargetStatus("capture"))
      BY <1>3, <2>2 DEF CommandAllowed, ValidateCapture
    <3>3. StoredEntries(Entries(c)) = Entries(d) /\ b # 0
      BY <1>3, <1>4, <3>1, <3>2, TransferRounds
    <3>4. b > 0 /\ row.captured + b <= row.amount
      BY <1>1, <1>3, <1>4, <3>2, <3>3, StoredFits
    <3>5. Stored(b) # 0
      BY <1>4, <3>3, StoredLaws
    <3>6. ValidateBalanced(Entries(d)) /\ EntriesStorable(Entries(d))
      BY <1>4, <3>1, <3>4, <3>5, TransferBalanced, TransferRounds
    <3>7. CommandAllowed(d, row)
      BY <1>2, <1>3, <2>2, <3>2, <3>4, <3>6 DEF CommandAllowed, ValidateCapture
    <3>8. QED
      BY <3>3, <3>4, <3>7
  <2>3. CASE c.op = "refund"
    <3>1. /\ Entries(c) = Transfer("available", "customer_refunded", a)
          /\ Entries(d) = Transfer("available", "customer_refunded", b)
      BY <1>2, <1>3, <2>3 DEF Entries
    <3>2. a > 0 /\ row.refunded + a <= row.captured /\ EntriesStorable(Entries(c))
          /\ CanTransition(row.status, TargetStatus("refund"))
      BY <1>3, <2>3 DEF CommandAllowed, ValidateRefund
    <3>3. StoredEntries(Entries(c)) = Entries(d) /\ b # 0
      BY <1>3, <1>4, <3>1, <3>2, TransferRounds
    <3>4. b > 0 /\ row.refunded + b <= row.captured
      BY <1>1, <1>3, <1>4, <3>2, <3>3, StoredFits
    <3>5. Stored(b) # 0
      BY <1>4, <3>3, StoredLaws
    <3>6. ValidateBalanced(Entries(d)) /\ EntriesStorable(Entries(d))
      BY <1>4, <3>1, <3>4, <3>5, TransferBalanced, TransferRounds
    <3>7. CommandAllowed(d, row)
      BY <1>2, <1>3, <2>3, <3>2, <3>4, <3>6 DEF CommandAllowed, ValidateRefund
    <3>8. QED
      BY <3>3, <3>4, <3>7
  <2>4. QED
    BY <2>1, <2>2, <2>3 DEF Ops
<1>7. StoredRow(Apply(c, row)) = Apply(d, row)
  BY RowRounds
<1>8. RowStored(Apply(d, row))
  <2>1. PICK new : new = Apply(d, row)
    OBVIOUS
  <2>2. /\ new.amount = row.amount
        /\ new.captured = IF c.op = "capture" THEN row.captured + b ELSE row.captured
        /\ new.refunded = IF c.op = "refund" THEN row.refunded + b ELSE row.refunded
    BY <1>2, <1>3, <1>6, <2>1, ApplyRow
  <2>3. RowStored(new)
    BY <1>1, <1>4, <2>2 DEF RowStored
  <2>4. QED
    BY <2>1, <2>3
<1>9. QED
  BY <1>6, <1>7, <1>8

\* A payment nobody has touched agrees with an empty ledger.
LEMMA EmptyAgrees ==
  ASSUME NEW row \in PaymentRow, row.captured = 0, row.refunded = 0,
         row.status \in {"absent", "created"},
         NEW bal \in [Accounts -> Int], \A a \in Accounts : bal[a] = 0
  PROVE  RowAgrees(row, bal)
BY DEF RowAgrees, Accounts, PaymentRow

\* Empty tables and idle requests satisfy the invariant.
LEMMA InitInvariant == Init => IInv
<1> SUFFICES ASSUME Init PROVE IInv
  OBVIOUS
<1>1. TypeOK
  <2>1. payments \in [Payments -> PaymentRow]
    BY NoRowType DEF Init
  <2>2. ledger \in [Payments -> [Accounts -> Int]]
    BY DEF Init
  <2>3. req \in [Requests -> Call]
    BY NoCallType DEF Init
  <2>4. QED
    BY <2>1, <2>2, <2>3 DEF Init, TypeOK
<1>2. \A r \in Requests : req[r].pc = "idle"
  BY NoCallType DEF Init
<1>3. CallsKnowTheirPayment /\ LockedRowIsCurrent
  BY <1>2 DEF CallsKnowTheirPayment, LockedRowIsCurrent, Running
<1>4. LedgerMatchesPayment
  <2> SUFFICES ASSUME NEW p \in Payments PROVE RowAgrees(payments[p], ledger[p])
    BY DEF LedgerMatchesPayment
  <2>1. payments[p] = NoRow /\ ledger[p] = [a \in Accounts |-> 0]
    BY DEF Init
  <2>2. QED
    BY <2>1, EmptyAgrees, NoRowType
<1>5. RowsAreStored
  BY NoRowType, StoredMultiples DEF Init, RowsAreStored, RowStored
<1>6. QED
  BY <1>1, <1>3, <1>4, <1>5 DEF IInv
-----------------------------------------------------------------------------
(***************************************************************************)
(* Each action preserves IInv                                              *)
(***************************************************************************)

\* A step that changes nothing in the database, only one call, which neither
\* holds a lock before nor after it.
LEMMA LocalStep ==
  ASSUME IInv, NEW r \in Requests,
         UNCHANGED <<payments, ledger, outbox, rowLock>>,
         executed' \subseteq Requests,
         req' \in [Requests -> Call],
         \A q \in Requests \ {r} : req'[q] = req[q],
         req[r].pc # "locked", req'[r].pc # "locked",
         req'[r].pc \in Running =>
           /\ req'[r].op \in Ops
           /\ req'[r].pid \in Payments
           /\ payments[req'[r].pid].status # "absent"
           /\ req'[r].snap.amount = payments[req'[r].pid].amount
  PROVE  IInv'
<1>1. TypeOK'
  BY DEF IInv, TypeOK
<1>2. CallsKnowTheirPayment'
  BY DEF IInv, CallsKnowTheirPayment
<1>3. LockedRowIsCurrent'
  <2> SUFFICES ASSUME NEW q \in Requests, req'[q].pc = "locked"
               PROVE  /\ rowLock'[req'[q].pid] = q
                      /\ req'[q].row = payments'[req'[q].pid]
                      /\ CommandAllowed(req'[q], payments'[req'[q].pid])
    BY DEF LockedRowIsCurrent
  <2>1. q # r /\ req'[q] = req[q]
    OBVIOUS
  <2>2. QED
    BY <2>1 DEF IInv, LockedRowIsCurrent
<1>4. LedgerMatchesPayment'
  BY DEF IInv, LedgerMatchesPayment
<1>5. RowsAreStored'
  BY DEF IInv, RowsAreStored
<1>6. QED
  BY <1>1, <1>2, <1>3, <1>4, <1>5 DEF IInv

\* Finish leaves a well-typed call that is over.
LEMMA FinishCall ==
  ASSUME TypeOK, NEW r \in Requests, NEW pc \in Finished, req' = Finish(r, pc)
  PROVE  /\ req' \in [Requests -> Call]
         /\ \A q \in Requests \ {r} : req'[q] = req[q]
         /\ req'[r].pc = pc
         /\ req'[r].pc \notin Running
         /\ req'[r].pc # "locked"
<1>1. req[r] \in Call /\ NoRow \in PaymentRow
  BY NoRowType DEF TypeOK
<1>2. [req[r] EXCEPT !.pc = pc, !.snap = NoRow, !.row = NoRow] \in Call
  BY <1>1 DEF Call, Steps, Finished
<1>3. req' = [req EXCEPT ![r] =
               [req[r] EXCEPT !.pc = pc, !.snap = NoRow, !.row = NoRow]]
  BY DEF Finish, TypeOK
<1>4. [req[r] EXCEPT !.pc = pc, !.snap = NoRow, !.row = NoRow].pc = pc
  BY <1>1 DEF Call
<1>5. QED
  BY <1>2, <1>3, <1>4 DEF TypeOK, Running, Finished

\* The first step of Authorize, Capture and Refund.
LEMMA StartStep ==
  ASSUME IInv, NEW r \in Requests, NEW op \in Ops, NEW p \in Payments,
         NEW amount \in Int, NEW pc \in {"provider", "transition"},
         NEW reference \in References, Exists(p),
         Start(r, op, p, amount, pc, reference)
  PROVE  IInv'
<1> DEFINE c == [pc |-> pc, op |-> op, pid |-> p, amount |-> amount,
                 snap |-> payments[p], row |-> NoRow, reference |-> reference]
<1>1. c \in Call
  BY NoRowType DEF IInv, TypeOK, Call, Steps
<1>2. /\ c.pc = pc /\ c.op = op /\ c.pid = p /\ c.snap = payments[p]
  OBVIOUS
<1>3. req' = [req EXCEPT ![r] = c] /\ req[r].pc = "idle"
  BY DEF Start
<1> HIDE DEF c
<1>4. req' \in [Requests -> Call] /\ req'[r] = c
      /\ \A q \in Requests \ {r} : req'[q] = req[q]
  BY <1>1, <1>3 DEF IInv, TypeOK
<1>5. UNCHANGED <<payments, ledger, outbox, rowLock>> /\ executed' \subseteq Requests
  BY DEF Start, IInv, TypeOK
<1>6. QED
  BY <1>2, <1>3, <1>4, <1>5, LocalStep DEF Exists

\* A request whose payment is not found, or whose first checks fail.
LEMMA RejectStep ==
  ASSUME IInv, NEW r \in Requests, NEW op \in Ops, NEW p \in Payments, NEW a \in Amounts,
         Reject(r, op, p, a)
  PROVE  IInv'
<1> DEFINE c == [NoCall EXCEPT !.pc = "error", !.op = op]
<1>1. c \in Call /\ c.pc = "error"
  BY NoCallType DEF Call, Steps
<1>2. req' = [req EXCEPT ![r] = c] /\ req[r].pc = "idle"
  BY DEF Reject
<1> HIDE DEF c
<1>3. req' \in [Requests -> Call] /\ req'[r] = c
      /\ \A q \in Requests \ {r} : req'[q] = req[q]
  BY <1>1, <1>2 DEF IInv, TypeOK
<1>4. UNCHANGED <<payments, ledger, outbox, rowLock>> /\ executed' \subseteq Requests
  BY DEF Reject, IInv, TypeOK
<1>5. QED
  BY <1>1, <1>2, <1>3, <1>4, LocalStep DEF Running

\* The first steps of Authorize, Capture and Refund.
LEMMA BeginStep ==
  ASSUME IInv, NEW r \in Requests, Begin(r)
  PROVE  IInv'
<1>1. PICK p \in Payments :
        \/ Authorize(r, p)
        \/ AuthorizeBlocked(r, p)
        \/ \E a \in Amounts :
             \/ Capture(r, p, a)
             \/ Refund(r, p, a)
             \/ \E op \in Ops : Reject(r, op, p, a)
  BY DEF Begin
<1>2. Amounts \subseteq Int
  BY ConstantsAssumption
<1>3. CASE Authorize(r, p)
  <2>1. Exists(p) /\ Start(r, "authorize", p, 0, "provider", "")
    BY <1>3 DEF Authorize
  <2>2. "authorize" \in Ops /\ 0 \in Int /\ "" \in References
    BY DEF Ops, References
  <2>3. QED
    BY <2>1, <2>2, StartStep
<1>4. CASE AuthorizeBlocked(r, p)
  <2>1. Exists(p) /\ Start(r, "authorize", p, 0, "transition", "risk_blocked")
    BY <1>4 DEF AuthorizeBlocked
  <2>2. "authorize" \in Ops /\ 0 \in Int /\ "risk_blocked" \in References
    BY DEF Ops, References
  <2>3. QED
    BY <2>1, <2>2, StartStep
<1>5. CASE \E a \in Amounts : Capture(r, p, a)
  BY <1>2, <1>5, StartStep DEF Capture, Ops, References
<1>6. CASE \E a \in Amounts : Refund(r, p, a)
  BY <1>2, <1>6, StartStep DEF Refund, Ops, References
<1>7. CASE \E a \in Amounts, op \in Ops : Reject(r, op, p, a)
  BY <1>7, RejectStep
<1>8. QED
  BY <1>1, <1>3, <1>4, <1>5, <1>6, <1>7

\* A running call moves on to its next step, or learns its reference.
LEMMA AdvanceStep ==
  ASSUME IInv, NEW r \in Requests, NEW pc \in Steps, NEW reference \in References,
         req' = [req EXCEPT ![r].pc = pc, ![r].reference = reference],
         req[r].pc \in Running, req[r].pc # "locked", pc # "locked",
         UNCHANGED <<payments, ledger, outbox, rowLock>>,
         executed' \subseteq Requests
  PROVE  IInv'
<1> DEFINE c == [req[r] EXCEPT !.pc = pc, !.reference = reference]
<1>1. req[r] \in Call
  BY DEF IInv, TypeOK
<1>2. /\ c \in Call /\ c.pc = pc /\ c.op = req[r].op
      /\ c.pid = req[r].pid /\ c.snap = req[r].snap
  BY <1>1 DEF Call
<1>3. req' = [req EXCEPT ![r] = c]
  BY DEF IInv, TypeOK
<1>4. /\ req[r].op \in Ops /\ req[r].pid \in Payments
      /\ payments[req[r].pid].status # "absent"
      /\ req[r].snap.amount = payments[req[r].pid].amount
  BY DEF IInv, CallsKnowTheirPayment
<1> HIDE DEF c
<1>5. /\ req' \in [Requests -> Call] /\ req'[r] = c
      /\ \A q \in Requests \ {r} : req'[q] = req[q]
  BY <1>2, <1>3 DEF IInv, TypeOK
<1>6. QED
  BY <1>2, <1>4, <1>5, LocalStep

\* The answer of the provider, either way.
LEMMA ProviderStep ==
  ASSUME IInv, NEW r \in Requests, ProviderSucceeds(r) \/ ProviderFails(r)
  PROVE  IInv'
<1>1. /\ req[r].pc = "provider" /\ req[r] \in Call
      /\ UNCHANGED <<payments, ledger, outbox, rowLock>>
      /\ executed' \subseteq Requests
  BY DEF ProviderSucceeds, ProviderFails, IInv, TypeOK
<1>2. req[r].pc \in Running /\ "commit" \in Steps /\ "transition" \in Steps
  BY <1>1 DEF Running, Steps
<1>3. CASE ProviderSucceeds(r)
  <2> DEFINE ref == IF req[r].op = "authorize" THEN "provider_ref"
                                               ELSE req[r].snap.reference
  <2>1. ref \in References
    BY <1>1 DEF Call, PaymentRow, References
  <2>2. req' = [req EXCEPT ![r].pc = "commit", ![r].reference = ref]
    BY <1>3 DEF ProviderSucceeds
  <2> HIDE DEF ref
  <2>3. QED
    BY <1>1, <1>2, <2>1, <2>2, AdvanceStep
<1>4. CASE ProviderFails(r) /\ req' = Finish(r, "error")
  BY <1>1, <1>4, FinishCall, LocalStep DEF IInv, Finished
<1>5. CASE ProviderFails(r) /\ req' # Finish(r, "error")
  <2>1. req' = [req EXCEPT ![r].pc = "transition", ![r].reference = "provider_error"]
    BY <1>5 DEF ProviderFails
  <2>2. "provider_error" \in References
    BY DEF References
  <2>3. QED
    BY <1>1, <1>2, <2>1, <2>2, AdvanceStep
<1>6. QED
  BY <1>3, <1>4, <1>5

\* CommitPaymentCommand refuses the command under the row lock and rolls back.
LEMMA RefusedStep ==
  ASSUME IInv, NEW r \in Requests, CommandRefused(r)
  PROVE  IInv'
BY FinishCall, LocalStep DEF CommandRefused, IInv, TypeOK, Finished

\* The unlocked read at the start of Transition.
LEMMA TransitionReadStep ==
  ASSUME IInv, NEW r \in Requests, TransitionRead(r)
  PROVE  IInv'
<1>1. /\ req[r].pc = "transition" /\ req[r] \in Call
      /\ UNCHANGED <<payments, ledger, outbox, rowLock>>
      /\ executed' \subseteq Requests
  BY DEF TransitionRead, IInv, TypeOK
<1>2. CASE req' = Finish(r, "error")
  BY <1>1, <1>2, FinishCall, LocalStep DEF IInv, Finished
<1>3. CASE req' # Finish(r, "error")
  <2>1. req' = [req EXCEPT ![r].pc = "update"]
    BY <1>3 DEF TransitionRead
  <2>2. req' = [req EXCEPT ![r].pc = "update", ![r].reference = req[r].reference]
    BY <1>1, <2>1 DEF Call, IInv, TypeOK
  <2>3. "update" \in Steps /\ req[r].reference \in References /\ req[r].pc \in Running
    BY <1>1 DEF Steps, Running, Call
  <2>4. QED
    BY <1>1, <2>2, <2>3, AdvanceStep
<1>4. QED
  BY <1>2, <1>3

\* SELECT ... FOR UPDATE on a free row: no other transaction holds this row.
LEMMA LockRowStep ==
  ASSUME IInv, NEW r \in Requests, LockRow(r)
  PROVE  IInv'
<1> DEFINE p == req[r].pid
           c == [req[r] EXCEPT !.pc = "locked", !.row = payments[p]]
<1>1. /\ req[r].pc = "commit" /\ req[r] \in Call
      /\ rowLock[p] = None
      /\ CommandAllowed(req[r], payments[p])
      /\ rowLock' = [rowLock EXCEPT ![p] = r]
      /\ UNCHANGED <<payments, ledger, outbox, executed>>
  BY DEF LockRow, RowFree, IInv, TypeOK
<1>2. /\ req[r].op \in Ops /\ p \in Payments
      /\ payments[p].status # "absent"
      /\ req[r].snap.amount = payments[p].amount
  BY <1>1 DEF IInv, CallsKnowTheirPayment, Running
<1>3. /\ c \in Call /\ c.pc = "locked" /\ c.op = req[r].op /\ c.pid = p
      /\ c.snap = req[r].snap /\ c.amount = req[r].amount /\ c.row = payments[p]
  BY <1>1, <1>2 DEF Call, Steps, IInv, TypeOK
<1>4. req' = [req EXCEPT ![r] = c]
  BY DEF LockRow, IInv, TypeOK
<1> HIDE DEF c
<1>5. /\ req' \in [Requests -> Call] /\ req'[r] = c
      /\ \A q \in Requests \ {r} : req'[q] = req[q]
  BY <1>3, <1>4 DEF IInv, TypeOK
<1>6. TypeOK'
  BY <1>1, <1>2, <1>5 DEF IInv, TypeOK
<1>7. CallsKnowTheirPayment'
  BY <1>1, <1>2, <1>3, <1>5 DEF IInv, CallsKnowTheirPayment
<1>8. LockedRowIsCurrent'
  <2>1. CommandAllowed(c, payments[p])
    <3>1. Entries(c) = Entries(req[r])
      BY <1>3 DEF Entries
    <3>2. QED
      BY <1>1, <1>3, <3>1 DEF CommandAllowed
  <2>2. ASSUME NEW q \in Requests, req'[q].pc = "locked"
        PROVE  /\ rowLock'[req'[q].pid] = q
               /\ req'[q].row = payments'[req'[q].pid]
               /\ CommandAllowed(req'[q], payments'[req'[q].pid])
    <3>1. CASE q = r
      BY <1>1, <1>2, <1>3, <1>5, <2>1, <3>1 DEF IInv, TypeOK
    <3>2. CASE q # r
      <4>1. req'[q] = req[q] /\ req[q].pid \in Payments /\ rowLock[req[q].pid] = q
        BY <1>5, <2>2, <3>2 DEF IInv, LockedRowIsCurrent, CallsKnowTheirPayment, Running
      <4>2. req[q].pid # p
        BY <1>1, <4>1, ConstantsAssumption
      <4>3. QED
        BY <1>1, <1>2, <2>2, <4>1, <4>2 DEF IInv, TypeOK, LockedRowIsCurrent
    <3>3. QED
      BY <3>1, <3>2
  <2>3. QED
    BY <2>2 DEF LockedRowIsCurrent
<1>9. QED
  BY <1>1, <1>6, <1>7, <1>8 DEF IInv, RowsAreStored, LedgerMatchesPayment

\* The heart of the matter: a validated command, applied to the row it was
\* validated on, keeps the row and the ledger in agreement.
LEMMA CommitAgrees ==
  ASSUME NEW c \in Call, NEW row \in PaymentRow, NEW bal \in [Accounts -> Int],
         c.op \in Ops, c.snap.amount = row.amount,
         RowAgrees(row, bal), CommandAllowed(c, row)
  PROVE  /\ Post(bal, Entries(c)) \in [Accounts -> Int]
         /\ RowAgrees(Apply(c, row), Post(bal, Entries(c)))
<1> DEFINE new == Apply(c, row)
           post == Post(bal, Entries(c))
<1>1. /\ new \in PaymentRow
      /\ new.amount = row.amount
      /\ new.status = TargetStatus(c.op)
      /\ new.captured = IF c.op = "capture" THEN row.captured + c.amount ELSE row.captured
      /\ new.refunded = IF c.op = "refund" THEN row.refunded + c.amount ELSE row.refunded
  BY ApplyRow, AllowedAmount
<1>2. /\ row.amount \in Nat /\ row.captured \in Nat /\ row.refunded \in Nat
      /\ row.amount \in Int /\ c.amount \in Int /\ \A a \in Accounts : bal[a] \in Int
  BY DEF PaymentRow, Call
<1> HIDE DEF new
<1>3. CASE c.op = "authorize"
  <2>1. post = Post(bal, Transfer("customer_pending", "pending", row.amount))
    BY <1>3 DEF Entries
  <2> HIDE DEF post
  <2>2. /\ post \in [Accounts -> Int]
        /\ post["customer_pending"] = bal["customer_pending"] - row.amount
        /\ post["pending"] = bal["pending"] + row.amount
        /\ post["available"] = bal["available"]
        /\ post["customer_refunded"] = bal["customer_refunded"]
    BY <1>2, <2>1, PostAuthorize, ZenonT(60)
  <2>3. row.status = "created" /\ new.status = "authorized"
    BY <1>1, <1>3 DEF CommandAllowed, CanTransition, TargetStatus
  <2>4. RowAgrees(new, post)
    BY <1>1, <1>2, <1>3, <2>2, <2>3 DEF RowAgrees, Accounts
  <2>5. QED
    BY <2>2, <2>4 DEF new, post
<1>4. CASE c.op = "capture"
  <2>1. post = Post(bal, Transfer("pending", "available", c.amount))
    BY <1>4 DEF Entries
  <2> HIDE DEF post
  <2>2. /\ post \in [Accounts -> Int]
        /\ post["pending"] = bal["pending"] - c.amount
        /\ post["available"] = bal["available"] + c.amount
        /\ post["customer_pending"] = bal["customer_pending"]
        /\ post["customer_refunded"] = bal["customer_refunded"]
    BY <1>2, <2>1, PostCapture, ZenonT(60)
  <2>3. /\ row.status \in {"authorized", "captured"} /\ new.status = "captured"
        /\ c.amount > 0 /\ row.captured + c.amount <= row.amount
    BY <1>1, <1>4 DEF CommandAllowed, CanTransition, TargetStatus, ValidateCapture
  <2>4. RowAgrees(new, post)
    BY <1>1, <1>2, <1>4, <2>2, <2>3 DEF RowAgrees, Accounts
  <2>5. QED
    BY <2>2, <2>4 DEF new, post
<1>5. CASE c.op = "refund"
  <2>1. post = Post(bal, Transfer("available", "customer_refunded", c.amount))
    BY <1>5 DEF Entries
  <2> HIDE DEF post
  <2>2. /\ post \in [Accounts -> Int]
        /\ post["available"] = bal["available"] - c.amount
        /\ post["customer_refunded"] = bal["customer_refunded"] + c.amount
        /\ post["customer_pending"] = bal["customer_pending"]
        /\ post["pending"] = bal["pending"]
    BY <1>2, <2>1, PostRefund, ZenonT(60)
  <2>3. /\ row.status \in {"captured", "refunded"} /\ new.status = "refunded"
        /\ c.amount > 0 /\ row.refunded + c.amount <= row.captured
    BY <1>1, <1>5 DEF CommandAllowed, CanTransition, TargetStatus, ValidateRefund
  <2>4. RowAgrees(new, post)
    BY <1>1, <1>2, <1>5, <2>2, <2>3 DEF RowAgrees, Accounts
  <2>5. QED
    BY <2>2, <2>4 DEF new, post
<1>6. QED
  BY <1>3, <1>4, <1>5 DEF Ops

\* What a commit writes: the row and the entries of the rounded command.
LEMMA CommitWrites ==
  ASSUME IInv, NEW r \in Requests, Commit(r), NEW c, c = req[r], NEW p, p = req[r].pid,
         NEW d, d = Rounded(req[r])
  PROVE  /\ c.pc = "locked" /\ c \in Call /\ c.op \in Ops /\ p \in Payments
         /\ payments[p] \in PaymentRow /\ payments[p].status # "absent"
         /\ c.snap.amount = payments[p].amount
         /\ rowLock[p] = r /\ CommandAllowed(c, payments[p])
         /\ d \in Call /\ d.op = c.op /\ d.snap = c.snap
         /\ d.reference = c.reference /\ d.amount = Stored(c.amount)
         /\ CommandAllowed(d, payments[p])
         /\ RowStored(Apply(d, payments[p]))
         /\ payments' = [payments EXCEPT ![p] = Apply(d, payments[p])]
         /\ ledger' = [ledger EXCEPT ![p] = Post(ledger[p], Entries(d))]
<1>1. /\ c.pc = "locked" /\ c \in Call /\ c.op \in Ops /\ p \in Payments
      /\ payments[p] \in PaymentRow /\ payments[p].status # "absent"
      /\ c.snap.amount = payments[p].amount
      /\ rowLock[p] = r /\ c.row = payments[p] /\ CommandAllowed(c, payments[p])
      /\ RowStored(payments[p])
  BY DEF Commit, IInv, TypeOK, CallsKnowTheirPayment, LockedRowIsCurrent, Running,
         RowsAreStored
<1>2. PICK row : row = payments[p]
  OBVIOUS
<1>3. /\ StoredRow(Apply(c, row)) = Apply(d, row)
      /\ StoredEntries(Entries(c)) = Entries(d)
      /\ CommandAllowed(d, row) /\ RowStored(Apply(d, row))
  BY <1>1, <1>2, CommandRounds
<1>4. /\ d \in Call /\ d.op = c.op /\ d.snap = c.snap
      /\ d.reference = c.reference /\ d.amount = Stored(c.amount)
  BY <1>1, RoundedCall
<1>5. /\ payments' = [payments EXCEPT ![p] = StoredRow(Apply(c, c.row))]
      /\ ledger' = [ledger EXCEPT ![p] = Post(ledger[p], StoredEntries(Entries(c)))]
  BY DEF Commit
<1>6. QED
  BY <1>1, <1>2, <1>3, <1>4, <1>5

\* COMMIT of a payment command: row, ledger entries and event at once.
LEMMA CommitStep ==
  ASSUME IInv, NEW r \in Requests, Commit(r)
  PROVE  IInv'
<1> DEFINE p == req[r].pid
           c == req[r]
           d == Rounded(req[r])
<1>1. /\ c.pc = "locked" /\ c \in Call /\ c.op \in Ops /\ p \in Payments
      /\ c.snap.amount = payments[p].amount
      /\ rowLock[p] = r /\ CommandAllowed(c, payments[p])
      /\ d \in Call /\ d.op = c.op /\ d.snap = c.snap /\ CommandAllowed(d, payments[p])
      /\ RowStored(Apply(d, payments[p]))
      /\ payments' = [payments EXCEPT ![p] = Apply(d, payments[p])]
      /\ ledger' = [ledger EXCEPT ![p] = Post(ledger[p], Entries(d))]
  BY CommitWrites
<1> HIDE DEF d
<1>2. /\ payments' = [payments EXCEPT ![p] = Apply(d, payments[p])]
      /\ ledger' = [ledger EXCEPT ![p] = Post(ledger[p], Entries(d))]
      /\ outbox' = outbox \cup {Event(r)}
      /\ rowLock' = [rowLock EXCEPT ![p] = None]
      /\ \E pc \in Finished : req' = Finish(r, pc)
      /\ executed' = executed
  BY <1>1 DEF Commit, Finished
<1>3. payments[p] \in PaymentRow /\ ledger[p] \in [Accounts -> Int]
      /\ c.snap \in PaymentRow /\ RowAgrees(payments[p], ledger[p])
  BY <1>1 DEF IInv, TypeOK, Call, LedgerMatchesPayment
<1>4. c.op \in {"capture", "refund"} => c.amount > 0 /\ d.amount > 0
  BY <1>1, <1>3, AllowedAmount
<1>5. /\ Apply(d, payments[p]) \in PaymentRow
      /\ Apply(d, payments[p]).amount = payments[p].amount
      /\ Apply(d, payments[p]).status # "absent"
  BY <1>1, <1>3, <1>4, ApplyRow DEF TargetStatus, Ops
<1>6. Event(r) \in EventType
  <2>1. Apply(c, c.snap) \in PaymentRow
    BY <1>1, <1>3, <1>4, ApplyRow
  <2>2. QED
    BY <1>1, <2>1 DEF Event, EventType
<1>7. /\ Post(ledger[p], Entries(d)) \in [Accounts -> Int]
      /\ RowAgrees(Apply(d, payments[p]), Post(ledger[p], Entries(d)))
  BY <1>1, <1>3, CommitAgrees
<1>8. /\ req' \in [Requests -> Call] /\ req'[r].pc \notin Running /\ req'[r].pc # "locked"
      /\ \A q \in Requests \ {r} : req'[q] = req[q]
  BY <1>2, FinishCall DEF IInv
<1>9. TypeOK'
  BY <1>1, <1>2, <1>5, <1>6, <1>7, <1>8 DEF IInv, TypeOK
<1>10. CallsKnowTheirPayment'
  BY <1>1, <1>2, <1>5, <1>8 DEF IInv, TypeOK, CallsKnowTheirPayment
<1>11. LockedRowIsCurrent'
  <2> SUFFICES ASSUME NEW q \in Requests, req'[q].pc = "locked"
               PROVE  /\ rowLock'[req'[q].pid] = q
                      /\ req'[q].row = payments'[req'[q].pid]
                      /\ CommandAllowed(req'[q], payments'[req'[q].pid])
    BY DEF LockedRowIsCurrent
  <2>1. /\ q # r /\ req'[q] = req[q] /\ req[q].pid \in Payments
        /\ rowLock[req[q].pid] = q
        /\ req[q].row = payments[req[q].pid]
        /\ CommandAllowed(req[q], payments[req[q].pid])
    BY <1>8 DEF IInv, LockedRowIsCurrent, CallsKnowTheirPayment, Running
  <2>2. req[q].pid # p
    BY <1>1, <2>1
  <2>3. payments'[req[q].pid] = payments[req[q].pid]
        /\ rowLock'[req[q].pid] = rowLock[req[q].pid]
    BY <1>2, <2>1, <2>2 DEF IInv, TypeOK
  <2>4. QED
    BY <2>1, <2>3
<1>12. LedgerMatchesPayment'
  <2> SUFFICES ASSUME NEW q \in Payments PROVE RowAgrees(payments'[q], ledger'[q])
    BY DEF LedgerMatchesPayment
  <2>1. CASE q = p
    BY <1>2, <1>7, <2>1 DEF IInv, TypeOK
  <2>2. CASE q # p
    <3>1. payments'[q] = payments[q] /\ ledger'[q] = ledger[q]
      BY <1>2, <2>2 DEF IInv, TypeOK
    <3>2. QED
      BY <3>1 DEF IInv, LedgerMatchesPayment
  <2>3. QED
    BY <2>1, <2>2
<1>13. RowsAreStored'
  BY <1>1, <1>2 DEF IInv, TypeOK, RowsAreStored
<1>14. QED
  BY <1>9, <1>10, <1>11, <1>12, <1>13 DEF IInv

\* The UPDATE of Transition waits for the row lock, so no transaction that has
\* validated the row is between its validation and its commit.
LEMMA TransitionUpdateStep ==
  ASSUME IInv, NEW r \in Requests, TransitionUpdate(r)
  PROVE  IInv'
<1> DEFINE p == req[r].pid
           new == [payments[p] EXCEPT !.status = "failed", !.reference = req[r].reference]
<1>1. /\ req[r].pc = "update" /\ req[r] \in Call /\ p \in Payments /\ rowLock[p] = None
      /\ payments[p] \in PaymentRow /\ ledger[p] \in [Accounts -> Int]
      /\ RowAgrees(payments[p], ledger[p])
  BY DEF TransitionUpdate, RowFree, IInv, TypeOK, CallsKnowTheirPayment, Running,
         LedgerMatchesPayment
<1>2. /\ new \in PaymentRow /\ new.status = "failed"
      /\ new.amount = payments[p].amount /\ new.captured = payments[p].captured
      /\ new.refunded = payments[p].refunded
  BY <1>1 DEF PaymentRow, PaymentStatus, Call
<1>3. /\ payments' = [payments EXCEPT ![p] = new]
      /\ req' = Finish(r, "error")
      /\ UNCHANGED <<ledger, outbox, rowLock, executed>>
  BY <1>1 DEF TransitionUpdate, IInv, TypeOK
<1> HIDE DEF new
<1>4. RowAgrees(new, ledger[p])
  BY <1>1, <1>2 DEF RowAgrees
<1>5. /\ req' \in [Requests -> Call] /\ req'[r].pc \notin Running /\ req'[r].pc # "locked"
      /\ \A q \in Requests \ {r} : req'[q] = req[q]
  BY <1>3, FinishCall DEF IInv, Finished
<1>6. TypeOK'
  BY <1>1, <1>2, <1>3, <1>5 DEF IInv, TypeOK
<1>7. CallsKnowTheirPayment'
  BY <1>1, <1>2, <1>3, <1>5 DEF IInv, TypeOK, CallsKnowTheirPayment
<1>8. LockedRowIsCurrent'
  <2> SUFFICES ASSUME NEW q \in Requests, req'[q].pc = "locked"
               PROVE  /\ rowLock'[req'[q].pid] = q
                      /\ req'[q].row = payments'[req'[q].pid]
                      /\ CommandAllowed(req'[q], payments'[req'[q].pid])
    BY DEF LockedRowIsCurrent
  <2>1. /\ req'[q] = req[q] /\ req[q].pid \in Payments
        /\ rowLock[req[q].pid] = q
        /\ req[q].row = payments[req[q].pid]
        /\ CommandAllowed(req[q], payments[req[q].pid])
    BY <1>5 DEF IInv, LockedRowIsCurrent, CallsKnowTheirPayment, Running
  <2>2. req[q].pid # p
    BY <1>1, <2>1, ConstantsAssumption
  <2>3. payments'[req[q].pid] = payments[req[q].pid]
    BY <1>3, <2>1, <2>2 DEF IInv, TypeOK
  <2>4. QED
    BY <1>3, <2>1, <2>3
<1>9. LedgerMatchesPayment'
  BY <1>1, <1>3, <1>4 DEF IInv, TypeOK, LedgerMatchesPayment
<1>10. RowsAreStored'
  BY <1>1, <1>2, <1>3 DEF IInv, TypeOK, RowsAreStored, RowStored
<1>11. QED
  BY <1>6, <1>7, <1>8, <1>9, <1>10 DEF IInv

\* A handler that dies gives up its own lock and no other.
LEMMA AbortStep ==
  ASSUME IInv, NEW r \in Requests, Abort(r)
  PROVE  IInv'
<1>1. /\ req' = Finish(r, "dead")
      /\ rowLock' = [p \in Payments |-> IF rowLock[p] = r THEN None ELSE rowLock[p]]
      /\ UNCHANGED <<payments, ledger, outbox, executed>>
  BY DEF Abort
<1>2. /\ req' \in [Requests -> Call] /\ req'[r].pc \notin Running /\ req'[r].pc # "locked"
      /\ \A q \in Requests \ {r} : req'[q] = req[q]
  BY <1>1, FinishCall DEF IInv, Finished
<1>3. TypeOK'
  BY <1>1, <1>2 DEF IInv, TypeOK
<1>4. CallsKnowTheirPayment'
  BY <1>1, <1>2 DEF IInv, CallsKnowTheirPayment
<1>5. LockedRowIsCurrent'
  <2> SUFFICES ASSUME NEW q \in Requests, req'[q].pc = "locked"
               PROVE  /\ rowLock'[req'[q].pid] = q
                      /\ req'[q].row = payments'[req'[q].pid]
                      /\ CommandAllowed(req'[q], payments'[req'[q].pid])
    BY DEF LockedRowIsCurrent
  <2>1. /\ q # r /\ req'[q] = req[q] /\ req[q].pid \in Payments
        /\ rowLock[req[q].pid] = q
        /\ req[q].row = payments[req[q].pid]
        /\ CommandAllowed(req[q], payments[req[q].pid])
    BY <1>2 DEF IInv, LockedRowIsCurrent, CallsKnowTheirPayment, Running
  <2>2. QED
    BY <1>1, <2>1
<1>6. QED
  BY <1>1, <1>3, <1>4, <1>5 DEF IInv, RowsAreStored, LedgerMatchesPayment

\* Nobody works on a payment before its INSERT is committed.
LEMMA CreateStep ==
  ASSUME IInv, NEW p \in Payments, NEW a \in Amounts, CreatePayment(p, a)
  PROVE  IInv'
<1>0. PICK s : s = Stored(a)
  OBVIOUS
<1> DEFINE new == [NoRow EXCEPT !.amount = s, !.status = "created"]
<1>1. /\ payments[p].status = "absent" /\ s \in Nat /\ s % Unit = 0
      /\ payments[p] \in PaymentRow /\ ledger[p] \in [Accounts -> Int]
      /\ RowAgrees(payments[p], ledger[p])
  <2>1. s \in Int /\ s % Unit = 0
    BY <1>0, ConstantsAssumption, StoredMultiples
  <2>2. QED
    BY <1>0, <2>1 DEF CreatePayment, IInv, TypeOK, LedgerMatchesPayment
<1>2. /\ new \in PaymentRow /\ new.status = "created" /\ new.amount = s
      /\ new.captured = 0 /\ new.refunded = 0
  BY <1>1 DEF NoRow, PaymentRow, PaymentStatus, References
<1>3. /\ payments' = [payments EXCEPT ![p] = new]
      /\ UNCHANGED <<ledger, outbox, rowLock, req, executed>>
  BY <1>0 DEF CreatePayment
<1> HIDE DEF new
<1>4. \A x \in Accounts : ledger[p][x] = 0
  BY <1>1 DEF RowAgrees, Accounts, PaymentRow
<1>5. RowAgrees(new, ledger[p])
  BY <1>1, <1>2, <1>4, EmptyAgrees
<1>6. \A q \in Requests : req[q].pc \in Running => req[q].pid # p
  BY <1>1 DEF IInv, CallsKnowTheirPayment
<1>7. TypeOK'
  BY <1>2, <1>3 DEF IInv, TypeOK
<1>8. CallsKnowTheirPayment'
  BY <1>3, <1>6 DEF IInv, TypeOK, CallsKnowTheirPayment
<1>9. LockedRowIsCurrent'
  <2> SUFFICES ASSUME NEW q \in Requests, req[q].pc = "locked"
               PROVE  /\ rowLock[req[q].pid] = q
                      /\ req[q].row = payments'[req[q].pid]
                      /\ CommandAllowed(req[q], payments'[req[q].pid])
    BY <1>3 DEF LockedRowIsCurrent
  <2>1. /\ req[q].pid \in Payments /\ req[q].pid # p
        /\ rowLock[req[q].pid] = q
        /\ req[q].row = payments[req[q].pid]
        /\ CommandAllowed(req[q], payments[req[q].pid])
    BY <1>6 DEF IInv, LockedRowIsCurrent, CallsKnowTheirPayment, Running
  <2>2. QED
    BY <1>3, <2>1 DEF IInv, TypeOK
<1>10. LedgerMatchesPayment'
  BY <1>3, <1>5 DEF IInv, TypeOK, LedgerMatchesPayment
<1>11. RowsAreStored'
  BY <1>1, <1>2, <1>3, StoredMultiples DEF IInv, TypeOK, RowsAreStored, RowStored
<1>12. QED
  BY <1>7, <1>8, <1>9, <1>10, <1>11 DEF IInv

\* A step that changes nothing.
LEMMA StutterStep ==
  ASSUME IInv, UNCHANGED vars
  PROVE  IInv'
BY DEF vars, IInv, TypeOK, CallsKnowTheirPayment, LockedRowIsCurrent, LedgerMatchesPayment,
       RowsAreStored

\* Every step of every handler keeps the inductive invariant.
LEMMA NextInvariant == IInv /\ [Next]_vars => IInv'
<1> SUFFICES ASSUME IInv, [Next]_vars PROVE IInv'
  OBVIOUS
<1>1. CASE \E p \in Payments, a \in Amounts : CreatePayment(p, a)
  BY <1>1, CreateStep
<1>2. ASSUME NEW r \in Requests, Begin(r) \/ Proceed(r) \/ Abort(r)
      PROVE  IInv'
  <2>1. CASE Begin(r)
    BY <2>1, BeginStep
  <2>2. CASE Proceed(r)
    BY <2>2, ProviderStep, LockRowStep, RefusedStep, CommitStep, TransitionReadStep,
       TransitionUpdateStep DEF Proceed
  <2>3. CASE Abort(r)
    BY <2>3, AbortStep
  <2>4. QED
    BY <1>2, <2>1, <2>2, <2>3
<1>3. CASE UNCHANGED vars
  BY <1>3, StutterStep
<1>4. QED
  BY <1>1, <1>2, <1>3 DEF Next
-----------------------------------------------------------------------------
\* The inductive invariant holds in every reachable state.
LEMMA InvariantHolds == Spec => []IInv
BY InitInvariant, NextInvariant, PTL DEF Spec

(***************************************************************************)
(* Rows, balances, events and the locals of every handler keep their       *)
(* types; in particular no captured or refunded amount becomes negative.   *)
(***************************************************************************)
THEOREM TypeCorrect == Spec => []TypeOK
<1>1. IInv => TypeOK
  BY DEF IInv
<1>2. QED
  BY <1>1, InvariantHolds, PTL

(***************************************************************************)
(* CommitPaymentCommand writes the row it validated: nothing changes a row *)
(* between SELECT ... FOR UPDATE and COMMIT.                               *)
(***************************************************************************)
THEOREM LockProtectsRow == Spec => []LockedRowIsCurrent
<1>1. IInv => LockedRowIsCurrent
  BY DEF IInv
<1>2. QED
  BY <1>1, InvariantHolds, PTL

(***************************************************************************)
(* The ledger of every payment agrees with its row, for any number of      *)
(* payments, concurrent requests, amounts, errors and crashes.             *)
(***************************************************************************)
THEOREM LedgerCorrect == Spec => []LedgerMatchesPayment
<1>1. IInv => LedgerMatchesPayment
  BY DEF IInv
<1>2. QED
  BY <1>1, InvariantHolds, PTL
-----------------------------------------------------------------------------
(***************************************************************************)
(* Every step of Next seen from the tables: it creates a payment, commits  *)
(* a command on the row it validated, marks a payment failed, or leaves    *)
(* rows and balances alone.                                                *)
(***************************************************************************)
Created(p, a) ==
  /\ payments[p].status = "absent" /\ a > 0
  /\ payments' = [payments EXCEPT
       ![p] = [NoRow EXCEPT !.amount = a, !.status = "created"]]
  /\ ledger' = ledger

Committed(p, c) ==
  /\ payments[p].status # "absent"
  /\ c \in Call /\ c.op \in Ops /\ c.snap.amount = payments[p].amount
  /\ CommandAllowed(c, payments[p])
  /\ payments' = [payments EXCEPT ![p] = Apply(c, payments[p])]
  /\ ledger' = [ledger EXCEPT ![p] = Post(ledger[p], Entries(c))]

Failed(p, reference) ==
  /\ payments[p].status # "absent" /\ reference \in References
  /\ payments' = [payments EXCEPT ![p].status = "failed", ![p].reference = reference]
  /\ ledger' = ledger

\* The ways in which a step can change the payments and ledger_entries tables.
LEMMA TableSteps ==
  ASSUME IInv, [Next]_vars
  PROVE  \/ \E p \in Payments, a \in Nat : Created(p, a)
         \/ \E p \in Payments, c \in Call : Committed(p, c)
         \/ \E p \in Payments, reference \in References : Failed(p, reference)
         \/ payments' = payments /\ ledger' = ledger
<1>1. CASE \E p \in Payments, a \in Amounts : CreatePayment(p, a)
  <2>1. PICK p \in Payments, a \in Amounts : CreatePayment(p, a)
    BY <1>1
  <2>2. PICK s : s = Stored(a)
    OBVIOUS
  <2>3. s \in Int
    BY <2>2, ConstantsAssumption, StoredMultiples
  <2>4. Created(p, s) /\ s \in Nat
    BY <2>1, <2>2, <2>3 DEF CreatePayment, Created
  <2>5. QED
    BY <2>4
<1>2. ASSUME NEW r \in Requests, Begin(r) \/ Proceed(r) \/ Abort(r)
      PROVE  \/ \E p \in Payments, c \in Call : Committed(p, c)
             \/ \E p \in Payments, reference \in References : Failed(p, reference)
             \/ payments' = payments /\ ledger' = ledger
  <2>1. CASE Begin(r)
    BY <2>1 DEF Begin, Authorize, AuthorizeBlocked, Capture, Refund, Reject, Start
  <2>2. CASE Commit(r)
    <3>1. PICK c, d, p : c = req[r] /\ d = Rounded(req[r]) /\ p = req[r].pid
      OBVIOUS
    <3>2. /\ c.op \in Ops /\ p \in Payments /\ payments[p].status # "absent"
          /\ c.snap.amount = payments[p].amount
          /\ d \in Call /\ d.op = c.op /\ d.snap = c.snap
          /\ CommandAllowed(d, payments[p])
          /\ payments' = [payments EXCEPT ![p] = Apply(d, payments[p])]
          /\ ledger' = [ledger EXCEPT ![p] = Post(ledger[p], Entries(d))]
      BY <2>2, <3>1, CommitWrites
    <3>3. Committed(p, d)
      BY <3>2 DEF Committed
    <3>4. QED
      BY <3>2, <3>3
  <2>3. CASE TransitionUpdate(r)
    <3>1. /\ req[r].pid \in Payments /\ payments[req[r].pid].status # "absent"
          /\ req[r].reference \in References
      BY <2>3 DEF TransitionUpdate, IInv, TypeOK, Call, CallsKnowTheirPayment, Running
    <3>2. Failed(req[r].pid, req[r].reference)
      BY <2>3, <3>1 DEF TransitionUpdate, Failed
    <3>3. QED
      BY <3>1, <3>2
  <2>4. CASE Proceed(r) /\ ~Commit(r) /\ ~TransitionUpdate(r)
    BY <2>4 DEF Proceed, ProviderSucceeds, ProviderFails, LockRow, CommandRefused,
                TransitionRead
  <2>5. CASE Abort(r)
    BY <2>5 DEF Abort
  <2>6. QED
    BY <1>2, <2>1, <2>2, <2>3, <2>4, <2>5
<1>3. CASE UNCHANGED vars
  BY <1>3 DEF vars
<1>4. QED
  BY <1>1, <1>2, <1>3 DEF Next
-----------------------------------------------------------------------------
Closed ==
  \A p \in Payments :
    /\ payments[p].status \in {"refunded", "failed"} =>
         payments'[p].captured = payments[p].captured
    /\ payments[p].status = "failed" => payments'[p].status = "failed"

\* Every step keeps the captured amount of a closed payment, and a failed status.
LEMMA ClosedStep == IInv /\ [Next]_vars => Closed
<1> SUFFICES ASSUME IInv, [Next]_vars, NEW q \in Payments
             PROVE  /\ payments[q].status \in {"refunded", "failed"} =>
                         payments'[q].captured = payments[q].captured
                    /\ payments[q].status = "failed" => payments'[q].status = "failed"
  BY DEF Closed
<1>1. payments[q] \in PaymentRow
  BY DEF IInv, TypeOK
<1>2. CASE \E p \in Payments, a \in Nat : Created(p, a)
  BY <1>2 DEF Created, IInv, TypeOK
<1>3. ASSUME NEW p \in Payments, NEW c \in Call, Committed(p, c)
      PROVE  /\ payments[q].status \in {"refunded", "failed"} =>
                  payments'[q].captured = payments[q].captured
             /\ payments[q].status = "failed" => payments'[q].status = "failed"
  <2>1. CASE q # p
    BY <1>3, <2>1 DEF Committed, IInv, TypeOK
  <2>2. CASE q = p
    <3>1. /\ payments'[q] = Apply(c, payments[q])
          /\ c.op \in Ops /\ CommandAllowed(c, payments[q])
      BY <1>3, <2>2 DEF Committed, IInv, TypeOK
    <3>2. /\ payments[q].status # "failed"
          /\ payments[q].status = "refunded" => c.op = "refund"
      BY <3>1 DEF CommandAllowed, CanTransition, TargetStatus, Ops
    <3>3. c.op = "refund" => Apply(c, payments[q]).captured = payments[q].captured
      BY <1>1, <3>1, AllowedAmount, ApplyRow
    <3>4. QED
      BY <3>1, <3>2, <3>3
  <2>3. QED
    BY <2>1, <2>2
<1>4. ASSUME NEW p \in Payments, NEW reference \in References, Failed(p, reference)
      PROVE  /\ payments'[q].captured = payments[q].captured
             /\ payments[q].status = "failed" => payments'[q].status = "failed"
  BY <1>1, <1>4 DEF Failed, PaymentRow, IInv, TypeOK
<1>5. CASE payments' = payments
  BY <1>5
<1>6. QED
  BY <1>2, <1>3, <1>4, <1>5, TableSteps

(***************************************************************************)
(* A refunded payment is never captured again and a failed one stays       *)
(* failed, whatever request was validated before.                          *)
(***************************************************************************)
THEOREM ClosedPaymentsStayClosed == Spec => ClosedStaysClosed
<1>1. IInv /\ [Next]_vars => [Closed]_vars
  BY ClosedStep
<1>2. Spec => [][Closed]_vars
  BY <1>1, InvariantHolds, PTL DEF Spec
<1>3. QED
  BY <1>2 DEF ClosedStaysClosed, Closed
-----------------------------------------------------------------------------
(***************************************************************************)
(* The refinement of PaymentMoney                                          *)
(***************************************************************************)
Limit    == [p \in Payments |-> IF Exists(p) THEN payments[p].amount ELSE 0]
Holds    == [p \in Payments |-> Held(p)]
Captures == [p \in Payments |-> ledger[p]["available"] + ledger[p]["customer_refunded"]]
Refunds  == [p \in Payments |-> ledger[p]["customer_refunded"]]

\* The empty tables are the empty books of the abstract specification.
LEMMA MoneyInit == Init => Money!Init
<1> SUFFICES ASSUME Init PROVE Money!Init
  OBVIOUS
<1>1. ASSUME NEW p \in Payments
      PROVE  /\ ~Exists(p) /\ Held(p) = 0
             /\ ledger[p]["available"] = 0 /\ ledger[p]["customer_refunded"] = 0
  <2>1. payments[p] = NoRow /\ ledger[p] = [a \in Accounts |-> 0]
    BY DEF Init
  <2>2. \A x \in Accounts : ledger[p][x] = 0
    BY <2>1
  <2>3. ~Exists(p)
    BY <2>1, NoRowType DEF Exists
  <2>4. QED
    BY <2>2, <2>3, AccountNames DEF Held
<1>2. QED
  BY <1>1 DEF Money!Init

\* ValidateBalanced accepts a two-entry transaction only for a positive amount.
LEMMA TransferAmount ==
  ASSUME NEW from, NEW to, NEW a \in Int, ValidateBalanced(Transfer(from, to, a))
  PROVE  a > 0
BY DEF ValidateBalanced, Transfer, LedgerEntry

\* CreatePayment opens the abstract payment.
LEMMA MoneyCreated ==
  ASSUME IInv, NEW p \in Payments, NEW a \in Nat, Created(p, a)
  PROVE  Money!Next
<1>1. payments[p] \in PaymentRow /\ a \in Nat \ {0}
  BY DEF Created, IInv, TypeOK
<1>2. payments'[p] = [NoRow EXCEPT !.amount = a, !.status = "created"]
  BY DEF Created, IInv, TypeOK
<1>3. payments'[p].amount = a /\ payments'[p].status = "created"
  BY <1>2 DEF NoRow
<1>4. /\ Limit' = [Limit EXCEPT ![p] = a] /\ Limit'[p] = a /\ Limit[p] = 0
  BY <1>1, <1>3 DEF Created, Limit, Exists, IInv, TypeOK
<1>5. Holds' = Holds /\ Captures' = Captures /\ Refunds' = Refunds
  BY DEF Created, Holds, Captures, Refunds, Held
<1>6. Money!Open(p)
  BY <1>1, <1>4, <1>5 DEF Money!Open, Limit, Holds, Captures, Refunds
<1>7. QED
  BY <1>6 DEF Money!Next

\* Transition to failed changes nothing that the abstract specification sees.
LEMMA MoneyFailed ==
  ASSUME IInv, NEW p \in Payments, NEW reference \in References, Failed(p, reference)
  PROVE  UNCHANGED Money!moneyVars
<1>1. \A q \in Payments :
        payments'[q].amount = payments[q].amount /\ (Exists(q)' <=> Exists(q))
  <2> SUFFICES ASSUME NEW q \in Payments
               PROVE  payments'[q].amount = payments[q].amount /\ (Exists(q)' <=> Exists(q))
    OBVIOUS
  <2>1. payments[q] \in PaymentRow
    BY DEF IInv, TypeOK
  <2>2. CASE q # p
    BY <2>2 DEF Failed, Exists, IInv, TypeOK
  <2>3. CASE q = p
    BY <2>1, <2>3 DEF Failed, Exists, PaymentRow, IInv, TypeOK
  <2>4. QED
    BY <2>2, <2>3
<1>2. Limit' = Limit
  BY <1>1 DEF Limit
<1>3. Holds' = Holds /\ Captures' = Captures /\ Refunds' = Refunds
  BY DEF Failed, Holds, Captures, Refunds, Held
<1>4. QED
  BY <1>2, <1>3 DEF Money!moneyVars, Limit, Holds, Captures, Refunds

\* Commit is the abstract hold, capture or refund.
LEMMA MoneyCommitted ==
  ASSUME IInv, NEW p \in Payments, NEW c \in Call, Committed(p, c)
  PROVE  Money!Next
<1> DEFINE row == payments[p]
           bal == ledger[p]
           post == Post(bal, Entries(c))
<1>1. /\ row \in PaymentRow /\ bal \in [Accounts -> Int] /\ RowAgrees(row, bal)
      /\ row.amount \in Nat /\ row.captured \in Nat /\ row.refunded \in Nat
      /\ c.op \in Ops /\ c.snap.amount = row.amount /\ CommandAllowed(c, row)
      /\ c.amount \in Int /\ Exists(p)
  BY DEF Committed, Exists, IInv, TypeOK, LedgerMatchesPayment, PaymentRow, Call
<1>2. /\ Apply(c, row) \in PaymentRow /\ Apply(c, row).amount = row.amount
      /\ Apply(c, row).status # "absent"
  BY <1>1, AllowedAmount, ApplyRow DEF TargetStatus, Ops
<1>3. /\ payments' = [payments EXCEPT ![p] = Apply(c, row)]
      /\ ledger' = [ledger EXCEPT ![p] = post]
  BY DEF Committed
<1>4. Limit' = Limit
  <2>1. \A q \in Payments :
          payments'[q].amount = payments[q].amount /\ (Exists(q)' <=> Exists(q))
    BY <1>1, <1>2, <1>3 DEF Exists, IInv, TypeOK
  <2>2. QED
    BY <2>1 DEF Limit
<1>5. \A q \in Payments \ {p} : ledger'[q] = ledger[q]
  BY <1>3 DEF IInv, TypeOK
<1>6. ledger'[p] = post
  BY <1>3 DEF IInv, TypeOK
<1>7. \A a \in Accounts : bal[a] \in Int
  BY <1>1
<1>8. CASE c.op = "authorize"
  <2>1. post = Post(bal, Transfer("customer_pending", "pending", row.amount))
    BY <1>1, <1>8 DEF Entries
  <2>2. row.amount > 0
    BY <1>1, <1>8, TransferAmount DEF CommandAllowed, Entries
  <2> HIDE DEF post
  <2>3. /\ post["customer_pending"] = bal["customer_pending"] - row.amount
        /\ post["available"] = bal["available"]
        /\ post["customer_refunded"] = bal["customer_refunded"]
    BY <1>1, <2>1, PostAuthorize
  <2>4. bal["customer_pending"] = 0
    <3>1. row.status = "created"
      BY <1>1, <1>8 DEF CommandAllowed, CanTransition, TargetStatus
    <3>2. QED
      BY <1>1, <1>7, <3>1, AccountNames DEF RowAgrees
  <2>5. Limit[p] = row.amount /\ Holds[p] = 0
    BY <1>1, <2>4 DEF Limit, Holds, Held
  <2>6. Holds' = [Holds EXCEPT ![p] = Limit[p]]
    <3>1. Held(p)' = Limit[p]
      BY <1>1, <1>6, <2>3, <2>4, <2>5 DEF Held
    <3>2. \A q \in Payments \ {p} : Held(q)' = Held(q)
      BY <1>5 DEF Held
    <3>3. QED
      BY <3>1, <3>2 DEF Holds
  <2>7. Captures' = Captures /\ Refunds' = Refunds
    BY <1>5, <1>6, <2>3 DEF Captures, Refunds
  <2>8. Money!Hold(p)
    BY <1>4, <2>2, <2>5, <2>6, <2>7 DEF Money!Hold, Limit, Holds, Captures, Refunds
  <2>9. QED
    BY <2>8 DEF Money!Next
<1>9. CASE c.op = "capture"
  <2>1. post = Post(bal, Transfer("pending", "available", c.amount))
    BY <1>9 DEF Entries
  <2>2. /\ row.status \in {"authorized", "captured"}
        /\ c.amount > 0 /\ row.captured + c.amount <= row.amount
    BY <1>1, <1>9 DEF CommandAllowed, CanTransition, TargetStatus, ValidateCapture
  <2> HIDE DEF post
  <2>3. /\ post["customer_pending"] = bal["customer_pending"]
        /\ post["available"] = bal["available"] + c.amount
        /\ post["customer_refunded"] = bal["customer_refunded"]
    BY <1>1, <2>1, PostCapture
  <2>4. /\ Holds[p] = row.amount /\ Captures[p] = row.captured
    <3>1. /\ - bal["customer_pending"] = row.amount
          /\ bal["available"] + bal["customer_refunded"] = row.captured
      BY <1>1, <1>7, <2>2, AccountNames DEF RowAgrees
    <3>2. QED
      BY <3>1 DEF Holds, Captures, Held
  <2>5. Captures' = [Captures EXCEPT ![p] = @ + c.amount]
    <3>1. post["available"] + post["customer_refunded"] =
            bal["available"] + bal["customer_refunded"] + c.amount
      BY <1>1, <1>7, <2>3, AccountNames
    <3>2. QED
      BY <1>5, <1>6, <3>1 DEF Captures
  <2>6. Holds' = Holds /\ Refunds' = Refunds
    BY <1>5, <1>6, <2>3 DEF Holds, Refunds, Held
  <2>7. c.amount \in 1 .. (Holds[p] - Captures[p])
    BY <1>1, <2>2, <2>4
  <2>8. Money!Capture(p)
    BY <1>4, <2>5, <2>6, <2>7 DEF Money!Capture, Limit, Holds, Captures, Refunds
  <2>9. QED
    BY <2>8 DEF Money!Next
<1>10. CASE c.op = "refund"
  <2>1. post = Post(bal, Transfer("available", "customer_refunded", c.amount))
    BY <1>10 DEF Entries
  <2>2. c.amount > 0 /\ row.refunded + c.amount <= row.captured
    BY <1>1, <1>10 DEF CommandAllowed, ValidateRefund
  <2> HIDE DEF post
  <2>3. /\ post["customer_pending"] = bal["customer_pending"]
        /\ post["available"] = bal["available"] - c.amount
        /\ post["customer_refunded"] = bal["customer_refunded"] + c.amount
    BY <1>1, <2>1, PostRefund
  <2>4. /\ Captures[p] = row.captured /\ Refunds[p] = row.refunded
    BY <1>1, <1>7, AccountNames DEF Captures, Refunds, RowAgrees
  <2>5. Refunds' = [Refunds EXCEPT ![p] = @ + c.amount]
    BY <1>5, <1>6, <1>7, <1>1, <2>3, AccountNames DEF Refunds
  <2>6. Holds' = Holds /\ Captures' = Captures
    BY <1>1, <1>5, <1>6, <1>7, <2>3, AccountNames DEF Holds, Captures, Held
  <2>7. c.amount \in 1 .. (Captures[p] - Refunds[p])
    BY <1>1, <2>2, <2>4
  <2>8. Money!Refund(p)
    BY <1>4, <2>5, <2>6, <2>7 DEF Money!Refund, Limit, Holds, Captures, Refunds
  <2>9. QED
    BY <2>8 DEF Money!Next
<1>11. QED
  BY <1>1, <1>8, <1>9, <1>10 DEF Ops

\* Every step is an abstract step or changes nothing that the abstract one sees.
LEMMA MoneyStep == IInv /\ [Next]_vars => [Money!Next]_(Money!moneyVars)
<1> SUFFICES ASSUME IInv, [Next]_vars PROVE Money!Next \/ UNCHANGED Money!moneyVars
  OBVIOUS
<1>1. CASE payments' = payments /\ ledger' = ledger
  BY <1>1 DEF Money!moneyVars, Exists, Held
<1>2. QED
  BY <1>1, TableSteps, MoneyCreated, MoneyFailed, MoneyCommitted

(***************************************************************************)
(* The service on the PostgreSQL store implements the abstract money       *)
(* specification: money is held once and at most once per payment,         *)
(* captured within the hold and refunded within what was captured.         *)
(***************************************************************************)
THEOREM MoneyRefinement == Spec => ImplementsMoney
<1>1. Spec => Money!Init
  BY MoneyInit DEF Spec
<1>2. Spec => [][Money!Next]_(Money!moneyVars)
  BY MoneyStep, InvariantHolds, PTL DEF Spec
<1>3. QED
  BY <1>1, <1>2 DEF ImplementsMoney, Money!Spec
-----------------------------------------------------------------------------
(***************************************************************************)
(* The outbox                                                              *)
(*                                                                         *)
(* What the outbox says of a payment is tied to its row through the calls: *)
(* an event belongs to one call that has committed and is over, and the    *)
(* amount of that call no longer changes.                                  *)
(***************************************************************************)
EventOK(e) ==
  /\ e.id \in executed
  /\ req[e.id].pc \in {"ok", "dead"}
  /\ e.pid = req[e.id].pid
  /\ e.type = req[e.id].op
  /\ payments[e.pid].status # "absent"

EventsOfCalls == \A e \in outbox : EventOK(e)

OneEventPerCall == \A e, f \in outbox : e.id = f.id => e = f

\* Nobody asks for the row lock before the provider has acted.
ProviderFirst == \A r \in Requests : req[r].pc \in {"commit", "locked"} => r \in executed

\* What a running call read is a row of the table, at most behind the present one.
SnapBehind ==
  \A r \in Requests : req[r].pc \in Running =>
    /\ RowStored(req[r].snap)
    /\ req[r].snap.captured <= payments[req[r].pid].captured
    /\ req[r].snap.refunded <= payments[req[r].pid].refunded

EInv ==
  /\ IInv
  /\ IsFiniteSet(outbox)
  /\ EventsOfCalls
  /\ OneEventPerCall
  /\ ProviderFirst
  /\ SnapBehind
  /\ LedgerBackedByProvider
  /\ PayloadNeverAhead
  /\ EventsExplainPayment

\* Empty tables and idle requests satisfy the invariant of the outbox.
LEMMA InitEvents == Init => EInv
<1> SUFFICES ASSUME Init PROVE EInv
  OBVIOUS
<1>1. /\ IInv /\ outbox = {} /\ \A r \in Requests : req[r].pc = "idle"
  BY InitInvariant, NoCallType DEF Init
<1>2. IsFiniteSet(outbox)
  BY <1>1, FS_EmptySet
<1>3. EventsOfCalls /\ OneEventPerCall /\ ProviderFirst /\ SnapBehind
  BY <1>1 DEF EventsOfCalls, OneEventPerCall, ProviderFirst, SnapBehind, Running
<1>4. LedgerBackedByProvider /\ PayloadNeverAhead
  BY <1>1 DEF LedgerBackedByProvider, PayloadNeverAhead
<1>5. EventsExplainPayment
  <2> SUFFICES ASSUME NEW p \in Payments
               PROVE  /\ payments[p].captured = EventSum(p, "capture")
                      /\ payments[p].refunded = EventSum(p, "refund")
                      /\ Held(p) = payments[p].amount * Cardinality(EventsOf(p, "authorize"))
    BY DEF EventsExplainPayment
  <2>1. \A op : EventsOf(p, op) = {}
    BY <1>1 DEF EventsOf
  <2>2. /\ payments[p].captured = 0 /\ payments[p].refunded = 0 /\ payments[p].amount = 0
        /\ ledger[p]["customer_pending"] = 0
    BY NoRowType, AccountNames DEF Init
  <2>3. EventSum(p, "capture") = 0 /\ EventSum(p, "refund") = 0
    BY <2>1, SumEmpty DEF EventSum
  <2>4. Cardinality(EventsOf(p, "authorize")) = 0
    BY <2>1, FS_EmptySet
  <2>5. QED
    BY <2>2, <2>3, <2>4 DEF Held
<1>6. QED
  BY <1>1, <1>2, <1>3, <1>4, <1>5 DEF EInv

\* The amounts that the events of a call stand for do not change when other calls move.
LEMMA EventSumKept ==
  ASSUME EInv, outbox' = outbox, req' \in [Requests -> Call],
         \A e \in outbox : req'[e.id].amount = req[e.id].amount,
         NEW p \in Payments, NEW op
  PROVE  EventSum(p, op)' = EventSum(p, op) /\ EventsOf(p, op)' = EventsOf(p, op)
<1>1. EventsOf(p, op)' = EventsOf(p, op)
  BY DEF EventsOf
<1>2. [e \in outbox |-> Stored(req[e.id].amount)]' = [e \in outbox |-> Stored(req[e.id].amount)]
  OBVIOUS
<1>3. QED
  BY <1>1, <1>2, Zenon DEF EventSum

\* A step of a call that is not over, that announces nothing and moves no money.
LEMMA QuietEvents ==
  ASSUME EInv, IInv', NEW r \in Requests,
         outbox' = outbox, ledger' = ledger, executed \subseteq executed',
         \A p \in Payments :
           /\ payments'[p].amount = payments[p].amount
           /\ payments'[p].captured = payments[p].captured
           /\ payments'[p].refunded = payments[p].refunded
           /\ payments[p].status # "absent" => payments'[p].status # "absent",
         \A q \in Requests \ {r} : req'[q] = req[q],
         req[r].pc \notin Finished,
         req'[r].pc # "ok",
         req'[r].pc \in {"commit", "locked"} => r \in executed',
         req'[r].pc \in Running =>
           /\ RowStored(req'[r].snap)
           /\ req'[r].snap.captured <= payments[req'[r].pid].captured
           /\ req'[r].snap.refunded <= payments[req'[r].pid].refunded
  PROVE  EInv'
<1>1. TypeOK /\ TypeOK' /\ outbox \subseteq EventType
  BY DEF EInv, IInv, TypeOK
<1>2. \A e \in outbox : e.id \in Requests /\ e.pid \in Payments /\ e.id # r
  BY <1>1 DEF EventType, EInv, EventsOfCalls, EventOK, Finished
<1>3. \A e \in outbox : req'[e.id] = req[e.id]
  BY <1>2
<1>4. EventsOfCalls'
  BY <1>2, <1>3 DEF EInv, EventsOfCalls, EventOK
<1>5. OneEventPerCall' /\ IsFiniteSet(outbox)'
  BY DEF EInv, OneEventPerCall
<1>6. ProviderFirst'
  BY DEF EInv, ProviderFirst
<1>7. SnapBehind'
  <2> SUFFICES ASSUME NEW q \in Requests, req'[q].pc \in Running
               PROVE  /\ RowStored(req'[q].snap)
                      /\ req'[q].snap.captured <= payments'[req'[q].pid].captured
                      /\ req'[q].snap.refunded <= payments'[req'[q].pid].refunded
    BY DEF SnapBehind
  <2>1. req'[q].pid \in Payments
    BY DEF IInv, CallsKnowTheirPayment
  <2>2. QED
    BY <2>1 DEF EInv, SnapBehind
<1>8. LedgerBackedByProvider'
  BY DEF EInv, LedgerBackedByProvider
<1>9. PayloadNeverAhead'
  BY <1>2 DEF EInv, PayloadNeverAhead
<1>10. EventsExplainPayment'
  <2> SUFFICES ASSUME NEW p \in Payments
               PROVE  /\ payments'[p].captured = EventSum(p, "capture")'
                      /\ payments'[p].refunded = EventSum(p, "refund")'
                      /\ Held(p)' = payments'[p].amount * Cardinality(EventsOf(p, "authorize"))'
    BY DEF EventsExplainPayment
  <2>1. /\ EventSum(p, "capture")' = EventSum(p, "capture")
        /\ EventSum(p, "refund")' = EventSum(p, "refund")
        /\ EventsOf(p, "authorize")' = EventsOf(p, "authorize")
    BY <1>1, <1>3, EventSumKept DEF TypeOK
  <2>2. Held(p)' = Held(p)
    BY DEF Held
  <2>3. QED
    BY <2>1, <2>2 DEF EInv, EventsExplainPayment
<1>11. QED
  BY <1>4, <1>5, <1>6, <1>7, <1>8, <1>9, <1>10 DEF EInv

\* The first steps of a call: what it read is the row as it is now.
LEMMA BeginEvents ==
  ASSUME EInv, IInv', NEW r \in Requests, Begin(r)
  PROVE  EInv'
<1>1. TypeOK /\ req \in [Requests -> Call] /\ payments \in [Payments -> PaymentRow]
  BY DEF EInv, IInv, TypeOK
<1>2. UNCHANGED <<payments, ledger, outbox, executed>> /\ req[r].pc = "idle"
  BY DEF Begin, Authorize, AuthorizeBlocked, Capture, Refund, Reject, Start
<1>3. ASSUME NEW p \in Payments, NEW op, NEW a, NEW ref, NEW pc \in {"provider", "transition"},
             Start(r, op, p, a, pc, ref)
      PROVE  EInv'
  <2> DEFINE c == [pc |-> pc, op |-> op, pid |-> p, amount |-> a,
                   snap |-> payments[p], row |-> NoRow, reference |-> ref]
  <2>2. c.pc = pc /\ c.pid = p /\ c.snap = payments[p]
    OBVIOUS
  <2>3. req' = [req EXCEPT ![r] = c]
    BY <1>3 DEF Start
  <2> HIDE DEF c
  <2>4. req'[r] = c /\ \A q \in Requests \ {r} : req'[q] = req[q]
    BY <1>1, <2>3
  <2>5. payments[p].captured \in Nat /\ payments[p].refunded \in Nat
    BY <1>1 DEF PaymentRow
  <2>6. /\ RowStored(req'[r].snap)
        /\ req'[r].snap.captured <= payments[req'[r].pid].captured
        /\ req'[r].snap.refunded <= payments[req'[r].pid].refunded
    BY <2>2, <2>4, <2>5 DEF EInv, IInv, RowsAreStored
  <2>7. req'[r].pc # "ok" /\ req'[r].pc \notin {"commit", "locked"}
    BY <2>2, <2>4
  <2>8. QED
    BY <1>2, <2>4, <2>6, <2>7, QuietEvents DEF Finished
<1>4. CASE \E p \in Payments, a \in Amounts, op \in Ops : Reject(r, op, p, a)
  <2>1. PICK op \in Ops : req' = [req EXCEPT ![r] = [NoCall EXCEPT !.pc = "error", !.op = op]]
    BY <1>4 DEF Reject
  <2>2. [NoCall EXCEPT !.pc = "error", !.op = op].pc = "error"
    BY NoCallType DEF Call
  <2>3. req'[r].pc = "error" /\ \A q \in Requests \ {r} : req'[q] = req[q]
    BY <1>1, <2>1, <2>2
  <2>4. QED
    BY <1>2, <2>3, QuietEvents DEF Finished, Running
<1>5. QED
  <2>1. PICK p \in Payments :
          \/ Authorize(r, p)
          \/ AuthorizeBlocked(r, p)
          \/ \E a \in Amounts :
               \/ Capture(r, p, a)
               \/ Refund(r, p, a)
               \/ \E op \in Ops : Reject(r, op, p, a)
    BY DEF Begin
  <2>3. CASE Authorize(r, p) \/ AuthorizeBlocked(r, p)
    BY <1>3, <2>3 DEF Authorize, AuthorizeBlocked
  <2>4. CASE \E a \in Amounts : Capture(r, p, a) \/ Refund(r, p, a)
    BY <1>3, <2>4 DEF Capture, Refund
  <2>5. QED
    BY <1>4, <2>1, <2>3, <2>4, Zenon

\* A call that ends without a commit.
LEMMA FinishEvents ==
  ASSUME EInv, IInv', NEW r \in Requests, NEW pc \in {"error", "dead"},
         req' = Finish(r, pc), req[r].pc \in Running,
         UNCHANGED <<payments, ledger, outbox>>, executed \subseteq executed'
  PROVE  EInv'
<1>1. TypeOK /\ pc \in Finished
  BY DEF EInv, IInv, Finished
<1>2. /\ req'[r].pc = pc /\ req'[r].pc \notin Running
      /\ \A q \in Requests \ {r} : req'[q] = req[q]
  BY <1>1, FinishCall
<1>3. req[r].pc \notin Finished
  BY DEF Running, Finished
<1>4. QED
  BY <1>2, <1>3, QuietEvents DEF Running

\* A call that goes on with the payment that it read.
LEMMA AdvanceEvents ==
  ASSUME EInv, IInv', NEW r \in Requests, NEW pc \in Running, NEW reference, NEW row,
         req' = [req EXCEPT ![r].pc = pc, ![r].reference = reference, ![r].row = row],
         req[r].pc \in Running,
         pc \in {"commit", "locked"} => r \in executed',
         UNCHANGED <<payments, ledger, outbox>>, executed \subseteq executed'
  PROVE  EInv'
<1>1. req \in [Requests -> Call] /\ req[r] \in Call
  BY DEF EInv, IInv, TypeOK
<1> DEFINE c == [req[r] EXCEPT !.pc = pc, !.reference = reference, !.row = row]
<1>2. c.pc = pc /\ c.pid = req[r].pid /\ c.snap = req[r].snap
  BY <1>1 DEF Call
<1>3. req' = [req EXCEPT ![r] = c]
  BY <1>1
<1> HIDE DEF c
<1>4. req'[r] = c /\ \A q \in Requests \ {r} : req'[q] = req[q]
  BY <1>1, <1>3
<1>5. /\ RowStored(req'[r].snap)
      /\ req'[r].snap.captured <= payments[req'[r].pid].captured
      /\ req'[r].snap.refunded <= payments[req'[r].pid].refunded
  BY <1>2, <1>4 DEF EInv, SnapBehind
<1>6. req[r].pc \notin Finished /\ req'[r].pc # "ok"
  BY <1>2, <1>4 DEF Running, Finished
<1>7. QED
  BY <1>2, <1>4, <1>5, <1>6, QuietEvents

\* The steps of a call between its first read and its commit or its end.
LEMMA ProceedEvents ==
  ASSUME EInv, IInv', NEW r \in Requests,
         \/ ProviderSucceeds(r)
         \/ ProviderFails(r)
         \/ LockRow(r)
         \/ CommandRefused(r)
         \/ TransitionRead(r)
         \/ Abort(r)
  PROVE  EInv'
<1>1. req \in [Requests -> Call] /\ req[r] \in Call
  BY DEF EInv, IInv, TypeOK
<1>2. UNCHANGED <<payments, ledger, outbox>> /\ executed \subseteq executed'
  BY DEF ProviderSucceeds, ProviderFails, LockRow, CommandRefused, TransitionRead, Abort
<1>3. req[r].pc \in Running
  BY DEF ProviderSucceeds, ProviderFails, LockRow, CommandRefused, TransitionRead, Abort,
         Running
<1>4. CASE \E pc \in {"error", "dead"} : req' = Finish(r, pc)
  BY <1>2, <1>3, <1>4, FinishEvents
<1>5. ASSUME NEW pc \in Running, NEW reference, NEW row,
             req' = [req EXCEPT ![r].pc = pc, ![r].reference = reference, ![r].row = row],
             pc \in {"commit", "locked"} => r \in executed'
      PROVE  EInv'
  BY <1>2, <1>3, <1>5, AdvanceEvents
<1>6. CASE ProviderSucceeds(r)
  <2>1. PICK reference : req' = [req EXCEPT ![r].pc = "commit", ![r].reference = reference]
    BY <1>6 DEF ProviderSucceeds
  <2>2. req' = [req EXCEPT ![r].pc = "commit", ![r].reference = reference,
                           ![r].row = req[r].row]
    BY <1>1, <2>1 DEF Call
  <2>3. "commit" \in Running /\ r \in executed'
    BY <1>6 DEF Running, ProviderSucceeds
  <2>4. QED
    BY <1>5, <2>2, <2>3
<1>7. CASE ProviderFails(r) /\ req' # Finish(r, "error")
  <2>1. req' = [req EXCEPT ![r].pc = "transition", ![r].reference = "provider_error"]
    BY <1>7 DEF ProviderFails
  <2>2. req' = [req EXCEPT ![r].pc = "transition", ![r].reference = "provider_error",
                           ![r].row = req[r].row]
    BY <1>1, <2>1 DEF Call
  <2>3. "transition" \in Running
    BY DEF Running
  <2>4. QED
    BY <1>5, <2>2, <2>3
<1>8. CASE LockRow(r)
  <2>1. req' = [req EXCEPT ![r].pc = "locked", ![r].row = payments[req[r].pid]]
    BY <1>8 DEF LockRow
  <2>2. req' = [req EXCEPT ![r].pc = "locked", ![r].reference = req[r].reference,
                           ![r].row = payments[req[r].pid]]
    BY <1>1, <2>1 DEF Call
  <2>3. "locked" \in Running /\ r \in executed'
    BY <1>8 DEF Running, LockRow, EInv, ProviderFirst
  <2>4. QED
    BY <1>5, <2>2, <2>3
<1>9. CASE TransitionRead(r) /\ req' # Finish(r, "error")
  <2>1. req' = [req EXCEPT ![r].pc = "update"]
    BY <1>9 DEF TransitionRead
  <2>2. req' = [req EXCEPT ![r].pc = "update", ![r].reference = req[r].reference,
                           ![r].row = req[r].row]
    BY <1>1, <2>1 DEF Call
  <2>3. "update" \in Running
    BY DEF Running
  <2>4. QED
    BY <1>5, <2>2, <2>3
<1>10. CASE CommandRefused(r) \/ Abort(r)
  BY <1>4, <1>10 DEF CommandRefused, Abort
<1>11. QED
  BY <1>4, <1>6, <1>7, <1>8, <1>9, <1>10

\* Transition leaves the amounts of the payment alone.
LEMMA FailureEvents ==
  ASSUME EInv, IInv', NEW r \in Requests, TransitionUpdate(r)
  PROVE  EInv'
<1>1. /\ TypeOK /\ req[r].pc = "update" /\ req[r].pid \in Payments
      /\ payments \in [Payments -> PaymentRow]
  BY DEF TransitionUpdate, EInv, IInv, TypeOK, CallsKnowTheirPayment, Running
<1> DEFINE p == req[r].pid
           new == [payments[p] EXCEPT !.status = "failed", !.reference = req[r].reference]
<1>2. /\ new.amount = payments[p].amount /\ new.captured = payments[p].captured
      /\ new.refunded = payments[p].refunded /\ new.status = "failed"
  BY <1>1 DEF PaymentRow
<1>3. payments' = [payments EXCEPT ![p] = new]
  BY <1>1 DEF TransitionUpdate
<1> HIDE DEF new
<1>4. \A q \in Payments :
        /\ payments'[q].amount = payments[q].amount
        /\ payments'[q].captured = payments[q].captured
        /\ payments'[q].refunded = payments[q].refunded
        /\ payments[q].status # "absent" => payments'[q].status # "absent"
  BY <1>1, <1>2, <1>3
<1>5. UNCHANGED <<ledger, outbox, executed>> /\ req' = Finish(r, "error")
  BY DEF TransitionUpdate
<1>6. /\ req'[r].pc = "error" /\ req'[r].pc \notin Running
      /\ \A q \in Requests \ {r} : req'[q] = req[q]
  BY <1>1, <1>5, FinishCall DEF Finished
<1>7. req[r].pc \notin Finished
  BY <1>1 DEF Finished
<1>8. QED
  BY <1>4, <1>5, <1>6, <1>7, QuietEvents

\* No event speaks of a payment before it is created.
LEMMA CreateEvents ==
  ASSUME EInv, IInv', NEW p \in Payments, NEW a \in Amounts, CreatePayment(p, a)
  PROVE  EInv'
<1>0. PICK s : s = Stored(a)
  OBVIOUS
<1>1. /\ TypeOK /\ payments \in [Payments -> PaymentRow] /\ outbox \subseteq EventType
      /\ payments[p].status = "absent"
      /\ UNCHANGED <<ledger, outbox, rowLock, req, executed>>
      /\ RowAgrees(payments[p], ledger[p]) /\ ledger[p] \in [Accounts -> Int]
      /\ s \in Int
  BY <1>0, ConstantsAssumption, StoredMultiples
     DEF CreatePayment, EInv, IInv, TypeOK, LedgerMatchesPayment
<1> DEFINE new == [NoRow EXCEPT !.amount = s, !.status = "created"]
<1>2. /\ new.amount = s /\ new.captured = 0 /\ new.refunded = 0 /\ new.status = "created"
  BY DEF NoRow
<1>3. payments' = [payments EXCEPT ![p] = new]
  BY <1>0 DEF CreatePayment
<1> HIDE DEF new
<1>4. /\ payments'[p] = new /\ \A q \in Payments \ {p} : payments'[q] = payments[q]
  BY <1>1, <1>3
<1>5. \A e \in outbox : e.pid \in Payments \ {p}
  BY <1>1 DEF EventType, EInv, EventsOfCalls, EventOK
<1>6. \A q \in Requests : req[q].pc \in Running => req[q].pid \in Payments \ {p}
  BY <1>1 DEF EInv, IInv, CallsKnowTheirPayment
<1>7. EventsOfCalls' /\ OneEventPerCall' /\ IsFiniteSet(outbox)'
  BY <1>1, <1>4, <1>5 DEF EInv, EventsOfCalls, EventOK, OneEventPerCall
<1>8. ProviderFirst' /\ SnapBehind'
  BY <1>1, <1>4, <1>6 DEF EInv, ProviderFirst, SnapBehind
<1>9. LedgerBackedByProvider' /\ PayloadNeverAhead'
  BY <1>1, <1>4, <1>5 DEF EInv, LedgerBackedByProvider, PayloadNeverAhead
<1>10. EventsExplainPayment'
  <2> SUFFICES ASSUME NEW q \in Payments
               PROVE  /\ payments'[q].captured = EventSum(q, "capture")'
                      /\ payments'[q].refunded = EventSum(q, "refund")'
                      /\ Held(q)' = payments'[q].amount * Cardinality(EventsOf(q, "authorize"))'
    BY DEF EventsExplainPayment
  <2>1. /\ EventSum(q, "capture")' = EventSum(q, "capture")
        /\ EventSum(q, "refund")' = EventSum(q, "refund")
        /\ EventsOf(q, "authorize")' = EventsOf(q, "authorize")
    BY <1>1, EventSumKept DEF TypeOK
  <2>2. Held(q)' = Held(q)
    BY <1>1 DEF Held
  <2>3. CASE q # p
    BY <1>4, <2>1, <2>2, <2>3 DEF EInv, EventsExplainPayment
  <2>4. CASE q = p
    <3>1. \A op : EventsOf(p, op) = {}
      BY <1>5 DEF EventsOf
    <3>2. EventSum(p, "capture") = 0 /\ EventSum(p, "refund") = 0
      BY <3>1, SumEmpty DEF EventSum
    <3>3. Cardinality(EventsOf(p, "authorize")) = 0
      BY <3>1, FS_EmptySet
    <3>4. Held(p) = 0
      BY <1>1, AccountNames DEF Held, RowAgrees
    <3>5. QED
      BY <1>1, <1>2, <1>4, <2>1, <2>2, <2>4, <3>2, <3>3, <3>4
  <2>5. QED
    BY <2>3, <2>4
<1>11. QED
  BY <1>7, <1>8, <1>9, <1>10 DEF EInv

\* Finish keeps what the call was asked for.
LEMMA FinishKeeps ==
  ASSUME TypeOK, NEW r \in Requests, NEW pc, req' = Finish(r, pc)
  PROVE  /\ req'[r].pc = pc /\ req'[r].amount = req[r].amount
         /\ req'[r].pid = req[r].pid /\ req'[r].op = req[r].op
         /\ \A q \in Requests \ {r} : req'[q] = req[q]
<1> DEFINE c == [req[r] EXCEPT !.pc = pc, !.snap = NoRow, !.row = NoRow]
<1>1. req[r] \in Call /\ req \in [Requests -> Call]
  BY DEF TypeOK
<1>2. /\ c.pc = pc /\ c.amount = req[r].amount /\ c.pid = req[r].pid /\ c.op = req[r].op
  BY <1>1 DEF Call
<1>3. req' = [req EXCEPT ![r] = c]
  BY <1>1 DEF Finish
<1> HIDE DEF c
<1>4. QED
  BY <1>1, <1>2, <1>3

\* The event of a call that commits is new, and its call has an amount.
NewEvent(r, e0) ==
  /\ e0 \notin outbox /\ e0.id = r /\ e0.pid = req[r].pid /\ e0.type = req[r].op
  /\ outbox' = outbox \cup {e0}
  /\ \A e \in outbox : e.id \in Requests \ {r}
  /\ req'[r].amount = req[r].amount
  /\ \A q \in Requests \ {r} : req'[q] = req[q]

\* A new event counts for its payment and its operation and for no other.
LEMMA CommitSum ==
  ASSUME EInv, IInv', NEW r \in Requests, NEW e0, NewEvent(r, e0),
         NEW q \in Payments, NEW op
  PROVE  /\ EventSum(q, op) \in Int
         /\ EventSum(q, op)' =
              EventSum(q, op) + (IF q = req[r].pid /\ op = req[r].op THEN Stored(req[r].amount) ELSE 0)
<1>1. PICK S, T, f, g :
        /\ S = EventsOf(q, op) /\ T = EventsOf(q, op)'
        /\ f = [e \in outbox |-> Stored(req[e.id].amount)]
        /\ g = [e \in outbox |-> Stored(req[e.id].amount)]'
  OBVIOUS
<1>2. EventSum(q, op) = SumFunctionOnSet(f, S) /\ EventSum(q, op)' = SumFunctionOnSet(g, T)
  BY <1>1, Zenon DEF EventSum
<1>3. S \subseteq outbox /\ IsFiniteSet(outbox) /\ IsFiniteSet(outbox')
  BY <1>1, FS_AddElement DEF EventsOf, EInv, NewEvent
<1>4. /\ T = IF q = req[r].pid /\ op = req[r].op THEN S \cup {e0} ELSE S
  BY <1>1 DEF EventsOf, NewEvent
<1>5. IsFiniteSet(S) /\ IsFiniteSet(T)
  BY <1>3, <1>4, FS_Subset, FS_AddElement
<1>6. /\ \A e \in outbox : g[e] = f[e] /\ f[e] \in Int
      /\ g[e0] = Stored(req[r].amount) /\ Stored(req[r].amount) \in Int
  <2>1. \A x \in Requests : req[x].amount \in Int
    BY DEF EInv, IInv, TypeOK, Call
  <2>2. \A x \in Requests : Stored(req[x].amount) \in Int
    BY <2>1, StoredMultiples
  <2>3. /\ \A e \in outbox : g[e] = f[e] /\ f[e] = Stored(req[e.id].amount)
        /\ g[e0] = Stored(req[r].amount)
    BY <1>1 DEF NewEvent
  <2>4. QED
    BY <2>2, <2>3 DEF NewEvent
<1>7. /\ \A e \in S : f[e] = g[e] /\ f[e] \in Int
      /\ \A e \in T : g[e] \in Int
  BY <1>3, <1>4, <1>6
<1>8. e0 \notin S /\ S \ {e0} = T \ {e0}
  BY <1>3, <1>4 DEF NewEvent
<1>9. /\ SumFunctionOnSet(f, S) \in Int /\ SumFunctionOnSet(g, T) \in Int
      /\ SumFunctionOnSet(g, T) + (IF e0 \in S THEN f[e0] ELSE 0) =
           SumFunctionOnSet(f, S) + (IF e0 \in T THEN g[e0] ELSE 0)
  BY <1>5, <1>7, <1>8, SumStep
<1>10. PICK sf, sg : sf = SumFunctionOnSet(f, S) /\ sg = SumFunctionOnSet(g, T)
  OBVIOUS
<1>11. sf \in Int /\ sg \in Int /\ sg = sf + (IF e0 \in T THEN Stored(req[r].amount) ELSE 0)
  BY <1>6, <1>8, <1>9, <1>10
<1>12. e0 \in T <=> q = req[r].pid /\ op = req[r].op
  BY <1>4, <1>8
<1>13. QED
  BY <1>2, <1>10, <1>11, <1>12

\* The same for the number of authorizations.
LEMMA CommitCount ==
  ASSUME EInv, NEW r \in Requests, NEW e0, NewEvent(r, e0), NEW q \in Payments
  PROVE  /\ Cardinality(EventsOf(q, "authorize")) \in Nat
         /\ Cardinality(EventsOf(q, "authorize"))' =
              Cardinality(EventsOf(q, "authorize"))
                + (IF q = req[r].pid /\ req[r].op = "authorize" THEN 1 ELSE 0)
<1>1. PICK S, T : S = EventsOf(q, "authorize") /\ T = EventsOf(q, "authorize")'
  OBVIOUS
<1>2. S \subseteq outbox /\ IsFiniteSet(outbox) /\ e0 \notin S
  BY <1>1 DEF EventsOf, EInv, NewEvent
<1>3. IsFiniteSet(S) /\ Cardinality(S) \in Nat
  BY <1>2, FS_Subset, FS_CardinalityType
<1>4. T = IF q = req[r].pid /\ req[r].op = "authorize" THEN S \cup {e0} ELSE S
  BY <1>1 DEF EventsOf, NewEvent
<1>5. Cardinality(S \cup {e0}) = Cardinality(S) + 1
  BY <1>2, <1>3, FS_AddElement
<1>6. Cardinality(T) =
        Cardinality(S) + (IF q = req[r].pid /\ req[r].op = "authorize" THEN 1 ELSE 0)
  BY <1>3, <1>4, <1>5
<1>7. QED
  BY <1>1, <1>3, <1>6

\* What a commit does to the amounts of its payment and to what is held for it.
LEMMA CommitAmounts ==
  ASSUME IInv, NEW r \in Requests, Commit(r), NEW c, c = req[r], NEW p, p = req[r].pid
  PROVE  /\ c \in Call /\ c.op \in Ops /\ p \in Payments /\ payments[p].status # "absent"
         /\ payments'[p].status # "absent"
         /\ payments'[p].amount = payments[p].amount
         /\ payments'[p].captured =
              payments[p].captured + (IF c.op = "capture" THEN Stored(c.amount) ELSE 0)
         /\ payments'[p].refunded =
              payments[p].refunded + (IF c.op = "refund" THEN Stored(c.amount) ELSE 0)
         /\ c.op \in {"capture", "refund"} => c.amount > 0 /\ Stored(c.amount) > 0
         /\ Held(p)' = Held(p) + (IF c.op = "authorize" THEN payments[p].amount ELSE 0)
         /\ \A q \in Payments \ {p} : payments'[q] = payments[q] /\ Held(q)' = Held(q)
<1>0. PICK d : d = Rounded(req[r])
  OBVIOUS
<1>1. /\ c.pc = "locked" /\ c \in Call /\ c.op \in Ops /\ p \in Payments
      /\ c.snap.amount = payments[p].amount /\ payments[p].status # "absent"
      /\ CommandAllowed(c, payments[p])
      /\ d \in Call /\ d.op = c.op /\ d.snap = c.snap /\ d.amount = Stored(c.amount)
      /\ CommandAllowed(d, payments[p])
      /\ payments' = [payments EXCEPT ![p] = Apply(d, payments[p])]
      /\ ledger' = [ledger EXCEPT ![p] = Post(ledger[p], Entries(d))]
  BY <1>0, CommitWrites
<1>3. PICK row, bal, post :
        row = payments[p] /\ bal = ledger[p] /\ post = Post(ledger[p], Entries(d))
  OBVIOUS
<1>4. /\ row \in PaymentRow /\ bal \in [Accounts -> Int] /\ d.amount \in Int
      /\ row.amount \in Int /\ row.captured \in Int /\ row.refunded \in Int
      /\ bal["customer_pending"] \in Int
  BY <1>1, <1>3, AccountNames DEF IInv, TypeOK, Call, PaymentRow
<1>5. c.op \in {"capture", "refund"} => c.amount > 0 /\ d.amount > 0
  BY <1>1, <1>3, <1>4, AllowedAmount
<1>6. PICK new : new = Apply(d, row)
  OBVIOUS
<1>7. /\ new.amount = row.amount
      /\ new.status = TargetStatus(c.op)
      /\ new.captured = IF c.op = "capture" THEN row.captured + d.amount ELSE row.captured
      /\ new.refunded = IF c.op = "refund" THEN row.refunded + d.amount ELSE row.refunded
  BY <1>1, <1>4, <1>5, <1>6, ApplyRow
<1>8. TargetStatus(c.op) # "absent"
  BY <1>1 DEF TargetStatus, Ops
<1>9. post["customer_pending"] =
        bal["customer_pending"] - (IF c.op = "authorize" THEN row.amount ELSE 0)
  <2>1. CASE c.op = "authorize"
    <3>1. post = Post(bal, Transfer("customer_pending", "pending", row.amount))
      BY <1>1, <1>3, <2>1 DEF Entries
    <3>2. post["customer_pending"] = bal["customer_pending"] - row.amount
      BY <1>4, <3>1, PostAuthorize
    <3>3. QED
      BY <2>1, <3>2
  <2>2. CASE c.op = "capture"
    <3>1. post = Post(bal, Transfer("pending", "available", d.amount))
      BY <1>1, <1>3, <2>2 DEF Entries
    <3>2. post["customer_pending"] = bal["customer_pending"]
      BY <1>4, <3>1, PostCapture
    <3>3. QED
      BY <1>4, <2>2, <3>2
  <2>3. CASE c.op = "refund"
    <3>1. post = Post(bal, Transfer("available", "customer_refunded", d.amount))
      BY <1>1, <1>3, <2>3 DEF Entries
    <3>2. post["customer_pending"] = bal["customer_pending"]
      BY <1>4, <3>1, PostRefund
    <3>3. QED
      BY <1>4, <2>3, <3>2
  <2>4. QED
    BY <1>1, <2>1, <2>2, <2>3 DEF Ops
<1>10. /\ payments'[p] = new /\ ledger'[p] = post
       /\ \A q \in Payments \ {p} : payments'[q] = payments[q] /\ ledger'[q] = ledger[q]
  BY <1>1, <1>3, <1>6 DEF IInv, TypeOK
<1>11. Held(p)' = Held(p) + (IF c.op = "authorize" THEN payments[p].amount ELSE 0)
  BY <1>3, <1>4, <1>9, <1>10 DEF Held
<1>12. \A q \in Payments \ {p} : payments'[q] = payments[q] /\ Held(q)' = Held(q)
  BY <1>10 DEF Held
<1>13. /\ payments'[p].captured =
            payments[p].captured + (IF c.op = "capture" THEN d.amount ELSE 0)
       /\ payments'[p].refunded =
            payments[p].refunded + (IF c.op = "refund" THEN d.amount ELSE 0)
  BY <1>3, <1>4, <1>7, <1>10
<1>14. QED
  BY <1>1, <1>3, <1>5, <1>7, <1>8, <1>10, <1>11, <1>12, <1>13

\* A commit writes the row, the entries and the event that tells of them together.
LEMMA CommitEvents ==
  ASSUME EInv, IInv', NEW r \in Requests, Commit(r)
  PROVE  EInv'
<1>1. PICK c, p, e0, b : /\ c = req[r] /\ p = req[r].pid /\ e0 = Event(r)
                         /\ b = Stored(req[r].amount)
  OBVIOUS
<1>2. /\ IInv /\ TypeOK /\ TypeOK' /\ req[r].pc = "locked" /\ req \in [Requests -> Call]
      /\ outbox \subseteq EventType /\ payments \in [Payments -> PaymentRow]
      /\ outbox' = outbox \cup {e0} /\ executed' = executed
  BY <1>1 DEF Commit, EInv, IInv, TypeOK
<1>3. /\ c \in Call /\ c.op \in Ops /\ p \in Payments /\ payments[p].status # "absent"
      /\ payments'[p].status # "absent"
      /\ payments'[p].amount = payments[p].amount
      /\ payments'[p].captured =
           payments[p].captured + (IF c.op = "capture" THEN b ELSE 0)
      /\ payments'[p].refunded =
           payments[p].refunded + (IF c.op = "refund" THEN b ELSE 0)
      /\ c.op \in {"capture", "refund"} => c.amount > 0 /\ b > 0
      /\ Held(p)' = Held(p) + (IF c.op = "authorize" THEN payments[p].amount ELSE 0)
      /\ \A q \in Payments \ {p} : payments'[q] = payments[q] /\ Held(q)' = Held(q)
  BY <1>1, <1>2, CommitAmounts
<1>4. /\ c.snap \in PaymentRow /\ c.snap.amount = payments[p].amount
      /\ c.snap.captured <= payments[p].captured /\ c.snap.refunded <= payments[p].refunded
      /\ RowStored(c.snap) /\ r \in executed /\ c.amount \in Int /\ b \in Int
  BY <1>1, <1>2, <1>3, StoredMultiples
     DEF EInv, IInv, CallsKnowTheirPayment, SnapBehind, ProviderFirst, Running, Call
<1>5. PICK pay : pay = Apply(c, c.snap)
  OBVIOUS
<1>6. /\ pay.amount = c.snap.amount
      /\ pay.captured = IF c.op = "capture" THEN c.snap.captured + c.amount ELSE c.snap.captured
      /\ pay.refunded = IF c.op = "refund" THEN c.snap.refunded + c.amount ELSE c.snap.refunded
  BY <1>3, <1>4, <1>5, ApplyRow
<1>7. e0 = [id |-> r, pid |-> p, type |-> c.op, payload |-> pay]
  BY <1>1, <1>5 DEF Event
<1>8. e0.id = r /\ e0.pid = p /\ e0.type = c.op /\ e0.payload = pay
  BY <1>7
<1>9. \A e \in outbox : e.id \in Requests \ {r} /\ e.pid \in Payments
  BY <1>2 DEF EventType, EInv, EventsOfCalls, EventOK
<1>10. /\ req'[r].pc \in {"ok", "dead"} /\ req'[r].amount = c.amount
       /\ req'[r].pid = p /\ req'[r].op = c.op
       /\ \A q \in Requests \ {r} : req'[q] = req[q]
  BY <1>1, <1>2, FinishKeeps DEF Commit
<1>11. NewEvent(r, e0)
  BY <1>1, <1>2, <1>8, <1>9, <1>10 DEF NewEvent
<1>12. /\ payments[p].captured \in Int /\ payments[p].refunded \in Int
       /\ payments[p].amount \in Nat /\ c.snap.captured \in Int /\ c.snap.refunded \in Int
  BY <1>2, <1>3, <1>4 DEF PaymentRow
<1>13. \A q \in Payments :
         /\ payments'[q].status # "absent" \/ payments[q].status = "absent"
         /\ payments'[q].amount = payments[q].amount
         /\ payments[q].captured \in Int /\ payments'[q].captured \in Int
         /\ payments[q].refunded \in Int /\ payments'[q].refunded \in Int
         /\ payments[q].captured <= payments'[q].captured
         /\ payments[q].refunded <= payments'[q].refunded
  <2> TAKE q \in Payments
  <2>1. CASE q = p
    BY <1>3, <1>4, <1>12, <2>1
  <2>2. CASE q # p
    BY <1>2, <1>3, <2>2 DEF PaymentRow
  <2>3. QED
    BY <2>1, <2>2
<1>14. IsFiniteSet(outbox)'
  BY <1>2, FS_AddElement DEF EInv
<1>15. EventsOfCalls'
  <2> SUFFICES ASSUME NEW e \in outbox'
               PROVE  /\ e.id \in executed'
                      /\ req'[e.id].pc \in {"ok", "dead"}
                      /\ e.pid = req'[e.id].pid
                      /\ e.type = req'[e.id].op
                      /\ payments'[e.pid].status # "absent"
    BY DEF EventsOfCalls, EventOK
  <2>1. CASE e = e0
    BY <1>2, <1>3, <1>4, <1>8, <1>10, <2>1
  <2>2. CASE e \in outbox
    BY <1>2, <1>9, <1>10, <1>13, <2>2 DEF EInv, EventsOfCalls, EventOK
  <2>3. QED
    BY <1>2, <2>1, <2>2
<1>16. OneEventPerCall'
  BY <1>2, <1>8, <1>9 DEF EInv, OneEventPerCall
<1>17. ProviderFirst'
  BY <1>2, <1>10 DEF EInv, ProviderFirst
<1>18. SnapBehind'
  <2> SUFFICES ASSUME NEW q \in Requests, req'[q].pc \in Running
               PROVE  /\ RowStored(req'[q].snap)
                      /\ req'[q].snap.captured <= payments'[req'[q].pid].captured
                      /\ req'[q].snap.refunded <= payments'[req'[q].pid].refunded
    BY DEF SnapBehind
  <2>1. q # r
    BY <1>10 DEF Running
  <2>2. /\ req'[q] = req[q] /\ req[q].pid \in Payments
        /\ RowStored(req[q].snap)
        /\ req[q].snap.captured \in Int /\ req[q].snap.refunded \in Int
        /\ req[q].snap.captured <= payments[req[q].pid].captured
        /\ req[q].snap.refunded <= payments[req[q].pid].refunded
    BY <1>2, <1>10, <2>1
       DEF EInv, IInv, CallsKnowTheirPayment, SnapBehind, Call, PaymentRow
  <2>3. QED
    BY <1>13, <2>2
<1>19. LedgerBackedByProvider'
  <2>1. \A e \in outbox' : e.id \in executed'
    BY <1>15 DEF EventsOfCalls, EventOK
  <2>2. ASSUME NEW q \in Requests, req'[q].pc = "ok"
        PROVE  \E e \in outbox' : e.id = q /\ e.pid = req'[q].pid
    BY <1>2, <1>8, <1>10, <2>2 DEF EInv, LedgerBackedByProvider
  <2>3. QED
    BY <2>1, <2>2 DEF LedgerBackedByProvider
<1>20. PayloadNeverAhead'
  <2> SUFFICES ASSUME NEW e \in outbox'
               PROVE  /\ e.payload.amount = payments'[e.pid].amount
                      /\ Stored(e.payload.captured) <= payments'[e.pid].captured
                      /\ Stored(e.payload.refunded) <= payments'[e.pid].refunded
    BY DEF PayloadNeverAhead
  <2>1. CASE e = e0
    <3>1. /\ Stored(pay.captured) = c.snap.captured + (IF c.op = "capture" THEN b ELSE 0)
          /\ Stored(pay.refunded) = c.snap.refunded + (IF c.op = "refund" THEN b ELSE 0)
      <4>1. PICK k \in Int, f \in Int, x \in Int :
              k = c.snap.captured /\ f = c.snap.refunded /\ x = c.amount
        BY <1>4, <1>12
      <4>2. k % Unit = 0 /\ f % Unit = 0
        BY <1>4, <4>1 DEF RowStored
      <4>3. Stored(k + x) = k + Stored(x) /\ Stored(k) = k
        BY <4>2, StoredLaws
      <4>4. Stored(f + x) = f + Stored(x) /\ Stored(f) = f
        BY <4>2, StoredLaws
      <4>5. QED
        BY <1>1, <1>4, <1>6, <4>1, <4>3, <4>4
    <3>2. QED
      BY <1>3, <1>4, <1>8, <1>6, <1>12, <2>1, <3>1
  <2>2. CASE e \in outbox
    <3>1. Stored(e.payload.captured) \in Int /\ Stored(e.payload.refunded) \in Int
      <4>1. e.payload.captured \in Int /\ e.payload.refunded \in Int
        BY <1>2, <2>2 DEF EventType, PaymentRow
      <4>2. QED
        BY <4>1, StoredMultiples
    <3>2. QED
      BY <1>9, <1>13, <2>2, <3>1 DEF EInv, PayloadNeverAhead
  <2>3. QED
    BY <1>2, <2>1, <2>2
<1>21. EventsExplainPayment'
  <2> SUFFICES ASSUME NEW q \in Payments
               PROVE  /\ payments'[q].captured = EventSum(q, "capture")'
                      /\ payments'[q].refunded = EventSum(q, "refund")'
                      /\ Held(q)' = payments'[q].amount * Cardinality(EventsOf(q, "authorize"))'
    BY DEF EventsExplainPayment
  <2>1. /\ EventSum(q, "capture")' =
             EventSum(q, "capture") + (IF q = p /\ "capture" = c.op THEN b ELSE 0)
        /\ EventSum(q, "refund")' =
             EventSum(q, "refund") + (IF q = p /\ "refund" = c.op THEN b ELSE 0)
        /\ EventSum(q, "capture") \in Int /\ EventSum(q, "refund") \in Int
    BY <1>1, <1>11, CommitSum
  <2>2. /\ Cardinality(EventsOf(q, "authorize")) \in Nat
        /\ Cardinality(EventsOf(q, "authorize"))' =
             Cardinality(EventsOf(q, "authorize")) + (IF q = p /\ c.op = "authorize" THEN 1 ELSE 0)
    BY <1>1, <1>11, CommitCount
  <2>3. /\ payments[q].captured = EventSum(q, "capture")
        /\ payments[q].refunded = EventSum(q, "refund")
        /\ Held(q) = payments[q].amount * Cardinality(EventsOf(q, "authorize"))
    BY DEF EInv, EventsExplainPayment
  <2>4. payments'[q].captured = EventSum(q, "capture")'
        /\ payments'[q].refunded = EventSum(q, "refund")'
    BY <1>3, <2>1, <2>3
  <2>5. Held(q)' = payments'[q].amount * Cardinality(EventsOf(q, "authorize"))'
    <3>1. PICK n, m, a : /\ n = Cardinality(EventsOf(q, "authorize"))
                         /\ m = Cardinality(EventsOf(q, "authorize"))'
                         /\ a = payments[q].amount
      OBVIOUS
    <3>2. n \in Nat /\ a \in Nat /\ a * (n + 1) = a * n + a
      BY <1>2, <2>2, <3>1 DEF PaymentRow
    <3>3. CASE q = p /\ c.op = "authorize"
      <4>1. m = n + 1 /\ Held(q)' = a * n + a
        BY <1>3, <2>2, <2>3, <3>1, <3>3
      <4>2. QED
        BY <1>13, <3>1, <3>2, <4>1
    <3>4. CASE ~(q = p /\ c.op = "authorize")
      <4>1. m = n
        BY <2>2, <3>1, <3>4
      <4>2. a * n \in Int
        BY <3>2
      <4>3. Held(q)' = a * n
        BY <1>3, <2>3, <3>1, <3>4, <4>2
      <4>4. QED
        BY <1>13, <3>1, <4>1, <4>3
    <3>5. QED
      BY <3>3, <3>4
  <2>6. QED
    BY <2>4, <2>5
<1>22. QED
  BY <1>14, <1>15, <1>16, <1>17, <1>18, <1>19, <1>20, <1>21 DEF EInv

\* Every step of every handler keeps the invariant of the outbox.
LEMMA NextEvents == EInv /\ [Next]_vars => EInv'
<1> SUFFICES ASSUME EInv, [Next]_vars PROVE EInv'
  OBVIOUS
<1>1. IInv'
  BY NextInvariant DEF EInv
<1>2. CASE \E p \in Payments, a \in Amounts : CreatePayment(p, a)
  BY <1>1, <1>2, CreateEvents
<1>3. ASSUME NEW r \in Requests, Begin(r) \/ Proceed(r) \/ Abort(r)
      PROVE  EInv'
  <2>1. CASE Begin(r)
    BY <1>1, <2>1, BeginEvents
  <2>2. CASE Proceed(r)
    BY <1>1, <2>2, ProceedEvents, CommitEvents, FailureEvents DEF Proceed
  <2>3. CASE Abort(r)
    BY <1>1, <2>3, ProceedEvents
  <2>4. QED
    BY <1>3, <2>1, <2>2, <2>3
<1>4. CASE UNCHANGED vars
  <2>1. UNCHANGED <<payments, ledger, outbox, req, executed>>
    BY <1>4 DEF vars
  <2>2. EventsOfCalls' /\ OneEventPerCall' /\ ProviderFirst' /\ SnapBehind'
    BY <2>1 DEF EInv, EventsOfCalls, EventOK, OneEventPerCall, ProviderFirst, SnapBehind
  <2>3. LedgerBackedByProvider' /\ PayloadNeverAhead' /\ IsFiniteSet(outbox)'
    BY <2>1 DEF EInv, LedgerBackedByProvider, PayloadNeverAhead
  <2>4. EventsExplainPayment'
    BY <2>1, Zenon DEF EInv, EventsExplainPayment, EventSum, EventsOf, Held
  <2>5. QED
    BY <1>1, <2>2, <2>3, <2>4 DEF EInv
<1>5. QED
  BY <1>2, <1>3, <1>4 DEF Next

\* The invariant of the outbox holds in every reachable state.
LEMMA EventsHold == Spec => []EInv
BY InitEvents, NextEvents, PTL DEF Spec

(***************************************************************************)
(* The outbox tells the whole story: for any number of payments and calls, *)
(* captured and refunded are the sums of the announced amounts, each as    *)
(* stored, and the held amount is there exactly once, with exactly one     *)
(* authorized event.                                                       *)
(***************************************************************************)
THEOREM EventsExplain == Spec => []EventsExplainPayment
<1>1. EInv => EventsExplainPayment
  BY DEF EInv
<1>2. QED
  BY <1>1, EventsHold, PTL

(***************************************************************************)
(* What the outbox announces was executed by the provider, and every call  *)
(* that was answered with success is announced.                            *)
(***************************************************************************)
THEOREM ProviderBacked == Spec => []LedgerBackedByProvider
<1>1. EInv => LedgerBackedByProvider
  BY DEF EInv
<1>2. QED
  BY <1>1, EventsHold, PTL

(***************************************************************************)
(* Rounded to the precision of the table, no payload claims more than its  *)
(* payment's row has, although commit() builds it from a read that is      *)
(* older than the provider call and from an amount that nobody rounded.    *)
(***************************************************************************)
THEOREM PayloadsBehind == Spec => []PayloadNeverAhead
<1>1. EInv => PayloadNeverAhead
  BY DEF EInv
<1>2. QED
  BY <1>1, EventsHold, PTL
-----------------------------------------------------------------------------
(***************************************************************************)
(* The transactions implement the operations of the in-memory store        *)
(*                                                                         *)
(* The commands of the store take their amounts and their references from  *)
(* the same sets; that a call has one of them is part of the argument.     *)
(***************************************************************************)
StoredAmounts == {Stored(a) : a \in Amounts}

KnownAmounts == \A p \in Payments : Exists(p) => payments[p].amount \in StoredAmounts

KnownCall(c) ==
  /\ c.op \in {"capture", "refund"} => c.amount \in Amounts
  /\ c.pc \in {"transition", "update"} => c.reference \in Store!FailureReasons

KnownCalls == \A r \in Requests : req[r].pc \in Running => KnownCall(req[r])

SInv == IInv /\ KnownAmounts /\ KnownCalls

\* Nothing is known of a call that has not begun.
LEMMA InitKnown == Init => SInv
<1> SUFFICES ASSUME Init PROVE SInv
  OBVIOUS
<1>1. \A r \in Requests : req[r].pc = "idle"
  BY NoCallType DEF Init
<1>2. \A p \in Payments : ~Exists(p)
  BY NoRowType DEF Init, Exists
<1>3. QED
  BY <1>1, <1>2, InitInvariant DEF SInv, KnownAmounts, KnownCalls, Running

\* A step of one call.
LEMMA CallKnown ==
  ASSUME SInv, IInv', NEW r \in Requests, KnownAmounts',
         \A q \in Requests \ {r} : req'[q] = req[q],
         req'[r].pc \in Running => KnownCall(req'[r])
  PROVE  SInv'
BY DEF SInv, KnownCalls

\* The first steps: the amount is the client's.
LEMMA BeginKnown ==
  ASSUME SInv, IInv', NEW r \in Requests, Begin(r)
  PROVE  SInv'
<1>1. req \in [Requests -> Call] /\ KnownAmounts
  BY DEF SInv, IInv, TypeOK
<1>2. UNCHANGED <<payments, ledger, outbox, executed>>
  BY DEF Begin, Authorize, AuthorizeBlocked, Capture, Refund, Reject, Start
<1>3. KnownAmounts'
  BY <1>1, <1>2 DEF KnownAmounts, Exists
<1>4. ASSUME NEW p, NEW op, NEW a, NEW ref, NEW pc,
             Start(r, op, p, a, pc, ref),
             op \in {"capture", "refund"} => a \in Amounts,
             pc \in {"transition", "update"} => ref \in Store!FailureReasons
      PROVE  SInv'
  <2> DEFINE c == [pc |-> pc, op |-> op, pid |-> p, amount |-> a,
                   snap |-> payments[p], row |-> NoRow, reference |-> ref]
  <2>1. c.pc = pc /\ c.op = op /\ c.amount = a /\ c.reference = ref
    OBVIOUS
  <2>2. req' = [req EXCEPT ![r] = c]
    BY <1>4 DEF Start
  <2> HIDE DEF c
  <2>3. req'[r] = c /\ \A q \in Requests \ {r} : req'[q] = req[q]
    BY <1>1, <2>2
  <2>4. KnownCall(req'[r])
    BY <1>4, <2>1, <2>3 DEF KnownCall
  <2>5. QED
    BY <1>3, <2>3, <2>4, CallKnown
<1>5. PICK p \in Payments :
        \/ Authorize(r, p)
        \/ AuthorizeBlocked(r, p)
        \/ \E a \in Amounts :
             \/ Capture(r, p, a)
             \/ Refund(r, p, a)
             \/ \E op \in Ops : Reject(r, op, p, a)
  BY DEF Begin
<1>6. CASE Authorize(r, p)
  BY <1>4, <1>6 DEF Authorize
<1>7. CASE AuthorizeBlocked(r, p)
  BY <1>4, <1>7 DEF AuthorizeBlocked, Store!FailureReasons
<1>8. CASE \E a \in Amounts : Capture(r, p, a) \/ Refund(r, p, a)
  BY <1>4, <1>8 DEF Capture, Refund
<1>9. CASE \E a \in Amounts, op \in Ops : Reject(r, op, p, a)
  <2>1. PICK op \in Ops : req' = [req EXCEPT ![r] = [NoCall EXCEPT !.pc = "error", !.op = op]]
    BY <1>9 DEF Reject
  <2>2. [NoCall EXCEPT !.pc = "error", !.op = op].pc = "error"
    BY NoCallType DEF Call
  <2>3. req'[r].pc = "error" /\ \A q \in Requests \ {r} : req'[q] = req[q]
    BY <1>1, <2>1, <2>2
  <2>4. QED
    BY <1>3, <2>3, CallKnown DEF Running
<1>10. QED
  BY <1>5, <1>6, <1>7, <1>8, <1>9

\* The later steps keep the amount; only a failed authorization gets a reason.
LEMMA ProceedKnown ==
  ASSUME SInv, IInv', NEW r \in Requests, Proceed(r) \/ Abort(r)
  PROVE  SInv'
<1>1. /\ IInv /\ TypeOK /\ req \in [Requests -> Call] /\ req[r] \in Call
      /\ payments \in [Payments -> PaymentRow]
  BY DEF SInv, IInv, TypeOK
<1>2. KnownAmounts'
  <2>1. CASE payments' = payments
    BY <2>1 DEF SInv, KnownAmounts, Exists
  <2>2. CASE Commit(r)
    <3>1. PICK c, p : c = req[r] /\ p = req[r].pid
      OBVIOUS
    <3>2. /\ p \in Payments /\ payments[p].status # "absent"
          /\ payments'[p].amount = payments[p].amount
          /\ \A q \in Payments \ {p} : payments'[q] = payments[q]
      BY <1>1, <2>2, <3>1, CommitAmounts
    <3>3. QED
      BY <3>2 DEF SInv, KnownAmounts, Exists
  <2>3. CASE TransitionUpdate(r)
    <3>1. req[r].pid \in Payments /\ payments[req[r].pid].status # "absent"
      BY <1>1, <2>3 DEF TransitionUpdate, IInv, CallsKnowTheirPayment, Running
    <3>2. \A q \in Payments : /\ payments'[q].amount = payments[q].amount
                              /\ q # req[r].pid => payments'[q] = payments[q]
      BY <1>1, <2>3, <3>1 DEF TransitionUpdate, PaymentRow
    <3>3. QED
      BY <3>1, <3>2 DEF SInv, KnownAmounts, Exists
  <2>4. QED
    BY <2>1, <2>2, <2>3
       DEF Proceed, ProviderSucceeds, ProviderFails, LockRow, CommandRefused,
           TransitionRead, Abort
<1>3. ASSUME NEW pc \in Finished, req' = Finish(r, pc)
      PROVE  SInv'
  BY <1>1, <1>2, <1>3, FinishCall, CallKnown
<1>4. ASSUME req[r].pc \in Running, NEW pc, NEW reference, NEW row,
             req' = [req EXCEPT ![r].pc = pc, ![r].reference = reference, ![r].row = row],
             pc \in {"transition", "update"} => reference \in Store!FailureReasons
      PROVE  SInv'
  <2> DEFINE c == [req[r] EXCEPT !.pc = pc, !.reference = reference, !.row = row]
  <2>1. c.pc = pc /\ c.op = req[r].op /\ c.amount = req[r].amount /\ c.reference = reference
    BY <1>1 DEF Call
  <2>2. req' = [req EXCEPT ![r] = c]
    BY <1>1, <1>4
  <2> HIDE DEF c
  <2>3. req'[r] = c /\ \A q \in Requests \ {r} : req'[q] = req[q]
    BY <1>1, <2>2
  <2>4. KnownCall(req'[r])
    BY <1>4, <2>1, <2>3 DEF SInv, KnownCalls, KnownCall
  <2>5. QED
    BY <1>2, <2>3, <2>4, CallKnown
<1>5. CASE ProviderSucceeds(r)
  <2>1. PICK reference : req' = [req EXCEPT ![r].pc = "commit", ![r].reference = reference]
    BY <1>5 DEF ProviderSucceeds
  <2>2. req' = [req EXCEPT ![r].pc = "commit", ![r].reference = reference,
                           ![r].row = req[r].row]
    BY <1>1, <2>1 DEF Call
  <2>3. req[r].pc \in Running /\ "commit" \notin {"transition", "update"}
    BY <1>5 DEF ProviderSucceeds, Running
  <2>4. QED
    BY <1>4, <2>2, <2>3
<1>6. CASE ProviderFails(r)
  <2>1. CASE req' = [req EXCEPT ![r].pc = "transition", ![r].reference = "provider_error"]
    <3>1. req' = [req EXCEPT ![r].pc = "transition", ![r].reference = "provider_error",
                             ![r].row = req[r].row]
      BY <1>1, <2>1 DEF Call
    <3>2. req[r].pc \in Running /\ "provider_error" \in Store!FailureReasons
      BY <1>6 DEF ProviderFails, Running, Store!FailureReasons
    <3>3. QED
      BY <1>4, <3>1, <3>2
  <2>2. QED
    BY <1>3, <1>6, <2>1 DEF ProviderFails, Finished
<1>7. CASE LockRow(r)
  <2>1. req' = [req EXCEPT ![r].pc = "locked", ![r].row = payments[req[r].pid]]
    BY <1>7 DEF LockRow
  <2>2. req' = [req EXCEPT ![r].pc = "locked", ![r].reference = req[r].reference,
                           ![r].row = payments[req[r].pid]]
    BY <1>1, <2>1 DEF Call
  <2>3. req[r].pc \in Running /\ "locked" \notin {"transition", "update"}
    BY <1>7 DEF LockRow, Running
  <2>4. QED
    BY <1>4, <2>2, <2>3
<1>8. CASE TransitionRead(r)
  <2>1. CASE req' = [req EXCEPT ![r].pc = "update"]
    <3>1. req' = [req EXCEPT ![r].pc = "update", ![r].reference = req[r].reference,
                             ![r].row = req[r].row]
      BY <1>1, <2>1 DEF Call
    <3>2. req[r].reference \in Store!FailureReasons /\ req[r].pc \in Running
      BY <1>8 DEF TransitionRead, SInv, KnownCalls, KnownCall, Running
    <3>3. QED
      BY <1>4, <3>1, <3>2
  <2>2. QED
    BY <1>3, <1>8, <2>1 DEF TransitionRead, Finished
<1>9. CASE CommandRefused(r) \/ Commit(r) \/ TransitionUpdate(r) \/ Abort(r)
  BY <1>3, <1>9 DEF CommandRefused, Commit, TransitionUpdate, Abort, Finished
<1>10. QED
  BY <1>5, <1>6, <1>7, <1>8, <1>9 DEF Proceed

\* Amounts and references stay known.
LEMMA NextKnown == SInv /\ [Next]_vars => SInv'
<1> SUFFICES ASSUME SInv, [Next]_vars PROVE SInv'
  OBVIOUS
<1>1. IInv' /\ payments \in [Payments -> PaymentRow]
  BY NextInvariant DEF SInv, IInv, TypeOK
<1>2. ASSUME NEW p \in Payments, NEW a \in Amounts, CreatePayment(p, a)
      PROVE  SInv'
  <2>1. payments'[p].amount = Stored(a) /\ \A q \in Payments \ {p} : payments'[q] = payments[q]
    BY <1>1, <1>2 DEF CreatePayment, NoRow
  <2>2. QED
    BY <1>1, <1>2, <2>1 DEF CreatePayment, SInv, KnownAmounts, KnownCalls, Exists, StoredAmounts
<1>3. CASE UNCHANGED vars
  BY <1>1, <1>3 DEF vars, SInv, KnownAmounts, KnownCalls, Exists
<1>4. QED
  BY <1>1, <1>2, <1>3, BeginKnown, ProceedKnown DEF Next

\* The amounts and references of calls are known in every reachable state.
LEMMA KnownHolds == Spec => []SInv
BY InitKnown, NextKnown, PTL DEF Spec

\* The payments of the store after a command; a row with its fields written out.
Commanded(f, p, st, a, reference) ==
  [f EXCEPT
     ![p].status = st,
     ![p].captured = @ + (IF st = "captured" THEN a ELSE 0),
     ![p].refunded = @ + (IF st = "refunded" THEN a ELSE 0),
     ![p].reference = IF reference # "" THEN reference ELSE @]

RowOf(amount, captured, refunded, st, reference) ==
  [amount |-> amount, captured |-> captured, refunded |-> refunded,
   status |-> st, reference |-> reference]

\* The command of the store writes the row that Apply computes.
LEMMA CommandRow ==
  ASSUME NEW f, NEW p \in DOMAIN f, f[p] \in PaymentRow, NEW c \in Call, c.op \in Ops,
         NEW st, st = TargetStatus(c.op), NEW a,
         c.op \in {"capture", "refund"} => a = c.amount
  PROVE  Commanded(f, p, st, a, c.reference) = [f EXCEPT ![p] = Apply(c, f[p])]
<1> DEFINE cap == f[p].captured + (IF st = "captured" THEN a ELSE 0)
           ref == f[p].refunded + (IF st = "refunded" THEN a ELSE 0)
           prv == IF c.reference # "" THEN c.reference ELSE f[p].reference
<1> HIDE DEF cap, ref, prv
<1>1. PICK r0, ncap, nref, nprv : r0 = f[p] /\ ncap = cap /\ nref = ref /\ nprv = prv
  OBVIOUS
<1>2. /\ r0.captured \in Int /\ r0.refunded \in Int /\ c.amount \in Int
      /\ r0 = RowOf(r0.amount, r0.captured, r0.refunded, r0.status, r0.reference)
  BY <1>1 DEF PaymentRow, Call, RowOf
<1>3. /\ (st = "captured" <=> c.op = "capture") /\ (st = "refunded" <=> c.op = "refund")
  BY DEF TargetStatus, Ops
<1>4. /\ ncap = IF c.op = "capture" THEN r0.captured + c.amount ELSE r0.captured
      /\ nref = IF c.op = "refund" THEN r0.refunded + c.amount ELSE r0.refunded
  BY <1>1, <1>2, <1>3 DEF cap, ref
<1>5. Apply(c, r0) = [r0 EXCEPT !.status = st, !.captured = ncap,
                                !.refunded = nref, !.reference = nprv]
  BY <1>1, <1>4, Zenon DEF Apply, prv
<1>6. PICK r1 : r1 = [r0 EXCEPT !.status = st]
  OBVIOUS
<1>7. r1 = RowOf(r0.amount, r0.captured, r0.refunded, st, r0.reference)
  BY <1>2, <1>6 DEF RowOf
<1>8. PICK r2 : r2 = [r1 EXCEPT !.captured = ncap]
  OBVIOUS
<1>9. r2 = RowOf(r0.amount, ncap, r0.refunded, st, r0.reference)
  BY <1>7, <1>8 DEF RowOf
<1>10. PICK r3 : r3 = [r2 EXCEPT !.refunded = nref]
  OBVIOUS
<1>11. r3 = RowOf(r0.amount, ncap, nref, st, r0.reference)
  BY <1>9, <1>10 DEF RowOf
<1>12. PICK r4 : r4 = [r3 EXCEPT !.reference = nprv]
  OBVIOUS
<1>13. r4 = RowOf(r0.amount, ncap, nref, st, nprv)
  BY <1>11, <1>12 DEF RowOf
<1>14. Apply(c, r0) = r4
  BY <1>2, <1>5, <1>13 DEF RowOf
<1> DEFINE f1 == [f EXCEPT ![p].status = st]
           f2 == [f1 EXCEPT ![p].captured = cap]
           f3 == [f2 EXCEPT ![p].refunded = ref]
           f4 == [f3 EXCEPT ![p].reference = prv]
<1> HIDE DEF f1, f2, f3, f4
<1>15. f1 = [f EXCEPT ![p] = r1]
  BY <1>1, <1>6 DEF f1
<1>16. f2 = [f EXCEPT ![p] = r2]
  BY <1>1, <1>8, <1>15 DEF f2
<1>17. f3 = [f EXCEPT ![p] = r3]
  BY <1>1, <1>10, <1>16 DEF f3
<1>18. f4 = [f EXCEPT ![p] = r4]
  BY <1>1, <1>12, <1>17 DEF f4
<1>19. Commanded(f, p, st, a, c.reference) = f4
  BY Zenon DEF Commanded, f1, f2, f3, f4, cap, ref, prv
<1>20. QED
  BY <1>1, <1>14, <1>18, <1>19

\* The store has the domain rules of this module.
LEMMA SameTransfer ==
  ASSUME NEW from, NEW to, NEW amount
  PROVE  Store!Transfer(from, to, amount) = Transfer(from, to, amount)
BY DEF Store!Transfer, Transfer, Store!LedgerEntry, LedgerEntry

\* The library's sum, reached through the store.
LEMMA SameSum ==
  ASSUME NEW f, NEW S
  PROVE  Store!SumFunctionOnSet(f, S) = SumFunctionOnSet(f, S)
BY Zenon DEF Store!SumFunctionOnSet, SumFunctionOnSet, Store!FoldFunctionOnSet,
             FoldFunctionOnSet, Store!MapThenFoldSet, MapThenFoldSet

\* Balances after a transaction, and its check, in the store.
LEMMA SameBooking ==
  ASSUME NEW b, NEW entries
  PROVE  /\ Store!Post(b, entries) = Post(b, entries)
         /\ ValidateBalanced(entries) => Store!ValidateBalanced(entries)
<1>1. Store!Post(b, entries) = Post(b, entries)
  BY Zenon DEF Store!Post, Post
<1>2. ASSUME ValidateBalanced(entries)
      PROVE  Store!ValidateBalanced(entries)
  <2> DEFINE debits == [i \in DOMAIN entries |-> entries[i].debit]
             credits == [i \in DOMAIN entries |-> entries[i].credit]
  <2>1. SumFunctionOnSet(debits, DOMAIN entries) = SumFunctionOnSet(credits, DOMAIN entries)
    BY <1>2, Zenon DEF ValidateBalanced
  <2>2. Store!SumFunctionOnSet(debits, DOMAIN entries)
          = Store!SumFunctionOnSet(credits, DOMAIN entries)
    BY <2>1, SameSum, Zenon
  <2>3. QED
    BY <1>2, <2>2, Zenon DEF ValidateBalanced, Store!ValidateBalanced
<1>3. QED
  BY <1>1, <1>2

\* What the store shows of the idempotency keys and of the outbox.
StoreKeys == [p \in Payments |-> IF Exists(p) THEN p ELSE None]
StoreOutbox == {[aggregate |-> e.pid, type |-> TargetStatus(e.type)] : e \in outbox}

\* The tables are the only thing that the store is shown to have.
LEMMA StoreStutter == UNCHANGED <<payments, ledger, outbox>> => UNCHANGED Store!vars
BY DEF Store!vars, Exists

\* The tables start empty.
LEMMA StoreInit == Init => Store!Init
<1> SUFFICES ASSUME Init PROVE Store!Init
  OBVIOUS
<1>1. Store!NoPayment = NoRow
  BY Zenon DEF Store!NoPayment, NoRow
<1>2. payments = [p \in Payments |-> Store!NoPayment]
  BY <1>1, Zenon DEF Init
<1>3. ledger = [m \in Payments |-> [a \in Accounts |-> 0]]
  BY DEF Init
<1>4. StoreKeys = [k \in Payments |-> None]
  BY NoRowType DEF Init, StoreKeys, Exists
<1>5. StoreOutbox = {}
  BY DEF Init, StoreOutbox
<1>6. << >> = [q \in {} |-> Store!NoRow]
  OBVIOUS
<1>7. QED
  BY <1>2, <1>3, <1>4, <1>5, <1>6, Zenon DEF Store!Init, StoreKeys, StoreOutbox

\* The INSERT of a payment is CreatePayment of the store.
LEMMA StoreCreate ==
  ASSUME SInv, NEW p \in Payments, NEW a \in Amounts, CreatePayment(p, a)
  PROVE  Store!Next
<1>0. PICK s \in StoredAmounts : s = Stored(a)
  BY DEF StoredAmounts
<1>1. /\ payments \in [Payments -> PaymentRow] /\ payments[p].status = "absent"
      /\ UNCHANGED <<ledger, outbox>>
  BY DEF SInv, IInv, TypeOK, CreatePayment
<1>2. Store!NoPayment = NoRow
  BY Zenon DEF Store!NoPayment, NoRow
<1>3. payments' = [payments EXCEPT
        ![p] = [Store!NoPayment EXCEPT !.amount = s, !.status = "created"]]
  BY <1>0, <1>2, Zenon DEF CreatePayment
<1>4. [NoRow EXCEPT !.amount = s, !.status = "created"].status = "created"
  BY DEF NoRow
<1>5. /\ payments'[p].status = "created"
      /\ \A q \in Payments \ {p} : payments'[q] = payments[q]
  BY <1>1, <1>2, <1>3, <1>4
<1>6. StoreKeys[p] = None /\ StoreKeys' = [StoreKeys EXCEPT ![p] = p]
  BY <1>1, <1>5 DEF StoreKeys, Exists
<1>7. StoreOutbox' = StoreOutbox
  BY <1>1 DEF StoreOutbox
<1>8. Store!NewPaymentAllowed(s)
  BY <1>0 DEF CreatePayment, Store!NewPaymentAllowed
<1>9. Store!CreatePayment(p, p, s)
  BY <1>1, <1>3, <1>6, <1>7, <1>8, Zenon DEF Store!CreatePayment, StoreKeys, StoreOutbox
<1>10. QED
  BY <1>9 DEF Store!Next, StoredAmounts

\* The UPDATE of Transition is Transition of the store, or its late failure.
LEMMA StoreFailure ==
  ASSUME SInv, NEW r \in Requests, TransitionUpdate(r)
  PROVE  Store!Next \/ LateFailure
<1>1. PICK p, ref : p = req[r].pid /\ ref = req[r].reference
  OBVIOUS
<1>2. /\ payments \in [Payments -> PaymentRow] /\ p \in Payments
      /\ payments[p].status # "absent" /\ ref \in Store!FailureReasons
      /\ UNCHANGED <<ledger, outbox>>
  BY <1>1 DEF SInv, IInv, TypeOK, TransitionUpdate, CallsKnowTheirPayment, KnownCalls,
              KnownCall, Running
<1>3. payments' = [payments EXCEPT ![p].status = "failed", ![p].reference = ref]
  BY <1>1 DEF TransitionUpdate
<1>4. /\ payments'[p].status = "failed"
      /\ \A q \in Payments \ {p} : payments'[q] = payments[q]
  BY <1>2, <1>3 DEF PaymentRow
<1>5. StoreKeys' = StoreKeys
  BY <1>2, <1>4 DEF StoreKeys, Exists
<1>6. StoreOutbox' = StoreOutbox
  BY <1>2 DEF StoreOutbox
<1>7. Store!SetStatus(p, "failed", ref)
  BY <1>2, <1>3, <1>5, <1>6, Zenon DEF Store!SetStatus, StoreKeys, StoreOutbox
<1>8. payments[p].status \in PaymentStatus
  BY <1>2 DEF PaymentRow
<1>9. CASE payments[p].status \in {"captured", "refunded", "failed"}
  BY <1>2, <1>7, <1>9 DEF LateFailure
<1>10. CASE payments[p].status \in {"created", "authorized"}
  <2>1. Store!CanTransition(payments[p].status, "failed")
    BY <1>10 DEF Store!CanTransition
  <2>2. Store!Transition(p, "failed", ref)
    BY <1>7, <2>1, Zenon DEF Store!Transition
  <2>3. QED
    BY <1>2, <2>2 DEF Store!Next
<1>11. QED
  BY <1>8, <1>9, <1>10 DEF PaymentStatus

\* COMMIT is CommitPaymentCommand of the store, on the row as it is now.
LEMMA StoreCommit ==
  ASSUME SInv, NEW r \in Requests, Commit(r)
  PROVE  Store!Next
<1>0. PICK b, c, p, e0 :
        b = req[r] /\ c = Rounded(req[r]) /\ p = req[r].pid /\ e0 = Event(r)
  OBVIOUS
<1>1. PICK st, ref : st = TargetStatus(c.op) /\ ref = c.reference
  OBVIOUS
<1>2. /\ c \in Call /\ c.op \in Ops /\ p \in Payments /\ payments \in [Payments -> PaymentRow]
      /\ c.snap.amount = payments[p].amount /\ payments[p].status # "absent"
      /\ CommandAllowed(c, payments[p]) /\ c.op = b.op /\ c.amount = Stored(b.amount)
      /\ payments' = [payments EXCEPT ![p] = Apply(c, payments[p])]
      /\ ledger' = [ledger EXCEPT ![p] = Post(ledger[p], Entries(c))]
  BY <1>0, CommitWrites DEF SInv, IInv, TypeOK
<1>3. /\ outbox' = outbox \cup {e0} /\ ref \in References
  BY <1>0, <1>1, <1>2 DEF Commit, Call
<1>4. PICK a \in StoredAmounts : c.op \in {"capture", "refund"} => a = c.amount
  <2>1. payments[p].amount \in StoredAmounts
    BY <1>2 DEF SInv, KnownAmounts, Exists
  <2>2. c.op \in {"capture", "refund"} => c.amount \in StoredAmounts
    BY <1>0, <1>2 DEF SInv, KnownCalls, KnownCall, Commit, Running, StoredAmounts
  <2>3. QED
    BY <2>1, <2>2
<1>5. payments' = Commanded(payments, p, st, a, ref)
  <2>1. PICK f : f = payments
    OBVIOUS
  <2>2. p \in DOMAIN f /\ f[p] \in PaymentRow
    BY <1>2, <2>1
  <2>3. Commanded(f, p, st, a, c.reference) = [f EXCEPT ![p] = Apply(c, f[p])]
    BY <1>1, <1>2, <1>4, <2>2, CommandRow
  <2>4. QED
    BY <1>1, <1>2, <2>1, <2>3
<1>6. /\ st \in {"authorized", "captured", "refunded"}
      /\ (st = "authorized" <=> c.op = "authorize")
      /\ (st = "captured" <=> c.op = "capture") /\ (st = "refunded" <=> c.op = "refund")
  BY <1>1, <1>2 DEF TargetStatus, Ops
<1>7. Store!CommandEntries(p, st, a) = Entries(c)
  <2>1. CASE c.op = "authorize"
    <3>1. Store!CommandEntries(p, st, a)
            = Store!Transfer("customer_pending", "pending", payments[p].amount)
      BY <1>6, <2>1 DEF Store!CommandEntries
    <3>2. Entries(c) = Transfer("customer_pending", "pending", payments[p].amount)
      BY <1>2, <2>1 DEF Entries
    <3>3. QED
      BY <3>1, <3>2, SameTransfer
  <2>2. CASE c.op = "capture"
    <3>1. Store!CommandEntries(p, st, a) = Store!Transfer("pending", "available", c.amount)
      BY <1>4, <1>6, <2>2 DEF Store!CommandEntries
    <3>2. Entries(c) = Transfer("pending", "available", c.amount)
      BY <2>2 DEF Entries
    <3>3. QED
      BY <3>1, <3>2, SameTransfer
  <2>3. CASE c.op = "refund"
    <3>1. Store!CommandEntries(p, st, a)
            = Store!Transfer("available", "customer_refunded", c.amount)
      BY <1>4, <1>6, <2>3 DEF Store!CommandEntries
    <3>2. Entries(c) = Transfer("available", "customer_refunded", c.amount)
      BY <2>3 DEF Entries
    <3>3. QED
      BY <3>1, <3>2, SameTransfer
  <2>4. QED
    BY <1>2, <2>1, <2>2, <2>3 DEF Ops
<1>8. PICK entries : entries = Entries(c)
  OBVIOUS
<1>9. e0.pid = p /\ e0.type = c.op
  BY <1>0, <1>2 DEF Event
<1>10. StoreOutbox' = StoreOutbox \cup {[aggregate |-> p, type |-> st]}
  BY <1>1, <1>3, <1>9 DEF StoreOutbox
<1>11. ledger' = [ledger EXCEPT ![p] = Store!Post(@, entries)]
  <2>1. Store!Post(ledger[p], entries) = Post(ledger[p], entries)
    BY SameBooking
  <2>2. QED
    BY <1>2, <1>8, <2>1, Zenon
<1>12. Store!ValidateBalanced(entries)
  BY <1>2, <1>8, SameBooking DEF CommandAllowed
<1>13. Store!Record(p, entries, p, st)
  BY <1>10, <1>11, <1>12, Zenon DEF Store!Record, StoreOutbox
<1>14. [q \in Payments |-> q][p] = p
  BY <1>2
<1>15. StoreKeys' = StoreKeys
  <2>1. /\ payments'[p].status # "absent"
        /\ \A q \in Payments \ {p} : payments'[q] = payments[q]
    BY <1>0, CommitAmounts DEF SInv
  <2>2. QED
    BY <1>2, <2>1 DEF StoreKeys, Exists
<1>16. /\ Store!CanTransition(payments[p].status, st)
       /\ st = "captured" => Store!ValidateCapture(payments[p], a)
       /\ st = "refunded" => Store!ValidateRefund(payments[p], a)
  BY <1>1, <1>2, <1>4, <1>6
     DEF CommandAllowed, CanTransition, Store!CanTransition, ValidateCapture,
         Store!ValidateCapture, ValidateRefund, Store!ValidateRefund
<1>17. Store!CommitPaymentCommand(p, st, a, ref)
  <2>1. Store!Record([q \in Payments |-> q][p], Store!CommandEntries(p, st, a), p, st)
    BY <1>7, <1>8, <1>13, <1>14
  <2>2. QED
    BY <1>5, <1>15, <1>16, <2>1, Zenon DEF Store!CommitPaymentCommand, Commanded, StoreKeys
<1>18. ref \in Store!CommandReferences
  BY <1>3, Zenon DEF References, Store!CommandReferences, Store!FailureReasons
<1>19. QED
  BY <1>2, <1>6, <1>17, <1>18, Zenon DEF Store!Next, StoredAmounts

\* Every step is one of the store, a late failure, or leaves the tables alone.
LEMMA StoreStep == SInv /\ [Next]_vars => [Store!Next \/ LateFailure]_(Store!vars)
<1> SUFFICES ASSUME SInv, [Next]_vars PROVE [Store!Next \/ LateFailure]_(Store!vars)
  OBVIOUS
<1>1. CASE UNCHANGED <<payments, ledger, outbox>>
  BY <1>1, StoreStutter
<1>2. CASE \E p \in Payments, a \in Amounts : CreatePayment(p, a)
  BY <1>2, StoreCreate
<1>3. CASE \E r \in Requests : Commit(r)
  BY <1>3, StoreCommit
<1>4. CASE \E r \in Requests : TransitionUpdate(r)
  BY <1>4, StoreFailure
<1>5. ASSUME NEW r \in Requests, Begin(r) \/ Proceed(r) \/ Abort(r),
             ~Commit(r), ~TransitionUpdate(r)
      PROVE  UNCHANGED <<payments, ledger, outbox>>
  <2>1. CASE Begin(r)
    BY <2>1 DEF Begin, Authorize, AuthorizeBlocked, Capture, Refund, Reject, Start
  <2>2. CASE Proceed(r) \/ Abort(r)
    BY <1>5, <2>2 DEF Proceed, ProviderSucceeds, ProviderFails, LockRow, CommandRefused,
                      TransitionRead, Abort
  <2>3. QED
    BY <1>5, <2>1, <2>2
<1>6. CASE UNCHANGED vars
  BY <1>1, <1>6 DEF vars
<1>7. QED
  BY <1>1, <1>2, <1>3, <1>4, <1>5, <1>6 DEF Next

(***************************************************************************)
(* Whatever a handler read before and whoever came in between, a step that *)
(* changes the tables is one atomic, guarded operation of the in-memory    *)
(* store, or the failure that Transition writes over a status it no longer *)
(* looks at.                                                               *)
(***************************************************************************)
THEOREM StoreRefinement == Spec => ImplementsStore
BY StoreInit, StoreStep, KnownHolds, PTL DEF Spec, ImplementsStore
=============================================================================
