------------------------ MODULE ReconciliationProofs ------------------------
(***************************************************************************)
(* Proofs about Reconciliation for any payments and calls, any amounts and *)
(* any unit of storage.                                                    *)
(*                                                                         *)
(* That the difference between provider and database is explained rests on *)
(* the row being a multiple of the unit, which makes rounding the new sum  *)
(* the same as rounding the amount, and on what a running call has already *)
(* done at the provider.  The answer of Reconcile rests on the payments of *)
(* the report that nobody works on.                                        *)
(***************************************************************************)
EXTENDS Reconciliation, DomainTheorems

Call == [pc: {"idle", "provider", "commit", "ok", "error"},
         payment: Payments \cup {None}, amount: Int,
         callback: BOOLEAN, moved: BOOLEAN]

JobShape == job = [pc |-> job.pc, report |-> job.report, todo |-> job.todo,
                   found |-> job.found, quiet |-> job.quiet]

Types ==
  /\ row \in [Payments -> Int]
  /\ entries \in [Payments -> Int]
  /\ provider \in [Payments -> Int]
  /\ call \in [Calls -> Call]
  /\ JobShape

\* A call works on no payment before it begins, and the provider has captured for it
\* when it asks for the row lock.
CallOK(c) ==
  /\ c.pc = "idle" => c.payment = None
  /\ c.pc \in Running => c.payment \in Payments
  /\ c.pc = "provider" => ~c.moved
  /\ c.pc = "commit" => c.moved

CallsOK == \A c \in Calls : CallOK(call[c])

\* At every moment only finitely many calls have begun.
FinitelyMany == \A p \in Payments : IsFiniteSet(CallsOn(p))

DriftSum(p) == SumFunctionOnSet([c \in Calls |-> Drift(call[c])], CallsOn(p))

\* What the list says of a payment, and what it must say.
Reasons(p) == {m.reason : m \in {m \in job.found : m.line = p}}

Expected(p) == IF p \in failed THEN {"unknown_provider_payment"}
               ELSE IF provider[p] # row[p] THEN {"captured_amount_mismatch"}
               ELSE {}

\* Nobody works on a quiet payment: its line of the report is still what the provider
\* has, and what the list says of it is right as soon as its line is read.
QuietOK(p) ==
  /\ p \in Payments /\ ~InFlight(p)
  /\ job.pc \in {"reading", "done"} =>
       /\ job.report[p] = provider[p]
       /\ Reasons(p) = IF p \in job.todo THEN {} ELSE Expected(p)

JobOK ==
  /\ job.pc = "idle" => job.quiet = {}
  /\ job.pc = "done" => job.todo = {}
  /\ \A p \in job.quiet : QuietOK(p)

IInv ==
  /\ Types
  /\ CallsOK
  /\ FinitelyMany
  /\ StoredMoneyAgrees
  /\ DriftExplained
  /\ JobOK
-----------------------------------------------------------------------------
(***************************************************************************)
(* Rounding                                                                *)
(***************************************************************************)

\* Rounding gives a multiple of the unit; adding a multiple commutes with it; and it
\* does not take an amount over a limit that is a multiple.
LEMMA Rounding ==
  ASSUME NEW x \in Int, NEW y \in Int, y % Unit = 0
  PROVE  /\ Stored(x) \in Int
         /\ Stored(y + x) = y + Stored(x)
         /\ Stored(x) % Unit = 0
         /\ (y + Stored(x)) % Unit = 0
         /\ y + x <= Authorized => y + Stored(x) <= Authorized
<1>1. Unit \in Int /\ Unit > 0 /\ Authorized \in Int /\ Authorized % Unit = 0
  BY ReconciliationAssumption
<1>2. QED
  BY <1>1, RoundToLaws, RoundToLimit DEF Stored
-----------------------------------------------------------------------------
(***************************************************************************)
(* The invariant                                                           *)
(***************************************************************************)

\* What a call adds to the difference is a number.
LEMMA DriftType == \A c \in Call : Drift(c) \in Int
<1> TAKE c \in Call
<1>1. PICK a, s : a = c.amount /\ s = Stored(c.amount)
  OBVIOUS
<1>2. a \in Int /\ s \in Int
  <2>1. a \in Int
    BY <1>1 DEF Call
  <2>2. PICK z \in Int : z = 0
    OBVIOUS
  <2>3. z % Unit = 0
    BY <2>2, ReconciliationAssumption
  <2>4. Stored(a) \in Int
    BY <2>1, <2>3, Rounding
  <2>5. QED
    BY <1>1, <2>1, <2>4
<1>3. Drift(c) = (IF c.callback THEN a ELSE 0) + (IF c.moved /\ c.pc # "ok" THEN a ELSE 0)
                 + (IF c.pc = "ok" THEN a - s ELSE 0)
  BY <1>1 DEF Drift
<1>4. QED
  BY <1>2, <1>3

\* Before anything has happened.
LEMMA InitInvariant == Init => IInv
<1> SUFFICES ASSUME Init PROVE IInv
  OBVIOUS
<1>1. \A c \in Calls : call[c] = NoCall
  BY DEF Init
<1>2. NoCall \in Call /\ NoCall.pc = "idle" /\ NoCall.payment = None
  BY DEF NoCall, Call
<1>3. Types
  <2>1. call \in [Calls -> Call]
    BY <1>1, <1>2 DEF Init
  <2>2. row \in [Payments -> Int] /\ entries \in [Payments -> Int]
        /\ provider \in [Payments -> Int]
    BY DEF Init
  <2>3. JobShape
    BY DEF Init, NoJob, JobShape
  <2>4. QED
    BY <2>1, <2>2, <2>3 DEF Types
<1>4. CallsOK
  BY <1>1, <1>2 DEF CallsOK, CallOK, Running
<1>5. \A p \in Payments : CallsOn(p) = {}
  BY <1>1, <1>2, ReconciliationAssumption DEF CallsOn
<1>6. FinitelyMany
  BY <1>5, FS_EmptySet DEF FinitelyMany
<1>7. StoredMoneyAgrees
  <2>1. 0 % Unit = 0 /\ 0 <= Authorized
    BY ReconciliationAssumption
  <2>2. QED
    BY <2>1 DEF Init, StoredMoneyAgrees
<1>8. DriftExplained
  <2>1. \A p \in Payments : provider[p] - row[p] = 0
    BY DEF Init
  <2>2. QED
    BY <1>5, <2>1, SumEmpty DEF DriftExplained
<1>9. JobOK
  BY DEF Init, NoJob, JobOK
<1>10. QED
  BY <1>3, <1>4, <1>6, <1>7, <1>8, <1>9 DEF IInv

\* A step of one call changes what it adds to the difference of its own payment.
LEMMA CallsStep ==
  ASSUME IInv, NEW c \in Calls, NEW p \in Payments, call' \in [Calls -> Call],
         \A d \in Calls \ {c} : call'[d] = call[d],
         call'[c].payment = p, call[c].payment \in {p, None}
  PROVE  /\ FinitelyMany'
         /\ \A q \in Payments \ {p} : DriftSum(q)' = DriftSum(q)
         /\ DriftSum(p) \in Int /\ DriftSum(p)' \in Int
         /\ DriftSum(p)' + (IF call[c].payment = p THEN Drift(call[c]) ELSE 0)
              = DriftSum(p) + Drift(call'[c])
<1>1. PICK f, g : /\ f = [d \in Calls |-> Drift(call[d])]
                  /\ g = [d \in Calls |-> Drift(call[d])]'
  OBVIOUS
<1>2. /\ \A d \in Calls : f[d] \in Int /\ g[d] \in Int
      /\ \A d \in Calls \ {c} : f[d] = g[d]
      /\ f[c] = Drift(call[c]) /\ g[c] = Drift(call'[c])
  BY <1>1, DriftType DEF IInv, Types
<1>3. \A q : DriftSum(q) = SumFunctionOnSet(f, CallsOn(q))
             /\ DriftSum(q)' = SumFunctionOnSet(g, CallsOn(q)')
  BY <1>1, Zenon DEF DriftSum
<1>4. ASSUME NEW q \in Payments
      PROVE  /\ CallsOn(q) \subseteq Calls /\ CallsOn(q)' \subseteq Calls
             /\ IsFiniteSet(CallsOn(q)) /\ IsFiniteSet(CallsOn(q)')
             /\ CallsOn(q) \ {c} = CallsOn(q)' \ {c}
             /\ c \in CallsOn(q) <=> call[c].payment = q
             /\ c \in CallsOn(q)' <=> p = q
  <2>1. CallsOn(q) \subseteq Calls /\ CallsOn(q)' \subseteq Calls
    BY DEF CallsOn
  <2>2. CallsOn(q) \ {c} = CallsOn(q)' \ {c}
    BY DEF CallsOn
  <2>3. (c \in CallsOn(q) <=> call[c].payment = q) /\ (c \in CallsOn(q)' <=> p = q)
    BY DEF CallsOn
  <2>4. IsFiniteSet(CallsOn(q))
    BY DEF IInv, FinitelyMany
  <2>5. IsFiniteSet(CallsOn(q) \cup {c})
    BY <2>4, FS_AddElement
  <2>6. CallsOn(q)' \subseteq CallsOn(q) \cup {c}
    BY <2>2
  <2>7. QED
    BY <2>1, <2>2, <2>3, <2>4, <2>5, <2>6, FS_Subset
<1>5. ASSUME NEW q \in Payments
      PROVE  /\ DriftSum(q) \in Int /\ DriftSum(q)' \in Int
             /\ DriftSum(q)' + (IF call[c].payment = q THEN Drift(call[c]) ELSE 0)
                  = DriftSum(q) + (IF p = q THEN Drift(call'[c]) ELSE 0)
  <2>1. PICK S, T : S = CallsOn(q) /\ T = CallsOn(q)'
    OBVIOUS
  <2>2. /\ IsFiniteSet(S) /\ IsFiniteSet(T) /\ S \ {c} = T \ {c}
        /\ \A d \in S : f[d] \in Int
        /\ \A d \in T : g[d] \in Int
        /\ \A d \in S \ {c} : f[d] = g[d]
        /\ (c \in S <=> call[c].payment = q) /\ (c \in T <=> p = q)
    BY <1>2, <1>4, <2>1
  <2>3. /\ SumFunctionOnSet(f, S) \in Int /\ SumFunctionOnSet(g, T) \in Int
        /\ SumFunctionOnSet(g, T) + (IF c \in S THEN f[c] ELSE 0) =
             SumFunctionOnSet(f, S) + (IF c \in T THEN g[c] ELSE 0)
    BY <2>2, SumStep
  <2>4. DriftSum(q) = SumFunctionOnSet(f, S) /\ DriftSum(q)' = SumFunctionOnSet(g, T)
    BY <1>3, <2>1
  <2>5. QED
    BY <1>2, <2>2, <2>3, <2>4
<1>6. FinitelyMany'
  BY <1>4 DEF FinitelyMany
<1>7. \A q \in Payments \ {p} : DriftSum(q)' = DriftSum(q)
  <2> TAKE q \in Payments \ {p}
  <2>1. call[c].payment # q /\ p # q
    BY ReconciliationAssumption
  <2>2. QED
    BY <1>5, <2>1
<1>8. QED
  BY <1>5, <1>6, <1>7

\* Payments that nobody works on stay as the report has them.
LEMMA JobStep ==
  ASSUME IInv, NEW K, K \subseteq job.quiet, job' = [job EXCEPT !.quiet = K],
         \A p \in K : /\ row'[p] = row[p] /\ provider'[p] = provider[p]
                      /\ p \in failed' <=> p \in failed
                      /\ ~InFlight(p)'
  PROVE  JobOK' /\ JobShape'
<1>1. PICK pc, report, todo, found, quiet :
        /\ job = [pc |-> pc, report |-> report, todo |-> todo, found |-> found, quiet |-> quiet]
        /\ pc = job.pc /\ report = job.report /\ todo = job.todo /\ found = job.found
        /\ quiet = job.quiet
  BY DEF IInv, Types, JobShape
<1>2. job' = [pc |-> pc, report |-> report, todo |-> todo, found |-> found, quiet |-> K]
  BY <1>1
<1>3. /\ job'.pc = job.pc /\ job'.report = job.report /\ job'.todo = job.todo
      /\ job'.found = job.found /\ job'.quiet = K
  BY <1>1, <1>2
<1>4. ASSUME NEW p \in K PROVE QuietOK(p)'
  <2>1. QuietOK(p)
    BY DEF IInv, JobOK
  <2>2. Reasons(p)' = Reasons(p) /\ Expected(p)' = Expected(p)
    BY <1>3 DEF Reasons, Expected
  <2>3. QED
    BY <1>3, <2>1, <2>2 DEF QuietOK
<1>5. JobOK'
  BY <1>3, <1>4 DEF IInv, JobOK
<1>6. QED
  BY <1>2, <1>3, <1>5 DEF JobShape

\* The same when the job is left alone.
LEMMA JobKept ==
  ASSUME IInv, job' = job,
         \A p \in job.quiet : /\ row'[p] = row[p] /\ provider'[p] = provider[p]
                              /\ p \in failed' <=> p \in failed
                              /\ ~InFlight(p)'
  PROVE  JobOK' /\ JobShape'
<1>1. job' = [job EXCEPT !.quiet = job.quiet]
  BY DEF IInv, Types, JobShape
<1>2. QED
  BY <1>1, JobStep

\* A step of call c on payment p that adds np to the provider's side, nr to the
\* database's side, and as much to its own part of the difference.
CallMoves(c, p) ==
  /\ call' \in [Calls -> Call]
  /\ \A d \in Calls \ {c} : call'[d] = call[d]
  /\ call'[c].payment = p
  /\ call[c].payment \in {p, None}
  /\ CallOK(call'[c])

MoneyMoves(c, p, np, nr) ==
  /\ provider' = [provider EXCEPT ![p] = @ + np]
  /\ row' = [row EXCEPT ![p] = @ + nr]
  /\ entries' = [entries EXCEPT ![p] = @ + nr]
  /\ (row[p] + nr) % Unit = 0
  /\ row[p] + nr <= Authorized
  /\ Drift(call'[c]) = (IF call[c].payment = p THEN Drift(call[c]) ELSE 0) + np - nr

\* Such a step keeps the database consistent and the difference explained.
LEMMA MoneyStep ==
  ASSUME IInv, NEW c \in Calls, NEW p \in Payments, NEW np \in Int, NEW nr \in Int,
         CallMoves(c, p), MoneyMoves(c, p, np, nr), JobOK', JobShape'
  PROVE  IInv'
<1>1. /\ row \in [Payments -> Int] /\ entries \in [Payments -> Int]
      /\ provider \in [Payments -> Int] /\ call \in [Calls -> Call]
  BY DEF IInv, Types
<1>a. /\ call' \in [Calls -> Call] /\ \A d \in Calls \ {c} : call'[d] = call[d]
      /\ call'[c].payment = p /\ call[c].payment \in {p, None} /\ CallOK(call'[c])
  BY DEF CallMoves
<1>b. /\ provider' = [provider EXCEPT ![p] = @ + np] /\ row' = [row EXCEPT ![p] = @ + nr]
      /\ entries' = [entries EXCEPT ![p] = @ + nr]
      /\ (row[p] + nr) % Unit = 0 /\ row[p] + nr <= Authorized
      /\ Drift(call'[c]) = (IF call[c].payment = p THEN Drift(call[c]) ELSE 0) + np - nr
  BY DEF MoneyMoves
<1>2. /\ row'[p] = row[p] + nr /\ entries'[p] = entries[p] + nr
      /\ provider'[p] = provider[p] + np
      /\ \A q \in Payments \ {p} :
           row'[q] = row[q] /\ entries'[q] = entries[q] /\ provider'[q] = provider[q]
  BY <1>1, <1>b
<1>3. Types'
  BY <1>1, <1>a, <1>b DEF Types, JobShape
<1>4. CallsOK'
  BY <1>a DEF IInv, CallsOK
<1>5. StoredMoneyAgrees'
  <2> SUFFICES ASSUME NEW q \in Payments
               PROVE  row'[q] % Unit = 0 /\ entries'[q] = row'[q] /\ row'[q] <= Authorized
    BY DEF StoredMoneyAgrees
  <2>1. row[q] % Unit = 0 /\ entries[q] = row[q] /\ row[q] <= Authorized
    BY DEF IInv, StoredMoneyAgrees
  <2>2. QED
    BY <1>2, <1>b, <2>1
<1>6. /\ FinitelyMany'
      /\ \A q \in Payments \ {p} : DriftSum(q)' = DriftSum(q)
      /\ DriftSum(p) \in Int /\ DriftSum(p)' \in Int
      /\ DriftSum(p)' + (IF call[c].payment = p THEN Drift(call[c]) ELSE 0)
           = DriftSum(p) + Drift(call'[c])
  BY <1>a, CallsStep
<1>7. \A q \in Payments : provider'[q] - row'[q] = DriftSum(q)'
  <2> TAKE q \in Payments
  <2>1. provider[q] - row[q] = DriftSum(q)
    BY DEF IInv, DriftExplained, DriftSum
  <2>2. CASE q # p
    BY <1>2, <1>6, <2>1, <2>2
  <2>3. CASE q = p
    <3>1. PICK old, s, s1 : /\ old = IF call[c].payment = p THEN Drift(call[c]) ELSE 0
                            /\ s = DriftSum(p) /\ s1 = DriftSum(p)'
      OBVIOUS
    <3>2. old \in Int /\ s \in Int /\ s1 \in Int
      BY <1>1, <1>6, <3>1, DriftType
    <3>3. s1 + old = s + (old + np - nr)
      BY <1>6, <1>b, <3>1
    <3>4. s1 = s + np - nr
      <4>1. \A i, j, k, m, n \in Int : i + j = k + (j + m - n) => i = k + m - n
        OBVIOUS
      <4>2. QED
        BY <3>2, <3>3, <4>1
    <3>5. provider[p] \in Int /\ row[p] \in Int /\ provider[p] - row[p] = s
      BY <1>1, <2>1, <2>3, <3>1
    <3>6. provider'[p] - row'[p] = s1
      BY <1>2, <3>2, <3>4, <3>5
    <3>7. QED
      BY <2>3, <3>1, <3>6
  <2>4. QED
    BY <2>2, <2>3
<1>8. DriftExplained'
  BY <1>7, Zenon DEF DriftExplained, DriftSum
<1>9. QED
  BY <1>3, <1>4, <1>5, <1>6, <1>8 DEF IInv

\* A step of a call starts no work on other payments.
LEMMA QuietElsewhere ==
  ASSUME NEW c \in Calls, NEW p, \A d \in Calls \ {c} : call'[d] = call[d],
         call'[c].payment = p, NEW q, q # p, ~InFlight(q)
  PROVE  ~InFlight(q)'
BY DEF InFlight

\* A running call: its payment is not quiet, and the job goes on.
LEMMA RunningJob ==
  ASSUME IInv, NEW c \in Calls, call[c].pc \in Running, NEW p, p = call[c].payment,
         \A d \in Calls \ {c} : call'[d] = call[d], call'[c].payment = p,
         \A q \in Payments \ {p} : row'[q] = row[q] /\ provider'[q] = provider[q],
         UNCHANGED <<failed, job>>
  PROVE  JobOK' /\ JobShape'
<1>1. \A q \in job.quiet : q \in Payments /\ ~InFlight(q)
  BY DEF IInv, JobOK, QuietOK
<1>2. \A q \in job.quiet : q # p
  BY <1>1 DEF InFlight
<1>3. \A q \in job.quiet : ~InFlight(q)'
  BY <1>1, <1>2, QuietElsewhere
<1>4. QED
  BY <1>1, <1>2, <1>3, JobKept

\* A request or a callback arrives.
LEMMA BeginStep ==
  ASSUME IInv, NEW c \in Calls, NEW p \in Payments, NEW amount \in Amounts,
         NEW callback \in BOOLEAN, Begin(c, p, amount, callback)
  PROVE  IInv'
<1>1. /\ row \in [Payments -> Int] /\ entries \in [Payments -> Int]
      /\ provider \in [Payments -> Int] /\ call \in [Calls -> Call]
      /\ amount \in Int /\ row[p] % Unit = 0 /\ row[p] <= Authorized
  BY ReconciliationAssumption DEF IInv, Types, StoredMoneyAgrees
<1>2. PICK pc \in {"provider", "error"} :
        call' = [call EXCEPT ![c] = [pc |-> pc, payment |-> p, amount |-> amount,
                                     callback |-> callback, moved |-> FALSE]]
  BY DEF Begin
<1>3. PICK new : new = [pc |-> pc, payment |-> p, amount |-> amount,
                        callback |-> callback, moved |-> FALSE]
  OBVIOUS
<1>4. /\ new \in Call /\ new.pc = pc /\ new.payment = p /\ new.amount = amount
      /\ new.callback = callback /\ new.moved = FALSE
  BY <1>1, <1>3 DEF Call
<1>5. /\ call' \in [Calls -> Call] /\ call'[c] = new
      /\ \A d \in Calls \ {c} : call'[d] = call[d]
  BY <1>1, <1>2, <1>3, <1>4
<1>6. CallOK(new)
  BY <1>4 DEF CallOK, Running
<1>7. call[c].payment = None /\ call[c].payment # p
  BY ReconciliationAssumption DEF Begin, IInv, CallsOK, CallOK
<1>8. PICK np \in Int : np = IF callback THEN amount ELSE 0
  BY <1>1
<1>9. provider' = [provider EXCEPT ![p] = @ + np]
  <2>1. provider' = [provider EXCEPT ![p] = IF callback THEN provider[p] + amount ELSE provider[p]]
    BY DEF Begin
  <2>2. provider[p] + np = IF callback THEN provider[p] + amount ELSE provider[p]
    BY <1>1, <1>8
  <2>3. QED
    BY <2>1, <2>2
<1>10. /\ row' = [row EXCEPT ![p] = @ + 0] /\ entries' = [entries EXCEPT ![p] = @ + 0]
       /\ row[p] + 0 = row[p]
  BY <1>1 DEF Begin
<1>11. Drift(new) = np
  <2>1. PICK s \in Int : s = Stored(amount)
    <3>1. Stored(amount) \in Int
      BY <1>1, Rounding
    <3>2. QED
      BY <3>1
  <2>2. Drift(new) = (IF callback THEN amount ELSE 0) + 0 + 0
    BY <1>4, <2>1 DEF Drift
  <2>3. QED
    BY <1>1, <1>8, <2>2
<1>12. /\ JobOK' /\ JobShape'
  <2>1. PICK K : K = job.quiet \ {p}
    OBVIOUS
  <2>2. job' = [job EXCEPT !.quiet = K] /\ UNCHANGED <<row, failed>>
    BY <2>1 DEF Begin, Disturb
  <2>3. \A q \in K : q \in Payments \ {p} /\ ~InFlight(q)
    BY <2>1 DEF IInv, JobOK, QuietOK
  <2>4. \A q \in K : ~InFlight(q)'
    BY <1>4, <1>5, <2>3, QuietElsewhere
  <2>5. \A q \in K : provider'[q] = provider[q]
    BY <1>1, <1>9, <2>3
  <2>6. QED
    BY <2>1, <2>2, <2>4, <2>5, JobStep
<1>13. Drift(call'[c]) =
         (IF call[c].payment = p THEN Drift(call[c]) ELSE 0) + np - 0
  BY <1>5, <1>7, <1>8, <1>11
<1>14. CallOK(call'[c]) /\ call'[c].payment = p /\ call[c].payment \in {p, None}
  BY <1>4, <1>5, <1>6, <1>7
<1>15. (row[p] + 0) % Unit = 0 /\ row[p] + 0 <= Authorized
  BY <1>1, <1>10
<1>16. PICK z \in Int : z = 0
  OBVIOUS
<1>17. CallMoves(c, p)
  BY <1>5, <1>14 DEF CallMoves
<1>18. MoneyMoves(c, p, np, z)
  BY <1>9, <1>10, <1>13, <1>15, <1>16 DEF MoneyMoves
<1>19. QED
  BY <1>12, <1>17, <1>18, MoneyStep

\* What is known of a running call and of its payment.
LEMMA RunningCall ==
  ASSUME IInv, NEW c \in Calls, call[c].pc \in Running
  PROVE  /\ call[c] \in Call /\ call \in [Calls -> Call] /\ call[c].payment \in Payments
         /\ call[c].amount \in Int /\ Stored(call[c].amount) \in Int
         /\ CallOK(call[c]) /\ call[c].callback \in BOOLEAN /\ call[c].moved \in BOOLEAN
         /\ row \in [Payments -> Int] /\ entries \in [Payments -> Int]
         /\ provider \in [Payments -> Int]
         /\ row[call[c].payment] % Unit = 0 /\ row[call[c].payment] <= Authorized
<1>1. /\ row \in [Payments -> Int] /\ entries \in [Payments -> Int]
      /\ provider \in [Payments -> Int] /\ call \in [Calls -> Call] /\ CallOK(call[c])
  BY DEF IInv, Types, CallsOK
<1>2. /\ call[c] \in Call /\ call[c].amount \in Int /\ call[c].payment \in Payments
      /\ call[c].callback \in BOOLEAN /\ call[c].moved \in BOOLEAN
  BY <1>1 DEF Call, CallOK
<1>3. row[call[c].payment] % Unit = 0 /\ row[call[c].payment] <= Authorized
  BY <1>2 DEF IInv, StoredMoneyAgrees
<1>4. PICK a \in Int, y \in Int : a = call[c].amount /\ y = row[call[c].payment]
  BY <1>1, <1>2
<1>5. Stored(a) \in Int
  BY <1>3, <1>4, Rounding
<1>6. QED
  BY <1>1, <1>2, <1>3, <1>4, <1>5

\* A running call moves on; the provider may capture for it.
LEMMA RunningStep ==
  ASSUME IInv, NEW c \in Calls, call[c].pc \in Running, NEW pc \in {"commit", "error"},
         NEW moved \in BOOLEAN, NEW np \in Int,
         pc = "commit" => moved,
         call[c].moved => moved,
         np = IF moved /\ ~call[c].moved THEN call[c].amount ELSE 0,
         call' = [call EXCEPT ![c].pc = pc, ![c].moved = moved],
         provider' = [provider EXCEPT ![call[c].payment] = @ + np],
         UNCHANGED <<row, entries, failed, job>>
  PROVE  IInv'
<1>1. PICK p \in Payments, a \in Int, s \in Int :
        p = call[c].payment /\ a = call[c].amount /\ s = Stored(call[c].amount)
  BY RunningCall
<1>2. /\ call[c] \in Call /\ call \in [Calls -> Call] /\ CallOK(call[c])
      /\ call[c].callback \in BOOLEAN /\ call[c].moved \in BOOLEAN
      /\ row \in [Payments -> Int] /\ entries \in [Payments -> Int]
      /\ provider \in [Payments -> Int] /\ row[p] % Unit = 0 /\ row[p] <= Authorized
  BY <1>1, RunningCall
<1>3. PICK new : new = [call[c] EXCEPT !.pc = pc, !.moved = moved]
  OBVIOUS
<1>4. /\ new \in Call /\ new.pc = pc /\ new.moved = moved /\ new.payment = p
      /\ new.amount = a /\ new.callback = call[c].callback
  BY <1>1, <1>2, <1>3 DEF Call
<1>5. /\ call' \in [Calls -> Call] /\ call'[c] = new
      /\ \A d \in Calls \ {c} : call'[d] = call[d]
  BY <1>2, <1>3, <1>4
<1>6. CallOK(call'[c])
  BY <1>4, <1>5 DEF CallOK, Running
<1>7. Drift(call[c]) = (IF call[c].callback THEN a ELSE 0) + (IF call[c].moved THEN a ELSE 0) + 0
  BY <1>1 DEF Drift, Running
<1>8. Drift(new) = (IF call[c].callback THEN a ELSE 0) + (IF moved THEN a ELSE 0) + 0
  BY <1>4 DEF Drift
<1>9. np = IF moved /\ ~call[c].moved THEN a ELSE 0
  BY <1>1
<1>10. Drift(new) = Drift(call[c]) + np - 0
  BY <1>2, <1>7, <1>8, <1>9
<1>11. /\ row' = [row EXCEPT ![p] = @ + 0] /\ entries' = [entries EXCEPT ![p] = @ + 0]
       /\ row[p] + 0 = row[p]
  BY <1>2
<1>12. provider' = [provider EXCEPT ![p] = @ + np]
  BY <1>1
<1>13. \A q \in Payments \ {p} : row'[q] = row[q] /\ provider'[q] = provider[q]
  BY <1>2, <1>12
<1>14. JobOK' /\ JobShape'
  BY <1>1, <1>4, <1>5, <1>13, RunningJob
<1>15. Drift(call'[c]) = (IF call[c].payment = p THEN Drift(call[c]) ELSE 0) + np - 0
  BY <1>1, <1>5, <1>10
<1>16. call'[c].payment = p /\ call[c].payment \in {p, None}
  BY <1>1, <1>4, <1>5
<1>17. (row[p] + 0) % Unit = 0 /\ row[p] + 0 <= Authorized
  BY <1>2, <1>11
<1>18. PICK z \in Int : z = 0
  OBVIOUS
<1>19. CallMoves(c, p)
  BY <1>5, <1>6, <1>16 DEF CallMoves
<1>20. MoneyMoves(c, p, np, z)
  BY <1>11, <1>12, <1>15, <1>17, <1>18 DEF MoneyMoves
<1>21. QED
  BY <1>14, <1>19, <1>20, MoneyStep

\* The provider captures, once per call.
LEMMA ProviderCaptureStep ==
  ASSUME IInv, NEW c \in Calls, ProviderCapture(c)
  PROVE  IInv'
<1>1. call[c].pc = "provider" /\ call[c].pc \in Running
  BY DEF ProviderCapture, Running
<1>2. call[c].amount \in Int /\ ~call[c].moved
  BY <1>1, RunningCall DEF CallOK
<1>3. PICK np \in Int : np = call[c].amount
  BY <1>2
<1>4. provider' = [provider EXCEPT ![call[c].payment] = @ + np]
  BY <1>3 DEF ProviderCapture
<1>5. /\ call' = [call EXCEPT ![c].pc = "commit", ![c].moved = TRUE]
      /\ UNCHANGED <<row, entries, failed, job>>
  BY DEF ProviderCapture
<1>6. QED
  BY <1>1, <1>2, <1>3, <1>4, <1>5, RunningStep

\* A refused command and a handler that dies write nothing.
LEMMA EndStep ==
  ASSUME IInv, NEW c \in Calls, CommandRefused(c) \/ Abort(c)
  PROVE  IInv'
<1>1. call[c].pc \in Running /\ UNCHANGED <<row, entries, failed, job>>
  BY DEF CommandRefused, Abort, Running
<1>2. /\ call[c].payment \in Payments /\ provider \in [Payments -> Int]
      /\ call \in [Calls -> Call] /\ call[c] \in Call /\ call[c].moved \in BOOLEAN
      /\ call[c].amount \in Int /\ CallOK(call[c])
  BY <1>1, RunningCall
<1>3. CASE call' = [call EXCEPT ![c].pc = "error"] /\ provider' = provider
  <2>1. call' = [call EXCEPT ![c].pc = "error", ![c].moved = call[c].moved]
    BY <1>2, <1>3 DEF Call
  <2>2. PICK np \in Int : np = 0
    OBVIOUS
  <2>3. provider' = [provider EXCEPT ![call[c].payment] = @ + np]
    BY <1>2, <1>3, <2>2
  <2>4. PICK moved \in BOOLEAN : moved = call[c].moved
    BY <1>2
  <2>5. np = IF moved /\ ~call[c].moved THEN call[c].amount ELSE 0
    BY <2>2, <2>4
  <2>6. QED
    BY <1>1, <2>1, <2>3, <2>4, <2>5, RunningStep
<1>4. CASE /\ call[c].pc = "provider"
           /\ provider' = [provider EXCEPT ![call[c].payment] = @ + call[c].amount]
           /\ call' = [call EXCEPT ![c].pc = "error", ![c].moved = TRUE]
  <2>1. ~call[c].moved
    BY <1>2, <1>4 DEF CallOK
  <2>2. PICK np \in Int : np = call[c].amount
    BY <1>2
  <2>3. provider' = [provider EXCEPT ![call[c].payment] = @ + np]
    BY <1>4, <2>2
  <2>4. QED
    BY <1>1, <1>4, <2>1, <2>2, <2>3, RunningStep
<1>5. QED
  BY <1>3, <1>4 DEF CommandRefused, Abort

\* The row and the entries get the same rounded amount, which stays within the limit.
LEMMA CommitStep ==
  ASSUME IInv, NEW c \in Calls, Commit(c)
  PROVE  IInv'
<1>1. call[c].pc = "commit" /\ call[c].pc \in Running
  BY DEF Commit, Running
<1>2. PICK p \in Payments, a \in Int, s \in Int, old \in Int :
        p = call[c].payment /\ a = call[c].amount /\ s = Stored(call[c].amount)
        /\ old = row[call[c].payment]
  BY <1>1, RunningCall
<1>3. /\ call[c] \in Call /\ call \in [Calls -> Call] /\ CallOK(call[c])
      /\ call[c].callback \in BOOLEAN
      /\ row \in [Payments -> Int] /\ entries \in [Payments -> Int]
      /\ provider \in [Payments -> Int] /\ old % Unit = 0
  BY <1>1, <1>2, RunningCall
<1>4. old + a <= Authorized
  BY <1>2 DEF Commit, CommandAllowed, ValidateCapture, Payment
<1>5. /\ Stored(old + a) = old + s /\ (old + s) % Unit = 0 /\ old + s <= Authorized
  BY <1>2, <1>3, <1>4, Rounding
<1>6. /\ row' = [row EXCEPT ![p] = @ + s] /\ entries' = [entries EXCEPT ![p] = @ + s]
      /\ UNCHANGED <<failed, provider, job>>
  <2>1. row' = [row EXCEPT ![p] = Stored(old + a)]
    BY <1>2 DEF Commit
  <2>2. QED
    BY <1>2, <1>5, <2>1 DEF Commit
<1>7. PICK new : new = [call[c] EXCEPT !.pc = "ok"]
  OBVIOUS
<1>8. /\ new \in Call /\ new.pc = "ok" /\ new.moved = call[c].moved /\ new.payment = p
      /\ new.amount = a /\ new.callback = call[c].callback
  BY <1>2, <1>3, <1>7 DEF Call
<1>9. /\ call' \in [Calls -> Call] /\ call'[c] = new
      /\ \A d \in Calls \ {c} : call'[d] = call[d]
  BY <1>3, <1>7, <1>8 DEF Commit
<1>10. CallOK(call'[c])
  BY <1>8, <1>9 DEF CallOK, Running
<1>11. call[c].moved
  BY <1>1, <1>3 DEF CallOK
<1>12. Drift(call[c]) = (IF call[c].callback THEN a ELSE 0) + a + 0
  BY <1>1, <1>2, <1>11 DEF Drift
<1>13. Drift(new) = (IF call[c].callback THEN a ELSE 0) + 0 + (a - s)
  BY <1>2, <1>8 DEF Drift
<1>14. Drift(call'[c]) = (IF call[c].payment = p THEN Drift(call[c]) ELSE 0) + 0 - s
  BY <1>2, <1>9, <1>12, <1>13
<1>15. provider' = [provider EXCEPT ![p] = @ + 0]
  BY <1>3, <1>6
<1>16. \A q \in Payments \ {p} : row'[q] = row[q] /\ provider'[q] = provider[q]
  BY <1>3, <1>6
<1>17. JobOK' /\ JobShape'
  BY <1>1, <1>2, <1>6, <1>8, <1>9, <1>16, RunningJob
<1>18. call'[c].payment = p /\ call[c].payment \in {p, None}
  BY <1>2, <1>8, <1>9
<1>19. (row[p] + s) % Unit = 0 /\ row[p] + s <= Authorized
  BY <1>2, <1>5
<1>20. PICK z \in Int : z = 0
  OBVIOUS
<1>21. CallMoves(c, p)
  BY <1>9, <1>10, <1>18 DEF CallMoves
<1>22. MoneyMoves(c, p, z, s)
  BY <1>6, <1>14, <1>15, <1>19, <1>20 DEF MoneyMoves
<1>23. QED
  BY <1>17, <1>21, <1>22, MoneyStep

\* A step that leaves payments, provider and calls alone.
LEMMA JobOnly ==
  ASSUME IInv, UNCHANGED <<row, entries, provider, call>>, JobOK', JobShape'
  PROVE  IInv'
<1>1. Types' /\ CallsOK' /\ StoredMoneyAgrees'
  BY DEF IInv, Types, CallsOK, StoredMoneyAgrees
<1>2. FinitelyMany' /\ DriftExplained'
  BY Zenon DEF IInv, FinitelyMany, DriftExplained, CallsOn
<1>3. QED
  BY <1>1, <1>2 DEF IInv

\* A late failure of Authorize is a disturbance.
LEMMA LateFailureStep ==
  ASSUME IInv, NEW p \in Payments, LateFailure(p)
  PROVE  IInv'
<1>1. PICK K : K = job.quiet \ {p}
  OBVIOUS
<1>2. /\ job' = [job EXCEPT !.quiet = K] /\ failed' = failed \cup {p}
      /\ UNCHANGED <<row, entries, provider, call>>
  BY <1>1 DEF LateFailure, Disturb
<1>3. \A q \in K : ~InFlight(q)'
  BY <1>1, <1>2 DEF IInv, JobOK, QuietOK, InFlight
<1>4. JobOK' /\ JobShape'
  BY <1>1, <1>2, <1>3, JobStep
<1>5. QED
  BY <1>2, <1>4, JobOnly

\* The report is drawn: a payment without a call at work is quiet.
LEMMA SubmitStep ==
  ASSUME IInv, Submit
  PROVE  IInv'
<1>1. PICK listed \in SUBSET (Payments \cup {Stranger}) :
        job' = [pc |-> "reading", todo |-> listed, found |-> {},
                report |-> [p \in listed |-> IF p = Stranger THEN Unit ELSE provider[p]],
                quiet |-> {p \in listed \ {Stranger} : ~InFlight(p)}]
  BY DEF Submit
<1>2. PICK report, quiet :
        /\ report = [p \in listed |-> IF p = Stranger THEN Unit ELSE provider[p]]
        /\ quiet = {p \in listed \ {Stranger} : ~InFlight(p)}
  OBVIOUS
<1>3. /\ job'.pc = "reading" /\ job'.todo = listed /\ job'.found = {}
      /\ job'.report = report /\ job'.quiet = quiet /\ JobShape'
  BY <1>1, <1>2 DEF JobShape
<1>4. UNCHANGED <<row, entries, failed, provider, call>>
  BY DEF Submit
<1>5. ASSUME NEW p \in quiet PROVE QuietOK(p)'
  <2>1. p \in Payments /\ p \in listed /\ ~InFlight(p)' /\ report[p] = provider'[p]
    BY <1>2, <1>4 DEF InFlight
  <2>2. Reasons(p)' = {}
    BY <1>3 DEF Reasons
  <2>3. QED
    BY <1>3, <2>1, <2>2 DEF QuietOK
<1>6. JobOK'
  BY <1>3, <1>5 DEF JobOK
<1>7. QED
  BY <1>3, <1>4, <1>6, JobOnly

\* One line of the report is compared with the row that it finds.
LEMMA ReadLineStep ==
  ASSUME IInv, NEW line, ReadLine(line)
  PROVE  IInv'
<1>1. PICK found : found = job.found \cup Mismatches(line)
  OBVIOUS
<1>2. /\ job' = [job EXCEPT !.todo = job.todo \ {line}, !.found = found]
      /\ job.pc = "reading" /\ line \in job.todo
      /\ UNCHANGED <<row, entries, failed, provider, call>>
  BY <1>1 DEF ReadLine
<1>3. PICK pc, report, todo, found0, quiet :
        /\ job = [pc |-> pc, report |-> report, todo |-> todo, found |-> found0,
                  quiet |-> quiet]
        /\ pc = job.pc /\ report = job.report /\ todo = job.todo /\ quiet = job.quiet
  BY DEF IInv, Types, JobShape
<1>4. job' = [pc |-> pc, report |-> report, todo |-> todo \ {line}, found |-> found,
              quiet |-> quiet]
  BY <1>2, <1>3
<1>5. /\ job'.pc = job.pc /\ job'.report = job.report /\ job'.todo = job.todo \ {line}
      /\ job'.found = found /\ job'.quiet = job.quiet /\ JobShape'
  BY <1>3, <1>4 DEF JobShape
<1>6. ASSUME NEW p \in job.quiet PROVE QuietOK(p)'
  <2>1. /\ p \in Payments /\ ~InFlight(p) /\ job.report[p] = provider[p]
        /\ Reasons(p) = IF p \in job.todo THEN {} ELSE Expected(p)
    BY <1>2 DEF IInv, JobOK, QuietOK
  <2>2. ~InFlight(p)' /\ Expected(p)' = Expected(p)
    BY <1>2, <2>1 DEF InFlight, Expected
  <2>3. Reasons(p)' = Reasons(p) \cup {m.reason : m \in {m \in Mismatches(line) : m.line = p}}
    BY <1>1, <1>5 DEF Reasons
  <2>4. \A m \in Mismatches(line) : m.line = line
    BY DEF Mismatches
  <2>5. CASE p # line
    <3>1. Reasons(p)' = Reasons(p)
      BY <2>3, <2>4, <2>5
    <3>2. QED
      BY <1>2, <1>5, <2>1, <2>2, <2>5, <3>1 DEF QuietOK
  <2>6. CASE p = line
    <3>1. Reasons(p) = {}
      BY <1>2, <2>1, <2>6
    <3>2. Mismatches(p) =
            IF p \in failed THEN {[line |-> p, reason |-> "unknown_provider_payment"]}
            ELSE IF row[p] # provider[p]
                 THEN {[line |-> p, reason |-> "captured_amount_mismatch"]}
                 ELSE {}
      BY <2>1 DEF Mismatches, Known, Differs
    <3>3. {m.reason : m \in {m \in Mismatches(p) : m.line = p}} = Expected(p)
      <4>1. \A x : {m.reason : m \in {m \in {[line |-> p, reason |-> x]} : m.line = p}} = {x}
        <5> TAKE x
        <5>1. {m \in {[line |-> p, reason |-> x]} : m.line = p} = {[line |-> p, reason |-> x]}
          OBVIOUS
        <5>2. {m.reason : m \in {[line |-> p, reason |-> x]}} = {x}
          OBVIOUS
        <5>3. QED
          BY <5>1, <5>2
      <4>2. {m.reason : m \in {m \in {} : m.line = p}} = {}
        OBVIOUS
      <4>3. CASE p \in failed
        <5>1. Mismatches(p) = {[line |-> p, reason |-> "unknown_provider_payment"]}
          BY <3>2, <4>3
        <5>2. QED
          BY <4>1, <4>3, <5>1 DEF Expected
      <4>4. CASE p \notin failed /\ row[p] # provider[p]
        <5>1. Mismatches(p) = {[line |-> p, reason |-> "captured_amount_mismatch"]}
          BY <3>2, <4>4
        <5>2. QED
          BY <4>1, <4>4, <5>1 DEF Expected
      <4>5. CASE p \notin failed /\ row[p] = provider[p]
        BY <3>2, <4>2, <4>5 DEF Expected
      <4>6. QED
        BY <4>3, <4>4, <4>5
    <3>4. Reasons(p)' = Expected(p)
      BY <2>3, <2>6, <3>1, <3>3
    <3>5. QED
      BY <1>2, <1>5, <2>1, <2>2, <2>6, <3>4 DEF QuietOK
  <2>7. QED
    BY <2>5, <2>6
<1>7. JobOK'
  BY <1>2, <1>5, <1>6 DEF IInv, JobOK
<1>8. QED
  BY <1>2, <1>5, <1>7, JobOnly

\* The end of the job, with a list or with an error.
LEMMA JobEndStep ==
  ASSUME IInv, Answer \/ ReconcileFails
  PROVE  IInv'
<1>1. PICK pc \in {"done", "error"} : \E found :
        /\ job' = [job EXCEPT !.pc = pc, !.found = found]
        /\ pc = "done" => found = job.found /\ job.todo = {}
  <2>1. CASE Answer
    <3>1. job' = [job EXCEPT !.pc = "done", !.found = job.found] /\ job.todo = {}
      BY <2>1 DEF Answer, IInv, Types, JobShape
    <3>2. QED
      BY <3>1
  <2>2. CASE ReconcileFails
    BY <2>2 DEF ReconcileFails
  <2>3. QED
    BY <2>1, <2>2
<1>1a. PICK found :
        /\ job' = [job EXCEPT !.pc = pc, !.found = found]
        /\ pc = "done" => found = job.found /\ job.todo = {}
  BY <1>1
<1>2. job.pc = "reading" /\ UNCHANGED <<row, entries, failed, provider, call>>
  BY DEF Answer, ReconcileFails
<1>3. PICK pc0, report, todo, found0, quiet :
        /\ job = [pc |-> pc0, report |-> report, todo |-> todo, found |-> found0,
                  quiet |-> quiet]
        /\ report = job.report /\ todo = job.todo /\ quiet = job.quiet
  BY DEF IInv, Types, JobShape
<1>4. job' = [pc |-> pc, report |-> report, todo |-> todo, found |-> found, quiet |-> quiet]
  BY <1>1a, <1>3
<1>5. /\ job'.pc = pc /\ job'.report = job.report /\ job'.todo = job.todo
      /\ job'.found = found /\ job'.quiet = job.quiet /\ JobShape'
  BY <1>3, <1>4 DEF JobShape
<1>6. ASSUME NEW p \in job.quiet PROVE QuietOK(p)'
  <2>1. /\ p \in Payments /\ ~InFlight(p) /\ job.report[p] = provider[p]
        /\ Reasons(p) = IF p \in job.todo THEN {} ELSE Expected(p)
    BY <1>2 DEF IInv, JobOK, QuietOK
  <2>2. ~InFlight(p)' /\ Expected(p)' = Expected(p)
    BY <1>2, <2>1 DEF InFlight, Expected
  <2>3. pc = "done" => Reasons(p)' = Reasons(p)
    BY <1>1a, <1>5 DEF Reasons
  <2>4. QED
    BY <1>2, <1>5, <2>1, <2>2, <2>3 DEF QuietOK
<1>7. JobOK'
  BY <1>1a, <1>5, <1>6 DEF JobOK
<1>8. QED
  BY <1>2, <1>5, <1>7, JobOnly

\* Every step keeps the inductive invariant.
LEMMA NextInvariant == IInv /\ [Next]_vars => IInv'
<1> SUFFICES ASSUME IInv, [Next]_vars PROVE IInv'
  OBVIOUS
<1>1. ASSUME NEW c \in Calls,
             \/ \E p \in Payments, a \in Amounts, callback \in BOOLEAN :
                  Begin(c, p, a, callback)
             \/ ProviderCapture(c) \/ Commit(c) \/ CommandRefused(c) \/ Abort(c)
      PROVE  IInv'
  BY <1>1, BeginStep, ProviderCaptureStep, CommitStep, EndStep
<1>2. CASE \E p \in Payments : LateFailure(p)
  BY <1>2, LateFailureStep
<1>3. CASE \/ Submit \/ Answer \/ ReconcileFails
           \/ \E line \in Payments \cup {Stranger} : ReadLine(line)
  BY <1>3, SubmitStep, ReadLineStep, JobEndStep
<1>4. CASE UNCHANGED vars
  <2>1. UNCHANGED <<row, entries, failed, provider, call, job>>
    BY <1>4 DEF vars
  <2>2. \A p \in job.quiet : ~InFlight(p)'
    BY <2>1 DEF IInv, JobOK, QuietOK, InFlight
  <2>3. JobOK' /\ JobShape'
    BY <2>1, <2>2, JobKept
  <2>4. QED
    BY <2>1, <2>3, JobOnly
<1>5. QED
  BY <1>1, <1>2, <1>3, <1>4 DEF Next

\* The inductive invariant holds in every reachable state.
LEMMA InvariantHolds == Spec => []IInv
BY InitInvariant, NextInvariant, PTL DEF Spec
-----------------------------------------------------------------------------
(***************************************************************************)
(* The database rounds the new sum in the row and the amount in the ledger *)
(* entry separately, and checks the limit before: still, row and entries   *)
(* agree and stay within the authorized amount, for any unit and amounts.  *)
(***************************************************************************)
THEOREM RoundingIsHarmless == Spec => []StoredMoneyAgrees
<1>1. IInv => StoredMoneyAgrees
  BY DEF IInv
<1>2. QED
  BY <1>1, InvariantHolds, PTL

(***************************************************************************)
(* The difference between the provider and the database is the sum of what *)
(* single calls left behind: captures that the provider reported and that  *)
(* were captured again, captures that were not committed, and rounding.    *)
(***************************************************************************)
THEOREM DifferenceExplained == Spec => []DriftExplained
<1>1. IInv => DriftExplained
  BY DEF IInv
<1>2. QED
  BY <1>1, InvariantHolds, PTL

(***************************************************************************)
(* Reconcile lists a payment that was left alone since the report if and   *)
(* only if provider and database differ on it, however many payments,      *)
(* lines and captures there are.                                           *)
(***************************************************************************)
THEOREM ReconcileIsExact == Spec => []ReconcileFindsDrift
<1>1. IInv => ReconcileFindsDrift
  <2> SUFFICES ASSUME IInv, job.pc = "done", NEW p \in job.quiet
               PROVE  Reasons(p) = Expected(p)
    BY DEF ReconcileFindsDrift, Reasons, Expected
  <2>1. QuietOK(p) /\ job.todo = {}
    BY DEF IInv, JobOK
  <2>2. QED
    BY <2>1 DEF QuietOK
<1>2. QED
  BY <1>1, InvariantHolds, PTL
=============================================================================
