----------------------- MODULE IdempotentCreateProofs -----------------------
(***************************************************************************)
(* Proofs about IdempotentCreate, for any number of requests, keys and     *)
(* amounts.                                                                *)
(*                                                                         *)
(* OnePaymentPerKey is not inductive: that a commit does not overwrite a   *)
(* key rests on what a transaction that has inserted its key knows         *)
(* (CommitHoldsKey), and that a new request does not disturb an existing   *)
(* payment rests on ids being fresh (FreshIds).  The refinement of the     *)
(* store needs StoredAmounts besides: an amount that NewPayment let        *)
(* through makes a balanced ledger transaction.                            *)
(***************************************************************************)
EXTENDS IdempotentCreate, DomainTheorems

\* A transaction that has inserted its key is the only one, and the key is unbound.
CommitHoldsKey ==
  \A r \in Requests : call[r].pc = "commit" =>
    /\ keys[call[r].key] = None
    /\ \A s \in Requests : call[s].pc = "commit" /\ call[s].key = call[r].key => s = r

\* The id that a request draws is not used before the request commits.
FreshIds ==
  \A r \in Requests : call[r].pc \in {"idle"} \cup Running => ~payments[r].exists

\* Behind NewPayment, a request has a key and an amount to insert.
KnownInput ==
  \A r \in Requests :
    /\ call[r].pc \in Running \cup {"ok"} => call[r].key \in Keys
    /\ call[r].pc \in Running =>
         call[r].amount \in RequestAmounts /\ call[r].amount \in Nat /\ call[r].amount > 0

\* A committed row has the amount that NewPayment let through, and an id that is not
\* used yet has no row.
StoredAmounts ==
  \A p \in Requests :
    IF payments[p].exists
    THEN payments[p].amount \in RequestAmounts /\ payments[p].amount > 0
    ELSE payments[p].amount = 0 /\ ~payments[p].reference

\* A successful answer names the payment of the key, its own unless it is a replay.
AnswersBound ==
  \A r \in Requests : call[r].pc = "ok" =>
    /\ call[r].result # None
    /\ keys[call[r].key] = call[r].result
    /\ call[r].header = "new" => call[r].result = r

IInv ==
  /\ TypeOK
  /\ KnownInput
  /\ StoredAmounts
  /\ FreshIds
  /\ CommitHoldsKey
  /\ OnePaymentPerKey
  /\ AnswersBound

\* The initial state, with empty tables and idle requests, satisfies the invariant.
LEMMA InitInvariant == Init => IInv
  BY CreateAssumption
  DEF Init, IInv, TypeOK, KnownInput, StoredAmounts, FreshIds, CommitHoldsKey, OnePaymentPerKey,
      AnswersBound, NoRow, NoCall, PaymentRow, Call, Running, Finished, Headers

\* Finish ends the handler of r and touches nothing else of it.
LEMMA FinishFacts ==
  ASSUME TypeOK, NEW r \in Requests, NEW pc \in Finished,
         NEW result \in Requests \cup {None}, NEW header \in Headers,
         Finish(r, pc, result, header)
  PROVE  /\ call' \in [Requests -> Call]
         /\ \A s \in Requests \ {r} : call'[s] = call[s]
         /\ call'[r].pc = pc /\ call'[r].result = result /\ call'[r].header = header
         /\ call'[r].key = call[r].key
<1> DEFINE d == [call[r] EXCEPT !.pc = pc, !.result = result, !.header = header]
<1>1. call[r] \in Call
  BY DEF TypeOK
<1>2. d \in Call
  BY <1>1 DEF Call
<1>3. d.pc = pc /\ d.result = result /\ d.header = header /\ d.key = call[r].key
  BY <1>1 DEF Call
<1>4. call' = [call EXCEPT ![r] = d]
  BY DEF Finish
<1> HIDE DEF d
<1> QED BY <1>2, <1>3, <1>4 DEF TypeOK

\* Goto moves the handler of r and touches nothing else of it.
LEMMA GotoFacts ==
  ASSUME TypeOK, NEW r \in Requests, NEW pc \in Running, Goto(r, pc)
  PROVE  /\ call' \in [Requests -> Call]
         /\ \A s \in Requests \ {r} : call'[s] = call[s]
         /\ call'[r].pc = pc
         /\ call'[r].key = call[r].key /\ call'[r].amount = call[r].amount
<1>1. call[r] \in Call
  BY DEF TypeOK
<1>2. [call[r] EXCEPT !.pc = pc] \in Call
  BY <1>1 DEF Call
<1> QED BY <1>1, <1>2 DEF TypeOK, Goto, Call

\* A step that changes no table and does not insert the key: the request goes on,
\* ends without a payment, or is answered with the payment of its key.
LEMMA LocalStep ==
  ASSUME IInv, NEW r \in Requests, UNCHANGED <<payments, keys>>,
         call' \in [Requests -> Call],
         \A s \in Requests \ {r} : call'[s] = call[s],
         call'[r].key = call[r].key,
         call'[r].pc # "commit",
         call'[r].pc \in Running =>
           call[r].pc \in Running /\ call'[r].amount = call[r].amount,
         call'[r].pc # "idle",
         call'[r].pc = "ok" =>
           /\ call[r].key \in Keys /\ keys[call[r].key] # None
           /\ call'[r].result = keys[call[r].key]
           /\ call'[r].header # "new"
  PROVE  IInv'
<1> USE DEF IInv
<1>1. TypeOK'
  BY DEF TypeOK
<1>2. KnownInput' /\ StoredAmounts'
  BY DEF KnownInput, StoredAmounts
<1>3. FreshIds'
  BY DEF FreshIds
<1>4. CommitHoldsKey'
  BY DEF CommitHoldsKey
<1>5. OnePaymentPerKey'
  <2>1. \A s \in Requests : call'[s].key = call[s].key
    OBVIOUS
  <2> QED BY <2>1, CreateAssumption DEF OnePaymentPerKey, TypeOK
<1>6. AnswersBound'
  BY DEF AnswersBound
<1> QED BY <1>1, <1>2, <1>3, <1>4, <1>5, <1>6

\* The steps of PaymentService.Create before it calls the store.
LEMMA ArrivalStep ==
  ASSUME IInv, NEW r \in Requests, NEW k \in Keys \cup {NoKey},
         NEW amount \in RequestAmounts, Create(r, k, amount) \/ Reject(r, k, amount)
  PROVE  IInv'
<1>1. ASSUME Create(r, k, amount) PROVE IInv'
  <2> DEFINE c == [pc |-> "select", key |-> k, amount |-> amount,
                    result |-> None, header |-> "none", bound |-> keys[k]]
  <2>1. k \in Keys /\ amount \in Nat /\ amount > 0 /\ keys[k] \in Requests \cup {None}
    BY <1>1, CreateAssumption DEF Create, NewPaymentAllowed, IInv, TypeOK
  <2>2. c \in Call /\ c.pc = "select" /\ c.key = k /\ c.amount = amount
    BY <2>1 DEF Call, Running, Headers
  <2>3. call' = [call EXCEPT ![r] = c] /\ UNCHANGED <<payments, keys>> /\ call[r].pc = "idle"
    BY <1>1 DEF Create
  <2> HIDE DEF c
  <2>4. /\ call' \in [Requests -> Call] /\ call'[r] = c
        /\ \A s \in Requests \ {r} : call'[s] = call[s]
    BY <2>2, <2>3 DEF IInv, TypeOK
  <2>5. ~payments[r].exists
    BY <2>3 DEF IInv, FreshIds
  <2>6. TypeOK' /\ KnownInput' /\ StoredAmounts' /\ FreshIds'
    BY <2>1, <2>2, <2>3, <2>4, <2>5 DEF IInv, TypeOK, KnownInput, StoredAmounts, FreshIds
  <2>7. CommitHoldsKey' /\ AnswersBound'
    BY <2>2, <2>3, <2>4 DEF IInv, CommitHoldsKey, AnswersBound
  <2>8. OnePaymentPerKey'
    BY <2>3, <2>4, <2>5, CreateAssumption DEF IInv, TypeOK, OnePaymentPerKey
  <2> QED BY <2>6, <2>7, <2>8 DEF IInv
<1>2. ASSUME Reject(r, k, amount) PROVE IInv'
  <2>1. Finish(r, "error", None, "none") /\ UNCHANGED <<payments, keys>>
    BY <1>2 DEF Reject
  <2> QED BY <2>1, FinishFacts, LocalStep DEF IInv, Running, Finished, Headers
<1> QED BY <1>1, <1>2

\* The SELECT and its three outcomes, the INSERT of the payment, a duplicate key and
\* a rollback.
LEMMA ReadStep ==
  ASSUME IInv, NEW r \in Requests,
         \/ Replay(r) \/ ScanFails(r) \/ NoRows(r)
         \/ InsertPayment(r) \/ DuplicateKey(r) \/ Abort(r)
  PROVE  IInv'
<1>1. ASSUME Replay(r) PROVE IInv'
  <2>1. /\ Finish(r, "ok", keys[call[r].key], "replay") /\ UNCHANGED <<payments, keys>>
        /\ call[r].pc = "select" /\ keys[call[r].key] # None
    BY <1>1 DEF Replay, Bound
  <2>2. call[r].key \in Keys
    BY <2>1 DEF IInv, KnownInput, Running
  <2>3. keys[call[r].key] \in Requests \cup {None}
    BY <2>2 DEF IInv, TypeOK
  <2> QED BY <2>1, <2>2, <2>3, FinishFacts, LocalStep DEF IInv, Running, Finished, Headers
<1>2. ASSUME ScanFails(r) \/ DuplicateKey(r) \/ Abort(r) PROVE IInv'
  <2>1. /\ Finish(r, "error", None, "none") \/ Finish(r, "lost", None, "none")
        /\ UNCHANGED <<payments, keys>>
    BY <1>2 DEF ScanFails, DuplicateKey, Abort
  <2> QED BY <2>1, FinishFacts, LocalStep DEF IInv, Running, Finished, Headers
<1>3. ASSUME NoRows(r) \/ InsertPayment(r) PROVE IInv'
  <2>1. /\ Goto(r, "payment") \/ Goto(r, "key")
        /\ UNCHANGED <<payments, keys>>
        /\ call[r].pc \in Running
    BY <1>3 DEF NoRows, InsertPayment, Running
  <2> QED BY <2>1, GotoFacts, LocalStep DEF IInv, Running
<1> QED BY <1>1, <1>2, <1>3

\* The INSERT of the key establishes what CommitHoldsKey says of the request.
LEMMA InsertKeyStep ==
  ASSUME IInv, NEW r \in Requests, InsertKey(r)
  PROVE  IInv'
<1>1. /\ Goto(r, "commit") /\ UNCHANGED <<payments, keys>> /\ KeyFree(r)
      /\ call[r].pc = "key" /\ keys[call[r].key] = None
  BY DEF InsertKey, Bound
<1>2. /\ call' \in [Requests -> Call]
      /\ \A s \in Requests \ {r} : call'[s] = call[s]
      /\ call'[r].pc = "commit"
      /\ call'[r].key = call[r].key /\ call'[r].amount = call[r].amount
  BY <1>1, GotoFacts DEF IInv, Running
<1>3. TypeOK' /\ KnownInput' /\ StoredAmounts' /\ FreshIds'
  BY <1>1, <1>2 DEF IInv, TypeOK, KnownInput, StoredAmounts, FreshIds, Running
<1>4. CommitHoldsKey'
  BY <1>1, <1>2 DEF IInv, CommitHoldsKey, KeyFree
<1>5. OnePaymentPerKey'
  <2>1. \A s \in Requests : call'[s].key = call[s].key
    BY <1>2
  <2> QED BY <1>1, <2>1, CreateAssumption DEF IInv, OnePaymentPerKey, TypeOK
<1>6. AnswersBound'
  BY <1>1, <1>2 DEF IInv, AnswersBound
<1> QED BY <1>3, <1>4, <1>5, <1>6 DEF IInv

\* COMMIT binds an unbound key to a fresh payment.
LEMMA CommitStep ==
  ASSUME IInv, NEW r \in Requests, Commit(r)
  PROVE  IInv'
<1>1. /\ call[r].pc = "commit" /\ call[r].key \in Keys
      /\ call[r].amount \in RequestAmounts /\ call[r].amount \in Nat /\ call[r].amount > 0
      /\ keys[call[r].key] = None
  BY DEF IInv, Commit, KnownInput, CommitHoldsKey, Running
<1>2. /\ payments' = [payments EXCEPT ![r] = NewRow(r)]
      /\ keys' = [keys EXCEPT ![call[r].key] = r]
  BY DEF Commit
<1>3. /\ call' \in [Requests -> Call]
      /\ \A s \in Requests \ {r} : call'[s] = call[s]
      /\ call'[r].key = call[r].key
      /\ \/ call'[r].pc = "ok" /\ call'[r].result = r
         \/ call'[r].pc = "lost"
  <2>1. Finish(r, "ok", r, "new") \/ Finish(r, "lost", None, "none")
    BY DEF Commit
  <2> QED BY <2>1, FinishFacts DEF IInv, Finished, Headers
<1>4. /\ payments' \in [Requests -> PaymentRow]
      /\ payments'[r].exists /\ payments'[r].amount = call[r].amount
      /\ \A p \in Requests \ {r} : payments'[p] = payments[p]
  <2>1. NewRow(r) \in PaymentRow /\ NewRow(r).exists /\ NewRow(r).amount = call[r].amount
    BY <1>1 DEF NewRow, PaymentRow
  <2> QED BY <1>2, <2>1 DEF IInv, TypeOK
<1>5. /\ keys' \in [Keys -> Requests \cup {None}]
      /\ keys'[call[r].key] = r
      /\ \A k \in Keys \ {call[r].key} : keys'[k] = keys[k]
  BY <1>1, <1>2 DEF IInv, TypeOK
<1>6. TypeOK' /\ KnownInput' /\ StoredAmounts' /\ FreshIds'
  BY <1>1, <1>3, <1>4, <1>5 DEF IInv, TypeOK, KnownInput, StoredAmounts, FreshIds, Running
<1>7. CommitHoldsKey'
  <2> SUFFICES ASSUME NEW s \in Requests, call'[s].pc = "commit"
               PROVE  /\ keys'[call'[s].key] = None
                      /\ \A t \in Requests :
                           call'[t].pc = "commit" /\ call'[t].key = call'[s].key => t = s
    BY DEF CommitHoldsKey
  <2>1. s # r /\ call'[s] = call[s] /\ call[s].key # call[r].key /\ call[s].key \in Keys
    BY <1>1, <1>3 DEF IInv, CommitHoldsKey, KnownInput, Running
  <2> QED BY <1>3, <1>5, <2>1 DEF IInv, CommitHoldsKey
<1>8. OnePaymentPerKey'
  <2>1. \A s \in Requests : call'[s].key = call[s].key
    BY <1>3
  <2> QED BY <1>1, <1>4, <1>5, <2>1, CreateAssumption DEF IInv, OnePaymentPerKey, TypeOK
<1>9. AnswersBound'
  <2> SUFFICES ASSUME NEW s \in Requests, call'[s].pc = "ok"
               PROVE  /\ call'[s].result # None
                      /\ keys'[call'[s].key] = call'[s].result
                      /\ call'[s].header = "new" => call'[s].result = s
    BY DEF AnswersBound
  <2>1. CASE s = r
    BY <1>3, <1>5, <2>1, CreateAssumption
  <2>2. CASE s # r
    <3>1. call'[s] = call[s] /\ call[s].key \in Keys /\ keys[call[s].key] # None
      BY <1>3, <2>2 DEF IInv, AnswersBound, KnownInput
    <3> QED BY <1>1, <1>5, <3>1 DEF IInv, AnswersBound
  <2> QED BY <2>1, <2>2
<1> QED BY <1>6, <1>7, <1>8, <1>9 DEF IInv

\* Authorize writes the provider reference of an existing payment.
LEMMA ReferenceStep ==
  ASSUME IInv, NEW p \in Requests, SetReference(p)
  PROVE  IInv'
<1> USE DEF IInv, SetReference
<1>1. TypeOK'
  BY DEF TypeOK, PaymentRow
<1>2. KnownInput' /\ CommitHoldsKey' /\ AnswersBound'
  BY DEF KnownInput, CommitHoldsKey, AnswersBound
<1>3. FreshIds' /\ OnePaymentPerKey' /\ StoredAmounts'
  BY DEF TypeOK, PaymentRow, FreshIds, OnePaymentPerKey, StoredAmounts
<1> QED BY <1>1, <1>2, <1>3

\* Every step of every handler keeps the inductive invariant.
LEMMA NextInvariant == IInv /\ [Next]_vars => IInv'
<1> SUFFICES ASSUME IInv, [Next]_vars PROVE IInv'
  OBVIOUS
<1>1. CASE \E r \in Requests, k \in Keys \cup {NoKey}, amount \in RequestAmounts :
             Create(r, k, amount) \/ Reject(r, k, amount)
  BY <1>1, ArrivalStep
<1>2. ASSUME NEW r \in Requests, Progress(r) \/ Abort(r) PROVE IInv'
  BY <1>2, ReadStep, InsertKeyStep, CommitStep DEF Progress
<1>3. CASE \E p \in Requests : SetReference(p)
  BY <1>3, ReferenceStep
<1>4. CASE UNCHANGED vars
  BY <1>4 DEF vars, IInv, TypeOK, KnownInput, StoredAmounts, FreshIds, CommitHoldsKey,
              OnePaymentPerKey, AnswersBound
<1> QED BY <1>1, <1>2, <1>3, <1>4 DEF Next

\* The inductive invariant holds in every reachable state.
LEMMA InvariantHolds == Spec => []IInv
  BY InitInvariant, NextInvariant, PTL DEF Spec

\* The tables that CreatePayment and Authorize write, and the variables of the handlers,
\* keep their types; a stored amount is never negative.
THEOREM TypeCorrect == Spec => []TypeOK
<1>1. IInv => TypeOK
  BY DEF IInv
<1> QED BY <1>1, InvariantHolds, PTL

\* However many requests with the same key race, retry or are cut off anywhere in
\* CreatePayment, the committed payments and the bound keys correspond one to one.
THEOREM OnePaymentPerKeyHolds == Spec => []OnePaymentPerKey
<1>1. IInv => OnePaymentPerKey
  BY DEF IInv
<1> QED BY <1>1, InvariantHolds, PTL

\* What CreatePayment answers successfully under one key is always the same existing
\* payment, and only the request that inserted it is told that it is new.
THEOREM AnswersAlwaysAgree == Spec => []AnswersAgree
<1>1. IInv => AnswersAgree
  <2> SUFFICES ASSUME IInv, NEW r \in Requests, NEW s \in Requests,
                      call[r].pc = "ok", call[s].pc = "ok", call[r].key = call[s].key
               PROVE  /\ call[r].result = call[s].result
                      /\ payments[call[r].result].exists
                      /\ call[r].header = "new" /\ call[s].header = "new" => r = s
    BY DEF AnswersAgree
  <2>1. call[r].key \in Keys
    BY DEF IInv, KnownInput
  <2> QED BY <2>1 DEF IInv, AnswersBound, OnePaymentPerKey
<1> QED BY <1>1, InvariantHolds, PTL
-----------------------------------------------------------------------------
(***************************************************************************)
(* The statements of CreatePayment implement one step of the store         *)
(***************************************************************************)
\* The payment, the accounts and the events that the store is shown to have.
NoReference == ""

StoreRow(p) ==
  [amount |-> payments[p].amount, captured |-> 0, refunded |-> 0,
   status |-> IF p \in Authorized THEN "authorized"
              ELSE IF payments[p].exists THEN "created" ELSE "absent",
   reference |-> IF p \in Authorized THEN "provider_ref" ELSE NoReference]

StoreAccounts(p) ==
  LET held == IF p \in Authorized THEN payments[p].amount ELSE 0 IN
  [customer_pending |-> - held, pending |-> held]

StorePayments == [p \in Requests |-> StoreRow(p)]
StoreLedger == [p \in Requests |-> StoreAccounts(p)]
StoreOutbox == {[aggregate |-> p, type |-> "authorized"] : p \in Authorized}

\* The tables are the only thing that the store is shown to have.
LEMMA StoreStutter == UNCHANGED <<payments, keys>> => UNCHANGED Store!vars
BY DEF Store!vars, Authorized

\* The row and the accounts of a payment, by how far it has come.
LEMMA StoreRows ==
  ASSUME IInv, NEW p \in Requests
  PROVE  /\ ~payments[p].exists =>
              /\ StoreRow(p) = [amount |-> 0, captured |-> 0, refunded |-> 0,
                                status |-> "absent", reference |-> NoReference]
         /\ payments[p].exists /\ ~payments[p].reference =>
              /\ StoreRow(p) = [amount |-> payments[p].amount, captured |-> 0, refunded |-> 0,
                                status |-> "created", reference |-> NoReference]
         /\ ~payments[p].reference =>
              StoreAccounts(p) = [customer_pending |-> 0, pending |-> 0]
<1>1. p \in Authorized <=> payments[p].reference
  BY DEF Authorized
<1>2. ~payments[p].exists => payments[p].amount = 0 /\ ~payments[p].reference
  BY DEF IInv, StoredAmounts
<1>3. \A n \in Int : n <= 0 /\ n >= 0 => - n = n
  OBVIOUS
<1>4. ~payments[p].reference => StoreAccounts(p) = [customer_pending |-> 0, pending |-> 0]
  <2>1. PICK held : held = IF p \in Authorized THEN payments[p].amount ELSE 0
    OBVIOUS
  <2>2. ~payments[p].reference => held = 0 /\ - held = held
    <3>1. ~payments[p].reference => held = 0 /\ held \in Int /\ held <= 0 /\ held >= 0
      BY <1>1, <2>1
    <3>2. QED
      BY <1>3, <3>1, Zenon
  <2>3. StoreAccounts(p) = [customer_pending |-> - held, pending |-> held]
    BY <2>1, Zenon DEF StoreAccounts
  <2>4. QED
    BY <2>2, <2>3, Zenon
<1>5. QED
  BY <1>1, <1>2, <1>4 DEF StoreRow

\* The payment that the store does not have yet.
LEMMA StoreNoPayment ==
  Store!NoPayment = [amount |-> 0, captured |-> 0, refunded |-> 0,
                     status |-> "absent", reference |-> NoReference]
BY Zenon DEF Store!NoPayment, NoReference

\* The tables start empty.
LEMMA StoreInit == Init => Store!Init
<1> SUFFICES ASSUME Init PROVE Store!Init
  OBVIOUS
<1>1. /\ IInv
      /\ \A p \in Requests : ~payments[p].exists /\ ~payments[p].reference
  BY InitInvariant DEF Init, NoRow
<1>2. Authorized = {}
  BY <1>1 DEF Authorized
<1>3. \A p \in Requests : StoreRow(p) = Store!NoPayment
  BY <1>1, StoreRows, StoreNoPayment
<1>4. \A p \in Requests :
        StoreAccounts(p) = [a \in {"customer_pending", "pending"} |-> 0]
  <2>1. [customer_pending |-> 0, pending |-> 0] = [a \in {"customer_pending", "pending"} |-> 0]
    OBVIOUS
  <2>2. QED
    BY <1>1, <2>1, StoreRows
<1>5. StorePayments = [p \in Requests |-> Store!NoPayment]
  BY <1>3 DEF StorePayments
<1>6. StoreLedger = [m \in Requests |-> [a \in {"customer_pending", "pending"} |-> 0]]
  BY <1>4 DEF StoreLedger
<1>7. StoreOutbox = {}
  BY <1>2 DEF StoreOutbox
<1>8. keys = [k \in Keys |-> None]
  BY DEF Init
<1>9. << >> = [q \in {} |-> Store!NoRow]
  OBVIOUS
<1>10. QED
  BY <1>5, <1>6, <1>7, <1>8, <1>9, Zenon
     DEF Store!Init, StorePayments, StoreLedger, StoreOutbox, StoreRow, StoreAccounts,
         NoReference

\* COMMIT is CreatePayment of the store.
LEMMA StoreCommit ==
  ASSUME IInv, NEW r \in Requests, Commit(r)
  PROVE  Store!Next
<1>a. PICK k \in Keys : k = call[r].key
  BY DEF IInv, Commit, KnownInput, Running
<1>b. PICK a \in RequestAmounts : a = call[r].amount /\ a \in Nat /\ a > 0
  BY DEF IInv, Commit, KnownInput, Running
<1>1. keys[k] = None /\ ~payments[r].exists /\ ~payments[r].reference
  BY <1>a DEF IInv, Commit, CommitHoldsKey, FreshIds, StoredAmounts, Running
<1>2. /\ payments' = [payments EXCEPT ![r] = NewRow(r)]
      /\ keys' = [keys EXCEPT ![k] = r]
      /\ NewRow(r) = [exists |-> TRUE, amount |-> a, reference |-> FALSE]
  BY <1>a, <1>b DEF Commit, NewRow
<1>3. /\ payments'[r].exists /\ payments'[r].amount = a /\ ~payments'[r].reference
      /\ \A p \in Requests \ {r} : payments'[p] = payments[p]
  BY <1>2 DEF IInv, TypeOK
<1>4. Authorized' = Authorized
  BY <1>1, <1>3 DEF Authorized
<1>5. r \notin Authorized
  BY <1>1 DEF Authorized
<1>6. \A p \in Requests \ {r} :
        StoreRow(p)' = StoreRow(p) /\ StoreAccounts(p)' = StoreAccounts(p)
  BY <1>3, <1>4 DEF StoreRow, StoreAccounts
<1>7. /\ StoreRow(r)' = [amount |-> a, captured |-> 0, refunded |-> 0,
                         status |-> "created", reference |-> NoReference]
      /\ StoreAccounts(r)' = StoreAccounts(r)
  BY <1>3, <1>4, <1>5 DEF StoreRow, StoreAccounts
<1>8. [Store!NoPayment EXCEPT !.amount = a, !.status = "created"] =
        [amount |-> a, captured |-> 0, refunded |-> 0, status |-> "created", reference |-> NoReference]
  <2>1. [Store!NoPayment EXCEPT !.amount = a] =
          [amount |-> a, captured |-> 0, refunded |-> 0, status |-> "absent", reference |-> NoReference]
    BY StoreNoPayment
  <2>2. [[amount |-> a, captured |-> 0, refunded |-> 0, status |-> "absent", reference |-> NoReference]
           EXCEPT !.status = "created"] =
          [amount |-> a, captured |-> 0, refunded |-> 0, status |-> "created", reference |-> NoReference]
    OBVIOUS
  <2>3. QED
    BY <2>1, <2>2
<1>9. StorePayments' = [StorePayments EXCEPT
        ![r] = [Store!NoPayment EXCEPT !.amount = a, !.status = "created"]]
  BY <1>6, <1>7, <1>8 DEF StorePayments
<1>10. StoreLedger' = StoreLedger
  BY <1>6, <1>7 DEF StoreLedger
<1>11. StoreOutbox' = StoreOutbox
  BY <1>4 DEF StoreOutbox
<1>12. StorePayments[r].status = "absent" /\ Store!NewPaymentAllowed(a)
  BY <1>b, <1>1, StoreRows DEF StorePayments, Store!NewPaymentAllowed
<1>13. Store!CreatePayment(r, k, a)
  BY <1>1, <1>2, <1>9, <1>10, <1>11, <1>12, Zenon
     DEF Store!CreatePayment, StorePayments, StoreLedger, StoreOutbox, StoreRow,
         StoreAccounts, NoReference
<1>14. QED
  BY <1>13 DEF Store!Next

\* The store has the domain rules of this module.
LEMMA SameTransfer ==
  ASSUME NEW from, NEW to, NEW amount
  PROVE  Store!Transfer(from, to, amount) = Transfer(from, to, amount)
BY DEF Store!Transfer, Transfer, Store!LedgerEntry, LedgerEntry

\* The library's sum, reached through the store.
LEMMA SameSum ==
  ASSUME NEW f, NEW S
  PROVE  Store!SumFunctionOnSet(f, S) = SumFunctionOnSet(f, S)
BY Zenon DEF Store!SumFunctionOnSet, SumFunctionOnSet, Store!FoldFunctionOnSet,
             FoldFunctionOnSet, Store!MapThenFoldSet, MapThenFoldSet

\* Balances after a transaction, and its check, in the store.
LEMMA SameBooking ==
  ASSUME NEW b, NEW entries
  PROVE  /\ Store!Post(b, entries) = Post(b, entries)
         /\ ValidateBalanced(entries) => Store!ValidateBalanced(entries)
<1>1. Store!Post(b, entries) = Post(b, entries)
  BY Zenon DEF Store!Post, Post
<1>2. ASSUME ValidateBalanced(entries)
      PROVE  Store!ValidateBalanced(entries)
  <2> DEFINE debits == [i \in DOMAIN entries |-> entries[i].debit]
             credits == [i \in DOMAIN entries |-> entries[i].credit]
  <2>1. SumFunctionOnSet(debits, DOMAIN entries) = SumFunctionOnSet(credits, DOMAIN entries)
    BY <1>2, Zenon DEF ValidateBalanced
  <2>2. Store!SumFunctionOnSet(debits, DOMAIN entries)
          = Store!SumFunctionOnSet(credits, DOMAIN entries)
    BY <2>1, SameSum, Zenon
  <2>3. QED
    BY <1>2, <2>2, Zenon DEF ValidateBalanced, Store!ValidateBalanced
<1>3. QED
  BY <1>1, <1>2

\* The accounts that an authorization leaves.
LEMMA HeldAccounts ==
  ASSUME NEW a \in Int
  PROVE  Post([customer_pending |-> 0, pending |-> 0],
              Transfer("customer_pending", "pending", a))
           = [customer_pending |-> - a, pending |-> a]
<1> DEFINE A == {"customer_pending", "pending"}
<1>1. PICK b : b = [x \in A |-> 0]
  OBVIOUS
<1>b. b \in [A -> Int] /\ b = [customer_pending |-> 0, pending |-> 0]
  BY <1>1
<1>2. PICK r : r = Post(b, Transfer("customer_pending", "pending", a))
  OBVIOUS
<1>3. /\ r \in [A -> Int]
      /\ r["customer_pending"] = b["customer_pending"] - a
      /\ r["pending"] = b["pending"] + a
  BY <1>b, <1>2, PostTransfer
<1>4. b["customer_pending"] = 0 /\ b["pending"] = 0
  BY <1>1
<1>5. r["customer_pending"] = - a /\ r["pending"] = a
  BY <1>3, <1>4
<1>6. r = [customer_pending |-> - a, pending |-> a]
  <2>1. PICK n : n = - a
    OBVIOUS
  <2>2. r = [customer_pending |-> n, pending |-> a]
    BY <1>3, <1>5, <2>1
  <2>3. QED
    BY <2>1, <2>2
<1>7. QED
  BY <1>b, <1>2, <1>6

\* What the command of an authorization makes of the payments f of the store.
Commanded(f, p) ==
  [f EXCEPT ![p].status = "authorized", ![p].captured = @ + 0, ![p].refunded = @ + 0,
            ![p].reference = IF "provider_ref" # NoReference THEN "provider_ref" ELSE @]

\* The command of an authorization writes one row.
LEMMA AuthorizedRow ==
  ASSUME NEW f, NEW p \in DOMAIN f, NEW a,
         f[p] = [amount |-> a, captured |-> 0, refunded |-> 0,
                 status |-> "created", reference |-> NoReference]
  PROVE  Commanded(f, p) =
           [f EXCEPT ![p] = [amount |-> a, captured |-> 0, refunded |-> 0,
                             status |-> "authorized", reference |-> "provider_ref"]]
<1>1. f[p].captured + 0 = 0 /\ f[p].refunded + 0 = 0
  OBVIOUS
<1>2. "provider_ref" # NoReference
  BY Zenon DEF NoReference
<1>a. PICK none : none = NoReference
  OBVIOUS
<1>b. PICK r0 : r0 = f[p]
  OBVIOUS
<1>c. r0 = [amount |-> a, captured |-> 0, refunded |-> 0,
            status |-> "created", reference |-> none]
  BY <1>a, <1>b
<1>d. PICK r1 : r1 = [r0 EXCEPT !.status = "authorized"]
  OBVIOUS
<1>3. r1 = [amount |-> a, captured |-> 0, refunded |-> 0,
            status |-> "authorized", reference |-> none]
  BY <1>c, <1>d
<1> DEFINE f1 == [f EXCEPT ![p].status = "authorized"]
           f2 == [f1 EXCEPT ![p].captured = f[p].captured + 0]
           f3 == [f2 EXCEPT ![p].refunded = f[p].refunded + 0]
           f4 == [f3 EXCEPT ![p].reference = IF "provider_ref" # NoReference
                                             THEN "provider_ref" ELSE f[p].reference]
<1> HIDE DEF f1, f2, f3, f4
<1>4. f1 = [f EXCEPT ![p] = r1]
  BY <1>b, <1>d DEF f1
<1>5. [r1 EXCEPT !.captured = 0] = r1 /\ [r1 EXCEPT !.refunded = 0] = r1
  BY <1>3
<1>6. f2 = [f EXCEPT ![p] = r1]
  BY <1>1, <1>4, <1>5 DEF f2
<1>7. f3 = [f EXCEPT ![p] = r1]
  BY <1>1, <1>5, <1>6 DEF f3
<1>8. f4 = [f EXCEPT ![p] = [r1 EXCEPT !.reference = "provider_ref"]]
  BY <1>2, <1>7 DEF f4
<1>9. [r1 EXCEPT !.reference = "provider_ref"] =
        [amount |-> a, captured |-> 0, refunded |-> 0,
         status |-> "authorized", reference |-> "provider_ref"]
  BY <1>3
<1>10. QED
  BY <1>8, <1>9, Zenon DEF Commanded, f1, f2, f3, f4

\* Authorize is the command of the store; its repetition changes nothing.
LEMMA StoreAuthorize ==
  ASSUME IInv, NEW p \in Requests, SetReference(p)
  PROVE  [Store!Next]_(Store!vars)
<1>1. payments[p] \in PaymentRow /\ payments[p].exists /\ UNCHANGED keys
  BY DEF IInv, TypeOK, SetReference
<1>2. CASE payments[p].reference
  <2>1. payments' = payments
    BY <1>1, <1>2 DEF SetReference, PaymentRow, IInv, TypeOK
  <2>2. QED
    BY <1>1, <2>1, StoreStutter
<1>3. CASE ~payments[p].reference
  <2>a. PICK a \in RequestAmounts : a = payments[p].amount /\ a \in Int /\ a > 0
    BY <1>1, CreateAssumption DEF IInv, StoredAmounts
  <2>1. /\ payments'[p].exists /\ payments'[p].amount = a /\ payments'[p].reference
        /\ \A q \in Requests \ {p} : payments'[q] = payments[q]
    BY <1>1, <2>a DEF SetReference, IInv, TypeOK, PaymentRow
  <2>2. Authorized' = Authorized \cup {p} /\ p \notin Authorized
    BY <1>3, <2>1 DEF Authorized
  <2>3. \A q \in Requests \ {p} :
          StoreRow(q)' = StoreRow(q) /\ StoreAccounts(q)' = StoreAccounts(q)
    BY <2>1, <2>2 DEF StoreRow, StoreAccounts
  <2>4. /\ StoreRow(p)' = [amount |-> a, captured |-> 0, refunded |-> 0,
                           status |-> "authorized", reference |-> "provider_ref"]
        /\ StoreAccounts(p)' = [customer_pending |-> - a, pending |-> a]
    BY <2>1, <2>2 DEF StoreRow, StoreAccounts
  <2>5. /\ StoreRow(p) = [amount |-> a, captured |-> 0, refunded |-> 0,
                          status |-> "created", reference |-> NoReference]
        /\ StoreAccounts(p) = [customer_pending |-> 0, pending |-> 0]
    BY <1>1, <1>3, <2>a, StoreRows
  <2>6. StorePayments' = Commanded(StorePayments, p)
    <3>1. StorePayments' = [StorePayments EXCEPT
            ![p] = [amount |-> a, captured |-> 0, refunded |-> 0,
                    status |-> "authorized", reference |-> "provider_ref"]]
      BY <2>3, <2>4 DEF StorePayments
    <3>2. p \in DOMAIN StorePayments /\ StorePayments[p] = StoreRow(p)
      BY DEF StorePayments
    <3>3. QED
      BY <2>5, <3>1, <3>2, AuthorizedRow
  <2>7. /\ Store!Transfer("customer_pending", "pending", a)
             = Transfer("customer_pending", "pending", a)
        /\ Store!ValidateBalanced(Transfer("customer_pending", "pending", a))
    BY <2>a, SameTransfer, SameBooking, TransferBalanced
  <2>8. StoreLedger' = [StoreLedger EXCEPT
          ![p] = Store!Post(@, Transfer("customer_pending", "pending", a))]
    <3>1. StoreLedger' = [StoreLedger EXCEPT ![p] = [customer_pending |-> - a, pending |-> a]]
      BY <2>3, <2>4 DEF StoreLedger
    <3>2. StoreLedger[p] = [customer_pending |-> 0, pending |-> 0]
      BY <2>5 DEF StoreLedger
    <3>3. Store!Post(StoreLedger[p], Transfer("customer_pending", "pending", a))
            = [customer_pending |-> - a, pending |-> a]
      BY <2>a, <3>2, SameBooking, HeldAccounts, Zenon
    <3>4. QED
      BY <3>1, <3>3, Zenon
  <2>9. StoreOutbox' = StoreOutbox \cup {[aggregate |-> p, type |-> "authorized"]}
    BY <2>2 DEF StoreOutbox
  <2>10. Store!CommandEntries(p, "authorized", a)
           = Transfer("customer_pending", "pending", a)
    <3>1. Store!CommandEntries(p, "authorized", a)
            = Store!Transfer("customer_pending", "pending", StorePayments[p].amount)
      BY DEF Store!CommandEntries, StorePayments, StoreRow, NoReference
    <3>2. StorePayments[p].amount = a
      BY <2>5 DEF StorePayments
    <3>3. QED
      BY <2>7, <3>1, <3>2
  <2>11. Store!Record([q \in Requests |-> q][p],
                      Store!CommandEntries(p, "authorized", a), p, "authorized")
    <3>1. [q \in Requests |-> q][p] = p
      OBVIOUS
    <3>2. Store!Record(p, Transfer("customer_pending", "pending", a), p, "authorized")
      BY <2>7, <2>8, <2>9, Zenon DEF Store!Record, StoreLedger, StoreOutbox, StoreAccounts
    <3>3. QED
      BY <2>10, <3>1, <3>2
  <2>12. Store!CanTransition(StorePayments[p].status, "authorized")
    BY <2>5 DEF StorePayments, Store!CanTransition
  <2>13. Store!CommitPaymentCommand(p, "authorized", a, "provider_ref")
    BY <1>1, <2>6, <2>11, <2>12, Zenon
       DEF Store!CommitPaymentCommand, StorePayments, StoreRow, Commanded, NoReference
  <2>14. QED
    BY <2>13 DEF Store!Next, Store!CommandReferences
<1>4. QED
  BY <1>2, <1>3

\* Every other step leaves the tables alone.
LEMMA StoreStep == IInv /\ [Next]_vars => [Store!Next]_(Store!vars)
<1> SUFFICES ASSUME IInv, [Next]_vars PROVE [Store!Next]_(Store!vars)
  OBVIOUS
<1>1. CASE UNCHANGED <<payments, keys>>
  BY <1>1, StoreStutter
<1>2. CASE \E r \in Requests : Commit(r)
  BY <1>2, StoreCommit
<1>3. CASE \E p \in Requests : SetReference(p)
  BY <1>3, StoreAuthorize
<1>4. CASE UNCHANGED vars
  BY <1>1, <1>4 DEF vars
<1>5. ASSUME NEW r \in Requests, Progress(r) \/ Abort(r), ~Commit(r)
      PROVE  UNCHANGED <<payments, keys>>
  BY <1>5, Zenon DEF Progress, Abort, Replay, ScanFails, NoRows, InsertPayment, InsertKey,
                     DuplicateKey
<1>6. ASSUME NEW r \in Requests, NEW k, NEW amount, Create(r, k, amount) \/ Reject(r, k, amount)
      PROVE  UNCHANGED <<payments, keys>>
  BY <1>6 DEF Create, Reject
<1>7. QED
  BY <1>1, <1>2, <1>3, <1>4, <1>5, <1>6 DEF Next

(***************************************************************************)
(* CreatePayment's lookup, two INSERTs and COMMIT, interleaved with those  *)
(* of any number of requests, are the one step that the in-memory store    *)
(* takes under its mutex: a payment appears together with its key, under a *)
(* key that was free.                                                      *)
(***************************************************************************)
THEOREM StoreRefinement == Spec => ImplementsStore
BY StoreInit, StoreStep, InvariantHolds, PTL DEF Spec, ImplementsStore
=============================================================================
