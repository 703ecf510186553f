-------------------------- MODULE IdempotentCreate --------------------------
(***************************************************************************)
(* Creating a payment under an idempotency key: PaymentService.Create and  *)
(* the transaction of PostgresStore.CreatePayment.                         *)
(*                                                                         *)
(* The transaction looks the key up, inserts the payment, inserts the key  *)
(* and commits.  Nothing locks the key between the first and the third     *)
(* step: only its primary key decides between concurrent requests.  A      *)
(* client that got no answer sends the request again with the same key,    *)
(* so several requests carry one key, at the same time or one after the    *)
(* other.                                                                  *)
(*                                                                         *)
(* Every request draws a fresh payment id (uuid.NewString): the id that    *)
(* request r draws is written r.                                           *)
(***************************************************************************)
EXTENDS Domain

CONSTANTS
  Requests,       \* HTTP requests, and the payment ids they draw
  Keys,           \* values of x-idempotency-key
  NoKey,          \* the header is missing
  None,           \* no payment
  RequestAmounts  \* amounts that requests ask for

ASSUME CreateAssumption ==
  /\ None \notin Requests
  /\ NoKey \notin Keys
  /\ RequestAmounts \subseteq Int

VARIABLES
  payments,  \* committed rows of payments
  keys,      \* keys[k] = payment_id of the committed row of k, None if there is none
  call       \* call[r] = the local variables of the handler of r

vars == <<payments, keys, call>>
-----------------------------------------------------------------------------
\* reference: is provider_reference not NULL?
PaymentRow == [exists: BOOLEAN, amount: Nat, reference: BOOLEAN]
NoRow == [exists |-> FALSE, amount |-> 0, reference |-> FALSE]

Running == {"select", "payment", "key", "commit"}

\* error: refused by the code; lost: the client got no usable answer.
Finished == {"ok", "error", "lost"}

\* Is the answer's payment new, or does x-idempotent-replay say that it is not?
Headers == {"none", "new", "replay"}

\* bound: what the key was bound to when the request arrived.
Call == [pc: {"idle"} \cup Running \cup Finished, key: Keys \cup {NoKey}, amount: Int,
         result: Requests \cup {None}, header: Headers, bound: Requests \cup {None}]
NoCall == [pc |-> "idle", key |-> NoKey, amount |-> 0,
           result |-> None, header |-> "none", bound |-> None]

Init ==
  /\ payments = [p \in Requests |-> NoRow]
  /\ keys = [k \in Keys |-> None]
  /\ call = [r \in Requests |-> NoCall]

Finish(r, pc, result, header) ==
  call' = [call EXCEPT ![r].pc = pc, ![r].result = result, ![r].header = header]

Goto(r, pc) == call' = [call EXCEPT ![r].pc = pc]
-----------------------------------------------------------------------------
\* Create, up to Begin.
Create(r, k, amount) ==
  /\ call[r].pc = "idle"
  /\ k # NoKey
  /\ NewPaymentAllowed(amount)
  /\ call' = [call EXCEPT ![r] =
       [pc |-> "select", key |-> k, amount |-> amount,
        result |-> None, header |-> "none", bound |-> keys[k]]]
  /\ UNCHANGED <<payments, keys>>

\* No key, or NewPayment refuses the input.
Reject(r, k, amount) ==
  /\ call[r].pc = "idle"
  /\ k = NoKey \/ ~NewPaymentAllowed(amount)
  /\ Finish(r, "error", None, "none")
  /\ UNCHANGED <<payments, keys>>
-----------------------------------------------------------------------------
(***************************************************************************)
(* SELECT ... FROM idempotency_keys JOIN payments.  The row is scanned     *)
(* into a string for provider_reference, which NULL cannot be: before the  *)
(* payment has one, the scan fails and so does the request.                *)
(***************************************************************************)
Bound(r) == keys[call[r].key]

Replay(r) ==
  /\ call[r].pc = "select"
  /\ Bound(r) # None
  /\ payments[Bound(r)].reference
  /\ Finish(r, "ok", Bound(r), "replay")
  /\ UNCHANGED <<payments, keys>>

ScanFails(r) ==
  /\ call[r].pc = "select"
  /\ Bound(r) # None
  /\ ~payments[Bound(r)].reference
  /\ Finish(r, "error", None, "none")
  /\ UNCHANGED <<payments, keys>>

NoRows(r) ==
  /\ call[r].pc = "select"
  /\ Bound(r) = None
  /\ Goto(r, "payment")
  /\ UNCHANGED <<payments, keys>>
-----------------------------------------------------------------------------
(***************************************************************************)
(* The two INSERTs, invisible to others until COMMIT, except that a key    *)
(* that another transaction has inserted makes the second INSERT wait for  *)
(* the end of that transaction.                                            *)
(***************************************************************************)
NewRow(r) == [exists |-> TRUE, amount |-> call[r].amount, reference |-> FALSE]

\* The INSERT runs on the pool and not in the transaction.
FaultyInsertPayment(r) ==
  /\ call[r].pc = "payment"
  /\ payments' = [payments EXCEPT ![r] = NewRow(r)]
  /\ Goto(r, "key")
  /\ UNCHANGED keys

InsertPayment(r) ==
  /\ call[r].pc = "payment"
  /\ Goto(r, "key")
  /\ UNCHANGED <<payments, keys>>

\* No other transaction holds the key's entry of the primary key index.
KeyFree(r) ==
  \A s \in Requests \ {r} : ~(call[s].pc = "commit" /\ call[s].key = call[r].key)

InsertKey(r) ==
  /\ call[r].pc = "key"
  /\ KeyFree(r)
  /\ Bound(r) = None
  /\ Goto(r, "commit")
  /\ UNCHANGED <<payments, keys>>

\* ON CONFLICT DO NOTHING on the key, and the request goes on.
FaultyDuplicateKey(r) ==
  /\ call[r].pc = "key"
  /\ KeyFree(r)
  /\ Bound(r) # None
  /\ payments' = [payments EXCEPT ![r] = NewRow(r)]
  /\ Finish(r, "ok", r, "new")
  /\ UNCHANGED keys

\* A duplicate waits for ever.
FaultyKeyWait(r) == FALSE /\ UNCHANGED vars

DuplicateKey(r) ==
  /\ call[r].pc = "key"
  /\ KeyFree(r)
  /\ Bound(r) # None
  /\ Finish(r, "error", None, "none")
  /\ UNCHANGED <<payments, keys>>

\* The answer to COMMIT, or to the request, may get lost after the commit.
Commit(r) ==
  /\ call[r].pc = "commit"
  /\ payments' = [payments EXCEPT ![r] = NewRow(r)]
  /\ keys' = [keys EXCEPT ![call[r].key] = r]
  /\ Finish(r, "ok", r, "new") \/ Finish(r, "lost", None, "none")

\* Cancelled context, dead process or lost connection: PostgreSQL rolls back.
Abort(r) ==
  /\ call[r].pc \in Running
  /\ Finish(r, "lost", None, "none")
  /\ UNCHANGED <<payments, keys>>

\* Authorize gives the payment its reference (module PaymentService).
SetReference(p) ==
  /\ payments[p].exists
  /\ payments' = [payments EXCEPT ![p].reference = TRUE]
  /\ UNCHANGED <<keys, call>>
-----------------------------------------------------------------------------
Progress(r) ==
  \/ Replay(r) \/ ScanFails(r) \/ NoRows(r)
  \/ InsertPayment(r) \/ InsertKey(r) \/ DuplicateKey(r) \/ Commit(r)

Next ==
  \/ \E r \in Requests, k \in Keys \cup {NoKey}, amount \in RequestAmounts :
       Create(r, k, amount) \/ Reject(r, k, amount)
  \/ \E r \in Requests : Progress(r) \/ Abort(r)
  \/ \E p \in Requests : SetReference(p)

Spec == Init /\ [][Next]_vars

\* A handler runs to its end; PostgreSQL answers every statement.
FairSpec == Spec /\ \A r \in Requests : WF_vars(Progress(r))
-----------------------------------------------------------------------------
(***************************************************************************)
(* Properties                                                              *)
(***************************************************************************)
\* Tables and handlers' variables are of their kind; a stored amount is not negative.
TypeOK ==
  /\ payments \in [Requests -> PaymentRow]
  /\ keys \in [Keys -> Requests \cup {None}]
  /\ call \in [Requests -> Call]

(***************************************************************************)
(* A payment is never without its key: the committed payments are exactly  *)
(* the ones that the key of their own request names, so two requests with  *)
(* one key never leave two payments, whatever their order and wherever     *)
(* they are cut off.                                                       *)
(***************************************************************************)
OnePaymentPerKey ==
  /\ \A p \in Requests :
       payments[p].exists => call[p].key \in Keys /\ keys[call[p].key] = p
  /\ \A k \in Keys :
       keys[k] # None => payments[keys[k]].exists /\ call[keys[k]].key = k

(***************************************************************************)
(* All successful answers to one key name the same, existing payment, and  *)
(* at most one of them says that the payment is new.                       *)
(***************************************************************************)
AnswersAgree ==
  \A r, s \in Requests :
    /\ call[r].pc = "ok" /\ call[s].pc = "ok"
    /\ call[r].key = call[s].key
    => /\ call[r].result = call[s].result
       /\ payments[call[r].result].exists
       /\ call[r].header = "new" /\ call[s].header = "new" => r = s

(***************************************************************************)
(* Requests that wait for one another's keys all come to an end.           *)
(***************************************************************************)
CallsFinish == \A r \in Requests : call[r].pc \in Running ~> call[r].pc \in Finished

(***************************************************************************)
(* The four statements of CreatePayment, interleaved with those of other   *)
(* requests and cut off anywhere, behave like the one step the in-memory   *)
(* store takes under its mutex: the payment and its key appear together,   *)
(* under a key that is still free.  Authorize is the only other step; the  *)
(* ledger and the outbox are what it writes.                               *)
(***************************************************************************)
Authorized == {p \in Requests : payments[p].reference}

Store == INSTANCE MemoryStore WITH
  Payments  <- Requests, Merchants <- Requests, Owner <- [p \in Requests |-> p],
  Accounts  <- {"customer_pending", "pending"},
  Rows      <- {}, payouts <- << >>, disputes <- << >>, Amounts <- RequestAmounts,
  payments  <- [p \in Requests |->
                  [amount |-> payments[p].amount, captured |-> 0, refunded |-> 0,
                   status |-> IF p \in Authorized THEN "authorized"
                              ELSE IF payments[p].exists THEN "created" ELSE "absent",
                   reference |-> IF p \in Authorized THEN "provider_ref" ELSE ""]],
  ledger    <- [p \in Requests |->
                  LET held == IF p \in Authorized THEN payments[p].amount ELSE 0 IN
                  [customer_pending |-> - held, pending |-> held]],
  outbox    <- {[aggregate |-> p, type |-> "authorized"] : p \in Authorized}

ImplementsStore == Store!Init /\ [][Store!Next]_(Store!vars)

(***************************************************************************)
(* A statement of the documentation that the code does not keep.           *)
(***************************************************************************)

\* README: the key's constraint "turns network retries into a replay of the
\* original payment".  A request that arrives when its key is bound is not refused.
RetryIsReplayed == \A r \in Requests : call[r].bound # None => call[r].pc # "error"
=============================================================================
