------------------------------- MODULE Outbox -------------------------------
(***************************************************************************)
(* The outbox workers (cmd/worker, internal/service/outbox.go) and the     *)
(* lease protocol on the outbox_events table (ClaimOutbox and              *)
(* MarkPublished in internal/store/postgres.go).                           *)
(*                                                                         *)
(* A worker leases the oldest unpublished rows, and for one row after the  *)
(* other publishes to JetStream, calls the merchant webhook up to three    *)
(* times, and marks the row published.  The first error ends the batch:    *)
(* the rows it leaves behind stay leased for a minute.  A row does not     *)
(* record who leased it, so a slow worker may still be at a row that       *)
(* another one leases after the minute is over.                            *)
(***************************************************************************)
EXTENDS Integers, Sequences, FiniteSets, SequencesExt

CONSTANTS
  Events,      \* outbox event ids
  Workers,     \* replicas of the worker
  None,        \* no event
  BatchSize,   \* LIMIT of a claim
  Attempts,    \* webhook attempts per delivery (three)
  Webhook,     \* is MERCHANT_WEBHOOK_URL set?
  Crashes      \* may a worker die and restart?

ASSUME OutboxAssumption ==
  /\ None \notin Events
  /\ BatchSize \in Nat \ {0} /\ Attempts \in Nat \ {0}
  /\ Webhook \in BOOLEAN /\ Crashes \in BOOLEAN

VARIABLES
  rows,       \* the inserted rows, ordered by created_at
  published,  \* the rows with published_at set
  lease,      \* lease[e]: who claimed e less than a minute ago; the table has the time only
  worker,     \* worker[w] = what the worker is doing
  stream,     \* external: <<subject, event>> messages of stream PAYMENT_EVENTS
  window,     \* external: message ids in JetStream's duplicate window
  merchant,   \* external: the events the merchant endpoint received
  deadLetter  \* events whose dead letter publish was acknowledged

vars == <<rows, published, lease, worker, stream, window, merchant, deadLetter>>
-----------------------------------------------------------------------------
Idle == [pc |-> "idle", batch |-> {}, event |-> None, attempt |-> 0]

Init ==
  /\ rows = <<>>
  /\ published = {}
  /\ lease = [e \in Events |-> {}]
  /\ worker = [w \in Workers |-> Idle]
  /\ stream = {}
  /\ window = {}
  /\ merchant = {}
  /\ deadLetter = {}

\* A payment, payout or dispute transaction commits its event.  created_at is the
\* time the transaction began: rows need not become visible in its order.
Insert(e) ==
  /\ e \notin ToSet(rows)
  /\ \E i \in 1 .. Len(rows) + 1 : rows' = InsertAt(rows, i, e)
  /\ UNCHANGED <<published, lease, worker, stream, window, merchant, deadLetter>>
-----------------------------------------------------------------------------
(***************************************************************************)
(* ClaimOutbox: the CTE locks the oldest rows that are unpublished and not *)
(* leased, passing over rows that another claim has locked, and the UPDATE *)
(* leases them and commits.  RETURNING promises no order, so the worker    *)
(* takes the rows of its batch in any order.                               *)
(***************************************************************************)
LockedByOther(w, e) ==
  \E v \in Workers \ {w} : worker[v].pc = "claim" /\ e \in worker[v].batch

\* The CTE without FOR UPDATE SKIP LOCKED.
FaultyClaimable(w, e) == e \notin published /\ lease[e] = {}

Claimable(w, e) == e \notin published /\ lease[e] = {} /\ ~LockedByOther(w, e)

Candidates(w) ==
  LET open(n) == {i \in 1 .. n : Claimable(w, rows[i])}
  IN  {rows[i] : i \in {i \in open(Len(rows)) : Cardinality(open(i)) <= BatchSize}}

Select(w) ==
  /\ worker[w].pc = "idle"
  /\ Candidates(w) # {}
  /\ worker' = [worker EXCEPT ![w].pc = "claim", ![w].batch = Candidates(w)]
  /\ UNCHANGED <<rows, published, lease, stream, window, merchant, deadLetter>>

Leased(w) ==
  [e \in Events |-> IF e \in worker[w].batch THEN lease[e] \cup {w} ELSE lease[e]]

Take(w, batch) ==
  \E e \in batch :
    worker' = [worker EXCEPT ![w] =
                 [pc |-> "broker", batch |-> batch, event |-> e, attempt |-> 0]]

GiveUp(w) == worker' = [worker EXCEPT ![w] = Idle]

Claim(w) ==
  /\ worker[w].pc = "claim"
  /\ lease' = Leased(w)
  /\ Take(w, worker[w].batch)
  /\ UNCHANGED <<rows, published, stream, window, merchant, deadLetter>>

\* The query or the scan of its rows returns an error, after the commit or without it.
ClaimFails(w) ==
  /\ worker[w].pc = "claim"
  /\ lease' \in {lease, Leased(w)}
  /\ GiveUp(w)
  /\ UNCHANGED <<rows, published, stream, window, merchant, deadLetter>>

\* A minute has passed since the row was claimed.
LeaseExpires(e) ==
  /\ lease[e] # {}
  /\ e \notin published
  /\ lease' = [lease EXCEPT ![e] = {}]
  /\ UNCHANGED <<rows, published, worker, stream, window, merchant, deadLetter>>
-----------------------------------------------------------------------------
(***************************************************************************)
(* JetStream (external): a message whose id is in the duplicate window is  *)
(* acknowledged and not stored, whatever its subject; both publishers use  *)
(* the outbox event id.                                                    *)
(***************************************************************************)
Publish(subject, e) ==
  /\ stream' = IF e \in window THEN stream ELSE stream \cup {<<subject, e>>}
  /\ window' = window \cup {e}

WindowCloses(e) ==
  /\ e \in window
  /\ window' = window \ {e}
  /\ UNCHANGED <<rows, published, lease, worker, stream, merchant, deadLetter>>
-----------------------------------------------------------------------------
(***************************************************************************)
(* Deliver: CompositePublisher, NATS first and then the webhook.  Any      *)
(* error makes Deliver return, which drops the rest of the batch.          *)
(***************************************************************************)
Step(w, pc) == worker' = [worker EXCEPT ![w].pc = pc]

BrokerAcks(w) ==
  /\ worker[w].pc = "broker"
  /\ Publish("payments.events", worker[w].event)
  /\ Step(w, IF Webhook THEN "webhook" ELSE "mark")
  /\ UNCHANGED <<rows, published, lease, merchant, deadLetter>>

\* An error does not say whether the message was stored.
BrokerFails(w) ==
  /\ worker[w].pc = "broker"
  /\ \/ Publish("payments.events", worker[w].event)
     \/ UNCHANGED <<stream, window>>
  /\ GiveUp(w)
  /\ UNCHANGED <<rows, published, lease, merchant, deadLetter>>

WebhookAccepted(w) ==
  /\ worker[w].pc = "webhook"
  /\ merchant' = merchant \cup {worker[w].event}
  /\ Step(w, "mark")
  /\ UNCHANGED <<rows, published, lease, stream, window, deadLetter>>

\* The last failed attempt counts as a delivery.
FaultyWebhookFails(w) ==
  /\ worker[w].pc = "webhook"
  /\ merchant' \in {merchant, merchant \cup {worker[w].event}}
  /\ worker' = [worker EXCEPT
       ![w].attempt = @ + 1,
       ![w].pc = IF worker[w].attempt + 1 < Attempts THEN "webhook" ELSE "mark"]
  /\ UNCHANGED <<rows, published, lease, stream, window, deadLetter>>

\* The attempts are counted from zero to three.
ExtraWebhookAttempt(w) ==
  /\ worker[w].pc = "webhook"
  /\ merchant' \in {merchant, merchant \cup {worker[w].event}}
  /\ worker' = [worker EXCEPT
       ![w].attempt = @ + 1,
       ![w].pc = IF worker[w].attempt + 1 <= Attempts THEN "webhook" ELSE "deadletter"]
  /\ UNCHANGED <<rows, published, lease, stream, window, deadLetter>>

\* A status outside 2xx or no answer; the merchant may have acted on it.
WebhookFails(w) ==
  /\ worker[w].pc = "webhook"
  /\ merchant' \in {merchant, merchant \cup {worker[w].event}}
  /\ worker' = [worker EXCEPT
       ![w].attempt = @ + 1,
       ![w].pc = IF worker[w].attempt + 1 < Attempts THEN "webhook" ELSE "deadletter"]
  /\ UNCHANGED <<rows, published, lease, stream, window, deadLetter>>

\* The dead letter is published, and Publish returns the webhook's error.
DeadLetterAcks(w) ==
  /\ worker[w].pc = "deadletter"
  /\ Publish("payments.webhooks.dlq", worker[w].event)
  /\ deadLetter' = deadLetter \cup {worker[w].event}
  /\ GiveUp(w)
  /\ UNCHANGED <<rows, published, lease, merchant>>

DeadLetterFails(w) ==
  /\ worker[w].pc = "deadletter"
  /\ \/ Publish("payments.webhooks.dlq", worker[w].event)
     \/ UNCHANGED <<stream, window>>
  /\ GiveUp(w)
  /\ UNCHANGED <<rows, published, lease, merchant, deadLetter>>

\* The UPDATE names an id that no row has.
FaultyMarkPublished(w) ==
  LET rest == worker[w].batch \ {worker[w].event} IN
  /\ worker[w].pc = "mark"
  /\ \/ rest = {} /\ GiveUp(w)
     \/ Take(w, rest)
  /\ UNCHANGED <<rows, published, lease, stream, window, merchant, deadLetter>>

\* The UPDATE waits for a claim that has the row locked.
MarkPublished(w) ==
  LET rest == worker[w].batch \ {worker[w].event} IN
  /\ worker[w].pc = "mark"
  /\ ~LockedByOther(w, worker[w].event)
  /\ published' = published \cup {worker[w].event}
  /\ \/ rest = {} /\ GiveUp(w)
     \/ Take(w, rest)
  /\ UNCHANGED <<rows, lease, stream, window, merchant, deadLetter>>

\* The UPDATE returns an error, which does not say that it had no effect.
MarkFails(w) ==
  /\ worker[w].pc = "mark"
  /\ \/ UNCHANGED published
     \/ /\ ~LockedByOther(w, worker[w].event)
        /\ published' = published \cup {worker[w].event}
  /\ GiveUp(w)
  /\ UNCHANGED <<rows, lease, stream, window, merchant, deadLetter>>

\* The process dies and is restarted, at any point of a batch.
Crash(w) ==
  /\ Crashes
  /\ worker[w].pc # "idle"
  /\ GiveUp(w)
  /\ UNCHANGED <<rows, published, lease, stream, window, merchant, deadLetter>>
-----------------------------------------------------------------------------
Progress(w) ==
  \/ Select(w) \/ Claim(w) \/ ClaimFails(w)
  \/ BrokerAcks(w) \/ BrokerFails(w)
  \/ WebhookAccepted(w) \/ WebhookFails(w)
  \/ DeadLetterAcks(w) \/ DeadLetterFails(w)
  \/ MarkPublished(w) \/ MarkFails(w)

Next ==
  \/ \E e \in Events : Insert(e) \/ LeaseExpires(e) \/ WindowCloses(e)
  \/ \E w \in Workers : Progress(w) \/ Crash(w)

Spec == Init /\ [][Next]_vars

\* The loop of a worker goes on after every error, time passes, and what is tried
\* again and again succeeds in the end: the broker, the merchant endpoint and the
\* database are not down for ever.
Fairness ==
  /\ \A e \in Events : WF_vars(LeaseExpires(e))
  /\ \A w \in Workers :
       /\ WF_vars(Progress(w))
       /\ SF_vars(Claim(w))
       /\ SF_vars(BrokerAcks(w))
       /\ SF_vars(WebhookAccepted(w))
       /\ SF_vars(MarkPublished(w))

FairSpec == Spec /\ Fairness
-----------------------------------------------------------------------------
(***************************************************************************)
(* Properties                                                              *)
(***************************************************************************)
\* Only inserted rows are published, and Publish makes at most Attempts webhook calls.
TypeOK ==
  /\ ToSet(rows) \subseteq Events
  /\ published \subseteq ToSet(rows)
  /\ lease \in [Events -> SUBSET Workers]
  /\ worker \in [Workers ->
       [pc: {"idle", "claim", "broker", "webhook", "deadletter", "mark"},
        batch: SUBSET Events, event: Events \cup {None}, attempt: 0 .. Attempts]]
  /\ stream \subseteq {"payments.events", "payments.webhooks.dlq"} \X Events
  /\ window \subseteq Events /\ merchant \subseteq Events /\ deadLetter \subseteq Events

(***************************************************************************)
(* "marks them only after delivery": a row marked published is in the      *)
(* stream under payments.events (a dead letter with the same message id    *)
(* never took its place), and the merchant endpoint has received it where  *)
(* one is configured, whichever worker marked it, whoever else was at it   *)
(* and whatever failed before.                                             *)
(***************************************************************************)
MarkedOnlyAfterDelivery ==
  \A e \in published :
    /\ <<"payments.events", e>> \in stream
    /\ Webhook => e \in merchant

(***************************************************************************)
(* Two workers never lease a row within the same minute, whether it is     *)
(* claimed for the first time or after a lease ran out, and however the    *)
(* claims overlap.                                                         *)
(***************************************************************************)
OneWorkerPerLease ==
  \A e \in Events, v, w \in Workers : {v, w} \subseteq lease[e] => v = w

(***************************************************************************)
(* No event is lost between commit and publication: every inserted row is  *)
(* published in the end, through errors, abandoned batches, expired leases *)
(* and worker restarts.                                                    *)
(***************************************************************************)
EveryEventPublished == \A e \in Events : e \in ToSet(rows) ~> e \in published

(***************************************************************************)
(* A statement of the documentation that the code does not keep.           *)
(***************************************************************************)

\* README: webhook failures "are retained in payments.webhooks.dlq".  A dead
\* letter that the broker acknowledged is in the stream under that subject.
DeadLettersRetained ==
  \A e \in deadLetter : <<"payments.webhooks.dlq", e>> \in stream
=============================================================================
