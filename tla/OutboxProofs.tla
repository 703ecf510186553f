---------------------------- MODULE OutboxProofs ----------------------------
(***************************************************************************)
(* Proofs about Outbox, for any number of events, workers, rows per claim  *)
(* and webhook attempts, with and without a webhook and crashes.           *)
(*                                                                         *)
(* That a row is marked only after delivery rests on what a worker behind  *)
(* the broker knows (DeliveredSoFar) and on the duplicate window: an event *)
(* in it, by whichever publisher, is in the stream under its own subject   *)
(* (WindowIsStored).  That a lease keeps workers apart rests on the rows    *)
(* that a claim has selected staying its own and without a lease until it  *)
(* commits (LockedRows).                                                   *)
(***************************************************************************)
EXTENDS Outbox, TLAPS

WorkerType == [pc: {"idle", "claim", "broker", "webhook", "deadletter", "mark"},
               batch: SUBSET Events, event: Events \cup {None}, attempt: 0 .. Attempts]

\* A worker at a row has it in its batch, which consists of inserted rows, and has
\* webhook attempts left as long as it makes them.
KnownBatch ==
  \A w \in Workers :
    /\ worker[w].batch \subseteq ToSet(rows)
    /\ worker[w].pc \notin {"idle", "claim"} => worker[w].event \in worker[w].batch
    /\ worker[w].pc = "broker" => worker[w].attempt = 0
    /\ worker[w].pc = "webhook" => worker[w].attempt < Attempts

WindowIsStored == \A e \in window : <<"payments.events", e>> \in stream

DeliveredSoFar ==
  \A w \in Workers :
    /\ worker[w].pc \in {"webhook", "deadletter", "mark"} =>
         <<"payments.events", worker[w].event>> \in stream
    /\ worker[w].pc = "mark" /\ Webhook => worker[w].event \in merchant

LockedRows ==
  \A w \in Workers : worker[w].pc = "claim" =>
    \A e \in worker[w].batch : lease[e] = {} /\ ~LockedByOther(w, e)

IInv ==
  /\ TypeOK
  /\ rows \in Seq(Events)
  /\ KnownBatch
  /\ WindowIsStored
  /\ DeliveredSoFar
  /\ MarkedOnlyAfterDelivery
  /\ LockedRows
  /\ OneWorkerPerLease
-----------------------------------------------------------------------------
\* An idle worker is well typed and has no batch.
LEMMA IdleType ==
  /\ Idle \in WorkerType /\ Idle.pc = "idle" /\ Idle.batch = {}
BY OutboxAssumption DEF Idle, WorkerType

\* Empty tables and idle workers satisfy the invariant.
LEMMA InitInvariant == Init => IInv
<1> SUFFICES ASSUME Init PROVE IInv
  OBVIOUS
<1>1. \A w \in Workers : worker[w] = Idle
  BY DEF Init
<1>2. TypeOK /\ rows \in Seq(Events)
  <2>1. worker \in [Workers -> WorkerType]
    BY IdleType DEF Init
  <2>2. rows \in Seq(Events) /\ ToSet(rows) = {}
    BY DEF Init, ToSet
  <2>3. QED
    BY <2>1, <2>2 DEF Init, TypeOK, WorkerType
<1>3. KnownBatch /\ DeliveredSoFar /\ LockedRows /\ OneWorkerPerLease
  BY <1>1, IdleType DEF Init, KnownBatch, DeliveredSoFar, LockedRows, OneWorkerPerLease
<1>4. WindowIsStored /\ MarkedOnlyAfterDelivery
  BY DEF Init, WindowIsStored, MarkedOnlyAfterDelivery
<1>5. QED
  BY <1>2, <1>3, <1>4 DEF IInv
-----------------------------------------------------------------------------
(***************************************************************************)
(* The steps that no worker takes                                          *)
(***************************************************************************)

\* InsertAt adds an element and keeps the others.
LEMMA InsertAtElements ==
  ASSUME NEW S, NEW s \in Seq(S), NEW i \in 1 .. Len(s) + 1, NEW e \in S
  PROVE  /\ InsertAt(s, i, e) \in Seq(S)
         /\ ToSet(InsertAt(s, i, e)) = ToSet(s) \cup {e}
<1> DEFINE t == InsertAt(s, i, e)
           a == SubSeq(s, 1, i - 1)
           b == SubSeq(s, i, Len(s))
<1>1. /\ a \in Seq(S) /\ Len(a) = i - 1 /\ \A k \in 1 .. i - 1 : a[k] = s[k]
      /\ b \in Seq(S) /\ Len(b) = Len(s) - i + 1
      /\ \A k \in 1 .. Len(s) - i + 1 : b[k] = s[i + k - 1]
  OBVIOUS
<1>2. t = (a \o <<e>>) \o b
  BY DEF InsertAt
<1> HIDE DEF a, b, t
<1>3. /\ t \in Seq(S) /\ Len(t) = Len(s) + 1
      /\ \A k \in 1 .. i - 1 : t[k] = s[k]
      /\ t[i] = e
      /\ \A k \in i + 1 .. Len(s) + 1 : t[k] = s[k - 1]
  <2> DEFINE u == a \o <<e>>
  <2>1. /\ u \in Seq(S) /\ Len(u) = i /\ u[i] = e
        /\ \A k \in 1 .. i - 1 : u[k] = s[k]
    <3>1. a \in Seq(S) /\ Len(a) \in Nat
      BY <1>1
    <3>2. u = Append(a, e)
      BY <3>1
    <3> HIDE DEF u
    <3>3. /\ u \in Seq(S) /\ Len(u) = Len(a) + 1 /\ u[Len(a) + 1] = e
          /\ \A k \in 1 .. Len(a) : u[k] = a[k]
      BY <3>1, <3>2
    <3>4. Len(a) + 1 = i /\ Len(a) = i - 1
      <4>1. i \in Int
        OBVIOUS
      <4>2. QED
        BY <1>1, <4>1
    <3>5. QED
      BY <1>1, <3>1, <3>3, <3>4
  <2>2. t = u \o b
    BY <1>2
  <2> HIDE DEF u
  <2>3. t \in Seq(S) /\ Len(t) = Len(s) + 1
    <3>1. u \in Seq(S) /\ b \in Seq(S)
      BY <1>1, <2>1
    <3>2. u \o b \in Seq(S) /\ Len(u \o b) = Len(u) + Len(b)
      BY <3>1
    <3>3. Len(u) + Len(b) = Len(s) + 1
      <4>1. i \in Int /\ Len(s) \in Int
        OBVIOUS
      <4>2. QED
        BY <1>1, <2>1, <4>1
    <3>4. QED
      BY <2>2, <3>2, <3>3
  <2>4. \A k \in 1 .. i : t[k] = u[k]
    BY <1>1, <2>1, <2>2, SMTT(30)
  <2>5. ASSUME NEW k \in i + 1 .. Len(s) + 1 PROVE t[k] = s[k - 1]
    <3>1. t[k] = b[k - i]
      BY <1>1, <2>1, <2>2, SMTT(30)
    <3>2. k - i \in 1 .. Len(s) - i + 1 /\ i + (k - i) - 1 = k - 1
      <4>1. i \in Int /\ Len(s) \in Int /\ k \in Int /\ i + 1 <= k /\ k <= Len(s) + 1
        OBVIOUS
      <4>2. QED
        BY <4>1
    <3>3. QED
      BY <1>1, <3>1, <3>2
  <2>6. QED
    BY <2>1, <2>3, <2>4, <2>5
<1>4. ASSUME NEW k \in 1 .. Len(s) PROVE \E j \in 1 .. Len(t) : t[j] = s[k]
  <2>1. CASE k < i
    BY <1>3, <2>1
  <2>2. CASE k >= i
    <3>1. k + 1 \in i + 1 .. Len(s) + 1 /\ (k + 1) - 1 = k
      BY <2>2
    <3>2. t[k + 1] = s[k]
      BY <1>3, <3>1
    <3>3. QED
      BY <1>3, <3>1, <3>2
  <2>3. QED
    BY <2>1, <2>2
<1>5. ASSUME NEW k \in 1 .. Len(t) PROVE t[k] = e \/ \E j \in 1 .. Len(s) : t[k] = s[j]
  BY <1>3
<1>6. ToSet(t) = ToSet(s) \cup {e}
  <2>1. DOMAIN t = 1 .. Len(t) /\ DOMAIN s = 1 .. Len(s) /\ i \in 1 .. Len(t)
    BY <1>3
  <2>2. ToSet(t) \subseteq ToSet(s) \cup {e}
    BY <1>5, <2>1 DEF ToSet
  <2>3. ToSet(s) \subseteq ToSet(t)
    BY <1>4, <2>1 DEF ToSet
  <2>4. e \in ToSet(t)
    BY <1>3, <2>1 DEF ToSet
  <2>5. QED
    BY <2>2, <2>3, <2>4
<1>7. QED
  BY <1>3, <1>6 DEF t

\* A transaction commits an event.
LEMMA InsertStep ==
  ASSUME IInv, NEW e \in Events, Insert(e)
  PROVE  IInv'
<1>1. rows' \in Seq(Events) /\ ToSet(rows') = ToSet(rows) \cup {e}
  BY InsertAtElements DEF Insert, IInv
<1>2. UNCHANGED <<published, lease, worker, stream, window, merchant, deadLetter>>
  BY DEF Insert
<1>3. ToSet(rows)' = ToSet(rows') /\ ToSet(rows') \subseteq Events
  BY <1>1 DEF IInv, TypeOK
<1>4. TypeOK'
  BY <1>1, <1>2, <1>3 DEF IInv, TypeOK
<1>5. KnownBatch'
  BY <1>1, <1>2, <1>3 DEF IInv, KnownBatch
<1>6. WindowIsStored' /\ DeliveredSoFar' /\ MarkedOnlyAfterDelivery'
  BY <1>2 DEF IInv, WindowIsStored, DeliveredSoFar, MarkedOnlyAfterDelivery
<1>7. LockedRows' /\ OneWorkerPerLease'
  BY <1>2 DEF IInv, LockedRows, LockedByOther, OneWorkerPerLease
<1>8. QED
  BY <1>1, <1>4, <1>5, <1>6, <1>7 DEF IInv

\* A lease runs out, or the broker forgets a message id.
LEMMA TimeStep ==
  ASSUME IInv, NEW e \in Events, LeaseExpires(e) \/ WindowCloses(e)
  PROVE  IInv'
<1> USE DEF IInv
<1>1. CASE LeaseExpires(e)
  <2>1. /\ lease' = [lease EXCEPT ![e] = {}]
        /\ UNCHANGED <<rows, published, worker, stream, window, merchant, deadLetter>>
    BY <1>1 DEF LeaseExpires
  <2>2. TypeOK' /\ rows' \in Seq(Events)
    BY <2>1 DEF TypeOK
  <2>3. KnownBatch' /\ WindowIsStored' /\ DeliveredSoFar' /\ MarkedOnlyAfterDelivery'
    BY <2>1 DEF KnownBatch, WindowIsStored, DeliveredSoFar, MarkedOnlyAfterDelivery
  <2>4. LockedRows' /\ OneWorkerPerLease'
    BY <2>1 DEF TypeOK, LockedRows, LockedByOther, OneWorkerPerLease
  <2>5. QED
    BY <2>2, <2>3, <2>4
<1>2. CASE WindowCloses(e)
  <2>1. /\ window' = window \ {e}
        /\ UNCHANGED <<rows, published, lease, worker, stream, merchant, deadLetter>>
    BY <1>2 DEF WindowCloses
  <2>2. TypeOK' /\ rows' \in Seq(Events)
    BY <2>1 DEF TypeOK
  <2>3. KnownBatch' /\ WindowIsStored' /\ DeliveredSoFar' /\ MarkedOnlyAfterDelivery'
    BY <2>1 DEF KnownBatch, WindowIsStored, DeliveredSoFar, MarkedOnlyAfterDelivery
  <2>4. LockedRows' /\ OneWorkerPerLease'
    BY <2>1 DEF LockedRows, LockedByOther, OneWorkerPerLease
  <2>5. QED
    BY <2>2, <2>3, <2>4
<1>3. QED
  BY <1>1, <1>2
-----------------------------------------------------------------------------
(***************************************************************************)
(* The steps of a worker                                                   *)
(***************************************************************************)

\* Whatever a claim selects is an inserted row that is unpublished, not leased and not
\* locked by another claim.
LEMMA CandidatesClaimable ==
  ASSUME rows \in Seq(Events), NEW w \in Workers
  PROVE  /\ Candidates(w) \subseteq ToSet(rows)
         /\ Candidates(w) \subseteq Events
         /\ \A e \in Candidates(w) : Claimable(w, e)
<1> SUFFICES ASSUME NEW e \in Candidates(w)
             PROVE  e \in ToSet(rows) /\ e \in Events /\ Claimable(w, e)
  OBVIOUS
<1>1. PICK i \in 1 .. Len(rows) : Claimable(w, rows[i]) /\ e = rows[i]
  BY Zenon DEF Candidates
<1>2. i \in DOMAIN rows /\ rows[i] \in Events
  BY <1>1
<1>3. QED
  BY <1>1, <1>2 DEF ToSet

\* The rows that a claim selects become its own.
LEMMA SelectStep ==
  ASSUME IInv, NEW w \in Workers, Select(w)
  PROVE  IInv'
<1> DEFINE C == Candidates(w)
           c == [worker[w] EXCEPT !.pc = "claim", !.batch = C]
<1>1. C \subseteq ToSet(rows) /\ C \subseteq Events /\ \A e \in C : Claimable(w, e)
  BY CandidatesClaimable DEF IInv
<1>2. /\ worker' = [worker EXCEPT ![w] = c]
      /\ UNCHANGED <<rows, published, lease, stream, window, merchant, deadLetter>>
  BY DEF Select
<1> HIDE DEF C
<1>3. c \in WorkerType /\ c.pc = "claim" /\ c.batch = C
  BY <1>1 DEF IInv, TypeOK, WorkerType
<1> HIDE DEF c
<1>4. /\ worker' \in [Workers -> WorkerType]
      /\ worker'[w].pc = "claim" /\ worker'[w].batch = C
      /\ \A v \in Workers \ {w} : worker'[v] = worker[v]
  BY <1>2, <1>3 DEF IInv, TypeOK, WorkerType
<1>5. TypeOK' /\ rows' \in Seq(Events)
  BY <1>2, <1>4 DEF IInv, TypeOK, WorkerType
<1>6. KnownBatch'
  BY <1>1, <1>2, <1>4 DEF IInv, KnownBatch
<1>7. WindowIsStored' /\ MarkedOnlyAfterDelivery' /\ OneWorkerPerLease'
  BY <1>2 DEF IInv, WindowIsStored, MarkedOnlyAfterDelivery, OneWorkerPerLease
<1>8. DeliveredSoFar'
  BY <1>2, <1>4 DEF IInv, DeliveredSoFar
<1>9. LockedRows'
  <2> SUFFICES ASSUME NEW v \in Workers, worker'[v].pc = "claim", NEW e \in worker'[v].batch
               PROVE  lease'[e] = {} /\ ~LockedByOther(v, e)'
    BY DEF LockedRows
  <2>1. CASE v = w
    <3>1. lease[e] = {} /\ ~LockedByOther(w, e)
      BY <1>1, <1>4, <2>1 DEF Claimable
    <3>2. QED
      BY <1>2, <1>4, <2>1, <3>1 DEF LockedByOther
  <2>2. CASE v # w
    <3>1. worker[v].pc = "claim" /\ e \in worker[v].batch
      BY <1>4, <2>2
    <3>2. lease[e] = {} /\ ~LockedByOther(v, e)
      BY <3>1 DEF IInv, LockedRows
    <3>3. e \notin C
      BY <1>1, <2>2, <3>1 DEF Claimable, LockedByOther
    <3>4. QED
      BY <1>2, <1>4, <2>2, <3>2, <3>3 DEF LockedByOther
  <2>3. QED
    BY <2>1, <2>2
<1>10. QED
  BY <1>5, <1>6, <1>7, <1>8, <1>9 DEF IInv

(***************************************************************************)
(* The commit of a claim leases rows that nobody has leased and no other   *)
(* claim has selected.                                                     *)
(***************************************************************************)
LEMMA LeaseFacts ==
  ASSUME IInv, NEW w \in Workers, worker[w].pc = "claim", lease' = Leased(w)
  PROVE  /\ lease' \in [Events -> SUBSET Workers]
         /\ OneWorkerPerLease'
         /\ \A v \in Workers \ {w} : worker[v].pc = "claim" =>
              \A e \in worker[v].batch : lease'[e] = {}
<1>1. /\ lease \in [Events -> SUBSET Workers]
      /\ \A v \in Workers : worker[v].batch \subseteq Events
  BY DEF IInv, TypeOK
<1>2. lease' = [e \in Events |-> IF e \in worker[w].batch THEN lease[e] \cup {w} ELSE lease[e]]
  BY DEF Leased
<1>3. \A e \in worker[w].batch : lease[e] = {} /\ ~LockedByOther(w, e)
  BY DEF IInv, LockedRows
<1>4. lease' \in [Events -> SUBSET Workers]
  BY <1>1, <1>2
<1>5. OneWorkerPerLease'
  BY <1>2, <1>3 DEF IInv, OneWorkerPerLease
<1>6. ASSUME NEW v \in Workers \ {w}, worker[v].pc = "claim", NEW e \in worker[v].batch
      PROVE  lease'[e] = {}
  <2>1. e \notin worker[w].batch
    BY <1>3, <1>6 DEF LockedByOther
  <2>2. lease[e] = {}
    BY <1>6 DEF IInv, LockedRows
  <2>3. QED
    BY <1>1, <1>2, <2>1, <2>2
<1>7. QED
  BY <1>4, <1>5, <1>6

(***************************************************************************)
(* Any other step of a worker: it goes on with a row of its batch or drops *)
(* it, a lease changes by the commit of a claim only, and the outside only *)
(* learns.                                                                 *)
(***************************************************************************)
LEMMA WorkerStep ==
  ASSUME IInv, NEW w \in Workers, UNCHANGED rows,
         UNCHANGED lease \/ (worker[w].pc = "claim" /\ lease' = Leased(w)),
         NEW c \in WorkerType, worker' = [worker EXCEPT ![w] = c],
         c.batch \subseteq worker[w].batch,
         c.pc # "claim",
         c.pc # "idle" => c.event \in c.batch,
         c.pc = "broker" => c.attempt = 0,
         c.pc = "webhook" => c.attempt < Attempts,
         stream \subseteq stream', merchant \subseteq merchant',
         stream' \subseteq {"payments.events", "payments.webhooks.dlq"} \X Events,
         window' \subseteq Events, merchant' \subseteq Events, deadLetter' \subseteq Events,
         published' \subseteq published \cup worker[w].batch,
         WindowIsStored', MarkedOnlyAfterDelivery',
         c.pc \in {"webhook", "deadletter", "mark"} =>
           <<"payments.events", c.event>> \in stream',
         c.pc = "mark" /\ Webhook => c.event \in merchant'
  PROVE  IInv'
<1> USE DEF IInv
<1>1. /\ worker' \in [Workers -> WorkerType] /\ worker'[w] = c
      /\ \A v \in Workers \ {w} : worker'[v] = worker[v]
  BY DEF TypeOK, WorkerType
<1>2. worker[w].batch \subseteq ToSet(rows) /\ ToSet(rows)' = ToSet(rows)
  BY DEF KnownBatch
<1>3. lease' \in [Events -> SUBSET Workers] /\ OneWorkerPerLease'
  <2>1. CASE UNCHANGED lease
    BY <2>1 DEF TypeOK, OneWorkerPerLease
  <2>2. CASE worker[w].pc = "claim" /\ lease' = Leased(w)
    BY <2>2, LeaseFacts
  <2>3. QED
    BY <2>1, <2>2
<1>4. TypeOK' /\ rows' \in Seq(Events)
  BY <1>1, <1>2, <1>3 DEF TypeOK, WorkerType
<1>5. KnownBatch'
  BY <1>1, <1>2 DEF KnownBatch
<1>6. DeliveredSoFar'
  BY <1>1 DEF DeliveredSoFar
<1>7. LockedRows'
  <2> SUFFICES ASSUME NEW v \in Workers, worker'[v].pc = "claim", NEW e \in worker'[v].batch
               PROVE  lease'[e] = {} /\ ~LockedByOther(v, e)'
    BY DEF LockedRows
  <2>1. v # w /\ worker[v].pc = "claim" /\ e \in worker[v].batch
    BY <1>1
  <2>2. lease[e] = {} /\ ~LockedByOther(v, e)
    BY <2>1 DEF LockedRows
  <2>3. lease'[e] = {}
    BY <2>1, <2>2, LeaseFacts
  <2>4. ~LockedByOther(v, e)'
    BY <1>1, <2>2 DEF LockedByOther
  <2>5. QED
    BY <2>3, <2>4
<1>8. QED
  BY <1>3, <1>4, <1>5, <1>6, <1>7

\* Publishing an event of the outbox leaves it in the stream under its own subject,
\* unless a dead letter comes first; behind the broker it cannot.
LEMMA PublishFacts ==
  ASSUME IInv, NEW e \in Events, NEW subject \in {"payments.events", "payments.webhooks.dlq"},
         subject # "payments.events" => <<"payments.events", e>> \in stream,
         Publish(subject, e)
  PROVE  /\ stream \subseteq stream' /\ window' \subseteq Events
         /\ stream' \subseteq {"payments.events", "payments.webhooks.dlq"} \X Events
         /\ <<"payments.events", e>> \in stream'
         /\ WindowIsStored'
<1>1. /\ stream' = IF e \in window THEN stream ELSE stream \cup {<<subject, e>>}
      /\ window' = window \cup {e}
  BY DEF Publish
<1>2. stream \subseteq stream' /\ window' \subseteq Events
      /\ stream' \subseteq {"payments.events", "payments.webhooks.dlq"} \X Events
  BY <1>1 DEF IInv, TypeOK
<1>3. <<"payments.events", e>> \in stream'
  BY <1>1 DEF IInv, WindowIsStored
<1>4. WindowIsStored'
  BY <1>1, <1>2, <1>3 DEF IInv, WindowIsStored
<1>5. QED
  BY <1>2, <1>3, <1>4

\* A row in hand is an inserted event.
LEMMA EventInHand ==
  ASSUME IInv, NEW w \in Workers, worker[w].pc \notin {"idle", "claim"}
  PROVE  /\ worker[w] \in WorkerType /\ worker[w].event \in worker[w].batch
         /\ worker[w].event \in Events
BY DEF IInv, TypeOK, KnownBatch, WorkerType

\* An error drops the batch, with or without an effect on the outside.
LEMMA GiveUpStep ==
  ASSUME IInv, NEW w \in Workers, GiveUp(w), UNCHANGED rows,
         UNCHANGED lease \/ (worker[w].pc = "claim" /\ lease' = Leased(w)),
         stream \subseteq stream', merchant \subseteq merchant',
         stream' \subseteq {"payments.events", "payments.webhooks.dlq"} \X Events,
         window' \subseteq Events, merchant' \subseteq Events, deadLetter' \subseteq Events,
         published' \subseteq published \cup worker[w].batch,
         WindowIsStored', MarkedOnlyAfterDelivery'
  PROVE  IInv'
<1>1. worker' = [worker EXCEPT ![w] = Idle]
  BY DEF GiveUp
<1>2. QED
  BY <1>1, IdleType, WorkerStep

\* More messages and more calls of the merchant endpoint do no harm to marked rows.
LEMMA MarkedKept ==
  ASSUME IInv, stream \subseteq stream', merchant \subseteq merchant', published' = published
  PROVE  MarkedOnlyAfterDelivery'
BY DEF IInv, MarkedOnlyAfterDelivery

\* ClaimOutbox commits, or returns an error with or without the commit.
LEMMA ClaimStep ==
  ASSUME IInv, NEW w \in Workers, Claim(w) \/ ClaimFails(w)
  PROVE  IInv'
<1>1. /\ worker[w].pc = "claim"
      /\ UNCHANGED lease \/ lease' = Leased(w)
      /\ UNCHANGED <<rows, published, stream, window, merchant, deadLetter>>
  BY DEF Claim, ClaimFails
<1>2. WindowIsStored' /\ MarkedOnlyAfterDelivery'
  BY <1>1 DEF IInv, WindowIsStored, MarkedOnlyAfterDelivery
<1>3. /\ stream' \subseteq {"payments.events", "payments.webhooks.dlq"} \X Events
      /\ window' \subseteq Events /\ merchant' \subseteq Events /\ deadLetter' \subseteq Events
      /\ worker[w].batch \subseteq Events
  BY <1>1 DEF IInv, TypeOK
<1>4. CASE GiveUp(w)
  BY <1>1, <1>2, <1>3, <1>4, GiveUpStep
<1>5. CASE Take(w, worker[w].batch)
  <2>1. PICK x \in worker[w].batch : worker' = [worker EXCEPT ![w] =
                 [pc |-> "broker", batch |-> worker[w].batch, event |-> x, attempt |-> 0]]
    BY <1>5 DEF Take
  <2> DEFINE c == [pc |-> "broker", batch |-> worker[w].batch, event |-> x, attempt |-> 0]
  <2>2. /\ c \in WorkerType /\ c.pc = "broker" /\ c.batch = worker[w].batch
        /\ c.event = x /\ c.attempt = 0
    BY <1>3, OutboxAssumption DEF WorkerType
  <2>3. worker' = [worker EXCEPT ![w] = c]
    BY <2>1
  <2> HIDE DEF c
  <2>4. QED
    BY <1>1, <1>2, <1>3, <2>2, <2>3, WorkerStep
<1>6. QED
  BY <1>4, <1>5 DEF Claim, ClaimFails

\* The broker's answer, or the lack of one.
LEMMA BrokerStep ==
  ASSUME IInv, NEW w \in Workers, BrokerAcks(w) \/ BrokerFails(w)
  PROVE  IInv'
<1> DEFINE e == worker[w].event
<1>1. /\ worker[w].pc = "broker" /\ worker[w] \in WorkerType /\ e \in worker[w].batch
      /\ e \in Events /\ worker[w].attempt = 0
      /\ UNCHANGED <<rows, published, lease, merchant, deadLetter>>
  BY EventInHand DEF BrokerAcks, BrokerFails, IInv, KnownBatch
<1>2. merchant' \subseteq Events /\ deadLetter' \subseteq Events
      /\ window \subseteq Events
      /\ stream \subseteq {"payments.events", "payments.webhooks.dlq"} \X Events
  BY <1>1 DEF IInv, TypeOK
<1>3. CASE BrokerAcks(w)
  <2> DEFINE pc == IF Webhook THEN "webhook" ELSE "mark"
             c == [worker[w] EXCEPT !.pc = pc]
  <2>1. Publish("payments.events", e) /\ worker' = [worker EXCEPT ![w] = c]
    BY <1>3 DEF BrokerAcks, Step
  <2>2. /\ stream \subseteq stream' /\ window' \subseteq Events
        /\ stream' \subseteq {"payments.events", "payments.webhooks.dlq"} \X Events
        /\ <<"payments.events", e>> \in stream' /\ WindowIsStored'
    BY <1>1, <2>1, PublishFacts
  <2>3. MarkedOnlyAfterDelivery'
    BY <1>1, <2>2, MarkedKept
  <2>4. /\ c \in WorkerType /\ c.pc = pc /\ c.batch = worker[w].batch
        /\ c.event = e /\ c.attempt = 0
    BY <1>1 DEF WorkerType
  <2>5. 0 < Attempts
    BY OutboxAssumption
  <2> HIDE DEF c
  <2>6. QED
    BY <1>1, <1>2, <2>1, <2>2, <2>3, <2>4, <2>5, WorkerStep
<1>4. CASE BrokerFails(w)
  <2>1. GiveUp(w) /\ (Publish("payments.events", e) \/ UNCHANGED <<stream, window>>)
    BY <1>4 DEF BrokerFails
  <2>2. /\ stream \subseteq stream' /\ window' \subseteq Events
        /\ stream' \subseteq {"payments.events", "payments.webhooks.dlq"} \X Events
        /\ WindowIsStored'
    <3>1. CASE Publish("payments.events", e)
      BY <1>1, <3>1, PublishFacts
    <3>2. CASE UNCHANGED <<stream, window>>
      BY <1>2, <3>2 DEF IInv, WindowIsStored
    <3>3. QED
      BY <2>1, <3>1, <3>2
  <2>3. MarkedOnlyAfterDelivery'
    BY <1>1, <2>2, MarkedKept
  <2>4. QED
    BY <1>1, <1>2, <2>1, <2>2, <2>3, GiveUpStep
<1>5. QED
  BY <1>3, <1>4

\* The merchant endpoint's answer, or the lack of one.
LEMMA WebhookStep ==
  ASSUME IInv, NEW w \in Workers, WebhookAccepted(w) \/ WebhookFails(w)
  PROVE  IInv'
<1> DEFINE e == worker[w].event
           n == worker[w].attempt
<1>1. /\ worker[w].pc = "webhook" /\ worker[w] \in WorkerType /\ e \in worker[w].batch
      /\ e \in Events /\ n < Attempts /\ n \in Nat
      /\ <<"payments.events", e>> \in stream
      /\ UNCHANGED <<rows, published, lease, stream, window, deadLetter>>
  BY EventInHand DEF WebhookAccepted, WebhookFails, IInv, KnownBatch, DeliveredSoFar, WorkerType
<1>2. /\ merchant \subseteq merchant' /\ merchant' \subseteq Events
      /\ stream' \subseteq {"payments.events", "payments.webhooks.dlq"} \X Events
      /\ window' \subseteq Events /\ deadLetter' \subseteq Events
  BY <1>1 DEF WebhookAccepted, WebhookFails, IInv, TypeOK
<1>3. WindowIsStored' /\ MarkedOnlyAfterDelivery'
  BY <1>1, <1>2, MarkedKept DEF IInv, WindowIsStored
<1>4. CASE WebhookAccepted(w)
  <2> DEFINE c == [worker[w] EXCEPT !.pc = "mark"]
  <2>1. worker' = [worker EXCEPT ![w] = c] /\ e \in merchant'
    BY <1>4 DEF WebhookAccepted, Step
  <2>2. /\ c \in WorkerType /\ c.pc = "mark" /\ c.batch = worker[w].batch /\ c.event = e
    BY <1>1 DEF WorkerType
  <2> HIDE DEF c
  <2>3. QED
    BY <1>1, <1>2, <1>3, <2>1, <2>2, WorkerStep
<1>5. CASE WebhookFails(w)
  <2> DEFINE pc == IF n + 1 < Attempts THEN "webhook" ELSE "deadletter"
             c == [worker[w] EXCEPT !.attempt = n + 1, !.pc = pc]
  <2>1. worker' = [worker EXCEPT ![w] = c]
    BY <1>5 DEF WebhookFails
  <2>2. n + 1 \in 0 .. Attempts
    BY <1>1, OutboxAssumption
  <2>3. /\ c \in WorkerType /\ c.pc = pc /\ c.batch = worker[w].batch
        /\ c.event = e /\ c.attempt = n + 1
    BY <1>1, <2>2 DEF WorkerType
  <2> HIDE DEF c
  <2>4. QED
    BY <1>1, <1>2, <1>3, <2>1, <2>3, WorkerStep
<1>6. QED
  BY <1>4, <1>5

\* A dead letter that JetStream drops, because the event's id is in the duplicate
\* window, does not put another event's subject in its place.
LEMMA DeadLetterStep ==
  ASSUME IInv, NEW w \in Workers, DeadLetterAcks(w) \/ DeadLetterFails(w)
  PROVE  IInv'
<1> DEFINE e == worker[w].event
<1>1. /\ worker[w].pc = "deadletter" /\ e \in worker[w].batch /\ e \in Events
      /\ <<"payments.events", e>> \in stream
      /\ UNCHANGED <<rows, published, lease, merchant>> /\ GiveUp(w)
      /\ Publish("payments.webhooks.dlq", e) \/ UNCHANGED <<stream, window>>
      /\ deadLetter' = deadLetter \cup {e} \/ deadLetter' = deadLetter
  BY EventInHand DEF DeadLetterAcks, DeadLetterFails, IInv, DeliveredSoFar
<1>2. /\ stream \subseteq stream' /\ window' \subseteq Events
      /\ stream' \subseteq {"payments.events", "payments.webhooks.dlq"} \X Events
      /\ WindowIsStored'
  <2>1. CASE Publish("payments.webhooks.dlq", e)
    BY <1>1, <2>1, PublishFacts
  <2>2. CASE UNCHANGED <<stream, window>>
    BY <2>2 DEF IInv, TypeOK, WindowIsStored
  <2>3. QED
    BY <1>1, <2>1, <2>2
<1>3. MarkedOnlyAfterDelivery'
  BY <1>1, <1>2, MarkedKept
<1>4. merchant' \subseteq Events /\ deadLetter' \subseteq Events
  BY <1>1 DEF IInv, TypeOK
<1>5. QED
  BY <1>1, <1>2, <1>3, <1>4, GiveUpStep

\* A row is marked by a worker that has delivered it.
LEMMA MarkStep ==
  ASSUME IInv, NEW w \in Workers, MarkPublished(w) \/ MarkFails(w)
  PROVE  IInv'
<1> DEFINE e == worker[w].event
           rest == worker[w].batch \ {e}
<1>1. /\ worker[w].pc = "mark" /\ worker[w] \in WorkerType /\ e \in worker[w].batch
      /\ e \in Events
      /\ <<"payments.events", e>> \in stream /\ (Webhook => e \in merchant)
      /\ UNCHANGED <<rows, lease, stream, window, merchant, deadLetter>>
      /\ published' \in {published, published \cup {e}}
  BY EventInHand DEF MarkPublished, MarkFails, IInv, DeliveredSoFar
<1>2. /\ merchant' \subseteq Events /\ deadLetter' \subseteq Events /\ window' \subseteq Events
      /\ stream' \subseteq {"payments.events", "payments.webhooks.dlq"} \X Events
      /\ published' \subseteq published \cup worker[w].batch
      /\ stream \subseteq stream' /\ merchant \subseteq merchant'
  BY <1>1 DEF IInv, TypeOK
<1>3. WindowIsStored' /\ MarkedOnlyAfterDelivery'
  BY <1>1 DEF IInv, WindowIsStored, MarkedOnlyAfterDelivery
<1>4. CASE GiveUp(w)
  BY <1>1, <1>2, <1>3, <1>4, GiveUpStep
<1>5. CASE Take(w, rest)
  <2>1. PICK x \in rest : worker' = [worker EXCEPT ![w] =
                 [pc |-> "broker", batch |-> rest, event |-> x, attempt |-> 0]]
    BY <1>5 DEF Take
  <2> DEFINE c == [pc |-> "broker", batch |-> rest, event |-> x, attempt |-> 0]
  <2>2. /\ c \in WorkerType /\ c.pc = "broker" /\ c.batch = rest
        /\ c.event = x /\ c.attempt = 0
    BY <1>1, OutboxAssumption DEF WorkerType
  <2>3. worker' = [worker EXCEPT ![w] = c]
    BY <2>1
  <2> HIDE DEF c
  <2>4. QED
    BY <1>1, <1>2, <1>3, <2>2, <2>3, WorkerStep
<1>6. QED
  BY <1>4, <1>5 DEF MarkPublished, MarkFails

\* The process dies.
LEMMA CrashStep ==
  ASSUME IInv, NEW w \in Workers, Crash(w)
  PROVE  IInv'
<1>1. GiveUp(w)
      /\ UNCHANGED <<rows, published, lease, stream, window, merchant, deadLetter>>
  BY DEF Crash
<1>2. WindowIsStored' /\ MarkedOnlyAfterDelivery'
  BY <1>1 DEF IInv, WindowIsStored, MarkedOnlyAfterDelivery
<1>3. QED
  BY <1>1, <1>2, GiveUpStep DEF IInv, TypeOK
-----------------------------------------------------------------------------
\* Every step keeps the inductive invariant.
LEMMA NextInvariant == IInv /\ [Next]_vars => IInv'
<1> SUFFICES ASSUME IInv, [Next]_vars PROVE IInv'
  OBVIOUS
<1>1. CASE \E e \in Events : Insert(e) \/ LeaseExpires(e) \/ WindowCloses(e)
  BY <1>1, InsertStep, TimeStep
<1>2. ASSUME NEW w \in Workers, Progress(w) \/ Crash(w) PROVE IInv'
  BY <1>2, SelectStep, ClaimStep, BrokerStep, WebhookStep, DeadLetterStep, MarkStep, CrashStep
     DEF Progress
<1>3. CASE UNCHANGED vars
  <2>1. UNCHANGED <<rows, published, lease, worker, stream, window, merchant, deadLetter>>
    BY <1>3 DEF vars
  <2>2. TypeOK' /\ rows' \in Seq(Events) /\ KnownBatch'
    BY <2>1 DEF IInv, TypeOK, KnownBatch
  <2>3. /\ WindowIsStored' /\ DeliveredSoFar' /\ MarkedOnlyAfterDelivery'
        /\ LockedRows' /\ OneWorkerPerLease'
    BY <2>1 DEF IInv, WindowIsStored, DeliveredSoFar, MarkedOnlyAfterDelivery,
                LockedRows, LockedByOther, OneWorkerPerLease
  <2>4. QED
    BY <2>2, <2>3 DEF IInv
<1>4. QED
  BY <1>1, <1>2, <1>3 DEF Next

\* The inductive invariant holds in every reachable state.
LEMMA InvariantHolds == Spec => []IInv
BY InitInvariant, NextInvariant, PTL DEF Spec

\* Only inserted rows are published, whoever marks them, and a delivery makes at most
\* Attempts webhook calls.
THEOREM TypeCorrect == Spec => []TypeOK
<1>1. IInv => TypeOK
  BY DEF IInv
<1>2. QED
  BY <1>1, InvariantHolds, PTL

(***************************************************************************)
(* A row is marked published only after it is in the stream under its own  *)
(* subject and, where a webhook is configured, at the merchant: for any    *)
(* number of workers that crash, overtake one another after their leases   *)
(* or share JetStream's duplicate window with the dead letters.            *)
(***************************************************************************)
THEOREM MarkedAfterDelivery == Spec => []MarkedOnlyAfterDelivery
<1>1. IInv => MarkedOnlyAfterDelivery
  BY DEF IInv
<1>2. QED
  BY <1>1, InvariantHolds, PTL

\* Overlapping claims, first ones and later ones, never lease a row to two workers at
\* once, for any number of workers and rows.
THEOREM LeaseIsExclusive == Spec => []OneWorkerPerLease
<1>1. IInv => OneWorkerPerLease
  BY DEF IInv
<1>2. QED
  BY <1>1, InvariantHolds, PTL
=============================================================================
