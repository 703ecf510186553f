---------------------------- MODULE RateLimiter ----------------------------
(***************************************************************************)
(* The middleware in front of the merchant routes                          *)
(* (internal/httpapi/security.go): the API key names the merchant, and the *)
(* merchant's requests are limited per window of time, by a list of recent *)
(* hits behind a mutex or by a counter in Redis.                           *)
(*                                                                         *)
(* With Redis a request is two commands, INCR and, for the first of a      *)
(* window, EXPIRE.  The second may fail or never be sent, and the answer   *)
(* to the first may get lost after Redis has counted.                      *)
(*                                                                         *)
(* Time advances in ticks, Window of them in a window; instead of points   *)
(* in time the model keeps ages and the time a counter has left.           *)
(***************************************************************************)
EXTENDS Integers, FiniteSets, Functions

CONSTANTS
  Merchants,
  MerchantOf,  \* MerchantOf[k] = the merchant of API key k
  Handlers,    \* requests that are being handled at the same time
  None,        \* no merchant
  Limit,       \* requests per window
  Window       \* length of a window

ASSUME LimiterAssumption ==
  /\ None \notin Merchants
  /\ MerchantOf \in [DOMAIN MerchantOf -> Merchants]
  /\ Limit \in Nat \ {0}
  /\ Window \in Nat \ {0}

VARIABLES
  backend,   \* the limiter that the process was started with
  hits,      \* memory: hits[m][a] = recorded requests of age a
  count,     \* Redis: count[m] = value of m's counter, 0 if there is no such key
  ttl,       \* Redis: ticks until m's counter expires, 0 if it has no expiry
  pending,   \* pending[h] = the merchant for which h is about to send EXPIRE
  admitted,  \* history: admitted[m][a] = requests of age a that were let through
  lost       \* history: merchants for which a Redis command had no answer

vars == <<backend, hits, count, ttl, pending, admitted, lost>>
-----------------------------------------------------------------------------
\* Ages of hits; the last one stands for everything that has left the window.
Ages == 0 .. Window
InWindow == 0 .. Window - 1
NoHits == [a \in Ages |-> 0]

\* The counter is compared with 1 and with Limit, so that larger values need not
\* be told apart.
CountBound == Limit + 1

Init ==
  /\ backend \in {"memory", "redis"}
  /\ hits = [m \in Merchants |-> NoHits]
  /\ count = [m \in Merchants |-> 0]
  /\ ttl = [m \in Merchants |-> 0]
  /\ pending = [h \in Handlers |-> None]
  /\ admitted = [m \in Merchants |-> NoHits]
  /\ lost = {}

\* A request with any other key is answered 401 and changes nothing.
Authenticate(key) == MerchantOf[key]

Hit(log, m) == [log EXCEPT ![m][0] = @ + 1]

InLast(log, m, ages) == SumFunctionOnSet(log[m], ages)
-----------------------------------------------------------------------------
(***************************************************************************)
(* memoryRateLimiter.Allow: drop what has left the window, then compare.   *)
(***************************************************************************)

\* The window is one tick too short.
FaultyRecent(m) == [a \in Ages |-> IF a < Window - 1 THEN hits[m][a] ELSE 0]

Recent(m) == [a \in Ages |-> IF a < Window THEN hits[m][a] ELSE 0]

AllowMemory(key) ==
  LET m == Authenticate(key)
      recent == [hits EXCEPT ![m] = Recent(m)] IN
  /\ backend = "memory"
  /\ \/ /\ InLast(recent, m, Ages) < Limit
        /\ hits' = Hit(recent, m)
        /\ admitted' = Hit(admitted, m)
     \/ /\ InLast(recent, m, Ages) >= Limit
        /\ hits' = recent
        /\ UNCHANGED admitted
  /\ UNCHANGED <<backend, count, ttl, pending, lost>>
-----------------------------------------------------------------------------
(***************************************************************************)
(* RedisRateLimiter.Allow                                                  *)
(***************************************************************************)

\* INCR answers with the value before the increment.
FaultyFirstOfWindow(n) == n = 0

\* Every request renews the expiry.
RenewingFirstOfWindow(n) == TRUE

FirstOfWindow(n) == n = 1

Increment(m) == [count EXCEPT ![m] = IF @ < CountBound THEN @ + 1 ELSE @]

Incr(h, key) ==
  LET m == Authenticate(key)
      n == count[m] + 1 IN
  /\ backend = "redis"
  /\ pending[h] = None
  /\ count' = Increment(m)
  /\ \/ /\ FirstOfWindow(n)
        /\ pending' = [pending EXCEPT ![h] = m]
        /\ UNCHANGED admitted
     \/ /\ ~FirstOfWindow(n)
        /\ admitted' = IF n <= Limit THEN Hit(admitted, m) ELSE admitted
        /\ UNCHANGED pending
  /\ UNCHANGED <<backend, hits, ttl, lost>>

\* The answer gets lost: 503, or the client library sends INCR again, which is
\* another Incr.
IncrLost(key) ==
  LET m == Authenticate(key) IN
  /\ backend = "redis"
  /\ count' = Increment(m)
  /\ lost' = lost \cup {m}
  /\ UNCHANGED <<backend, hits, ttl, pending, admitted>>

Expire(h) ==
  LET m == pending[h] IN
  /\ m # None
  /\ ttl' = [ttl EXCEPT ![m] = IF count[m] > 0 THEN Window ELSE 0]
  /\ admitted' = Hit(admitted, m)
  /\ pending' = [pending EXCEPT ![h] = None]
  /\ UNCHANGED <<backend, hits, count, lost>>

\* 503, or the process dies; Redis has executed the command or not.
ExpireFails(h) ==
  LET m == pending[h] IN
  /\ m # None
  /\ ttl' \in {ttl, [ttl EXCEPT ![m] = IF count[m] > 0 THEN Window ELSE 0]}
  /\ lost' = lost \cup {m}
  /\ pending' = [pending EXCEPT ![h] = None]
  /\ UNCHANGED <<backend, hits, count, admitted>>
-----------------------------------------------------------------------------
\* Everything gets older, and a counter whose time is over is removed.
Older(log) ==
  [m \in Merchants |-> [a \in Ages |->
     CASE a = 0      -> 0
       [] a = Window -> log[m][Window - 1] + log[m][Window]
       [] OTHER      -> log[m][a - 1]]]

\* The history forgets what has left the window.
Forget(log) == [m \in Merchants |-> [log[m] EXCEPT ![Window] = 0]]

Tick ==
  /\ hits' = Older(hits)
  /\ admitted' = Forget(Older(admitted))
  /\ count' = [m \in Merchants |-> IF ttl[m] = 1 THEN 0 ELSE count[m]]
  /\ ttl' = [m \in Merchants |-> IF ttl[m] > 0 THEN ttl[m] - 1 ELSE 0]
  /\ UNCHANGED <<backend, pending, lost>>

Next ==
  \/ \E key \in DOMAIN MerchantOf :
       \/ AllowMemory(key)
       \/ IncrLost(key)
       \/ \E h \in Handlers : Incr(h, key)
  \/ \E h \in Handlers : Expire(h) \/ ExpireFails(h)
  \/ Tick

\* Time passes, and a handler that has sent INCR sends EXPIRE unless it fails;
\* nothing forces requests to arrive.
Fairness ==
  /\ WF_vars(Tick)
  /\ \A h \in Handlers : WF_vars(Expire(h) \/ ExpireFails(h))

Spec == Init /\ [][Next]_vars /\ Fairness
-----------------------------------------------------------------------------
(***************************************************************************)
(* Properties                                                              *)
(***************************************************************************)
(***************************************************************************)
(* However requests of one merchant fall together, those let through in    *)
(* any stretch of time as long as a window are bounded: by Limit for the   *)
(* list in memory, whose window moves with every request, and by one less  *)
(* than twice Limit for Redis, where a window may start after the first    *)
(* request of one counter and reach into the next counter, but no further  *)
(* (times are those of the Redis commands).                                *)
(***************************************************************************)
AdmissionsBounded ==
  \A m \in Merchants :
    InLast(admitted, m, InWindow) <= IF backend = "memory" THEN Limit ELSE 2 * Limit - 1

(***************************************************************************)
(* A counter in Redis has an expiry or a handler that is about to set it,  *)
(* unless an answer of Redis was lost: racing requests alone never leave a *)
(* counter that stays for ever.                                            *)
(***************************************************************************)
OrphanOnlyByFault ==
  \A m \in Merchants :
    count[m] > 0 /\ ttl[m] = 0 => m \in lost \/ \E h \in Handlers : pending[h] = m

(***************************************************************************)
(* A merchant at its limit is served again, however many requests it keeps *)
(* sending, or else its counter has lost its expiry: refused requests do   *)
(* not prolong the window.                                                 *)
(***************************************************************************)
Full(m) == IF backend = "memory" THEN InLast(hits, m, InWindow) >= Limit
                                 ELSE count[m] >= Limit

Orphan(m) == count[m] > 0 /\ ttl[m] = 0 /\ \A h \in Handlers : pending[h] # m

WindowEnds == \A m \in Merchants : Full(m) ~> (~Full(m) \/ Orphan(m))
=============================================================================
