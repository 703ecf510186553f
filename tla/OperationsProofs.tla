-------------------------- MODULE OperationsProofs --------------------------
(***************************************************************************)
(* Proofs about the two parts beside the path of the money: the rate       *)
(* limiter in front of the API and the migration tool.  The two share no   *)
(* state.                                                                  *)
(*                                                                         *)
(* RateLimiter, for any limit, length of the window, number of merchants,  *)
(* keys and handlers: the bounds on the requests that are let through in a *)
(* window (AdmissionsBounded), and that a counter loses its expiry only    *)
(* with an answer of Redis (OrphanOnlyByFault).                            *)
(*                                                                         *)
(* The bound for Redis is not inductive.  What the argument needs is how   *)
(* many admissions a counter accounts for, in total and since its EXPIRE,  *)
(* which is Window - ttl ticks ago: when the counter expires, the request  *)
(* that set the expiry has just left the window (RedisOK).                 *)
(*                                                                         *)
(* Migrate: what the schema and its record have of the files               *)
(* (SchemaIsPrefix), and how they come apart for good (WedgedOnlyByCrash). *)
(***************************************************************************)
EXTENDS RateLimiter, Migrate, DomainTheorems
-----------------------------------------------------------------------------

Types ==
  /\ backend \in {"memory", "redis"}
  /\ hits \in [Merchants -> [Ages -> Nat]]
  /\ count \in [Merchants -> 0 .. CountBound]
  /\ ttl \in [Merchants -> 0 .. Window]
  /\ pending \in [Handlers -> Merchants \cup {None}]
  /\ admitted \in [Merchants -> [Ages -> Nat]]
  /\ lost \subseteq Merchants

\* Requests let through in the current tick and the n - 1 before it.
Admitted(m, n) == InLast(admitted, m, 0 .. n - 1)

\* The part of m's counter that may have let a request through.
Counted(m) == IF count[m] < Limit THEN count[m] ELSE Limit

\* Requests that are counted and not yet answered.
Waiting(m) == IF \E h \in Handlers : pending[h] = m THEN 1 ELSE 0

\* The list in memory is what was let through.
MemoryOK ==
  backend = "memory" =>
    /\ \A h \in Handlers : pending[h] = None
    /\ \A m \in Merchants : /\ \A a \in InWindow : hits[m][a] = admitted[m][a]
                            /\ Admitted(m, Window) <= Limit

\* A handler that is about to send EXPIRE is the only one for its counter.
CountersOK ==
  /\ \A h \in Handlers : pending[h] # None => count[pending[h]] > 0 /\ ttl[pending[h]] = 0
  /\ \A g, h \in Handlers : pending[g] = pending[h] /\ pending[g] # None => g = h
  /\ \A m \in Merchants : ttl[m] > 0 => count[m] > 0

\* f are a merchant's admissions, c what its counter may have let through, w how
\* many of these wait, t the time the counter has left.  An earlier counter leaves
\* at most Limit - 1 admissions in the window, and the current one adds what it has
\* counted; since its EXPIRE there was one admission less than it has counted.
Accounts(f, c, w, t) ==
  /\ SumFunctionOnSet(f, 0 .. Window - 1) <= Limit - 1 + c - w
  /\ t > 0 => SumFunctionOnSet(f, 0 .. (Window - t) - 1) <= c - 1

RedisOK ==
  backend = "redis" =>
    \A m \in Merchants : Accounts(admitted[m], Counted(m), Waiting(m), ttl[m])

IInv == Types /\ MemoryOK /\ CountersOK /\ RedisOK /\ OrphanOnlyByFault
-----------------------------------------------------------------------------
(***************************************************************************)
(* Sums over the youngest ages                                             *)
(***************************************************************************)
\* The ages below n are finitely many, and the oldest of them is n - 1.
LEMMA Youngest ==
  ASSUME NEW n \in Nat
  PROVE  /\ IsFiniteSet(0 .. n - 1)
         /\ n > 0 => n - 1 \in 0 .. n - 1 /\ (0 .. n - 1) \ {n - 1} = 0 .. n - 2
         /\ n = 0 => 0 .. n - 1 = {}
<1>1. IsFiniteSet(0 .. n - 1)
  BY FS_Interval
<1>2. QED
  BY <1>1

\* A sum over the ages below n is the one below n - 1 and the value at n - 1.
LEMMA SumOldest ==
  ASSUME NEW n \in Nat, n > 0, NEW f, \A a \in 0 .. n - 1 : f[a] \in Nat
  PROVE  /\ SumFunctionOnSet(f, 0 .. n - 1) \in Nat
         /\ SumFunctionOnSet(f, 0 .. n - 2) \in Nat
         /\ SumFunctionOnSet(f, 0 .. n - 1) = f[n - 1] + SumFunctionOnSet(f, 0 .. n - 2)
<1>1. /\ IsFiniteSet(0 .. n - 1) /\ IsFiniteSet(0 .. n - 2)
      /\ n - 1 \in 0 .. n - 1 /\ (0 .. n - 1) \ {n - 1} = 0 .. n - 2
  BY Youngest, FS_Interval
<1>2. \A a \in 0 .. n - 2 : f[a] \in Nat
  OBVIOUS
<1>3. /\ SumFunctionOnSet(f, 0 .. n - 1) \in Nat
      /\ SumFunctionOnSet(f, 0 .. n - 2) \in Nat
  BY <1>1, <1>2, SumNat
<1>4. \A a \in 0 .. n - 1 : f[a] \in Int
  OBVIOUS
<1>5. SumFunctionOnSet(f, 0 .. n - 1) =
        f[n - 1] + SumFunctionOnSet(f, (0 .. n - 1) \ {n - 1})
  BY <1>1, <1>4, SumRemove
<1>6. QED
  BY <1>1, <1>3, <1>5

\* When everything gets one tick older, the sum below n + 1 is the former sum
\* below n.
LEMMA SumOlder ==
  ASSUME NEW n \in Nat, NEW f, NEW g, f[0] = 0,
         \A a \in 0 .. n - 1 : g[a] \in Nat /\ f[a + 1] = g[a]
  PROVE  SumFunctionOnSet(f, 0 .. n) = SumFunctionOnSet(g, 0 .. n - 1)
<1> DEFINE Bad == {k \in 0 .. n : SumFunctionOnSet(f, 0 .. k) # SumFunctionOnSet(g, 0 .. k - 1)}
<1> SUFFICES ASSUME Bad # {} PROVE FALSE
  <2>1. n \in 0 .. n
    OBVIOUS
  <2>2. QED
    BY <2>1
<1>0. \A a \in 0 .. n : f[a] \in Nat
  <2> SUFFICES ASSUME NEW a \in 0 .. n PROVE f[a] \in Nat
    OBVIOUS
  <2>1. CASE a = 0
    BY <2>1
  <2>2. CASE a # 0
    <3>1. a - 1 \in 0 .. n - 1 /\ (a - 1) + 1 = a
      BY <2>2
    <3>2. f[(a - 1) + 1] = g[a - 1] /\ g[a - 1] \in Nat
      BY <3>1
    <3>3. QED
      BY <3>1, <3>2
  <2>3. QED
    BY <2>1, <2>2
<1>1. PICK k \in Bad : \A j \in Bad : k <= j
  <2>1. Bad \subseteq Nat
    OBVIOUS
  <2> HIDE DEF Bad
  <2>2. QED
    BY <2>1, LeastNatural
<1>2. k \in 0 .. n /\ SumFunctionOnSet(f, 0 .. k) # SumFunctionOnSet(g, 0 .. k - 1)
  OBVIOUS
<1>3. SumFunctionOnSet(f, 0 .. k) = f[k] + SumFunctionOnSet(f, 0 .. k - 1)
      /\ SumFunctionOnSet(f, 0 .. k - 1) \in Nat
  <2>1. k + 1 \in Nat /\ k + 1 > 0 /\ (k + 1) - 1 = k /\ (k + 1) - 2 = k - 1
    BY <1>2
  <2>2. \A a \in 0 .. (k + 1) - 1 : f[a] \in Nat
    BY <1>0, <1>2
  <2>3. SumFunctionOnSet(f, 0 .. (k + 1) - 1) =
          f[(k + 1) - 1] + SumFunctionOnSet(f, 0 .. (k + 1) - 2)
        /\ SumFunctionOnSet(f, 0 .. (k + 1) - 2) \in Nat
    BY <2>1, <2>2, SumOldest
  <2>4. QED
    BY <2>1, <2>3
<1>4. CASE k = 0
  <2>1. 0 .. k - 1 = {}
    BY <1>4
  <2>2. SumFunctionOnSet(f, 0 .. k - 1) = 0 /\ SumFunctionOnSet(g, 0 .. k - 1) = 0
    BY <2>1, SumEmpty
  <2>3. QED
    BY <1>2, <1>3, <1>4, <2>2
<1>5. CASE k # 0
  <2>1. k \in Nat /\ k > 0 /\ k - 1 \in 0 .. n - 1 /\ k - 1 \in 0 .. n /\ (k - 1) - 1 = k - 2
        /\ ~(k <= k - 1) /\ (k - 1) + 1 = k
    BY <1>2, <1>5
  <2>2. k - 1 \notin Bad
    BY <1>1, <2>1
  <2>3. SumFunctionOnSet(f, 0 .. k - 1) = SumFunctionOnSet(g, 0 .. k - 2)
    BY <2>1, <2>2
  <2>4. \A a \in 0 .. k - 1 : g[a] \in Nat
    BY <1>2
  <2>5. SumFunctionOnSet(g, 0 .. k - 1) = g[k - 1] + SumFunctionOnSet(g, 0 .. k - 2)
    BY <2>1, <2>4, SumOldest
  <2>6. f[k] = g[k - 1]
    <3>1. f[(k - 1) + 1] = g[k - 1]
      BY <2>1
    <3>2. QED
      BY <2>1, <3>1
  <2>7. QED
    BY <1>2, <1>3, <2>3, <2>5, <2>6
<1>6. QED
  BY <1>4, <1>5

\* A request that is let through now counts once in every stretch of time that
\* ends now.
LEMMA SumHit ==
  ASSUME NEW n \in Nat, n > 0, NEW f, NEW g,
         \A a \in 0 .. n - 1 : f[a] \in Nat /\ g[a] = IF a = 0 THEN f[0] + 1 ELSE f[a]
  PROVE  SumFunctionOnSet(g, 0 .. n - 1) = SumFunctionOnSet(f, 0 .. n - 1) + 1
<1> DEFINE R == (0 .. n - 1) \ {0}
<1>1. IsFiniteSet(0 .. n - 1) /\ 0 \in 0 .. n - 1
  BY Youngest
<1>2. IsFiniteSet(R) /\ \A a \in R : f[a] = g[a] /\ f[a] \in Int
  <2>1. IsFiniteSet(R)
    BY <1>1, FS_Subset
  <2>2. QED
    BY <2>1
<1>3. \A a \in 0 .. n - 1 : f[a] \in Int /\ g[a] \in Int
  OBVIOUS
<1>4. SumFunctionOnSet(f, 0 .. n - 1) = f[0] + SumFunctionOnSet(f, R)
  BY <1>1, <1>3, SumRemove
<1>5. SumFunctionOnSet(g, 0 .. n - 1) = g[0] + SumFunctionOnSet(g, R)
  BY <1>1, <1>3, SumRemove
<1> HIDE DEF R
<1>6. SumFunctionOnSet(f, R) = SumFunctionOnSet(g, R) /\ SumFunctionOnSet(f, R) \in Int
  BY <1>2, SumEqual, SumInt
<1>7. g[0] = f[0] + 1 /\ f[0] \in Int
  BY <1>1
<1>8. QED
  BY <1>4, <1>5, <1>6, <1>7
-----------------------------------------------------------------------------
(***************************************************************************)
(* What the steps do to the requests let through                           *)
(***************************************************************************)
\* The length of the window, the limit and the ages of the youngest requests.
LEMMA Constants ==
  /\ Window \in Nat /\ Window > 0 /\ Limit \in Nat /\ Limit > 0
  /\ CountBound = Limit + 1 /\ InWindow = 0 .. Window - 1
  /\ Ages = 0 .. Window /\ InWindow \subseteq Ages /\ 0 \in Ages
  /\ None \notin Merchants
  /\ \A key \in DOMAIN MerchantOf : Authenticate(key) \in Merchants
BY LimiterAssumption DEF CountBound, InWindow, Ages, Authenticate

\* f becomes g when a request is let through.
OneMore(f, g) == \A a \in Ages : g[a] = IF a = 0 THEN f[0] + 1 ELSE f[a]

\* f becomes g in a tick.
Aged(f, g) == \A a \in Ages : g[a] = IF a = 0 \/ a = Window THEN 0 ELSE f[a - 1]

\* Admissions are natural numbers, and there are none in no time.
LEMMA AdmittedNat ==
  ASSUME Types, NEW m \in Merchants, NEW n \in 0 .. Window
  PROVE  Admitted(m, n) \in Nat /\ (n = 0 => Admitted(m, n) = 0)
<1>1. IsFiniteSet(0 .. n - 1) /\ (n = 0 => 0 .. n - 1 = {})
  BY Constants, Youngest
<1>2. \A a \in 0 .. n - 1 : admitted[m][a] \in Nat
  BY Constants DEF Types
<1>3. SumFunctionOnSet(admitted[m], 0 .. n - 1) \in Nat
  BY <1>1, <1>2, SumNat
<1>4. n = 0 => SumFunctionOnSet(admitted[m], 0 .. n - 1) = 0
  BY <1>1, SumEmpty
<1>5. QED
  BY <1>3, <1>4 DEF Admitted, InLast

\* A step that lets a request of m through adds it to the admissions of m.
LEMMA AdmittedHit ==
  ASSUME Types, NEW m \in Merchants, admitted' = Hit(admitted, m)
  PROVE  /\ admitted' \in [Merchants -> [Ages -> Nat]]
         /\ OneMore(admitted[m], admitted'[m])
         /\ \A n \in 1 .. Window : Admitted(m, n)' = Admitted(m, n) + 1
         /\ \A x \in Merchants \ {m} : /\ admitted'[x] = admitted[x]
                                       /\ \A n \in 0 .. Window : Admitted(x, n)' = Admitted(x, n)
<1>1. admitted \in [Merchants -> [Ages -> Nat]]
  BY DEF Types
<1>2. admitted' = [admitted EXCEPT ![m] = [admitted[m] EXCEPT ![0] = admitted[m][0] + 1]]
  BY <1>1 DEF Hit
<1>3. /\ admitted' \in [Merchants -> [Ages -> Nat]]
      /\ \A a \in Ages : admitted'[m][a] = IF a = 0 THEN admitted[m][0] + 1 ELSE admitted[m][a]
      /\ \A x \in Merchants \ {m} : admitted'[x] = admitted[x]
  BY <1>1, <1>2, Constants
<1>4. ASSUME NEW n \in 1 .. Window PROVE Admitted(m, n)' = Admitted(m, n) + 1
  <2>1. n \in Nat /\ n > 0
    BY Constants
  <2>2. \A a \in 0 .. n - 1 : /\ admitted[m][a] \in Nat
                              /\ admitted'[m][a] = IF a = 0 THEN admitted[m][0] + 1 ELSE admitted[m][a]
    BY <1>1, <1>3, Constants
  <2>3. SumFunctionOnSet(admitted'[m], 0 .. n - 1) = SumFunctionOnSet(admitted[m], 0 .. n - 1) + 1
    BY <2>1, <2>2, SumHit
  <2>4. QED
    BY <2>3 DEF Admitted, InLast
<1>5. ASSUME NEW x \in Merchants \ {m}, NEW n \in 0 .. Window
      PROVE  Admitted(x, n)' = Admitted(x, n)
  BY <1>3 DEF Admitted, InLast
<1>6. QED
  BY <1>3, <1>4, <1>5 DEF OneMore

\* A tick shifts the admissions by one; the oldest leave the window.
LEMMA AgedSums ==
  ASSUME NEW f \in [Ages -> Nat], NEW g, Aged(f, g)
  PROVE  /\ \A n \in 0 .. Window - 1 :
              SumFunctionOnSet(g, 0 .. n) = SumFunctionOnSet(f, 0 .. n - 1)
         /\ SumFunctionOnSet(g, 0 .. Window - 1) <= SumFunctionOnSet(f, 0 .. Window - 1)
         /\ SumFunctionOnSet(g, 0 .. Window - 1) = SumFunctionOnSet(f, 0 .. (Window - 1) - 1)
         /\ SumFunctionOnSet(g, 0 .. Window - 1) \in Nat
         /\ SumFunctionOnSet(f, 0 .. Window - 1) \in Nat
<1>1. ASSUME NEW n \in 0 .. Window - 1
      PROVE  SumFunctionOnSet(g, 0 .. n) = SumFunctionOnSet(f, 0 .. n - 1)
  <2>1. n \in Nat /\ g[0] = 0
    BY Constants DEF Aged
  <2>2. ASSUME NEW a \in 0 .. n - 1 PROVE f[a] \in Nat /\ g[a + 1] = f[a]
    <3>1. a \in Ages /\ a + 1 \in Ages /\ a + 1 # 0 /\ a + 1 # Window /\ (a + 1) - 1 = a
      BY Constants
    <3>2. g[a + 1] = f[(a + 1) - 1]
      BY <3>1 DEF Aged
    <3>3. QED
      BY <3>1, <3>2
  <2>3. QED
    BY <2>1, <2>2, SumOlder
<1>2. SumFunctionOnSet(g, 0 .. Window - 1) = SumFunctionOnSet(f, 0 .. (Window - 1) - 1)
  <2>1. Window - 1 \in 0 .. Window - 1
    BY Constants
  <2>2. QED
    BY <1>1, <2>1
<1>3. /\ SumFunctionOnSet(f, 0 .. (Window - 1) - 1) <= SumFunctionOnSet(f, 0 .. Window - 1)
      /\ SumFunctionOnSet(f, 0 .. (Window - 1) - 1) \in Nat
      /\ SumFunctionOnSet(f, 0 .. Window - 1) \in Nat
  <2>1. \A a \in 0 .. Window - 1 : f[a] \in Nat
    BY Constants
  <2>2. /\ SumFunctionOnSet(f, 0 .. Window - 1) = f[Window - 1] + SumFunctionOnSet(f, 0 .. Window - 2)
        /\ SumFunctionOnSet(f, 0 .. Window - 2) \in Nat
    BY <2>1, SumOldest, Constants
  <2>3. f[Window - 1] \in Nat /\ (Window - 1) - 1 = Window - 2
    BY <2>1, Constants
  <2>4. QED
    BY <2>2, <2>3
<1>4. QED
  BY <1>1, <1>2, <1>3

\* A tick makes the admissions of every merchant older.
LEMMA AdmittedTick ==
  ASSUME Types, NEW m \in Merchants, admitted' = Forget(Older(admitted))
  PROVE  Aged(admitted[m], admitted'[m]) /\ Admitted(m, Window)' <= Admitted(m, Window)
<1>1. admitted \in [Merchants -> [Ages -> Nat]]
  BY DEF Types
<1>2. \A a \in Ages : Older(admitted)[m][a] = CASE a = 0 -> 0
                        [] a = Window -> admitted[m][Window - 1] + admitted[m][Window]
                        [] OTHER -> admitted[m][a - 1]
  BY DEF Older
<1>3. Older(admitted)[m] = [a \in Ages |-> Older(admitted)[m][a]]
  BY DEF Older
<1>4. Forget(Older(admitted))[m] = [Older(admitted)[m] EXCEPT ![Window] = 0]
  BY DEF Forget
<1>5. Aged(admitted[m], admitted'[m])
  BY <1>2, <1>3, <1>4, Constants DEF Aged
<1>6. QED
  BY <1>1, <1>5, AgedSums DEF Admitted, InLast
-----------------------------------------------------------------------------
(***************************************************************************)
(* The invariant is inductive                                              *)
(***************************************************************************)
\* Nothing has been counted or let through at the start.
LEMMA InitInv == Init => IInv
<1> SUFFICES ASSUME Init PROVE IInv
  OBVIOUS
<1>1. Types
  BY Constants DEF Init, Types, NoHits
<1>2. ASSUME NEW m \in Merchants PROVE Admitted(m, Window) = 0
  <2>1. IsFiniteSet(0 .. Window - 1)
    BY Constants, Youngest
  <2>2. \A a \in 0 .. Window - 1 : admitted[m][a] = 0
    BY Constants DEF Init, NoHits
  <2>3. QED
    BY <2>1, <2>2, SumZero DEF Admitted, InLast
<1>3. MemoryOK
  <2>1. \A m \in Merchants : \A a \in InWindow : hits[m][a] = admitted[m][a]
    BY DEF Init
  <2>2. QED
    BY <1>2, <2>1, Constants DEF MemoryOK, Init
<1>4. CountersOK
  BY DEF CountersOK, Init
<1>5. RedisOK
  <2>1. \A m \in Merchants : Waiting(m) = 0 /\ Counted(m) = 0 /\ ttl[m] = 0
    BY Constants DEF Init, Waiting, Counted
  <2>2. QED
    BY <1>2, <2>1, Constants DEF RedisOK, Accounts, Admitted, InLast
<1>6. OrphanOnlyByFault
  BY DEF OrphanOnlyByFault, Init
<1>7. QED
  BY <1>1, <1>3, <1>4, <1>5, <1>6 DEF IInv

\* The counters and the requests that wait do not change.
LEMMA SameCounters ==
  ASSUME IInv, UNCHANGED <<count, ttl, pending, lost>>
  PROVE  CountersOK' /\ OrphanOnlyByFault'
         /\ \A m \in Merchants : Counted(m)' = Counted(m) /\ Waiting(m)' = Waiting(m)
BY DEF IInv, CountersOK, OrphanOnlyByFault, Counted, Waiting

\* A limiter that looks at its list finds what it let through in the last window.
LEMMA RecentSum ==
  ASSUME IInv, backend = "memory", NEW m \in Merchants, NEW r, r = Recent(m)
  PROVE  /\ r \in [Ages -> Nat]
         /\ \A a \in InWindow : r[a] = admitted[m][a]
         /\ SumFunctionOnSet(r, Ages) = Admitted(m, Window)
<1>1. Types /\ MemoryOK
  BY DEF IInv
<1>2. r \in [Ages -> Nat] /\ r[Window] = 0 /\ \A a \in InWindow : r[a] = hits[m][a]
  <2>1. hits[m] \in [Ages -> Nat]
    BY <1>1 DEF Types
  <2>2. r = [a \in Ages |-> IF a < Window THEN hits[m][a] ELSE 0]
    BY DEF Recent
  <2>3. QED
    BY <2>1, <2>2, Constants
<1>3. \A a \in InWindow : r[a] = admitted[m][a]
  BY <1>1, <1>2 DEF MemoryOK
<1>4. SumFunctionOnSet(r, Ages) = r[Window] + SumFunctionOnSet(r, 0 .. Window - 1)
  <2>1. Window + 1 \in Nat /\ Window + 1 > 0 /\ (Window + 1) - 1 = Window
        /\ (Window + 1) - 2 = Window - 1
    BY Constants
  <2>2. \A a \in 0 .. (Window + 1) - 1 : r[a] \in Nat
    BY <1>2, <2>1, Constants
  <2>3. SumFunctionOnSet(r, 0 .. (Window + 1) - 1) =
          r[(Window + 1) - 1] + SumFunctionOnSet(r, 0 .. (Window + 1) - 2)
    BY <2>1, <2>2, SumOldest
  <2>4. QED
    BY <2>1, <2>3, Constants
<1>5. SumFunctionOnSet(r, 0 .. Window - 1) = SumFunctionOnSet(admitted[m], 0 .. Window - 1)
  <2>1. IsFiniteSet(0 .. Window - 1)
    BY Constants, Youngest
  <2>2. \A a \in 0 .. Window - 1 : r[a] = admitted[m][a] /\ r[a] \in Int
    BY <1>2, <1>3, Constants
  <2>3. QED
    BY <2>1, <2>2, SumEqual
<1>6. SumFunctionOnSet(r, Ages) = Admitted(m, Window)
  <2>1. Window \in 0 .. Window
    BY Constants
  <2>2. Admitted(m, Window) \in Nat
    BY <1>1, <2>1, AdmittedNat
  <2>3. QED
    BY <1>2, <1>4, <1>5, <2>2 DEF Admitted, InLast
<1>7. QED
  BY <1>2, <1>3, <1>6

\* The list in memory lets a request through only below the limit.
LEMMA AllowMemoryInv ==
  ASSUME IInv, NEW key \in DOMAIN MerchantOf, AllowMemory(key)
  PROVE  IInv'
<1> DEFINE m == Authenticate(key)
           recent == [hits EXCEPT ![m] = Recent(m)]
<1>1. /\ m \in Merchants /\ backend = "memory" /\ backend' = "memory"
      /\ UNCHANGED <<count, ttl, pending, lost>> /\ Types /\ MemoryOK
  BY Constants DEF AllowMemory, IInv
<1>2. /\ Recent(m) \in [Ages -> Nat]
      /\ \A a \in InWindow : Recent(m)[a] = admitted[m][a]
      /\ SumFunctionOnSet(Recent(m), Ages) = Admitted(m, Window)
  <2> HIDE DEF m
  <2>1. QED
    BY <1>1, RecentSum
<1>3. /\ recent \in [Merchants -> [Ages -> Nat]] /\ recent[m] = Recent(m)
      /\ \A x \in Merchants \ {m} : recent[x] = hits[x]
  BY <1>1, <1>2 DEF Types
<1>4. \/ /\ Admitted(m, Window) < Limit
         /\ hits' = Hit(recent, m) /\ admitted' = Hit(admitted, m)
      \/ hits' = recent /\ admitted' = admitted
  <2>1. InLast(recent, m, Ages) = Admitted(m, Window)
    BY <1>2, <1>3 DEF InLast
  <2>2. QED
    BY <2>1 DEF AllowMemory
<1> HIDE DEF m, recent
<1>5. CountersOK' /\ OrphanOnlyByFault'
  BY <1>1, SameCounters
<1>6. RedisOK'
  BY <1>1 DEF RedisOK
<1>7. \A x \in Merchants : \A a \in InWindow : recent[x][a] = admitted[x][a]
  BY <1>1, <1>2, <1>3 DEF MemoryOK
<1>8. Window \in 0 .. Window /\ Window \in 1 .. Window
  BY Constants
<1>9. \A x \in Merchants : Admitted(x, Window) \in Nat /\ Admitted(x, Window) <= Limit
  BY <1>1, <1>8, AdmittedNat DEF MemoryOK
<1>10. CASE hits' = recent /\ admitted' = admitted
  <2>1. Types'
    BY <1>1, <1>3, <1>10 DEF Types
  <2>2. MemoryOK'
    BY <1>1, <1>7, <1>9, <1>10 DEF MemoryOK, Admitted, InLast
  <2>3. QED
    BY <1>5, <1>6, <2>1, <2>2 DEF IInv
<1>11. CASE /\ Admitted(m, Window) < Limit
            /\ hits' = Hit(recent, m) /\ admitted' = Hit(admitted, m)
  <2>1. hits' = [recent EXCEPT ![m] = [recent[m] EXCEPT ![0] = recent[m][0] + 1]]
    BY <1>3, <1>11 DEF Hit
  <2>2. /\ hits' \in [Merchants -> [Ages -> Nat]]
        /\ \A a \in Ages : hits'[m][a] = IF a = 0 THEN recent[m][0] + 1 ELSE recent[m][a]
        /\ \A x \in Merchants \ {m} : hits'[x] = recent[x]
    BY <1>1, <1>3, <2>1, Constants
  <2>3. /\ admitted' \in [Merchants -> [Ages -> Nat]]
        /\ OneMore(admitted[m], admitted'[m])
        /\ Admitted(m, Window)' = Admitted(m, Window) + 1
        /\ \A x \in Merchants \ {m} : /\ admitted'[x] = admitted[x]
                                      /\ Admitted(x, Window)' = Admitted(x, Window)
    BY <1>1, <1>8, <1>11, AdmittedHit
  <2>4. Types'
    BY <1>1, <2>2, <2>3 DEF Types
  <2>5. ASSUME NEW x \in Merchants, NEW a \in InWindow PROVE hits'[x][a] = admitted'[x][a]
    <3>1. a \in Ages /\ 0 \in InWindow
      BY Constants
    <3>2. CASE x = m
      BY <1>7, <2>2, <2>3, <3>1, <3>2 DEF OneMore
    <3>3. CASE x # m
      BY <1>7, <2>2, <2>3, <3>1, <3>3
    <3>4. QED
      BY <3>2, <3>3
  <2>6. ASSUME NEW x \in Merchants PROVE Admitted(x, Window)' <= Limit
    <3>1. CASE x = m
      BY <1>9, <1>11, <2>3, <3>1, Constants
    <3>2. CASE x # m
      BY <1>9, <2>3, <3>2
    <3>3. QED
      BY <3>1, <3>2
  <2>7. MemoryOK'
    BY <1>1, <2>5, <2>6 DEF MemoryOK
  <2>8. QED
    BY <1>5, <1>6, <2>4, <2>7 DEF IInv
<1>12. QED
  BY <1>4, <1>10, <1>11
-----------------------------------------------------------------------------
(***************************************************************************)
(* The account of a counter                                                *)
(***************************************************************************)
\* The sums in an account are natural numbers.
LEMMA AccountSums ==
  ASSUME NEW f \in [Ages -> Nat], NEW n \in 0 .. Window
  PROVE  /\ SumFunctionOnSet(f, 0 .. n - 1) \in Nat
         /\ n = 0 => SumFunctionOnSet(f, 0 .. n - 1) = 0
<1>1. n \in Nat
  BY Constants
<1>2. IsFiniteSet(0 .. n - 1) /\ (n = 0 => 0 .. n - 1 = {})
  BY <1>1, Youngest
<1>3. \A a \in 0 .. n - 1 : f[a] \in Nat
  BY Constants
<1>4. SumFunctionOnSet(f, 0 .. n - 1) \in Nat
  BY <1>2, <1>3, SumNat
<1>5. ASSUME n = 0 PROVE SumFunctionOnSet(f, 0 .. n - 1) = 0
  BY <1>2, <1>5, SumEmpty
<1>6. QED
  BY <1>4, <1>5

\* Counting without letting a request through keeps the account.
LEMMA AccountCounts ==
  ASSUME NEW f \in [Ages -> Nat], NEW c \in Nat, NEW d \in Nat, c <= d,
         NEW w \in {0, 1}, NEW t \in 0 .. Window, Accounts(f, c, w, t)
  PROVE  Accounts(f, d, w, t)
<1>1. Window \in 0 .. Window /\ Window - t \in 0 .. Window
  BY Constants
<1>2. /\ SumFunctionOnSet(f, 0 .. Window - 1) \in Nat
      /\ SumFunctionOnSet(f, 0 .. (Window - t) - 1) \in Nat
  BY <1>1, AccountSums
<1>3. QED
  BY <1>2, Constants DEF Accounts

\* A request that creates a counter waits.
LEMMA AccountStarts ==
  ASSUME NEW f \in [Ages -> Nat], Accounts(f, 0, 0, 0)
  PROVE  Accounts(f, 1, 1, 0)
<1>1. Window \in 0 .. Window
  BY Constants
<1>2. SumFunctionOnSet(f, 0 .. Window - 1) \in Nat
  BY <1>1, AccountSums
<1>3. QED
  BY <1>2, Constants DEF Accounts

\* A request that is counted and let through keeps the account.
LEMMA AccountHit ==
  ASSUME NEW f \in [Ages -> Nat], NEW g \in [Ages -> Nat], OneMore(f, g),
         NEW c \in Nat, NEW w \in {0, 1}, NEW t \in 0 .. Window, Accounts(f, c, w, t)
  PROVE  Accounts(g, c + 1, w, t)
<1>1. ASSUME NEW n \in 1 .. Window
      PROVE  SumFunctionOnSet(g, 0 .. n - 1) = SumFunctionOnSet(f, 0 .. n - 1) + 1
  <2>1. n \in Nat /\ n > 0
    BY Constants
  <2>2. \A a \in 0 .. n - 1 : f[a] \in Nat /\ g[a] = IF a = 0 THEN f[0] + 1 ELSE f[a]
    BY Constants DEF OneMore
  <2>3. QED
    BY <2>1, <2>2, SumHit
<1>2. /\ Window \in 1 .. Window /\ Window \in 0 .. Window /\ Window - t \in 0 .. Window
      /\ Window - t # 0 => Window - t \in 1 .. Window
  BY Constants
<1>3. /\ SumFunctionOnSet(f, 0 .. Window - 1) \in Nat
      /\ SumFunctionOnSet(f, 0 .. (Window - t) - 1) \in Nat
      /\ Window - t = 0 => SumFunctionOnSet(g, 0 .. (Window - t) - 1) = 0
  BY <1>2, AccountSums
<1>4. SumFunctionOnSet(g, 0 .. Window - 1) = SumFunctionOnSet(f, 0 .. Window - 1) + 1
  BY <1>1, <1>2
<1>5. Window - t # 0 => SumFunctionOnSet(g, 0 .. (Window - t) - 1) =
                          SumFunctionOnSet(f, 0 .. (Window - t) - 1) + 1
  BY <1>1, <1>2
<1>6. SumFunctionOnSet(g, 0 .. Window - 1) <= Limit - 1 + (c + 1) - w
  BY <1>3, <1>4, Constants DEF Accounts
<1>7. ASSUME t > 0 PROVE SumFunctionOnSet(g, 0 .. (Window - t) - 1) <= (c + 1) - 1
  <2>1. SumFunctionOnSet(f, 0 .. (Window - t) - 1) <= c - 1
    BY <1>7 DEF Accounts
  <2>2. QED
    BY <1>3, <1>5, <2>1
<1>8. QED
  BY <1>6, <1>7 DEF Accounts

\* EXPIRE, after which the waiting request is let through (g) or fails (f).
LEMMA AccountExpires ==
  ASSUME NEW f \in [Ages -> Nat], NEW g \in [Ages -> Nat], OneMore(f, g),
         NEW c \in Nat, c > 0, Accounts(f, c, 1, 0)
  PROVE  Accounts(g, c, 0, Window) /\ Accounts(f, c, 0, Window) /\ Accounts(f, c, 0, 0)
<1>1. SumFunctionOnSet(g, 0 .. Window - 1) = SumFunctionOnSet(f, 0 .. Window - 1) + 1
  <2>1. \A a \in 0 .. Window - 1 : f[a] \in Nat /\ g[a] = IF a = 0 THEN f[0] + 1 ELSE f[a]
    BY Constants DEF OneMore
  <2>2. QED
    BY <2>1, SumHit, Constants
<1>2. Window \in 0 .. Window /\ Window - Window \in 0 .. Window /\ Window - Window = 0
  BY Constants
<1>3. /\ SumFunctionOnSet(f, 0 .. Window - 1) \in Nat
      /\ SumFunctionOnSet(f, 0 .. (Window - Window) - 1) = 0
      /\ SumFunctionOnSet(g, 0 .. (Window - Window) - 1) = 0
  BY <1>2, AccountSums
<1>4. QED
  BY <1>1, <1>3, Constants DEF Accounts

\* In a tick the counter gets older with the requests it has let through; when it
\* expires, fewer than Limit of them are left in the window.
LEMMA AccountTick ==
  ASSUME NEW f \in [Ages -> Nat], NEW g \in [Ages -> Nat], Aged(f, g),
         NEW c \in 0 .. Limit, NEW w \in {0, 1}, NEW t \in 0 .. Window, Accounts(f, c, w, t)
  PROVE  /\ t = 0 => Accounts(g, c, w, 0)
         /\ t = 1 => Accounts(g, 0, 0, 0)
         /\ t > 1 => Accounts(g, c, w, t - 1)
<1>1. \A n \in 0 .. Window - 1 : SumFunctionOnSet(g, 0 .. n) = SumFunctionOnSet(f, 0 .. n - 1)
  BY AgedSums
<1>2. SumFunctionOnSet(g, 0 .. Window - 1) = SumFunctionOnSet(f, 0 .. (Window - 1) - 1)
  BY AgedSums
<1>3. /\ SumFunctionOnSet(f, 0 .. (Window - 1) - 1) <= SumFunctionOnSet(f, 0 .. Window - 1)
      /\ SumFunctionOnSet(f, 0 .. (Window - 1) - 1) \in Nat
      /\ SumFunctionOnSet(f, 0 .. Window - 1) \in Nat
  BY <1>2, AgedSums
<1>4. CASE t = 0
  BY <1>2, <1>3, <1>4, Constants DEF Accounts
<1>5. CASE t = 1
  <2>1. SumFunctionOnSet(f, 0 .. (Window - 1) - 1) <= c - 1
    BY <1>5 DEF Accounts
  <2>2. QED
    BY <1>2, <1>3, <1>5, <2>1, Constants DEF Accounts
<1>6. CASE t > 1
  <2>1. Window - t \in 0 .. Window - 1 /\ (Window - (t - 1)) - 1 = Window - t
    BY <1>6, Constants
  <2>2. SumFunctionOnSet(g, 0 .. (Window - (t - 1)) - 1) = SumFunctionOnSet(f, 0 .. (Window - t) - 1)
    BY <1>1, <2>1
  <2>3. SumFunctionOnSet(f, 0 .. (Window - t) - 1) <= c - 1
    BY <1>6, Constants DEF Accounts
  <2>4. SumFunctionOnSet(f, 0 .. Window - 1) <= Limit - 1 + c - w
    BY DEF Accounts
  <2>5. SumFunctionOnSet(g, 0 .. Window - 1) <= Limit - 1 + c - w
    BY <1>2, <1>3, <2>4, Constants
  <2>6. SumFunctionOnSet(g, 0 .. (Window - (t - 1)) - 1) <= c - 1
    BY <2>2, <2>3
  <2>7. Accounts(g, c, w, t - 1)
    BY <2>5, <2>6 DEF Accounts
  <2>8. QED
    BY <1>6, <2>7
<1>7. QED
  BY <1>4, <1>5, <1>6, Constants
-----------------------------------------------------------------------------
(***************************************************************************)
(* The steps with Redis and the passing of time                            *)
(***************************************************************************)
\* What the type invariant says of the counter of one merchant.
LEMMA CounterTypes ==
  ASSUME Types, NEW m \in Merchants
  PROVE  /\ count[m] \in Nat /\ ttl[m] \in 0 .. Window /\ admitted[m] \in [Ages -> Nat]
         /\ Counted(m) \in 0 .. Limit /\ Counted(m) \in Nat /\ Waiting(m) \in {0, 1}
         /\ count[m] > 0 => Counted(m) > 0
         /\ count[m] = 0 => Counted(m) = 0
<1>1. count[m] \in Nat /\ ttl[m] \in 0 .. Window /\ admitted[m] \in [Ages -> Nat]
  BY Constants DEF Types
<1>2. QED
  BY <1>1, Constants DEF Counted, Waiting

\* INCR adds one to what m's counter may have let through, up to the limit.
LEMMA Incremented ==
  ASSUME Types, NEW m \in Merchants, count' = Increment(m)
  PROVE  /\ count' \in [Merchants -> 0 .. CountBound]
         /\ count'[m] > 0 /\ Counted(m)' \in Nat
         /\ count[m] < Limit => Counted(m)' = Counted(m) + 1
         /\ Counted(m) <= Counted(m)'
         /\ \A x \in Merchants \ {m} : count'[x] = count[x] /\ Counted(x)' = Counted(x)
<1>1. count \in [Merchants -> 0 .. CountBound] /\ count[m] \in Nat
  BY Constants DEF Types
<1>2. /\ count' \in [Merchants -> 0 .. CountBound]
      /\ count'[m] = IF count[m] < CountBound THEN count[m] + 1 ELSE count[m]
      /\ \A x \in Merchants \ {m} : count'[x] = count[x]
  BY <1>1, Constants DEF Increment
<1>3. QED
  BY <1>1, <1>2, Constants DEF Counted

\* INCR that creates a counter: its handler is the only one that waits for m.
LEMMA FirstIncrInv ==
  ASSUME IInv, backend = "redis", NEW m \in Merchants, NEW h \in Handlers, pending[h] = None,
         count[m] = 0, count' = Increment(m), pending' = [pending EXCEPT ![h] = m],
         UNCHANGED <<backend, hits, ttl, admitted, lost>>
  PROVE  IInv'
<1>1. Types /\ CountersOK /\ RedisOK /\ OrphanOnlyByFault
  BY DEF IInv
<1>2. /\ count' \in [Merchants -> 0 .. CountBound] /\ count'[m] > 0
      /\ Counted(m) = 0 /\ Counted(m)' = 1
      /\ \A x \in Merchants \ {m} : count'[x] = count[x] /\ Counted(x)' = Counted(x)
  BY <1>1, Incremented, CounterTypes, Constants
<1>3. /\ m # None /\ ttl[m] = 0 /\ \A g \in Handlers : pending[g] # m
  <2>1. ttl[m] \in 0 .. Window
    BY <1>1, CounterTypes
  <2>2. QED
    BY <1>1, <2>1, Constants DEF CountersOK
<1>4. /\ pending' \in [Handlers -> Merchants \cup {None}] /\ pending'[h] = m
      /\ \A g \in Handlers \ {h} : pending'[g] = pending[g]
  BY <1>1 DEF Types
<1>5. Types'
  BY <1>1, <1>2, <1>4 DEF Types
<1>6. MemoryOK'
  BY DEF MemoryOK
<1>7. CountersOK'
  <2>1. ASSUME NEW g \in Handlers, pending'[g] # None
        PROVE  count'[pending'[g]] > 0 /\ ttl'[pending'[g]] = 0
    <3>1. CASE g = h
      BY <1>2, <1>3, <1>4, <3>1
    <3>2. CASE g # h
      <4>1. pending'[g] = pending[g] /\ pending[g] \in Merchants \ {m} /\ pending[g] # None
        BY <1>1, <1>3, <1>4, <2>1, <3>2 DEF Types
      <4>2. QED
        BY <1>1, <1>2, <4>1 DEF CountersOK
    <3>3. QED
      BY <3>1, <3>2
  <2>2. ASSUME NEW f \in Handlers, NEW g \in Handlers,
               pending'[f] = pending'[g], pending'[f] # None
        PROVE  f = g
    BY <1>1, <1>3, <1>4, <2>2 DEF CountersOK
  <2>3. ASSUME NEW x \in Merchants, ttl'[x] > 0 PROVE count'[x] > 0
    BY <1>1, <1>2, <2>3 DEF CountersOK
  <2>4. QED
    BY <2>1, <2>2, <2>3 DEF CountersOK
<1>8. \A x \in Merchants \ {m} :
        (\E g \in Handlers : pending'[g] = x) <=> (\E g \in Handlers : pending[g] = x)
  BY <1>4, Constants
<1>9. RedisOK'
  <2>1. Waiting(m) = 0 /\ Waiting(m)' = 1
    BY <1>3, <1>4 DEF Waiting
  <2>2. ASSUME NEW x \in Merchants PROVE Accounts(admitted[x], Counted(x)', Waiting(x)', ttl[x])
    <3>1. Accounts(admitted[x], Counted(x), Waiting(x), ttl[x]) /\ admitted[x] \in [Ages -> Nat]
      BY <1>1, CounterTypes DEF RedisOK
    <3>2. CASE x = m
      BY <1>2, <1>3, <2>1, <3>1, <3>2, AccountStarts
    <3>3. CASE x # m
      <4>1. Waiting(x)' = Waiting(x)
        BY <1>8, <3>3 DEF Waiting
      <4>2. QED
        BY <1>2, <3>1, <3>3, <4>1
    <3>4. QED
      BY <3>2, <3>3
  <2>3. QED
    BY <2>2 DEF RedisOK
<1>10. OrphanOnlyByFault'
  <2>1. ASSUME NEW x \in Merchants, count'[x] > 0, ttl'[x] = 0
        PROVE  x \in lost' \/ \E g \in Handlers : pending'[g] = x
    <3>1. CASE x = m
      BY <1>4, <3>1
    <3>2. CASE x # m
      BY <1>1, <1>2, <1>8, <2>1, <3>2 DEF OrphanOnlyByFault
    <3>3. QED
      BY <3>1, <3>2
  <2>2. QED
    BY <2>1 DEF OrphanOnlyByFault
<1>11. QED
  BY <1>5, <1>6, <1>7, <1>9, <1>10 DEF IInv

\* INCR of a counter that exists, or whose answer is lost: the request is let
\* through only if it is counted below the limit.
LEMMA NextIncrInv ==
  ASSUME IInv, backend = "redis", NEW m \in Merchants, count' = Increment(m),
         \/ admitted' = admitted
         \/ count[m] < Limit /\ admitted' = Hit(admitted, m),
         \/ count[m] > 0 /\ lost' = lost
         \/ lost' = lost \cup {m},
         UNCHANGED <<backend, hits, ttl, pending>>
  PROVE  IInv'
<1>1. Types /\ CountersOK /\ RedisOK /\ OrphanOnlyByFault
  BY DEF IInv
<1>2. /\ count' \in [Merchants -> 0 .. CountBound]
      /\ count'[m] > 0 /\ Counted(m)' \in Nat
      /\ count[m] < Limit => Counted(m)' = Counted(m) + 1
      /\ Counted(m) <= Counted(m)'
      /\ \A x \in Merchants \ {m} : count'[x] = count[x] /\ Counted(x)' = Counted(x)
  BY <1>1, Incremented
<1>3. \A x \in Merchants : count[x] > 0 => count'[x] > 0
  BY <1>2
<1>4. /\ admitted' \in [Merchants -> [Ages -> Nat]]
      /\ \A x \in Merchants \ {m} : admitted'[x] = admitted[x]
      /\ \/ admitted'[m] = admitted[m]
         \/ count[m] < Limit /\ OneMore(admitted[m], admitted'[m])
  <2>1. CASE admitted' = admitted
    BY <1>1, <2>1 DEF Types
  <2>2. CASE count[m] < Limit /\ admitted' = Hit(admitted, m)
    BY <1>1, <2>2, AdmittedHit
  <2>3. QED
    BY <2>1, <2>2
<1>5. Types'
  BY <1>1, <1>2, <1>4 DEF Types
<1>6. MemoryOK'
  BY DEF MemoryOK
<1>7. CountersOK'
  <2>1. ASSUME NEW g \in Handlers, pending'[g] # None
        PROVE  count'[pending'[g]] > 0 /\ ttl'[pending'[g]] = 0
    <3>1. pending[g] \in Merchants /\ count[pending[g]] > 0 /\ ttl[pending[g]] = 0
      BY <1>1, <2>1 DEF Types, CountersOK
    <3>2. QED
      BY <1>3, <3>1
  <2>2. QED
    BY <1>1, <1>3, <2>1 DEF CountersOK
<1>8. OrphanOnlyByFault'
  <2>1. ASSUME NEW x \in Merchants, count'[x] > 0, ttl'[x] = 0
        PROVE  x \in lost' \/ \E g \in Handlers : pending'[g] = x
    <3>1. CASE x = m
      BY <1>1, <2>1, <3>1 DEF OrphanOnlyByFault
    <3>2. CASE x # m
      <4>1. x \in lost \/ \E g \in Handlers : pending[g] = x
        BY <1>1, <1>2, <2>1, <3>2 DEF OrphanOnlyByFault
      <4>2. QED
        BY <4>1
    <3>3. QED
      BY <3>1, <3>2
  <2>2. QED
    BY <2>1 DEF OrphanOnlyByFault
<1>9. ASSUME NEW x \in Merchants PROVE Accounts(admitted'[x], Counted(x)', Waiting(x), ttl[x])
  <2>1. /\ Accounts(admitted[x], Counted(x), Waiting(x), ttl[x])
        /\ admitted[x] \in [Ages -> Nat] /\ Counted(x) \in Nat /\ Waiting(x) \in {0, 1}
        /\ ttl[x] \in 0 .. Window /\ admitted'[x] \in [Ages -> Nat]
    BY <1>1, <1>4, CounterTypes DEF RedisOK
  <2>2. CASE x # m
    BY <1>2, <1>4, <2>1, <2>2
  <2>3. CASE x = m /\ admitted'[m] = admitted[m]
    BY <1>2, <2>1, <2>3, AccountCounts
  <2>4. CASE x = m /\ count[m] < Limit /\ OneMore(admitted[m], admitted'[m])
    <3>1. Accounts(admitted'[m], Counted(m) + 1, Waiting(m), ttl[m])
      BY <2>1, <2>4, AccountHit
    <3>2. QED
      BY <1>2, <2>4, <3>1
  <2>5. QED
    BY <1>4, <2>2, <2>3, <2>4
<1>10. RedisOK'
  <2>1. \A x \in Merchants : Waiting(x)' = Waiting(x)
    BY DEF Waiting
  <2>2. QED
    BY <1>9, <2>1 DEF RedisOK
<1>11. QED
  BY <1>5, <1>6, <1>7, <1>8, <1>10 DEF IInv

\* The step after INCR: EXPIRE takes effect or not, the request is let through or
\* fails, and nobody else waits for the counter.
LEMMA ExpireInv ==
  ASSUME IInv, NEW h \in Handlers, NEW m, m = pending[h], m # None,
         \/ /\ ttl' = [ttl EXCEPT ![m] = IF count[m] > 0 THEN Window ELSE 0]
            /\ admitted' = Hit(admitted, m) /\ lost' = lost
         \/ /\ ttl' \in {ttl, [ttl EXCEPT ![m] = IF count[m] > 0 THEN Window ELSE 0]}
            /\ admitted' = admitted /\ lost' = lost \cup {m},
         pending' = [pending EXCEPT ![h] = None], UNCHANGED <<backend, hits, count>>
  PROVE  IInv'
<1>1. Types /\ CountersOK /\ RedisOK /\ OrphanOnlyByFault /\ MemoryOK
  BY DEF IInv
<1>2. /\ m \in Merchants /\ count[m] > 0 /\ ttl[m] = 0 /\ backend = "redis"
      /\ \A g \in Handlers \ {h} : pending[g] # m
  BY <1>1 DEF Types, CountersOK, MemoryOK
<1>3. /\ ttl' \in [Merchants -> 0 .. Window]
      /\ \A x \in Merchants \ {m} : ttl'[x] = ttl[x]
      /\ \/ ttl'[m] = Window /\ admitted' = Hit(admitted, m) /\ lost' = lost
         \/ ttl'[m] \in {0, Window} /\ admitted' = admitted /\ lost' = lost \cup {m}
  <2>1. ttl' = ttl \/ ttl' = [ttl EXCEPT ![m] = Window]
    BY <1>2
  <2>2. ttl \in [Merchants -> 0 .. Window] /\ Window \in 0 .. Window
    BY <1>1, Constants DEF Types
  <2>3. QED
    BY <1>2, <2>1, <2>2
<1>4. /\ pending' \in [Handlers -> Merchants \cup {None}] /\ pending'[h] = None
      /\ \A g \in Handlers \ {h} : pending'[g] = pending[g] /\ pending'[g] # m
  BY <1>1, <1>2 DEF Types
<1>5. /\ admitted' \in [Merchants -> [Ages -> Nat]]
      /\ \A x \in Merchants \ {m} : admitted'[x] = admitted[x]
      /\ \/ ttl'[m] = Window /\ OneMore(admitted[m], admitted'[m])
         \/ ttl'[m] \in {0, Window} /\ admitted'[m] = admitted[m]
  <2>1. CASE ttl'[m] = Window /\ admitted' = Hit(admitted, m) /\ lost' = lost
    BY <1>1, <1>2, <2>1, AdmittedHit
  <2>2. CASE ttl'[m] \in {0, Window} /\ admitted' = admitted /\ lost' = lost \cup {m}
    BY <1>1, <2>2 DEF Types
  <2>3. QED
    BY <1>3, <2>1, <2>2
<1>6. Types'
  BY <1>1, <1>2, <1>3, <1>4, <1>5 DEF Types
<1>7. MemoryOK'
  BY <1>2 DEF MemoryOK
<1>8. CountersOK'
  <2>1. ASSUME NEW g \in Handlers, pending'[g] # None
        PROVE  count'[pending'[g]] > 0 /\ ttl'[pending'[g]] = 0
    <3>1. g # h /\ pending'[g] = pending[g] /\ pending[g] \in Merchants \ {m} /\ pending[g] # None
      BY <1>1, <1>4, <2>1 DEF Types
    <3>2. QED
      BY <1>1, <1>3, <3>1 DEF CountersOK
  <2>2. ASSUME NEW f \in Handlers, NEW g \in Handlers,
               pending'[f] = pending'[g], pending'[f] # None
        PROVE  f = g
    BY <1>1, <1>4, <2>2 DEF CountersOK
  <2>3. ASSUME NEW x \in Merchants, ttl'[x] > 0 PROVE count'[x] > 0
    BY <1>1, <1>2, <1>3, <2>3 DEF CountersOK
  <2>4. QED
    BY <2>1, <2>2, <2>3 DEF CountersOK
<1>9. OrphanOnlyByFault'
  <2>1. ASSUME NEW x \in Merchants, count'[x] > 0, ttl'[x] = 0
        PROVE  x \in lost' \/ \E g \in Handlers : pending'[g] = x
    <3>1. CASE x = m
      BY <1>3, <2>1, <3>1, Constants
    <3>2. CASE x # m
      <4>1. x \in lost \/ \E g \in Handlers \ {h} : pending[g] = x
        BY <1>1, <1>3, <2>1, <3>2 DEF OrphanOnlyByFault
      <4>2. QED
        BY <1>3, <1>4, <4>1
    <3>3. QED
      BY <3>1, <3>2
  <2>2. QED
    BY <2>1 DEF OrphanOnlyByFault
<1>10. Waiting(m) = 1 /\ Waiting(m)' = 0
  BY <1>2, <1>4 DEF Waiting
<1>11. ASSUME NEW x \in Merchants PROVE Accounts(admitted'[x], Counted(x)', Waiting(x)', ttl'[x])
  <2>1. /\ Accounts(admitted[x], Counted(x), Waiting(x), ttl[x])
        /\ admitted[x] \in [Ages -> Nat] /\ Counted(x) \in Nat /\ admitted'[x] \in [Ages -> Nat]
        /\ count[x] > 0 => Counted(x) > 0
    BY <1>1, <1>2, <1>5, CounterTypes DEF RedisOK
  <2>2. Counted(x)' = Counted(x)
    BY DEF Counted
  <2>3. CASE x # m
    <3>1. Waiting(x)' = Waiting(x)
      <4>1. (\E g \in Handlers : pending'[g] = x) <=> (\E g \in Handlers : pending[g] = x)
        BY <1>4, <2>3, Constants
      <4>2. QED
        BY <4>1 DEF Waiting
    <3>2. QED
      BY <1>3, <1>5, <2>1, <2>2, <2>3, <3>1
  <2>4. CASE x = m /\ ttl'[m] = Window /\ OneMore(admitted[m], admitted'[m])
    <3>1. Accounts(admitted[m], Counted(m), 1, 0) /\ Counted(m) > 0
      BY <1>2, <1>10, <2>1, <2>4
    <3>2. Accounts(admitted'[m], Counted(m), 0, Window)
      BY <2>1, <2>4, <3>1, AccountExpires
    <3>3. QED
      BY <1>10, <2>2, <2>4, <3>2
  <2>5. CASE x = m /\ ttl'[m] \in {0, Window} /\ admitted'[m] = admitted[m]
    <3>1. Accounts(admitted[m], Counted(m), 1, 0) /\ Counted(m) > 0
      BY <1>2, <1>10, <2>1, <2>5
    <3> DEFINE g == [admitted[m] EXCEPT ![0] = admitted[m][0] + 1]
    <3>2. g \in [Ages -> Nat] /\ OneMore(admitted[m], g)
      <4>1. admitted[m] \in [Ages -> Nat] /\ 0 \in Ages
        BY <2>1, <2>5, Constants
      <4>2. QED
        BY <4>1 DEF OneMore
    <3> HIDE DEF g
    <3>3. Accounts(admitted[m], Counted(m), 0, Window) /\ Accounts(admitted[m], Counted(m), 0, 0)
      BY <2>1, <2>5, <3>1, <3>2, AccountExpires
    <3>4. QED
      BY <1>10, <2>2, <2>5, <3>3
  <2>6. QED
    BY <1>5, <2>3, <2>4, <2>5
<1>12. RedisOK'
  BY <1>11 DEF RedisOK
<1>13. QED
  BY <1>6, <1>7, <1>8, <1>9, <1>12 DEF IInv

\* Time passes: admissions get older, and a counter that expires leaves fewer than
\* Limit of them in the window.
LEMMA TickInv ==
  ASSUME IInv, Tick
  PROVE  IInv'
<1>1. Types /\ CountersOK /\ RedisOK /\ OrphanOnlyByFault /\ MemoryOK
  BY DEF IInv
<1>2. /\ hits' = Older(hits) /\ admitted' = Forget(Older(admitted))
      /\ count' = [x \in Merchants |-> IF ttl[x] = 1 THEN 0 ELSE count[x]]
      /\ ttl' = [x \in Merchants |-> IF ttl[x] > 0 THEN ttl[x] - 1 ELSE 0]
      /\ UNCHANGED <<backend, pending, lost>>
  BY DEF Tick
<1>3. \A x \in Merchants : /\ Aged(admitted[x], admitted'[x])
                           /\ Admitted(x, Window)' <= Admitted(x, Window)
  BY <1>1, <1>2, AdmittedTick
<1>4. hits' \in [Merchants -> [Ages -> Nat]] /\ Older(admitted) \in [Merchants -> [Ages -> Nat]]
  <2>1. ASSUME NEW log \in [Merchants -> [Ages -> Nat]], NEW x \in Merchants, NEW a \in Ages
        PROVE  (CASE a = 0      -> 0
                  [] a = Window -> log[x][Window - 1] + log[x][Window]
                  [] OTHER      -> log[x][a - 1]) \in Nat
    <3>1. a \in Nat /\ a <= Window /\ Window - 1 \in Ages /\ Window \in Ages
          /\ (a # 0 => a - 1 \in Ages)
      BY Constants
    <3>2. log[x][Window - 1] \in Nat /\ log[x][Window] \in Nat
      BY <3>1
    <3>3. CASE a = 0
      BY <3>3, Constants
    <3>4. CASE a # 0 /\ a = Window
      BY <3>2, <3>4
    <3>5. CASE a # 0 /\ a # Window
      <4>1. log[x][a - 1] \in Nat
        BY <3>1, <3>5
      <4>2. QED
        BY <3>5, <4>1
    <3>6. QED
      BY <3>3, <3>4, <3>5
  <2>2. \A log \in [Merchants -> [Ages -> Nat]] : Older(log) \in [Merchants -> [Ages -> Nat]]
    BY <2>1 DEF Older
  <2>3. QED
    BY <1>1, <1>2, <2>2 DEF Types
<1>5. admitted' \in [Merchants -> [Ages -> Nat]]
  <2>1. \A log \in [Merchants -> [Ages -> Nat]] : Forget(log) \in [Merchants -> [Ages -> Nat]]
    BY DEF Forget
  <2>2. QED
    BY <1>2, <1>4, <2>1
<1>6. Types'
  <2>1. \A x \in Merchants : count[x] \in 0 .. CountBound /\ ttl[x] \in 0 .. Window
    BY <1>1 DEF Types
  <2>2. count' \in [Merchants -> 0 .. CountBound]
    <3>1. \A x \in Merchants : (IF ttl[x] = 1 THEN 0 ELSE count[x]) \in 0 .. CountBound
      BY <2>1, Constants
    <3>2. QED
      BY <1>2, <3>1
  <2>3. ttl' \in [Merchants -> 0 .. Window]
    <3>1. \A x \in Merchants : (IF ttl[x] > 0 THEN ttl[x] - 1 ELSE 0) \in 0 .. Window
      BY <2>1, Constants
    <3>2. QED
      BY <1>2, <3>1
  <2>4. QED
    BY <1>1, <1>2, <1>4, <1>5, <2>2, <2>3 DEF Types
<1>7. MemoryOK'
  <2> SUFFICES ASSUME backend = "memory" PROVE MemoryOK'
    BY <1>2 DEF MemoryOK
  <2>1. ASSUME NEW x \in Merchants, NEW a \in InWindow PROVE hits'[x][a] = admitted'[x][a]
    <3>1. a \in Ages /\ a # Window /\ (a # 0 => a - 1 \in InWindow)
      BY Constants
    <3>2. hits'[x][a] = IF a = 0 THEN 0 ELSE hits[x][a - 1]
      BY <1>2, <3>1 DEF Older
    <3>3. admitted'[x][a] = IF a = 0 THEN 0 ELSE admitted[x][a - 1]
      BY <1>3, <3>1 DEF Aged
    <3>4. a # 0 => hits[x][a - 1] = admitted[x][a - 1]
      BY <1>1, <3>1 DEF MemoryOK
    <3>5. QED
      BY <3>2, <3>3, <3>4
  <2>2. ASSUME NEW x \in Merchants PROVE Admitted(x, Window)' <= Limit
    <3>1. Window \in 0 .. Window
      BY Constants
    <3>2. Admitted(x, Window) \in Nat /\ Admitted(x, Window) <= Limit
      BY <1>1, <3>1, AdmittedNat DEF MemoryOK
    <3>3. Admitted(x, Window)' \in Nat
      <4>1. admitted'[x] \in [Ages -> Nat]
        BY <1>5
      <4>2. QED
        BY <3>1, <4>1, AccountSums DEF Admitted, InLast
    <3>4. QED
      BY <1>3, <3>2, <3>3, Constants
  <2>3. QED
    BY <1>1, <1>2, <2>1, <2>2 DEF MemoryOK
<1>8. ASSUME NEW x \in Merchants
      PROVE  /\ ttl[x] \in 0 .. Window
             /\ ttl[x] = 1 => count'[x] = 0 /\ ttl'[x] = 0
             /\ ttl[x] # 1 => count'[x] = count[x]
             /\ ttl[x] = 0 => ttl'[x] = 0
             /\ ttl[x] > 1 => ttl'[x] = ttl[x] - 1 /\ ttl'[x] > 0
  BY <1>1, <1>2, Constants, SMTT(30) DEF Types
<1>9. CountersOK'
  <2>1. ASSUME NEW g \in Handlers, pending'[g] # None
        PROVE  count'[pending'[g]] > 0 /\ ttl'[pending'[g]] = 0
    <3>1. pending'[g] = pending[g] /\ pending[g] \in Merchants
          /\ count[pending[g]] > 0 /\ ttl[pending[g]] = 0
      BY <1>1, <1>2, <2>1 DEF Types, CountersOK
    <3>2. QED
      BY <1>8, <3>1
  <2>2. ASSUME NEW x \in Merchants, ttl'[x] > 0 PROVE count'[x] > 0
    <3>1. ttl[x] > 1
      BY <1>8, <2>2
    <3>2. QED
      BY <1>1, <1>8, <3>1 DEF CountersOK
  <2>3. QED
    BY <1>1, <1>2, <2>1, <2>2 DEF CountersOK
<1>10. OrphanOnlyByFault'
  <2>1. ASSUME NEW x \in Merchants, count'[x] > 0, ttl'[x] = 0
        PROVE  count[x] > 0 /\ ttl[x] = 0
    BY <1>8, <2>1
  <2>2. QED
    BY <1>1, <1>2, <2>1 DEF OrphanOnlyByFault
<1>11. ASSUME backend = "redis", NEW x \in Merchants
       PROVE  Accounts(admitted'[x], Counted(x)', Waiting(x)', ttl'[x])
  <2>1. /\ Accounts(admitted[x], Counted(x), Waiting(x), ttl[x])
        /\ admitted[x] \in [Ages -> Nat] /\ Counted(x) \in 0 .. Limit /\ Waiting(x) \in {0, 1}
        /\ admitted'[x] \in [Ages -> Nat]
    BY <1>1, <1>5, <1>11, CounterTypes DEF RedisOK
  <2>2. /\ ttl[x] = 0 => Accounts(admitted'[x], Counted(x), Waiting(x), 0)
        /\ ttl[x] = 1 => Accounts(admitted'[x], 0, 0, 0)
        /\ ttl[x] > 1 => Accounts(admitted'[x], Counted(x), Waiting(x), ttl[x] - 1)
    BY <1>3, <1>8, <2>1, AccountTick
  <2>3. Waiting(x)' = Waiting(x)
    BY <1>2 DEF Waiting
  <2>4. CASE ttl[x] = 1
    <3>1. Counted(x)' = 0 /\ ttl'[x] = 0
      BY <1>8, <2>4, Constants DEF Counted
    <3>2. Waiting(x) = 0
      <4>1. x # None
        BY Constants
      <4>2. QED
        BY <1>1, <2>4, <4>1 DEF Waiting, CountersOK
    <3>3. QED
      BY <2>2, <2>3, <2>4, <3>1, <3>2
  <2>5. CASE ttl[x] # 1
    <3>1. Counted(x)' = Counted(x)
      BY <1>8, <2>5 DEF Counted
    <3>2. QED
      BY <1>8, <2>2, <2>3, <2>5, <3>1
  <2>6. QED
    BY <2>4, <2>5
<1>12. RedisOK'
  BY <1>2, <1>11 DEF RedisOK
<1>13. QED
  BY <1>6, <1>7, <1>9, <1>10, <1>12 DEF IInv

\* No step changes anything else.
LEMMA NextInv == IInv /\ [Next]_vars => IInv'
<1> SUFFICES ASSUME IInv, [Next]_vars PROVE IInv'
  OBVIOUS
<1>1. ASSUME NEW key \in DOMAIN MerchantOf, AllowMemory(key) PROVE IInv'
  BY <1>1, AllowMemoryInv
<1>2. ASSUME NEW key \in DOMAIN MerchantOf, IncrLost(key) PROVE IInv'
  <2>1. Authenticate(key) \in Merchants
    BY Constants
  <2>2. QED
    BY <1>2, <2>1, NextIncrInv DEF IncrLost
<1>3. ASSUME NEW key \in DOMAIN MerchantOf, NEW h \in Handlers, Incr(h, key) PROVE IInv'
  <2> DEFINE m == Authenticate(key)
  <2>1. m \in Merchants /\ count[m] \in Nat
    <3>1. m \in Merchants /\ Types
      BY Constants DEF IInv
    <3> HIDE DEF m
    <3>2. QED
      BY <3>1, CounterTypes
  <2>2. /\ backend = "redis" /\ pending[h] = None /\ count' = Increment(m)
        /\ UNCHANGED <<backend, hits, ttl, lost>>
        /\ \/ count[m] = 0 /\ pending' = [pending EXCEPT ![h] = m] /\ UNCHANGED admitted
           \/ /\ count[m] > 0 /\ UNCHANGED pending
              /\ \/ admitted' = admitted
                 \/ count[m] < Limit /\ admitted' = Hit(admitted, m)
    <3>1. count[m] + 1 = 1 <=> count[m] = 0
      BY <2>1
    <3>2. count[m] + 1 # 1 => count[m] > 0
      BY <2>1
    <3>3. count[m] + 1 <= Limit => count[m] < Limit
      BY <2>1, Constants
    <3>4. QED
      BY <1>3, <3>1, <3>2, <3>3 DEF Incr, FirstOfWindow
  <2> HIDE DEF m
  <2>3. CASE count[m] = 0 /\ pending' = [pending EXCEPT ![h] = m] /\ UNCHANGED admitted
    BY <2>1, <2>2, <2>3, FirstIncrInv
  <2>4. CASE /\ count[m] > 0 /\ UNCHANGED pending
             /\ \/ admitted' = admitted
                \/ count[m] < Limit /\ admitted' = Hit(admitted, m)
    BY <2>1, <2>2, <2>4, NextIncrInv
  <2>5. QED
    BY <2>2, <2>3, <2>4
<1>4. ASSUME NEW h \in Handlers, Expire(h) \/ ExpireFails(h) PROVE IInv'
  BY <1>4, ExpireInv DEF Expire, ExpireFails
<1>5. CASE Tick
  BY <1>5, TickInv
<1>6. CASE UNCHANGED vars
  <2>1. UNCHANGED <<backend, hits, count, ttl, pending, admitted, lost>>
    BY <1>6 DEF vars
  <2>2. Types' /\ MemoryOK' /\ RedisOK'
    BY <2>1 DEF IInv, Types, MemoryOK, RedisOK, Admitted, InLast, Counted, Waiting
  <2>3. CountersOK' /\ OrphanOnlyByFault'
    BY <2>1, SameCounters
  <2>4. QED
    BY <2>2, <2>3 DEF IInv
<1>7. QED
  BY <1>1, <1>2, <1>3, <1>4, <1>5, <1>6 DEF Next

\* The invariant implies both properties.
LEMMA Bounded == IInv => AdmissionsBounded
<1> SUFFICES ASSUME IInv, NEW m \in Merchants
             PROVE  InLast(admitted, m, InWindow) <=
                      IF backend = "memory" THEN Limit ELSE 2 * Limit - 1
  BY DEF AdmissionsBounded
<1>1. Types /\ MemoryOK /\ RedisOK
  BY DEF IInv
<1>2. InLast(admitted, m, InWindow) = Admitted(m, Window)
  BY Constants DEF Admitted
<1>3. CASE backend = "memory"
  BY <1>1, <1>2, <1>3 DEF MemoryOK
<1>4. CASE backend # "memory"
  <2>1. backend = "redis"
    BY <1>1, <1>4 DEF Types
  <2>2. Admitted(m, Window) <= Limit - 1 + Counted(m) - Waiting(m)
    BY <1>1, <2>1 DEF RedisOK, Accounts, Admitted, InLast
  <2>3. Window \in 0 .. Window
    BY Constants
  <2>4. Admitted(m, Window) \in Nat /\ Counted(m) \in 0 .. Limit /\ Waiting(m) \in {0, 1}
    BY <1>1, <2>3, AdmittedNat, CounterTypes
  <2>5. QED
    BY <1>2, <1>4, <2>2, <2>4, Constants
<1>5. QED
  BY <1>3, <1>4
-----------------------------------------------------------------------------
(***************************************************************************)
(* In any stretch of time as long as a window, at most Limit requests of a *)
(* merchant pass the limiter in memory, and at most 2 * Limit - 1 the one  *)
(* in Redis, whatever INCR and EXPIRE of concurrent handlers interleave    *)
(* and whichever of their answers are lost.                                *)
(***************************************************************************)
THEOREM LimitKept == Spec => []AdmissionsBounded
<1>1. Spec => []IInv
  BY InitInv, NextInv, PTL DEF Spec
<1>2. QED
  BY <1>1, Bounded, PTL

(***************************************************************************)
(* A counter in Redis that has no expiry has a handler that will set it,   *)
(* or an answer of Redis about it was lost: the test count == 1 picks      *)
(* exactly one handler per counter.                                        *)
(***************************************************************************)
THEOREM OrphansNeedFault == Spec => []OrphanOnlyByFault
<1>1. Spec => []IInv
  BY InitInv, NextInv, PTL DEF Spec
<1>2. IInv => OrphanOnlyByFault
  BY DEF IInv
<1>3. QED
  BY <1>1, <1>2, PTL
-----------------------------------------------------------------------------
(***************************************************************************)
(* The migration tool, for any number of files, of processes that run it   *)
(* at the same time and of crashes.                                        *)
(*                                                                         *)
(* That the files in the schema have no gap is not inductive: a process    *)
(* executes the file it has come to without looking at the schema again.   *)
(* What it knows is that all the files before this one are recorded, and   *)
(* that a file cannot be executed twice.  So a process that executes file  *)
(* f finds the schema to end at f - 1, and the record as well; it is then  *)
(* the only one that is about to record something (Position, Recorder).    *)
(***************************************************************************)
ToolStates ==
  [pc: {"idle", "check", "execute", "record", "done", "panicked"}, file: Files]

ToolTypes ==
  /\ proc \in [Processes -> ToolStates]
  /\ crashes \in Nat
  /\ preloaded \in BOOLEAN

\* The schema has files 1 .. i and schema_migrations 1 .. j.
Stage(i, j) ==
  /\ executed = 1 .. i
  /\ recorded = 1 .. j
  /\ j <= i
  /\ IF preloaded THEN i = Last ELSE i <= j + 1

\* All the files before the one at which process x is are recorded.
Position(x) ==
  proc[x].pc \in Running => \A f \in Files : f < proc[x].file => f \in recorded

\* A process that is about to record a file is alone, and the file waits for it.
Recorder(x) ==
  proc[x].pc = "record" =>
    /\ ~preloaded
    /\ proc[x].file \in executed
    /\ proc[x].file \notin recorded
    /\ \A y \in Processes : proc[y].pc = "record" => x = y

Finished(x) == proc[x].pc = "done" => recorded = Files

ToolInv ==
  /\ ToolTypes
  /\ \E i, j \in 0 .. Last : Stage(i, j)
  /\ \A x \in Processes : Position(x) /\ Recorder(x) /\ Finished(x)
  /\ WedgedOnlyByCrash

\* The intervals 1 .. n as sets of naturals.
LEMMA Initial ==
  /\ \A n \in Nat : \A f : f \in 1 .. n <=> f \in Nat /\ 1 <= f /\ f <= n
  /\ \A n \in Nat : 1 .. n + 1 = (1 .. n) \cup {n + 1}
  /\ 1 .. 0 = {}
OBVIOUS

\* At the start all is empty, or the container has executed every file.
LEMMA ToolInit ==
  ASSUME MigrateInit
  PROVE  ToolInv
<1>1. Last \in Nat /\ Last > 0
  BY MigrateAssumption
<1>2. ToolTypes
  BY <1>1 DEF ToolTypes, ToolStates, MigrateInit, Files
<1>3. \E i, j \in 0 .. Last : Stage(i, j)
  <2>1. CASE preloaded
    <3>1. Stage(Last, 0)
      BY <1>1, <2>1, Initial DEF Stage, MigrateInit, Files
    <3>2. QED
      BY <1>1, <3>1
  <2>2. CASE ~preloaded
    <3>1. Stage(0, 0)
      BY <1>1, <2>2, Initial DEF Stage, MigrateInit
    <3>2. QED
      BY <1>1, <3>1
  <2>3. QED
    BY <2>1, <2>2
<1>4. ASSUME NEW x \in Processes
      PROVE  Position(x) /\ Recorder(x) /\ Finished(x)
  <2>1. proc[x].pc = "idle"
    BY <1>4 DEF MigrateInit
  <2>2. QED
    BY <2>1 DEF Position, Recorder, Finished, Running
<1>5. WedgedOnlyByCrash
  BY DEF MigrateInit, WedgedOnlyByCrash, Wedged
<1>6. QED
  BY <1>2, <1>3, <1>4, <1>5 DEF ToolInv

\* What is said of a process when it is at r and files R are recorded.
PositionAt(r, R) ==
  r.pc \in Running => \A f \in Files : f < r.file => f \in R

\* The state of one process after its step, and that of the others.
LEMMA Moves ==
  ASSUME ToolTypes, NEW x \in Processes,
         NEW r \in ToolStates,
         proc' = [proc EXCEPT ![x] = r]
  PROVE  /\ proc' \in [Processes -> ToolStates]
         /\ proc'[x] = r
         /\ \A y \in Processes : y # x => proc'[y] = proc[y]
BY DEF ToolTypes

\* A change of the program counter as a move.
LEMMA GotoMoves ==
  ASSUME ToolTypes, NEW x \in Processes,
         NEW pc \in {"idle", "check", "execute", "record", "done", "panicked"},
         Goto(x, pc)
  PROVE  /\ [pc |-> pc, file |-> proc[x].file] \in ToolStates
         /\ proc' = [proc EXCEPT ![x] = [pc |-> pc, file |-> proc[x].file]]
<1>1. proc[x] \in ToolStates
  BY DEF ToolTypes
<1>2. [pc |-> pc, file |-> proc[x].file] \in ToolStates
  BY <1>1 DEF ToolStates
<1>3. [proc[x] EXCEPT !.pc = pc] = [pc |-> pc, file |-> proc[x].file]
  BY <1>1 DEF ToolStates
<1>4. proc' = [proc EXCEPT ![x] = [proc[x] EXCEPT !.pc = pc]]
  BY DEF Goto
<1>5. QED
  BY <1>2, <1>3, <1>4

(***************************************************************************)
(* A step of one process that leaves the schema and the record as they are *)
(* and does not bring the process to a record of its own.  If it gives up  *)
(* a record, it is a crash.                                                *)
(***************************************************************************)
LEMMA QuietStep ==
  ASSUME ToolInv, NEW x \in Processes,
         NEW r \in ToolStates, r.pc # "record",
         proc' = [proc EXCEPT ![x] = r],
         PositionAt(r, recorded),
         r.pc = "done" => recorded = Files,
         UNCHANGED <<executed, recorded, preloaded>>,
         crashes' \in Nat, crashes' >= crashes,
         proc[x].pc = "record" => crashes' > 0
  PROVE  ToolInv'
<1>1. ToolTypes /\ crashes \in Nat
  BY DEF ToolInv, ToolTypes
<1>2. /\ proc' \in [Processes -> ToolStates]
      /\ proc'[x] = r
      /\ \A y \in Processes : y # x => proc'[y] = proc[y]
  BY <1>1, Moves
<1>3. ToolTypes'
  BY <1>1, <1>2 DEF ToolTypes, Files
<1>4. (\E i, j \in 0 .. Last : Stage(i, j))'
  BY DEF ToolInv, Stage
<1>5. ASSUME NEW y \in Processes
      PROVE  Position(y)' /\ Recorder(y)' /\ Finished(y)'
  <2>1. Position(y) /\ Recorder(y) /\ Finished(y)
    BY <1>5 DEF ToolInv
  <2>2. CASE y = x
    BY <1>2, <2>2 DEF Position, Recorder, Finished, PositionAt, Files
  <2>3. CASE y # x
    <3>1. proc'[y] = proc[y]
      BY <1>2, <1>5, <2>3
    <3>2. \A z \in Processes : proc'[z].pc = "record" => proc[z].pc = "record"
      BY <1>2
    <3>3. QED
      BY <2>1, <3>1, <3>2 DEF Position, Recorder, Finished, Files
  <2>4. QED
    BY <2>2, <2>3
<1>6. WedgedOnlyByCrash'
  <2>1. SUFFICES ASSUME Wedged', ~(crashes' > 0), ~preloaded'
                 PROVE  FALSE
    BY DEF WedgedOnlyByCrash
  <2>2. PICK f \in executed' \ recorded' :
          \A y \in Processes : proc'[y] # [pc |-> "record", file |-> f]
    BY <2>1 DEF Wedged
  <2>3. proc[x].pc # "record"
    BY <2>1
  <2>4. \A y \in Processes : proc[y] # [pc |-> "record", file |-> f]
    BY <1>2, <2>2, <2>3
  <2>5. Wedged
    BY <2>2, <2>4 DEF Wedged
  <2>6. ~(crashes > 0) /\ ~preloaded
    BY <1>1, <2>1
  <2>7. QED
    BY <2>5, <2>6 DEF ToolInv, WedgedOnlyByCrash
<1>7. QED
  BY <1>3, <1>4, <1>5, <1>6 DEF ToolInv

\* A tool is started again: nothing comes before the first file.
LEMMA StartInv ==
  ASSUME ToolInv, NEW x \in Processes, Start(x)
  PROVE  ToolInv'
<1> DEFINE r == [pc |-> "check", file |-> 1]
<1>1. r \in ToolStates /\ r.pc # "record"
  BY MigrateAssumption DEF ToolStates, Files
<1>2. proc' = [proc EXCEPT ![x] = r]
  BY DEF Start
<1>3. PositionAt(r, recorded)
  BY DEF PositionAt, Files
<1>4. /\ UNCHANGED <<executed, recorded, preloaded>>
      /\ crashes' \in Nat /\ crashes' >= crashes
      /\ proc[x].pc # "record"
  BY DEF Start, Running, ToolInv, ToolTypes
<1>5. r.pc = "done" => recorded = Files
  OBVIOUS
<1> HIDE DEF r
<1>6. QED
  BY <1>1, <1>2, <1>3, <1>4, <1>5, QuietStep

\* Where NextFile takes a process, when its file is recorded with the ones before.
LEMMA NextFileMoves ==
  ASSUME ToolTypes, NEW x \in Processes, NextFile(x),
         NEW R, \E j \in 0 .. Last : R = 1 .. j,
         PositionAt([pc |-> "check", file |-> proc[x].file], R), proc[x].file \in R
  PROVE  \E r \in [pc: {"check", "done"}, file: Files] :
           /\ proc' = [proc EXCEPT ![x] = r]
           /\ PositionAt(r, R)
           /\ r.pc = "done" => R = Files
<1>1. Last \in Nat /\ Last > 0 /\ proc[x].file \in 1 .. Last
  BY MigrateAssumption DEF ToolTypes, ToolStates, Files
<1>2. PICK j \in 0 .. Last : R = 1 .. j
  OBVIOUS
<1>3. CASE proc[x].file = Last
  <2>1. j = Last
    BY <1>1, <1>2, <1>3
  <2>2. proc' = [proc EXCEPT ![x] = [pc |-> "done", file |-> Last]]
    BY <1>3 DEF NextFile
  <2>3. PositionAt([pc |-> "done", file |-> Last], R)
    BY DEF PositionAt, Running
  <2>4. R = Files
    BY <1>2, <2>1 DEF Files
  <2>5. [pc |-> "done", file |-> Last] \in [pc: {"check", "done"}, file: Files]
    BY <1>1 DEF Files
  <2>6. QED
    BY <2>2, <2>3, <2>4, <2>5
<1>4. CASE proc[x].file # Last
  <2> DEFINE r == [pc |-> "check", file |-> proc[x].file + 1]
  <2>1. proc' = [proc EXCEPT ![x] = r]
    BY <1>4 DEF NextFile
  <2>2. r \in [pc: {"check", "done"}, file: Files] /\ r.pc # "done"
    BY <1>1, <1>4 DEF Files
  <2>3. \A f \in Files : f < proc[x].file + 1 => f \in R
    BY <1>1, <1>2 DEF Files
  <2>4. PositionAt(r, R)
    BY <2>3 DEF PositionAt
  <2> HIDE DEF r
  <2>5. QED
    BY <2>1, <2>2, <2>4
<1>5. QED
  BY <1>3, <1>4

\* A file that is recorded is skipped.
LEMMA SkipInv ==
  ASSUME ToolInv, NEW x \in Processes, Skip(x)
  PROVE  ToolInv'
<1>1. ToolTypes /\ Position(x) /\ (\E j \in 0 .. Last : recorded = 1 .. j)
  BY DEF ToolInv, Stage
<1>2. proc[x].pc = "check" /\ proc[x].file \in recorded /\ NextFile(x)
  BY DEF Skip
<1>3. PositionAt([pc |-> "check", file |-> proc[x].file], recorded)
  BY <1>1, <1>2 DEF Position, PositionAt
<1>4. PICK r \in [pc: {"check", "done"}, file: Files] :
           /\ proc' = [proc EXCEPT ![x] = r]
           /\ PositionAt(r, recorded)
           /\ r.pc = "done" => recorded = Files
  BY <1>1, <1>2, <1>3, NextFileMoves
<1>5. r \in ToolStates /\ r.pc # "record"
  BY <1>4 DEF ToolStates
<1>6. /\ UNCHANGED <<executed, recorded, preloaded>>
      /\ crashes' \in Nat /\ crashes' >= crashes
      /\ proc[x].pc # "record"
  BY <1>1, <1>2 DEF Skip, ToolTypes
<1>7. QED
  BY <1>4, <1>5, <1>6, QuietStep

\* A file that is not recorded is to be executed.
LEMMA CheckInv ==
  ASSUME ToolInv, NEW x \in Processes, Check(x)
  PROVE  ToolInv'
<1> DEFINE r == [pc |-> "execute", file |-> proc[x].file]
<1>1. ToolTypes /\ Position(x)
  BY DEF ToolInv
<1>2. proc[x].pc = "check" /\ Goto(x, "execute")
  BY DEF Check
<1>3. proc' = [proc EXCEPT ![x] = r]
  BY <1>1, <1>2, GotoMoves
<1>4. r \in ToolStates /\ r.pc # "record"
  BY <1>1 DEF ToolTypes, ToolStates
<1>5. PositionAt(r, recorded)
  BY <1>1, <1>2 DEF Position, PositionAt, Running
<1>6. /\ UNCHANGED <<executed, recorded, preloaded>>
      /\ crashes' \in Nat /\ crashes' >= crashes
      /\ proc[x].pc # "record"
  BY <1>1, <1>2 DEF Check, ToolTypes
<1>7. r.pc = "done" => recorded = Files
  OBVIOUS
<1> HIDE DEF r
<1>8. QED
  BY <1>3, <1>4, <1>5, <1>6, <1>7, QuietStep

\* The error of a file that exists already ends the tool.
LEMMA AlreadyExistsInv ==
  ASSUME ToolInv, NEW x \in Processes, AlreadyExists(x)
  PROVE  ToolInv'
<1> DEFINE r == [pc |-> "panicked", file |-> proc[x].file]
<1>1. ToolTypes
  BY DEF ToolInv
<1>2. proc[x].pc = "execute" /\ Goto(x, "panicked")
  BY DEF AlreadyExists
<1>3. r \in ToolStates /\ proc' = [proc EXCEPT ![x] = r]
  BY <1>1, <1>2, GotoMoves
<1>4. PositionAt(r, recorded) /\ r.pc # "record" /\ r.pc # "done"
  BY DEF PositionAt, Running
<1>5. /\ UNCHANGED <<executed, recorded, preloaded>>
      /\ crashes' \in Nat /\ crashes' >= crashes
      /\ proc[x].pc # "record"
  BY <1>1, <1>2 DEF AlreadyExists, ToolTypes
<1> HIDE DEF r
<1>6. QED
  BY <1>3, <1>4, <1>5, QuietStep

\* A file that is executed for the first time is the next one of the schema and of
\* the record, and no process has a record to make.
LEMMA ExecutesNext ==
  ASSUME ToolInv, NEW x \in Processes,
         proc[x].pc = "execute", proc[x].file \notin executed
  PROVE  /\ ~preloaded
         /\ \E j \in 0 .. Last - 1 :
              proc[x].file = j + 1 /\ executed = 1 .. j /\ recorded = 1 .. j
         /\ \A y \in Processes : proc[y].pc # "record"
<1>1. Last \in Nat /\ Last > 0 /\ proc[x].file \in 1 .. Last
  BY MigrateAssumption DEF ToolInv, ToolTypes, ToolStates, Files
<1>2. PICK i, j \in 0 .. Last : Stage(i, j)
  BY DEF ToolInv
<1>3. executed = 1 .. i /\ recorded = 1 .. j /\ j <= i
  BY <1>2 DEF Stage
<1>4. proc[x].file > i
  BY <1>1, <1>2, <1>3
<1>5. ~preloaded /\ i <= j + 1
  BY <1>1, <1>2, <1>4 DEF Stage
<1>6. \A f \in 1 .. Last : f < proc[x].file => f \in 1 .. j
  BY <1>3 DEF ToolInv, Position, Running, Files
<1>7. proc[x].file <= j + 1
  <2>1. SUFFICES ASSUME proc[x].file > j + 1
                 PROVE  FALSE
    BY <1>1, <1>2
  <2>2. j + 1 \in 1 .. Last /\ j + 1 < proc[x].file
    BY <1>1, <1>2, <2>1
  <2>3. j + 1 \in 1 .. j
    BY <1>6, <2>2
  <2>4. QED
    BY <1>2, <2>3
<1>8. i = j /\ proc[x].file = j + 1 /\ j \in 0 .. Last - 1
  BY <1>1, <1>2, <1>3, <1>4, <1>7
<1>9. ASSUME NEW y \in Processes, proc[y].pc = "record"
      PROVE  FALSE
  <2>1. proc[y].file \in executed /\ proc[y].file \notin recorded
    BY <1>9 DEF ToolInv, Recorder
  <2>2. QED
    BY <1>3, <1>8, <2>1
<1>10. QED
  BY <1>3, <1>5, <1>8, <1>9

\* The file that a process is about to record is the last one of the schema, and the
\* only one that is not recorded.
LEMMA RecordsLast ==
  ASSUME ToolInv, NEW x \in Processes, proc[x].pc = "record"
  PROVE  /\ ~preloaded
         /\ \E j \in 0 .. Last - 1 :
              proc[x].file = j + 1 /\ executed = 1 .. j + 1 /\ recorded = 1 .. j
<1>1. Last \in Nat /\ Last > 0 /\ proc[x].file \in 1 .. Last
  BY MigrateAssumption DEF ToolInv, ToolTypes, ToolStates, Files
<1>2. ~preloaded /\ proc[x].file \in executed /\ proc[x].file \notin recorded
  BY DEF ToolInv, Recorder
<1>3. PICK i, j \in 0 .. Last : Stage(i, j)
  BY DEF ToolInv
<1>4. executed = 1 .. i /\ recorded = 1 .. j /\ j <= i /\ i <= j + 1
  BY <1>2, <1>3 DEF Stage
<1>5. proc[x].file <= i /\ proc[x].file > j
  BY <1>1, <1>2, <1>3, <1>4
<1>6. proc[x].file = j + 1 /\ i = j + 1 /\ j \in 0 .. Last - 1
  BY <1>1, <1>3, <1>4, <1>5
<1>7. QED
  BY <1>2, <1>4, <1>6

(***************************************************************************)
(* A file takes effect.  Its process goes on to record it, or it crashes.  *)
(***************************************************************************)
LEMMA Executed ==
  ASSUME ToolInv, NEW x \in Processes,
         proc[x].pc = "execute", proc[x].file \notin executed,
         NEW pc \in {"record", "panicked"}, Goto(x, pc),
         executed' = executed \cup {proc[x].file},
         UNCHANGED <<recorded, preloaded>>,
         crashes' \in Nat, pc = "panicked" => crashes' > 0
  PROVE  ToolInv'
<1> DEFINE r == [pc |-> pc, file |-> proc[x].file]
<1>1. ToolTypes
  BY DEF ToolInv
<1>2. /\ proc' \in [Processes -> ToolStates]
      /\ proc'[x] = r
      /\ \A y \in Processes : y # x => proc'[y] = proc[y]
  <2>1. r \in ToolStates /\ proc' = [proc EXCEPT ![x] = r]
    BY <1>1, GotoMoves
  <2> HIDE DEF r
  <2>2. QED
    BY <1>1, <2>1, Moves
<1>3. /\ ~preloaded
      /\ \A y \in Processes : proc[y].pc # "record"
  BY ExecutesNext
<1>4. PICK j \in 0 .. Last - 1 :
        proc[x].file = j + 1 /\ executed = 1 .. j /\ recorded = 1 .. j
  BY ExecutesNext
<1>5. Last \in Nat /\ j \in Nat /\ j + 1 \in 0 .. Last /\ j \in 0 .. Last
  BY <1>4, MigrateAssumption
<1>6. executed' = 1 .. j + 1 /\ recorded' = 1 .. j /\ j + 1 \notin 1 .. j
  BY <1>4, <1>5, Initial
<1>7. ToolTypes'
  BY <1>1, <1>2 DEF ToolTypes, ToolStates, Files
<1>8. (\E a, b \in 0 .. Last : Stage(a, b))'
  <2>1. Stage(j + 1, j)'
    BY <1>3, <1>5, <1>6 DEF Stage
  <2>2. QED
    BY <1>5, <2>1
<1>9. ASSUME NEW y \in Processes
      PROVE  Position(y)' /\ Recorder(y)' /\ Finished(y)'
  <2>1. Position(y) /\ Finished(y) /\ Position(x)
    BY <1>9 DEF ToolInv
  <2>2. CASE y = x
    <3>1. proc'[y].pc = pc /\ proc'[y].file = j + 1
      BY <1>2, <1>4, <2>2
    <3>2. Position(y)'
      BY <1>4, <2>1, <2>2, <3>1 DEF Position, Files, Running
    <3>3. \A z \in Processes : proc'[z].pc = "record" => y = z
      BY <1>2, <1>3, <2>2
    <3>4. j + 1 \in executed' /\ j + 1 \notin recorded'
      BY <1>4, <1>6
    <3>5. Recorder(y)'
      BY <1>3, <3>1, <3>3, <3>4 DEF Recorder
    <3>6. Finished(y)'
      BY <3>1 DEF Finished
    <3>7. QED
      BY <3>2, <3>5, <3>6
  <2>3. CASE y # x
    <3>1. proc'[y] = proc[y] /\ proc'[y].pc # "record"
      BY <1>2, <1>3, <1>9, <2>3
    <3>2. QED
      BY <2>1, <3>1 DEF Position, Recorder, Finished, Files
  <2>4. QED
    BY <2>2, <2>3
<1>10. WedgedOnlyByCrash'
  <2>1. CASE pc = "panicked"
    BY <2>1 DEF WedgedOnlyByCrash
  <2>2. CASE pc = "record"
    <3>1. \A f \in executed' \ recorded' : f = j + 1
      BY <1>4, <1>5, <1>6
    <3>2. proc'[x] = [pc |-> "record", file |-> j + 1]
      BY <1>2, <1>4, <2>2
    <3>3. ~Wedged'
      BY <3>1, <3>2 DEF Wedged
    <3>4. QED
      BY <3>3 DEF WedgedOnlyByCrash
  <2>3. QED
    BY <2>1, <2>2
<1>11. QED
  BY <1>7, <1>8, <1>9, <1>10 DEF ToolInv

(***************************************************************************)
(* A record is made, which leaves nothing unrecorded; its process goes on  *)
(* or crashes.                                                             *)
(***************************************************************************)
LEMMA Recorded ==
  ASSUME ToolInv, NEW x \in Processes, proc[x].pc = "record",
         NEW r \in ToolStates, r.pc # "record",
         proc' = [proc EXCEPT ![x] = r],
         recorded' = recorded \cup {proc[x].file},
         PositionAt(r, recorded'),
         r.pc = "done" => recorded' = Files,
         UNCHANGED <<executed, preloaded>>, crashes' \in Nat
  PROVE  ToolInv'
<1>1. ToolTypes
  BY DEF ToolInv
<1>2. /\ proc' \in [Processes -> ToolStates]
      /\ proc'[x] = r
      /\ \A y \in Processes : y # x => proc'[y] = proc[y]
  BY <1>1, Moves
<1>3. ~preloaded
  BY RecordsLast
<1>4. PICK j \in 0 .. Last - 1 :
        proc[x].file = j + 1 /\ executed = 1 .. j + 1 /\ recorded = 1 .. j
  BY RecordsLast
<1>5. Last \in Nat /\ j \in Nat /\ j + 1 \in 0 .. Last
  BY <1>4, MigrateAssumption
<1>6. executed' = 1 .. j + 1 /\ recorded' = 1 .. j + 1
  BY <1>4, <1>5, Initial
<1>7. ToolTypes'
  BY <1>1, <1>2 DEF ToolTypes, ToolStates, Files
<1>8. (\E a, b \in 0 .. Last : Stage(a, b))'
  <2>1. Stage(j + 1, j + 1)'
    BY <1>3, <1>5, <1>6 DEF Stage
  <2>2. QED
    BY <1>5, <2>1
<1>9. ASSUME NEW y \in Processes
      PROVE  Position(y)' /\ Recorder(y)' /\ Finished(y)'
  <2>1. Position(y) /\ Finished(y) /\ Recorder(x)
    BY <1>9 DEF ToolInv
  <2>2. CASE y = x
    BY <1>2, <2>2 DEF Position, Recorder, Finished, PositionAt, Files
  <2>3. CASE y # x
    <3>1. proc'[y] = proc[y]
      BY <1>2, <1>9, <2>3
    <3>2. proc[y].pc # "record"
      BY <1>9, <2>1, <2>3 DEF Recorder
    <3>3. Position(y)' /\ Recorder(y)'
      BY <2>1, <3>1, <3>2 DEF Position, Recorder, Files
    <3>4. ASSUME proc[y].pc = "done"
          PROVE  FALSE
      <4>1. recorded = 1 .. Last
        BY <2>1, <3>4 DEF Finished, Files
      <4>2. j + 1 \in 1 .. j
        BY <1>4, <1>5, <4>1, Initial
      <4>3. QED
        BY <1>5, <4>2, Initial
    <3>5. Finished(y)'
      BY <3>1, <3>4 DEF Finished
    <3>6. QED
      BY <3>3, <3>5
  <2>4. QED
    BY <2>2, <2>3
<1>10. WedgedOnlyByCrash'
  BY <1>6 DEF WedgedOnlyByCrash, Wedged
<1>11. QED
  BY <1>7, <1>8, <1>9, <1>10 DEF ToolInv

\* A file is executed.
LEMMA ExecuteInv ==
  ASSUME ToolInv, NEW x \in Processes, Execute(x)
  PROVE  ToolInv'
<1>1. /\ proc[x].pc = "execute" /\ proc[x].file \notin executed
      /\ executed' = executed \cup {proc[x].file}
      /\ Goto(x, "record")
      /\ UNCHANGED <<recorded, preloaded>> /\ crashes' = crashes
  BY DEF Execute
<1>2. crashes \in Nat
  BY DEF ToolInv, ToolTypes
<1>3. QED
  BY <1>1, <1>2, Executed

\* A file is recorded.
LEMMA RecordInv ==
  ASSUME ToolInv, NEW x \in Processes, Record(x)
  PROVE  ToolInv'
<1>1. /\ proc[x].pc = "record"
      /\ recorded' = recorded \cup {proc[x].file}
      /\ NextFile(x)
      /\ UNCHANGED <<executed, preloaded>> /\ crashes' = crashes
  BY DEF Record
<1>2. ToolTypes /\ crashes \in Nat /\ Position(x)
  BY DEF ToolInv, ToolTypes
<1>3. PICK R : R = recorded'
  OBVIOUS
<1>4. \E j \in 0 .. Last : R = 1 .. j
  <2>1. PICK j \in 0 .. Last - 1 :
          proc[x].file = j + 1 /\ executed = 1 .. j + 1 /\ recorded = 1 .. j
    BY <1>1, RecordsLast
  <2>2. Last \in Nat /\ j \in Nat /\ j + 1 \in 0 .. Last
    BY <2>1, MigrateAssumption
  <2>3. R = 1 .. j + 1
    BY <1>1, <1>3, <2>1, <2>2, Initial
  <2>4. QED
    BY <2>2, <2>3
<1>5. PositionAt([pc |-> "check", file |-> proc[x].file], R) /\ proc[x].file \in R
  BY <1>1, <1>2, <1>3 DEF Position, PositionAt, Running
<1>6. PICK r \in [pc: {"check", "done"}, file: Files] :
           /\ proc' = [proc EXCEPT ![x] = r]
           /\ PositionAt(r, R)
           /\ r.pc = "done" => R = Files
  BY <1>1, <1>2, <1>4, <1>5, NextFileMoves
<1>7. r \in ToolStates /\ r.pc # "record"
  BY <1>6 DEF ToolStates
<1>8. PositionAt(r, recorded')
  BY <1>3, <1>6 DEF PositionAt
<1>9. QED
  BY <1>1, <1>2, <1>3, <1>6, <1>7, <1>8, Recorded

\* A process dies; a file or a record that it had sent took effect or did not.
LEMMA CrashInv ==
  ASSUME ToolInv, NEW x \in Processes, Crash(x)
  PROVE  ToolInv'
<1> DEFINE r == [pc |-> "panicked", file |-> proc[x].file]
<1>1. ToolTypes /\ crashes \in Nat
  BY DEF ToolInv, ToolTypes
<1>2. Goto(x, "panicked") /\ UNCHANGED preloaded
  BY DEF Crash
<1>3. crashes' \in Nat /\ crashes' >= crashes /\ crashes' > 0
  BY <1>1 DEF Crash
<1>4. r \in ToolStates /\ proc' = [proc EXCEPT ![x] = r]
  BY <1>1, <1>2, GotoMoves
<1>5. r.pc # "record" /\ r.pc # "done" /\ \A R : PositionAt(r, R)
  BY DEF PositionAt, Running
<1> HIDE DEF r
<1>6. CASE executed' = executed /\ recorded' = recorded
  BY <1>2, <1>3, <1>4, <1>5, <1>6, QuietStep
<1>7. CASE executed' # executed
  <2>1. /\ proc[x].pc = "execute"
        /\ executed' = executed \cup {proc[x].file}
        /\ recorded' = recorded
    BY <1>7 DEF Crash
  <2>2. proc[x].file \notin executed
    BY <1>7, <2>1
  <2>3. QED
    BY <1>2, <1>3, <2>1, <2>2, Executed
<1>8. CASE recorded' # recorded
  <2>1. /\ proc[x].pc = "record"
        /\ recorded' = recorded \cup {proc[x].file}
        /\ executed' = executed
    BY <1>8 DEF Crash
  <2>2. QED
    BY <1>2, <1>3, <1>4, <1>5, <2>1, Recorded
<1>9. QED
  BY <1>6, <1>7, <1>8

\* The invariant of the migration tool is inductive.
LEMMA ToolNext ==
  ASSUME ToolInv, [MigrateNext]_migrateVars
  PROVE  ToolInv'
<1>1. ASSUME NEW x \in Processes, Start(x)
      PROVE  ToolInv'
  BY <1>1, StartInv
<1>2. ASSUME NEW x \in Processes, Skip(x)
      PROVE  ToolInv'
  BY <1>2, SkipInv
<1>3. ASSUME NEW x \in Processes, Check(x)
      PROVE  ToolInv'
  BY <1>3, CheckInv
<1>4. ASSUME NEW x \in Processes, Execute(x)
      PROVE  ToolInv'
  BY <1>4, ExecuteInv
<1>5. ASSUME NEW x \in Processes, AlreadyExists(x)
      PROVE  ToolInv'
  BY <1>5, AlreadyExistsInv
<1>6. ASSUME NEW x \in Processes, Record(x)
      PROVE  ToolInv'
  BY <1>6, RecordInv
<1>7. ASSUME NEW x \in Processes, Crash(x)
      PROVE  ToolInv'
  BY <1>7, CrashInv
<1>8. CASE UNCHANGED migrateVars
  BY <1>8 DEF migrateVars, ToolInv, ToolTypes, ToolStates, Stage, Position, Recorder,
       Finished, WedgedOnlyByCrash, Wedged, Files
<1>9. QED
  BY <1>1, <1>2, <1>3, <1>4, <1>5, <1>6, <1>7, <1>8 DEF MigrateNext, Proceed

\* The invariant gives the bound on what the record lacks.
LEMMA ToolPrefix ==
  ASSUME ToolInv
  PROVE  SchemaIsPrefix
<1>1. PICK i, j \in 0 .. Last : Stage(i, j)
  BY DEF ToolInv
<1>2. executed = 1 .. i /\ recorded = 1 .. j /\ j <= i
  BY <1>1 DEF Stage
<1>3. ASSUME ~preloaded
      PROVE  Cardinality(executed \ recorded) <= 1
  <2>1. i <= j + 1
    BY <1>1, <1>3 DEF Stage
  <2>2. CASE i = j
    <3>1. executed \ recorded = {}
      BY <1>2, <2>2
    <3>2. QED
      BY <3>1, FS_EmptySet
  <2>3. CASE i = j + 1
    <3>1. executed \ recorded = {i}
      BY <1>1, <1>2, <2>3
    <3>2. QED
      BY <3>1, FS_Singleton
  <2>4. QED
    BY <1>1, <1>2, <2>1, <2>2, <2>3
<1>4. \A x \in Processes : proc[x].pc = "done" => recorded = Files
  BY DEF ToolInv, Finished
<1>5. \E a, b \in 0 .. Last : executed = 1 .. a /\ recorded = 1 .. b /\ b <= a
  BY <1>1, <1>2
<1>6. QED
  BY <1>3, <1>4, <1>5 DEF SchemaIsPrefix
-----------------------------------------------------------------------------
(***************************************************************************)
(* However many runs of the migration tool race and wherever they die, the *)
(* schema has the first files without a gap, schema_migrations records a   *)
(* prefix of them that lacks at most the last file that a tool executed,   *)
(* and a tool that ended well has recorded all files.                      *)
(***************************************************************************)
THEOREM SchemaInStep == MigrateSpec => []SchemaIsPrefix
<1>1. MigrateInit => ToolInv
  BY ToolInit
<1>2. ToolInv /\ [MigrateNext]_migrateVars => ToolInv'
  BY ToolNext
<1>3. ToolInv => SchemaIsPrefix
  BY ToolPrefix
<1>4. QED
  BY <1>1, <1>2, <1>3, PTL DEF MigrateSpec

(***************************************************************************)
(* Runs of the migration tool that race for a file leave it executed and   *)
(* unrecorded, which no later run repairs, only if one of them crashed or  *)
(* the database was created with the files.                                *)
(***************************************************************************)
THEOREM WedgeNeedsCrash == MigrateSpec => []WedgedOnlyByCrash
<1>1. MigrateInit => ToolInv
  BY ToolInit
<1>2. ToolInv /\ [MigrateNext]_migrateVars => ToolInv'
  BY ToolNext
<1>3. ToolInv => WedgedOnlyByCrash
  BY DEF ToolInv
<1>4. QED
  BY <1>1, <1>2, <1>3, PTL DEF MigrateSpec
=============================================================================
