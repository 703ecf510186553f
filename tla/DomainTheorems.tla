---------------------------- MODULE DomainTheorems ----------------------------
(***************************************************************************)
(* Facts that the proofs about the other modules share: sums over finite   *)
(* sets (SumFunctionOnSet, with which the totals of tables, captures and   *)
(* events are stated), what a ledger transaction does to balances, and     *)
(* what rounding does to amounts.                                          *)
(*                                                                         *)
(* A sum is defined by recursion on sets that chooses the element to add   *)
(* next, so each fact about it needs an induction.  The ones here are      *)
(* minimal counterexamples: a set of natural numbers has a least member    *)
(* and a set of subsets of a finite set has a minimal one (LeastNatural,   *)
(* MinimalSubset), and a minimal set without the property would have a     *)
(* smaller one without it.                                                 *)
(***************************************************************************)
EXTENDS Domain, FiniteSetTheorems, TLAPS

\* The element the recursion adds next, and what it computes at a set.
Pick(s) == CHOOSE x \in s : TRUE

Unfold(f, it, s) == IF s = {} THEN 0 ELSE f[Pick(s)] + it[s \ {Pick(s)}]

\* it solves the recursion of the sum of f on the subsets of S.
IsIter(it, f, S) == it = [s \in SUBSET S |-> Unfold(f, it, s)]

\* A set of natural numbers has a least member, from the well-foundedness of <.
LEMMA LeastNatural ==
  ASSUME NEW T, T \subseteq Nat, T # {}
  PROVE  \E n \in T : \A m \in T : n <= m
<1> DEFINE Less == {ss \in Nat \X Nat : ss[1] < ss[2]}
<1>1. IsWellFoundedOn(Less, Nat)
  BY NatLessThanWellFounded, Zenon DEF OpToRel
<1>2. PICK n \in T : \A m \in T : <<m, n>> \notin Less
  <2> HIDE DEF Less
  <2>1. QED
    BY <1>1, WFMin, Zenon
<1>3. ASSUME NEW m \in T PROVE n <= m
  <2>1. m \in Nat /\ n \in Nat
    OBVIOUS
  <2>2. m < n => <<m, n>> \in Less
    BY <2>1
  <2>3. <<m, n>> \notin Less
    BY <1>2
  <2> HIDE DEF Less
  <2>4. QED
    BY <2>1, <2>2, <2>3
<1>4. QED
  BY <1>3

\* Of some subsets of a finite set, one contains none of the others.
LEMMA MinimalSubset ==
  ASSUME NEW S, IsFiniteSet(S), NEW T, T \subseteq SUBSET S, T # {}
  PROVE  \E s \in T : \A r \in T : r \subseteq s => r = s
<1>1. IsWellFoundedOn(StrictSubsetOrdering(S), SUBSET S)
  BY FS_FiniteSubsetsOfFinite, FS_StrictSubsetOrderingWellFounded, Zenon
<1>2. PICK s \in T : \A r \in T : <<r, s>> \notin StrictSubsetOrdering(S)
  BY <1>1, WFMin, Zenon
<1>3. ASSUME NEW r \in T, r \subseteq s PROVE r = s
  <2> SUFFICES ASSUME r # s PROVE <<r, s>> \in StrictSubsetOrdering(S)
    BY <1>2
  <2>1. r \in SUBSET S /\ s \in SUBSET S
    OBVIOUS
  <2>2. <<r, s>> \in (SUBSET S) \X (SUBSET S) /\ <<r, s>>[1] = r /\ <<r, s>>[2] = s
    BY <2>1
  <2>3. QED
    BY <2>2, <1>3, Zenon DEF StrictSubsetOrdering
<1>4. QED
  BY <1>3

\* The element that the recursion adds next is one of the set.
LEMMA PickIn == \A s : s # {} => Pick(s) \in s
BY Zenon DEF Pick

\* The recursion of the sum has a solution, built up by cardinality.
LEMMA IterExists ==
  ASSUME NEW S, IsFiniteSet(S), NEW f, \A x \in S : f[x] \in Int
  PROVE  \E it : IsIter(it, f, S)
<1> DEFINE Upto(n) == \E it \in [SUBSET S -> Int] :
                        \A s \in SUBSET S : Cardinality(s) <= n => it[s] = Unfold(f, it, s)
           Bad == {n \in Nat : ~Upto(n)}
<1>0. \A s \in SUBSET S : /\ IsFiniteSet(s) /\ Cardinality(s) \in Nat
                          /\ Cardinality(s) <= Cardinality(S)
  BY FS_Subset, FS_CardinalityType
<1>1. ASSUME NEW g \in [SUBSET S -> Int], NEW s \in SUBSET S
      PROVE  Unfold(f, g, s) \in Int
  BY PickIn DEF Unfold
<1>2. Upto(0)
  <2> DEFINE g == [s \in SUBSET S |-> 0]
  <2>1. g \in [SUBSET S -> Int]
    OBVIOUS
  <2>2. ASSUME NEW s \in SUBSET S, Cardinality(s) <= 0 PROVE g[s] = Unfold(f, g, s)
    <3>1. s = {}
      BY <1>0, <2>2, FS_EmptySet
    <3>2. QED
      BY <3>1 DEF Unfold
  <2>3. QED
    BY <2>1, <2>2
<1>3. ASSUME NEW n \in Nat, Upto(n) PROVE Upto(n + 1)
  <2>1. PICK g \in [SUBSET S -> Int] :
          \A s \in SUBSET S : Cardinality(s) <= n => g[s] = Unfold(f, g, s)
    BY <1>3
  <2> DEFINE h == [s \in SUBSET S |-> Unfold(f, g, s)]
  <2>2. h \in [SUBSET S -> Int]
    BY <1>1
  <2>3. ASSUME NEW s \in SUBSET S, Cardinality(s) <= n + 1 PROVE h[s] = Unfold(f, h, s)
    <3>1. CASE s = {}
      BY <3>1 DEF Unfold
    <3>2. CASE s # {}
      <4>1. Pick(s) \in s /\ s \ {Pick(s)} \in SUBSET S
        BY <3>2, PickIn
      <4>2. Cardinality(s \ {Pick(s)}) = Cardinality(s) - 1
        BY <1>0, <4>1, FS_RemoveElement
      <4>3. Cardinality(s \ {Pick(s)}) <= n
        BY <1>0, <2>3, <4>1, <4>2
      <4>4. h[s \ {Pick(s)}] = g[s \ {Pick(s)}]
        BY <2>1, <4>1, <4>3
      <4>5. h[s] = f[Pick(s)] + g[s \ {Pick(s)}]
        BY <3>2 DEF Unfold
      <4> HIDE DEF h
      <4>6. QED
        BY <3>2, <4>4, <4>5 DEF Unfold
    <3>3. QED
      BY <3>1, <3>2
  <2> HIDE DEF h
  <2>4. QED
    BY <2>2, <2>3
<1> HIDE DEF Upto
<1>4. Bad = {}
  <2> SUFFICES ASSUME Bad # {} PROVE FALSE
    OBVIOUS
  <2>1. PICK n \in Bad : \A m \in Bad : n <= m
    BY LeastNatural
  <2>2. n \in Nat /\ n # 0 /\ ~Upto(n)
    BY <1>2
  <2>3. n - 1 \in Nat /\ n - 1 \notin Bad /\ (n - 1) + 1 = n
    BY <2>1, <2>2
  <2>4. Upto(n - 1)
    BY <2>3
  <2>5. QED
    BY <1>3, <2>2, <2>3, <2>4
<1>5. Upto(Cardinality(S))
  <2>1. Cardinality(S) \in Nat
    BY FS_CardinalityType
  <2>2. QED
    BY <1>4, <2>1
<1>6. PICK g \in [SUBSET S -> Int] :
        \A s \in SUBSET S : Cardinality(s) <= Cardinality(S) => g[s] = Unfold(f, g, s)
  BY <1>5 DEF Upto
<1>7. \A s \in SUBSET S : g[s] = Unfold(f, g, s)
  BY <1>0, <1>6
<1>8. g = [s \in SUBSET S |-> Unfold(f, g, s)]
  BY <1>7
<1>9. QED
  BY <1>8, Zenon DEF IsIter


Iter(f, S) == CHOOSE it : IsIter(it, f, S)

\* SumFunctionOnSet is that solution, taken at the whole set.
LEMMA SumDef ==
  ASSUME NEW f, NEW S
  PROVE  SumFunctionOnSet(f, S) = Iter(f, S)[S]
BY Zenon DEF SumFunctionOnSet, FoldFunctionOnSet, MapThenFoldSet, Unfold, Pick, Iter, IsIter

\* One step of the recursion, at a subset of the set it is defined on.
LEMMA IterStep ==
  ASSUME NEW it, NEW f, NEW S, IsIter(it, f, S), NEW s \in SUBSET S
  PROVE  /\ s = {} => it[s] = 0
         /\ s # {} => /\ Pick(s) \in s /\ s \ {Pick(s)} \in SUBSET S
                      /\ it[s] = f[Pick(s)] + it[s \ {Pick(s)}]
<1>1. it[s] = Unfold(f, it, s)
  BY DEF IsIter
<1>2. QED
  BY <1>1, PickIn DEF Unfold

\* Two solutions agree where they add up the same integers.
LEMMA IterAgree ==
  ASSUME NEW f, NEW g, NEW S, NEW T, NEW i, NEW j, IsIter(i, f, S), IsIter(j, g, T),
         NEW U \in (SUBSET S) \cap (SUBSET T), IsFiniteSet(U),
         \A x \in U : f[x] = g[x] /\ f[x] \in Int
  PROVE  i[U] = j[U] /\ i[U] \in Int
<1> DEFINE Bad == {s \in SUBSET U : ~(i[s] = j[s] /\ i[s] \in Int)}
<1>1. Bad = {}
  <2> SUFFICES ASSUME Bad # {} PROVE FALSE
    OBVIOUS
  <2>1. PICK s \in Bad : \A r \in Bad : r \subseteq s => r = s
    <3>1. Bad \subseteq SUBSET U
      OBVIOUS
    <3> HIDE DEF Bad
    <3>2. QED
      BY <3>1, MinimalSubset
  <2>2. s \in SUBSET S /\ s \in SUBSET T /\ s \in SUBSET U
    OBVIOUS
  <2>3. s # {}
    <3>1. s = {} => i[s] = 0
      BY <2>2, IterStep
    <3>2. s = {} => j[s] = 0
      BY <2>2, IterStep
    <3>3. QED
      BY <3>1, <3>2
  <2>4. /\ Pick(s) \in s /\ s \ {Pick(s)} \in SUBSET U
        /\ i[s] = f[Pick(s)] + i[s \ {Pick(s)}]
        /\ j[s] = g[Pick(s)] + j[s \ {Pick(s)}]
    BY <2>2, <2>3, IterStep
  <2>5. s \ {Pick(s)} \notin Bad
    BY <2>1, <2>4
  <2>6. i[s \ {Pick(s)}] = j[s \ {Pick(s)}] /\ i[s \ {Pick(s)}] \in Int
    BY <2>4, <2>5
  <2>7. Pick(s) \in U
    BY <2>2, <2>4
  <2>8. QED
    BY <2>4, <2>6, <2>7
<1>2. QED
  BY <1>1

\* Any element may be added last, not only the one the recursion picks.
LEMMA IterRemove ==
  ASSUME NEW f, NEW S, IsFiniteSet(S), NEW i, IsIter(i, f, S), \A x \in S : f[x] \in Int
  PROVE  \A s \in SUBSET S : \A y \in s : i[s] = f[y] + i[s \ {y}]
<1>0. \A s \in SUBSET S : i[s] \in Int
  <2> TAKE s \in SUBSET S
  <2>1. IsFiniteSet(s)
    BY FS_Subset
  <2>2. QED
    BY <2>1, IterAgree
<1> DEFINE Bad == {s \in SUBSET S : \E y \in s : i[s] # f[y] + i[s \ {y}]}
<1>1. Bad = {}
  <2> SUFFICES ASSUME Bad # {} PROVE FALSE
    OBVIOUS
  <2>1. PICK s \in Bad : \A r \in Bad : r \subseteq s => r = s
    <3>1. Bad \subseteq SUBSET S
      OBVIOUS
    <3> HIDE DEF Bad
    <3>2. QED
      BY <3>1, MinimalSubset
  <2>2. PICK y \in s : i[s] # f[y] + i[s \ {y}]
    OBVIOUS
  <2> DEFINE x == Pick(s)
             r == (s \ {x}) \ {y}
  <2>3. s \in SUBSET S /\ x \in s /\ i[s] = f[x] + i[s \ {x}]
    BY IterStep
  <2> HIDE DEF x
  <2>4. x # y
    BY <2>2, <2>3
  <2>5. s \ {x} \in SUBSET S /\ s \ {y} \in SUBSET S /\ y \in s \ {x} /\ x \in s \ {y}
    BY <2>3, <2>4
  <2>6. s \ {x} \notin Bad /\ s \ {y} \notin Bad
    BY <2>1, <2>3
  <2>7. i[s \ {x}] = f[y] + i[(s \ {x}) \ {y}]
    BY <2>5, <2>6
  <2>8. i[s \ {y}] = f[x] + i[(s \ {y}) \ {x}]
    BY <2>5, <2>6
  <2>9. (s \ {y}) \ {x} = r
    OBVIOUS
  <2>10. r \in SUBSET S /\ f[x] \in Int /\ f[y] \in Int /\ i[r] \in Int
    BY <1>0, <2>3
  <2>11. i[s] = f[x] + (f[y] + i[r]) /\ i[s \ {y}] = f[x] + i[r]
    BY <2>3, <2>7, <2>8, <2>9
  <2> HIDE DEF r
  <2>12. QED
    BY <2>2, <2>10, <2>11
<1>2. QED
  BY <1>1

\* The chosen solution is one.
LEMMA IterIs ==
  ASSUME NEW f, NEW S, IsFiniteSet(S), \A x \in S : f[x] \in Int
  PROVE  IsIter(Iter(f, S), f, S)
<1>1. \E it : IsIter(it, f, S)
  BY IterExists
<1>2. QED
  BY <1>1, Zenon DEF Iter

\* A sum depends only on the values it adds up.
LEMMA SumEqual ==
  ASSUME NEW S, IsFiniteSet(S), NEW f, NEW g, \A x \in S : f[x] = g[x] /\ f[x] \in Int
  PROVE  SumFunctionOnSet(f, S) = SumFunctionOnSet(g, S)
<1>1. IsIter(Iter(f, S), f, S) /\ IsIter(Iter(g, S), g, S)
  BY IterIs
<1>2. Iter(f, S)[S] = Iter(g, S)[S]
  BY <1>1, IterAgree
<1>3. QED
  BY <1>2, SumDef

\* A sum of integers is an integer.
LEMMA SumInt ==
  ASSUME NEW S, IsFiniteSet(S), NEW f, \A x \in S : f[x] \in Int
  PROVE  SumFunctionOnSet(f, S) \in Int
<1>1. IsIter(Iter(f, S), f, S)
  BY IterIs
<1>2. Iter(f, S)[S] \in Int
  BY <1>1, IterAgree
<1>3. QED
  BY <1>2, SumDef

\* The empty sum is zero.
LEMMA SumEmpty == \A f : SumFunctionOnSet(f, {}) = 0
<1> TAKE f
<1>1. IsFiniteSet({})
  BY FS_EmptySet
<1>2. IsIter(Iter(f, {}), f, {})
  BY <1>1, IterIs
<1>3. Iter(f, {})[{}] = 0
  BY <1>2, IterStep
<1>4. QED
  BY <1>3, SumDef

\* Any element may be split off a sum.
LEMMA SumRemove ==
  ASSUME NEW S, IsFiniteSet(S), NEW f, \A x \in S : f[x] \in Int, NEW y \in S
  PROVE  SumFunctionOnSet(f, S) = f[y] + SumFunctionOnSet(f, S \ {y})
<1> DEFINE R == S \ {y}
<1>1. IsFiniteSet(R) /\ R \in (SUBSET S) \cap (SUBSET R)
  BY FS_RemoveElement
<1>2. IsIter(Iter(f, S), f, S) /\ IsIter(Iter(f, R), f, R)
  BY <1>1, IterIs
<1>3. Iter(f, S)[S] = f[y] + Iter(f, S)[R]
  BY <1>2, IterRemove
<1>4. Iter(f, S)[R] = Iter(f, R)[R]
  BY <1>1, <1>2, IterAgree
<1>5. QED
  BY <1>3, <1>4, SumDef

\* Where S and T, f and g differ in x only, so do their sums.
LEMMA SumStep ==
  ASSUME NEW S, IsFiniteSet(S), NEW f, \A y \in S : f[y] \in Int,
         NEW T, IsFiniteSet(T), NEW g, \A y \in T : g[y] \in Int,
         NEW x, S \ {x} = T \ {x}, \A y \in S \ {x} : f[y] = g[y]
  PROVE  /\ SumFunctionOnSet(f, S) \in Int /\ SumFunctionOnSet(g, T) \in Int
         /\ SumFunctionOnSet(g, T) + (IF x \in S THEN f[x] ELSE 0) =
              SumFunctionOnSet(f, S) + (IF x \in T THEN g[x] ELSE 0)
<1> DEFINE R == S \ {x}
           sf == SumFunctionOnSet(f, S)
           sg == SumFunctionOnSet(g, T)
           sr == SumFunctionOnSet(f, R)
<1>1. IsFiniteSet(R)
  BY FS_RemoveElement
<1>2. sr = SumFunctionOnSet(g, R) /\ sr \in Int
  BY <1>1, SumEqual, SumInt
<1>3. sf = sr + (IF x \in S THEN f[x] ELSE 0)
  <2>1. CASE x \in S
    <3>1. sf = f[x] + sr
      BY <2>1, SumRemove
    <3> HIDE DEF sf, sr
    <3>2. f[x] \in Int
      BY <2>1
    <3>3. QED
      BY <1>2, <2>1, <3>1, <3>2
  <2>2. CASE x \notin S
    <3>1. R = S
      BY <2>2
    <3>2. sf = sr
      BY <3>1
    <3> HIDE DEF sf, sr
    <3>3. QED
      BY <1>2, <2>2, <3>2
  <2>3. QED
    BY <2>1, <2>2
<1>4. sg = sr + (IF x \in T THEN g[x] ELSE 0)
  <2>0. sr = SumFunctionOnSet(g, T \ {x})
    BY <1>2
  <2>1. CASE x \in T
    <3>1. sg = g[x] + sr
      BY <2>0, <2>1, SumRemove
    <3> HIDE DEF sg, sr
    <3>2. g[x] \in Int
      BY <2>1
    <3>3. QED
      BY <1>2, <2>1, <3>1, <3>2
  <2>2. CASE x \notin T
    <3>1. T \ {x} = T
      BY <2>2
    <3>2. sg = sr
      BY <2>0, <3>1
    <3> HIDE DEF sg, sr
    <3>3. QED
      BY <1>2, <2>2, <3>2
  <2>3. QED
    BY <2>1, <2>2
<1> HIDE DEF sf, sg, sr
<1>5. (x \in S => f[x] \in Int) /\ (x \in T => g[x] \in Int)
  OBVIOUS
<1>6. sf \in Int /\ sg \in Int
      /\ sg + (IF x \in S THEN f[x] ELSE 0) = sf + (IF x \in T THEN g[x] ELSE 0)
  BY <1>2, <1>3, <1>4, <1>5
<1>7. QED
  BY <1>6 DEF sf, sg

\* A sum of natural numbers is one.
LEMMA SumNat ==
  ASSUME NEW S, IsFiniteSet(S), NEW f, \A x \in S : f[x] \in Nat
  PROVE  SumFunctionOnSet(f, S) \in Nat
<1> DEFINE Bad == {s \in SUBSET S : SumFunctionOnSet(f, s) \notin Nat}
<1>1. Bad = {}
  <2> SUFFICES ASSUME Bad # {} PROVE FALSE
    OBVIOUS
  <2>1. PICK s \in Bad : \A r \in Bad : r \subseteq s => r = s
    <3>1. Bad \subseteq SUBSET S
      OBVIOUS
    <3> HIDE DEF Bad
    <3>2. QED
      BY <3>1, MinimalSubset
  <2>2. s \in SUBSET S /\ SumFunctionOnSet(f, s) \notin Nat
    OBVIOUS
  <2>3. IsFiniteSet(s) /\ s # {}
    <3>1. SumFunctionOnSet(f, {}) \in Nat
      BY SumEmpty
    <3>2. QED
      BY <2>2, <3>1, FS_Subset
  <2>4. PICK x \in s : TRUE
    BY <2>3
  <2>5. s \ {x} \notin Bad
    BY <2>1
  <2>6. SumFunctionOnSet(f, s \ {x}) \in Nat /\ f[x] \in Nat
    BY <2>2, <2>5
  <2>7. SumFunctionOnSet(f, s) = f[x] + SumFunctionOnSet(f, s \ {x})
    BY <2>2, <2>3, SumRemove
  <2> DEFINE small == SumFunctionOnSet(f, s \ {x})
             big == SumFunctionOnSet(f, s)
  <2>8. small \in Nat /\ f[x] \in Nat /\ big = f[x] + small /\ big \notin Nat
    BY <2>2, <2>6, <2>7
  <2> HIDE DEF small, big
  <2>9. QED
    BY <2>8
<1>2. QED
  BY <1>1
\* A sum of zeros is zero.
LEMMA SumZero ==
  ASSUME NEW S, IsFiniteSet(S), NEW f, \A x \in S : f[x] = 0
  PROVE  SumFunctionOnSet(f, S) = 0
<1> DEFINE Bad == {s \in SUBSET S : SumFunctionOnSet(f, s) # 0}
<1>1. Bad = {}
  <2> SUFFICES ASSUME Bad # {} PROVE FALSE
    OBVIOUS
  <2>1. PICK s \in Bad : \A r \in Bad : r \subseteq s => r = s
    <3>1. Bad \subseteq SUBSET S
      OBVIOUS
    <3> HIDE DEF Bad
    <3>2. QED
      BY <3>1, MinimalSubset
  <2>2. s \in SUBSET S /\ SumFunctionOnSet(f, s) # 0
    OBVIOUS
  <2>3. IsFiniteSet(s) /\ s # {}
    BY <2>2, FS_Subset, SumEmpty
  <2>4. PICK x \in s : TRUE
    BY <2>3
  <2>5. s \ {x} \notin Bad
    BY <2>1
  <2>6. SumFunctionOnSet(f, s \ {x}) = 0 /\ f[x] = 0
    BY <2>2, <2>5
  <2>7. SumFunctionOnSet(f, s) = f[x] + SumFunctionOnSet(f, s \ {x})
    <3>1. \A y \in s : f[y] \in Int
      BY <2>2
    <3>2. QED
      BY <2>3, <3>1, SumRemove
  <2>8. QED
    BY <2>2, <2>6, <2>7
<1>2. QED
  BY <1>1

-----------------------------------------------------------------------------
(***************************************************************************)
(* Ledger transactions                                                     *)
(***************************************************************************)

\* The two entries of a transfer.
LEMMA TransferEntries ==
  ASSUME NEW from, NEW to, NEW amount
  PROVE  /\ DOMAIN Transfer(from, to, amount) = {1, 2}
         /\ Len(Transfer(from, to, amount)) = 2
         /\ Transfer(from, to, amount)[1].account = from
         /\ Transfer(from, to, amount)[1].debit = amount
         /\ Transfer(from, to, amount)[1].credit = 0
         /\ Transfer(from, to, amount)[2].account = to
         /\ Transfer(from, to, amount)[2].debit = 0
         /\ Transfer(from, to, amount)[2].credit = amount
<1>1. 1 .. 2 = {1, 2}
  OBVIOUS
<1>2. QED
  BY <1>1 DEF Transfer, LedgerEntry

\* A transfer of a positive amount passes ValidateBalanced: services never build a
\* transaction that the store refuses.
LEMMA TransferBalanced ==
  ASSUME NEW from, NEW to, NEW amount \in Int, amount > 0
  PROVE  ValidateBalanced(Transfer(from, to, amount))
<1> DEFINE e == Transfer(from, to, amount)
           D == {1, 2}
<1>1. DOMAIN e = D /\ Len(e) = 2
  BY TransferEntries
<1>2. /\ e[1].debit = amount /\ e[1].credit = 0
      /\ e[2].debit = 0 /\ e[2].credit = amount
  BY TransferEntries
<1> HIDE DEF e
<1> DEFINE f == [i \in DOMAIN e |-> e[i].debit]
           g == [i \in DOMAIN e |-> e[i].credit]
<1>3. f[1] = amount /\ f[2] = 0 /\ g[1] = 0 /\ g[2] = amount
  BY <1>1, <1>2
<1>4. IsFiniteSet(D) /\ IsFiniteSet(D \ {1}) /\ D \ {1} = {2} /\ {2} \ {2} = {}
  BY FS_EmptySet, FS_AddElement, FS_RemoveElement
<1>5. ASSUME NEW h, h[1] \in Int, h[2] \in Int
      PROVE  SumFunctionOnSet(h, D) = h[1] + (h[2] + 0)
  <2>1. SumFunctionOnSet(h, D) = h[1] + SumFunctionOnSet(h, D \ {1})
    BY <1>4, <1>5, SumRemove
  <2>2. SumFunctionOnSet(h, {2}) = h[2] + SumFunctionOnSet(h, {2} \ {2})
    BY <1>4, <1>5, SumRemove
  <2>3. QED
    BY <1>4, <2>1, <2>2, SumEmpty
<1>6. SumFunctionOnSet(f, D) = amount /\ SumFunctionOnSet(g, D) = amount
  <2> HIDE DEF f, g
  <2>1. SumFunctionOnSet(f, D) = f[1] + (f[2] + 0) /\ SumFunctionOnSet(g, D) = g[1] + (g[2] + 0)
    BY <1>3, <1>5
  <2>2. QED
    BY <1>3, <2>1
<1>7. \A i \in D : e[i].debit >= 0 /\ e[i].credit >= 0
                   /\ (e[i].debit = 0) # (e[i].credit = 0)
  BY <1>2
<1>8. ValidateBalanced(e)
  BY <1>1, <1>6, <1>7 DEF ValidateBalanced
<1>9. QED
  BY <1>8 DEF e

\* Posting a transfer takes the amount from one account and gives it to the other.
LEMMA PostTransfer ==
  ASSUME NEW A, NEW b \in [A -> Int], NEW from \in A, NEW to \in A, from # to,
         NEW amount \in Int, NEW r, r = Post(b, Transfer(from, to, amount))
  PROVE  /\ r \in [A -> Int]
         /\ r[from] = b[from] - amount
         /\ r[to] = b[to] + amount
         /\ \A a \in A \ {from, to} : r[a] = b[a]
<1> DEFINE e == Transfer(from, to, amount)
<1>1. /\ e[1].account = from /\ e[1].debit = amount /\ e[1].credit = 0
      /\ e[2].account = to /\ e[2].debit = 0 /\ e[2].credit = amount
  BY TransferEntries
<1>2. r = Post(b, e)
  OBVIOUS
<1> HIDE DEF e
<1>3. r = [b EXCEPT ![from] = @ + 0 - amount, ![to] = @ + amount - 0]
  BY <1>1, <1>2 DEF Post
<1>4. QED
  BY <1>3
-----------------------------------------------------------------------------
(***************************************************************************)
(* Rounding                                                                *)
(***************************************************************************)

\* Multiplication by a natural number keeps the order.
LEMMA TimesMonotone ==
  ASSUME NEW b \in Int, b > 0, NEW x \in Int, NEW y \in Int, x <= y
  PROVE  b * x <= b * y
<1>1. PICK d \in Nat : y = x + d
  <2>1. y - x \in Nat /\ y = x + (y - x)
    OBVIOUS
  <2>2. QED
    BY <2>1
<1>2. b * d \in Nat
  OBVIOUS
<1>3. b * y = b * x + b * d /\ b * x \in Int
  BY <1>1
<1>4. QED
  BY <1>2, <1>3

\* A quotient is the only number whose multiple is within one divisor below.
LEMMA QuotientUnique ==
  ASSUME NEW b \in Int, b > 0, NEW a \in Int, NEW q \in Int, b * q <= a, a < b * q + b
  PROVE  a \div b = q
<1>1. PICK d \in Int : d = a \div b
  OBVIOUS
<1>2. b * d <= a /\ a < b * d + b
  BY <1>1
<1>3. b * (d + 1) = b * d + b /\ b * (q + 1) = b * q + b
      /\ b * d \in Int /\ b * q \in Int
  OBVIOUS
<1>4. ~(d < q)
  <2>1. d < q => b * (d + 1) <= b * q
    BY TimesMonotone
  <2>2. QED
    BY <1>2, <1>3, <2>1
<1>5. ~(q < d)
  <2>1. q < d => b * (q + 1) <= b * d
    BY TimesMonotone
  <2>2. QED
    BY <1>2, <1>3, <2>1
<1>6. QED
  BY <1>1, <1>4, <1>5

\* Numbers without remainder are the multiples.
LEMMA MultipleOf ==
  ASSUME NEW b \in Int, b > 0, NEW x \in Int, x % b = 0
  PROVE  \E k \in Int : x = b * k
<1>1. x = b * (x \div b) + (x % b) /\ x \div b \in Int
  OBVIOUS
<1>2. QED
  BY <1>1

\* A multiple leaves no remainder.
LEMMA NoRemainder ==
  ASSUME NEW b \in Int, b > 0, NEW k \in Int, NEW m \in Int, m = b * k
  PROVE  m % b = 0
<1>1. m \div b = k
  BY QuotientUnique
<1>2. m = b * (m \div b) + (m % b)
  OBVIOUS
<1>3. QED
  BY <1>1, <1>2

\* The number of units that x is rounded to.
LEMMA RoundToUnits ==
  ASSUME NEW u \in Int, u > 0, NEW x \in Int
  PROVE  \E q \in Int : /\ RoundTo(x, u) = u * q
                        /\ (2 * u) * q <= 2 * x + u
                        /\ 2 * x + u < (2 * u) * q + 2 * u
<1>1. PICK d \in Int, n \in Int : d > 0 /\ d = 2 * u /\ n = 2 * x + u
  OBVIOUS
<1>2. PICK q \in Int : q = n \div d
  BY <1>1
<1>3. d * q <= n /\ n < d * q + d
  BY <1>1, <1>2
<1>4. RoundTo(x, u) = q * u /\ q * u = u * q
  BY <1>1, <1>2 DEF RoundTo
<1>5. QED
  BY <1>1, <1>3, <1>4

\* Rounding gives a multiple of the unit, and adding a multiple commutes with it.
LEMMA RoundToLaws ==
  ASSUME NEW u \in Int, u > 0, NEW x \in Int, NEW y \in Int, y % u = 0
  PROVE  /\ RoundTo(x, u) \in Int
         /\ RoundTo(x, u) % u = 0
         /\ RoundTo(y + x, u) = y + RoundTo(x, u)
         /\ (y + RoundTo(x, u)) % u = 0
<1>1. PICK q \in Int : /\ RoundTo(x, u) = u * q
                       /\ (2 * u) * q <= 2 * x + u /\ 2 * x + u < (2 * u) * q + 2 * u
  BY RoundToUnits
<1>2. PICK k \in Int : y = u * k
  BY MultipleOf
<1>3. PICK d \in Int, s \in Int : d = 2 * u /\ d > 0 /\ s = 2 * (y + x) + u
  OBVIOUS
<1>4. d * (k + q) = d * k + d * q /\ d * k = 2 * y /\ d * k \in Int /\ d * q \in Int
  BY <1>2, <1>3
<1>5. d * (k + q) <= s /\ s < d * (k + q) + d
  BY <1>1, <1>3, <1>4
<1>6. s \div d = k + q
  BY <1>3, <1>5, QuotientUnique
<1>7. RoundTo(y + x, u) = (k + q) * u
  BY <1>3, <1>6 DEF RoundTo
<1>8. (k + q) * u = u * (k + q) /\ u * (k + q) = u * k + u * q /\ u * q \in Int
      /\ u * (k + q) \in Int
  OBVIOUS
<1>9. PICK v \in Int, w \in Int : v = u * q /\ w = u * (k + q)
  BY <1>8
<1>10. v % u = 0 /\ w % u = 0
  BY <1>9, NoRemainder
<1>11. RoundTo(x, u) = v /\ RoundTo(y + x, u) = w /\ w = y + v
  BY <1>1, <1>2, <1>7, <1>8, <1>9
<1>12. QED
  BY <1>9, <1>10, <1>11

\* An amount that is left alone: nothing, and a multiple.
LEMMA RoundToSame ==
  ASSUME NEW u \in Int, u > 0, NEW y \in Int, y % u = 0
  PROVE  RoundTo(y, u) = y /\ RoundTo(0, u) = 0
<1>1. PICK z \in Int, d \in Int : z = 0 /\ d = 2 * u /\ d > 0
  OBVIOUS
<1>2. u \div d = z
  <2>1. d * z = 0
    BY <1>1
  <2>2. d * z <= u /\ u < d * z + d
    BY <1>1, <2>1
  <2>3. QED
    BY <1>1, <2>2, QuotientUnique
<1>3. RoundTo(z, u) = z * u
  BY <1>1, <1>2 DEF RoundTo
<1>4. RoundTo(z, u) = 0
  BY <1>1, <1>3
<1>5. RoundTo(y + z, u) = y + RoundTo(z, u)
  BY RoundToLaws
<1>6. y + z = y
  BY <1>1
<1>7. QED
  BY <1>1, <1>4, <1>5, <1>6

\* Rounding does not take an amount over a limit that is a multiple, nor below zero.
LEMMA RoundToLimit ==
  ASSUME NEW u \in Int, u > 0, NEW x \in Int, NEW y \in Int, y % u = 0,
         NEW l \in Int, l % u = 0
  PROVE  /\ y + x <= l => y + RoundTo(x, u) <= l
         /\ x >= 0 => RoundTo(x, u) >= 0
<1>1. PICK q \in Int : /\ RoundTo(x, u) = u * q
                       /\ (2 * u) * q <= 2 * x + u /\ 2 * x + u < (2 * u) * q + 2 * u
  BY RoundToUnits
<1>2. PICK k \in Int : y = u * k
  BY MultipleOf
<1>3. PICK m \in Int : l = u * m
  BY MultipleOf
<1>4. PICK d \in Int : d = 2 * u /\ d > 0
  OBVIOUS
<1>5. /\ d * (k + q) = d * k + d * q /\ d * k = 2 * y /\ d * k \in Int /\ d * q \in Int
      /\ d * (m + 1) = d * m + d /\ d * m = 2 * l /\ d * m \in Int
      /\ d * (q + 1) = d * q + d
  BY <1>2, <1>3, <1>4
<1>6. ASSUME y + x <= l PROVE y + RoundTo(x, u) <= l
  <2>1. d * (k + q) < d * (m + 1)
    BY <1>1, <1>4, <1>5, <1>6
  <2>2. k + q <= m
    <3>1. k + q > m => d * (m + 1) <= d * (k + q)
      BY <1>4, TimesMonotone
    <3>2. d * (m + 1) \in Int /\ d * (k + q) \in Int
      BY <1>4
    <3>3. QED
      BY <2>1, <3>1, <3>2
  <2>3. u * (k + q) <= u * m
    BY <2>2, TimesMonotone
  <2>4. u * (k + q) = u * k + u * q /\ u * q \in Int
    OBVIOUS
  <2>5. QED
    BY <1>1, <1>2, <1>3, <2>3, <2>4
<1>7. ASSUME x >= 0 PROVE RoundTo(x, u) >= 0
  <2>1. d * (q + 1) > 0
    BY <1>1, <1>4, <1>5, <1>7
  <2>2. q >= 0
    <3>1. q + 1 <= 0 => d * (q + 1) <= d * 0
      BY <1>4, TimesMonotone
    <3>2. d * 0 = 0 /\ d * (q + 1) \in Int
      BY <1>4
    <3>3. QED
      BY <2>1, <3>1, <3>2
  <2>3. u * 0 <= u * q
    BY <2>2, TimesMonotone
  <2>4. QED
    BY <1>1, <2>3
<1>8. QED
  BY <1>6, <1>7
=============================================================================
