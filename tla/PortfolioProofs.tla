-------------------------- MODULE PortfolioProofs ---------------------------
(* Proofs about Portfolio, for any cash, cap and bound on the orders: its      *)
(* types, and its four invariants.  What an order adds to a total, and what    *)
(* it takes away, is a lemma about bags; that a total does not depend on the   *)
(* order in which it is taken comes first.                                     *)
(*                                                                             *)
(*   ReservationsMatch  is inductive with the types.                           *)
(*   MirrorCatchesUp    holds since the last portfolio under way is always the *)
(*                      account (MirrorEndsRight).                             *)
(*   ExposureKept       needs two facts more: every portfolio between the      *)
(*                      worker's and the exchange's bounds what is held, once  *)
(*                      the answers after it are counted (MirrorBounds), and   *)
(*                      every buy under way has a reservation (BuysByIntents). *)
(*                      BTC stays reserved for good only after a sell has      *)
(*                      failed, which the property excuses (KeptLoosens).      *)
(*   CashoutKept        needs that no more is being bought than when the       *)
(*                      cash-out was asked for (CashoutCovers), and that its   *)
(*                      order is sent once (OneCashout).                       *)
EXTENDS Portfolio, FiniteSetTheorems, WellFoundedInduction, TLAPS

-----------------------------------------------------------------------------
(* Sums over finite sets                                                   *)

\* A set of numbers that is not empty has a least one.
LEMMA LeastNumber ==
  ASSUME NEW T \in SUBSET Nat, T # {}
  PROVE \E n \in T : \A m \in T : n <= m
<1> DEFINE R == OpToRel(<, Nat)
<1>1. IsWellFoundedOn(R, Nat)
  BY NatLessThanWellFounded
<1>2. \A x, y \in Nat : x < y => <<x, y>> \in R
  BY DEF OpToRel
<1>3. \E x \in T : \A y \in T : <<y, x>> \notin R
  <2> HIDE DEF R
  <2> QED BY <1>1, WFMin
<1>4. \E x \in T : \A y \in T : ~(y < x)
  <2>1. \A x, y \in T : x < y => <<x, y>> \in R
    BY <1>2
  <2> HIDE DEF R
  <2> QED BY <1>3, <2>1
<1> HIDE DEF R
<1> QED BY <1>4

\* The element that a fold over a set takes next.
Pick(s) == CHOOSE x \in s : TRUE

\* g sums f over the subsets of S: what the fold of a set is chosen to be.
Summing(g, f, S) == g = [s \in SUBSET S |-> IF s = {} THEN 0 ELSE f[Pick(s)] + g[s \ {Pick(s)}]]

\* The same over the subsets of no more than n elements.
Small(S, n) == {s \in SUBSET S : Cardinality(s) <= n}

SmallSumming(g, f, S, n) ==
  g = [s \in Small(S, n) |-> IF s = {} THEN 0 ELSE f[Pick(s)] + g[s \ {Pick(s)}]]

\* What is left of a set once an element has been picked is smaller.
LEMMA PickSmaller ==
  ASSUME NEW S, IsFiniteSet(S), NEW s \in SUBSET S, s # {}
  PROVE  /\ Pick(s) \in s
         /\ s \ {Pick(s)} \in SUBSET S
         /\ IsFiniteSet(s)
         /\ Cardinality(s) \in Nat \ {0}
         /\ Cardinality(s \ {Pick(s)}) = Cardinality(s) - 1
<1>1. Pick(s) \in s
  BY DEF Pick
<1>2. IsFiniteSet(s)
  BY FS_Subset
<1>3. Cardinality(s \ {Pick(s)}) = Cardinality(s) - 1
  BY <1>1, <1>2, FS_RemoveElement
<1>4. Cardinality(s) \in Nat \ {0}
  BY <1>2, FS_CardinalityType, FS_EmptySet
<1> QED BY <1>1, <1>2, <1>3, <1>4

\* A collection of finite sets has one of which no element can be spared.
LEMMA MinimalSubset ==
  ASSUME NEW S, IsFiniteSet(S), NEW C \in SUBSET SUBSET S, C # {}
  PROVE  \E s \in C : IsFiniteSet(s) /\ \A x \in s : s \ {x} \notin C
<1> DEFINE Counts == {Cardinality(s) : s \in C}
<1>1. \A s \in C : IsFiniteSet(s) /\ Cardinality(s) \in Nat
  BY FS_Subset, FS_CardinalityType
<1>2. Counts \in SUBSET Nat /\ Counts # {}
  BY <1>1
<1>3. PICK n \in Counts : \A m \in Counts : n <= m
  BY <1>2, LeastNumber
<1>4. PICK s \in C : Cardinality(s) = n
  BY <1>3
<1>5. ASSUME NEW x \in s, s \ {x} \in C PROVE FALSE
  <2>1. Cardinality(s \ {x}) = Cardinality(s) - 1
    BY <1>1, FS_RemoveElement
  <2>2. n <= Cardinality(s \ {x})
    BY <1>3, <1>5
  <2> QED BY <1>1, <1>4, <2>1, <2>2
<1> QED BY <1>1, <1>5

\* There is a function that sums, for any number of elements: the least number
\* without one is neither zero nor a successor.
LEMMA SmallSummingExists ==
  ASSUME NEW f, NEW S, IsFiniteSet(S), NEW n \in Nat
  PROVE  \E g : SmallSumming(g, f, S, n)
<1> DEFINE Bad == {k \in Nat : ~\E g : SmallSumming(g, f, S, k)}
<1> SUFFICES ASSUME Bad # {} PROVE FALSE
  OBVIOUS
<1>1. PICK k \in Bad : \A m \in Bad : k <= m
  BY LeastNumber
<1>2. CASE k = 0
  <2> DEFINE g == [s \in Small(S, 0) |-> 0]
  <2>1. ASSUME NEW s \in Small(S, 0) PROVE s = {}
    <3>1. s \in SUBSET S /\ Cardinality(s) <= 0
      BY DEF Small
    <3>2. ASSUME s # {} PROVE Cardinality(s) \in Nat \ {0}
      BY <3>1, <3>2, PickSmaller
    <3> QED BY <3>1, <3>2
  <2>2. g = [s \in Small(S, 0) |-> IF s = {} THEN 0 ELSE f[Pick(s)] + g[s \ {Pick(s)}]]
    BY <2>1
  <2>3. SmallSumming(g, f, S, 0)
    <3> HIDE DEF g
    <3> QED BY <2>2 DEF SmallSumming
  <2> QED BY <1>1, <1>2, <2>3
<1>3. CASE k # 0
  <2>1. k - 1 \in Nat /\ k - 1 \notin Bad
    BY <1>1, <1>3
  <2>2. PICK h : SmallSumming(h, f, S, k - 1)
    BY <2>1
  <2> DEFINE g == [s \in Small(S, k) |-> IF s = {} THEN 0 ELSE f[Pick(s)] + h[s \ {Pick(s)}]]
  <2>3. ASSUME NEW s \in Small(S, k), s # {}
        PROVE  s \ {Pick(s)} \in Small(S, k - 1) /\ s \ {Pick(s)} \in Small(S, k)
    BY <2>3, PickSmaller DEF Small
  <2>4. \A s \in Small(S, k - 1) : g[s] = h[s]
    <3>1. \A s \in Small(S, k - 1) : s \in Small(S, k)
      BY FS_Subset, FS_CardinalityType DEF Small
    <3> QED BY <2>2, <3>1 DEF SmallSumming
  <2>5. SmallSumming(g, f, S, k)
    BY <2>3, <2>4 DEF SmallSumming
  <2> QED BY <1>1, <2>5
<1> QED BY <1>2, <1>3

\* There is a function that sums over all subsets of a finite set.
LEMMA SummingExists ==
  ASSUME NEW f, NEW S, IsFiniteSet(S)
  PROVE  \E g : Summing(g, f, S)
<1>1. PICK g : SmallSumming(g, f, S, Cardinality(S))
  BY SmallSummingExists, FS_CardinalityType
<1>2. Small(S, Cardinality(S)) = SUBSET S
  BY FS_Subset DEF Small
<1>3. g = [s \in SUBSET S |-> IF s = {} THEN 0 ELSE f[Pick(s)] + g[s \ {Pick(s)}]]
  BY <1>1, <1>2 DEF SmallSumming
<1> QED BY <1>3 DEF Summing

\* Two functions that sum agree, each on the subsets of its own set.
LEMMA SummingUnique ==
  ASSUME NEW f, NEW S, IsFiniteSet(S), NEW R \in SUBSET S,
         NEW g, Summing(g, f, S), NEW h, Summing(h, f, R)
  PROVE  g[R] = h[R]
<1> DEFINE Apart == {t \in SUBSET R : g[t] # h[t]}
<1> SUFFICES ASSUME Apart # {} PROVE FALSE
  OBVIOUS
<1>1. IsFiniteSet(R)
  BY FS_Subset
<1>2. PICK s \in Apart : \A x \in s : s \ {x} \notin Apart
  BY <1>1, MinimalSubset
<1>3. s # {}
  BY <1>2 DEF Summing
<1>4. Pick(s) \in s
  BY <1>3 DEF Pick
<1>5. g[s] = f[Pick(s)] + g[s \ {Pick(s)}] /\ h[s] = f[Pick(s)] + h[s \ {Pick(s)}]
  BY <1>2, <1>3 DEF Summing
<1>6. g[s \ {Pick(s)}] = h[s \ {Pick(s)}]
  BY <1>2, <1>4
<1> QED BY <1>2, <1>5, <1>6

\* The sum over a set is an element's value and the sum over the others.
LEMMA SumPick ==
  ASSUME NEW f, NEW S, IsFiniteSet(S)
  PROVE  SumFunctionOnSet(f, S)
         = IF S = {} THEN 0 ELSE f[Pick(S)] + SumFunctionOnSet(f, S \ {Pick(S)})
<1> DEFINE R == S \ {Pick(S)}
<1>1. \A T : SumFunctionOnSet(f, T) = (CHOOSE g : Summing(g, f, T))[T]
  BY DEF SumFunctionOnSet, FoldFunctionOnSet, MapThenFoldSet, Summing, Pick
<1>2. IsFiniteSet(R)
  BY FS_Subset
<1>3. PICK g : Summing(g, f, S) /\ SumFunctionOnSet(f, S) = g[S]
  BY <1>1, SummingExists
<1>4. PICK h : Summing(h, f, R) /\ SumFunctionOnSet(f, R) = h[R]
  BY <1>1, <1>2, SummingExists
<1>5. g[R] = h[R]
  BY <1>3, <1>4, SummingUnique
<1>6. g[S] = IF S = {} THEN 0 ELSE f[Pick(S)] + g[R]
  BY <1>3 DEF Summing
<1> HIDE DEF R
<1>7. CASE S = {}
  BY <1>3, <1>6, <1>7
<1>8. CASE S # {}
  <2>1. g[S] = f[Pick(S)] + h[R]
    BY <1>5, <1>6, <1>8
  <2> QED BY <1>3, <1>4, <1>8, <2>1 DEF R
<1> QED BY <1>7, <1>8

\* The sum over nothing.
LEMMA SumEmpty ==
  ASSUME NEW f
  PROVE  SumFunctionOnSet(f, {}) = 0
BY SumPick, FS_EmptySet

\* A sum of natural numbers is one.
LEMMA SumType ==
  ASSUME NEW f, NEW S, IsFiniteSet(S), \A x \in S : f[x] \in Nat
  PROVE  SumFunctionOnSet(f, S) \in Nat
<1> DEFINE Bad == {t \in SUBSET S : SumFunctionOnSet(f, t) \notin Nat}
<1> SUFFICES ASSUME Bad # {} PROVE FALSE
  OBVIOUS
<1>1. PICK s \in Bad : IsFiniteSet(s) /\ \A x \in s : s \ {x} \notin Bad
  BY MinimalSubset
<1>2. s # {}
  BY <1>1, SumEmpty
<1>3. Pick(s) \in s
  BY <1>2 DEF Pick
<1>4. SumFunctionOnSet(f, s \ {Pick(s)}) \in Nat /\ f[Pick(s)] \in Nat
  BY <1>1, <1>3
<1>5. SumFunctionOnSet(f, s) = f[Pick(s)] + SumFunctionOnSet(f, s \ {Pick(s)})
  BY <1>1, <1>2, SumPick
<1> QED BY <1>1, <1>4, <1>5

\* Any element may be taken first.
LEMMA SumWithout ==
  ASSUME NEW f, NEW S, IsFiniteSet(S), \A y \in S : f[y] \in Nat, NEW x \in S
  PROVE  SumFunctionOnSet(f, S) = f[x] + SumFunctionOnSet(f, S \ {x})
<1> DEFINE Differs(t, y) == SumFunctionOnSet(f, t) # f[y] + SumFunctionOnSet(f, t \ {y})
<1> DEFINE Bad == {t \in SUBSET S : \E y \in t : Differs(t, y)}
<1> SUFFICES ASSUME Bad # {} PROVE FALSE
  OBVIOUS
<1>1. PICK s \in Bad : IsFiniteSet(s) /\ \A y \in s : s \ {y} \notin Bad
  BY MinimalSubset
<1>2. PICK y \in s : Differs(s, y)
  BY <1>1
<1> DEFINE p == Pick(s)
<1>3. p \in s
  BY <1>2 DEF Pick
<1>4. SumFunctionOnSet(f, s) = f[p] + SumFunctionOnSet(f, s \ {p})
  BY <1>1, <1>2, SumPick
<1> HIDE DEF p
<1>5. p # y
  BY <1>2, <1>4
<1>6. SumFunctionOnSet(f, s \ {p}) = f[y] + SumFunctionOnSet(f, (s \ {p}) \ {y})
  BY <1>1, <1>3, <1>5
<1>7. SumFunctionOnSet(f, s \ {y}) = f[p] + SumFunctionOnSet(f, (s \ {y}) \ {p})
  BY <1>1, <1>3, <1>5
<1>8. (s \ {p}) \ {y} = (s \ {y}) \ {p}
  OBVIOUS
<1>9. SumFunctionOnSet(f, (s \ {y}) \ {p}) \in Nat
  BY <1>1, SumType, FS_Subset
<1>10. f[p] \in Nat /\ f[y] \in Nat
  BY <1>1, <1>3
<1> QED BY <1>2, <1>4, <1>6, <1>7, <1>8, <1>9, <1>10

\* A sum depends on the values alone.
LEMMA SumSame ==
  ASSUME NEW f, NEW g, NEW S, IsFiniteSet(S), \A x \in S : f[x] = g[x]
  PROVE  SumFunctionOnSet(f, S) = SumFunctionOnSet(g, S)
<1> DEFINE Bad == {t \in SUBSET S : SumFunctionOnSet(f, t) # SumFunctionOnSet(g, t)}
<1> SUFFICES ASSUME Bad # {} PROVE FALSE
  OBVIOUS
<1>1. PICK s \in Bad : IsFiniteSet(s) /\ \A x \in s : s \ {x} \notin Bad
  BY MinimalSubset
<1>2. s # {}
  BY <1>1, SumPick
<1>3. Pick(s) \in s
  BY <1>2 DEF Pick
<1>4. SumFunctionOnSet(f, s \ {Pick(s)}) = SumFunctionOnSet(g, s \ {Pick(s)})
  BY <1>1, <1>3
<1>5. f[Pick(s)] = g[Pick(s)]
  BY <1>1, <1>3
<1> HIDE DEF Bad
<1>6. SumFunctionOnSet(f, s) = SumFunctionOnSet(g, s)
  BY <1>1, <1>2, <1>4, <1>5, SumPick
<1> QED BY <1>1, <1>6 DEF Bad

\* The sum over an interval, its last or its first element taken first.
LEMMA SumInterval ==
  ASSUME NEW f, NEW i \in Int, NEW n \in Int, i <= n, \A j \in i..n : f[j] \in Nat
  PROVE  /\ SumFunctionOnSet(f, i..n) = f[n] + SumFunctionOnSet(f, i..(n - 1))
         /\ SumFunctionOnSet(f, i..n) = f[i] + SumFunctionOnSet(f, (i + 1)..n)
<1> DEFINE S == i..n
<1>1. S \ {n} = i..(n - 1) /\ S \ {i} = (i + 1)..n
  OBVIOUS
<1>2. n \in S /\ i \in S
  OBVIOUS
<1>3. IsFiniteSet(S)
  BY FS_Interval
<1>4. \A j \in S : f[j] \in Nat
  OBVIOUS
<1> HIDE DEF S
<1>5. \A x \in S : SumFunctionOnSet(f, S) = f[x] + SumFunctionOnSet(f, S \ {x})
  BY <1>3, <1>4, SumWithout
<1>6. /\ SumFunctionOnSet(f, S) = f[n] + SumFunctionOnSet(f, S \ {n})
      /\ SumFunctionOnSet(f, S) = f[i] + SumFunctionOnSet(f, S \ {i})
  BY <1>2, <1>5
<1> QED BY <1>1, <1>6 DEF S

\* From i to n, g is f shifted by one.
Shifted(f, g, i, n) == \A j \in i..n : f[j] \in Nat /\ g[j + 1] = f[j]

\* A sum over an interval may be shifted.
LEMMA SumShifted ==
  ASSUME NEW f, NEW g, NEW i \in Nat, NEW n \in Nat, Shifted(f, g, i, n)
  PROVE  SumFunctionOnSet(g, (i + 1)..(n + 1)) = SumFunctionOnSet(f, i..n)
<1> USE DEF Shifted
<1> DEFINE Same(k) == SumFunctionOnSet(g, (i + 1)..(k + 1)) = SumFunctionOnSet(f, i..k)
           Bad == {k \in 0..n : ~Same(k)}
<1>1. ASSUME NEW k \in Int, k < i PROVE Same(k)
  <2>1. (i + 1)..(k + 1) = {} /\ i..k = {}
    BY <1>1
  <2> QED BY <2>1, SumEmpty
<1>2. ASSUME NEW k \in i..n, Same(k - 1) PROVE Same(k)
  <2>1. SumFunctionOnSet(f, i..k) = f[k] + SumFunctionOnSet(f, i..(k - 1))
    <3>1. \A j \in i..k : f[j] \in Nat
      OBVIOUS
    <3> QED BY <3>1, SumInterval
  <2>2. SumFunctionOnSet(g, (i + 1)..(k + 1)) = g[k + 1] + SumFunctionOnSet(g, (i + 1)..((k + 1) - 1))
    <3>1. ASSUME NEW j \in (i + 1)..(k + 1) PROVE g[j] \in Nat
      <4>1. j - 1 \in i..n /\ (j - 1) + 1 = j
        OBVIOUS
      <4> QED BY <4>1
    <3> QED BY <3>1, SumInterval
  <2>3. (k + 1) - 1 = (k - 1) + 1 /\ g[k + 1] = f[k]
    OBVIOUS
  <2> QED BY <1>2, <2>1, <2>2, <2>3
<1> HIDE DEF Same
<1> SUFFICES ASSUME Bad # {} PROVE FALSE
  BY DEF Same
<1>3. Bad \in SUBSET Nat
  OBVIOUS
<1>4. PICK k \in Bad : \A m \in Bad : k <= m
  BY <1>3, LeastNumber
<1>5. k \in 0..n /\ ~Same(k)
  BY <1>4
<1>6. k >= i
  BY <1>1, <1>5
<1>7. Same(k - 1)
  <2>1. CASE k = 0
    BY <1>1, <1>6, <2>1
  <2>2. CASE k # 0
    <3>1. k - 1 \in 0..n /\ k - 1 \notin Bad
      BY <1>4, <1>5, <2>2
    <3> QED BY <3>1
  <2> QED BY <2>1, <2>2
<1> QED BY <1>2, <1>5, <1>6, <1>7

-----------------------------------------------------------------------------
(* Bags of orders                                                          *)

\* A bag with one element more.
LEMMA WithBag ==
  ASSUME NEW b, IsABag(b), NEW o
  PROVE  /\ IsABag(With(b, o))
         /\ BagToSet(With(b, o)) = BagToSet(b) \cup {o}
         /\ With(b, o)[o] = (IF o \in BagToSet(b) THEN b[o] ELSE 0) + 1
         /\ \A p \in BagToSet(b) : p # o => With(b, o)[p] = b[p]
BY DEF With, IsABag, BagToSet, SetToBag, \oplus

\* A bag with one element less.
LEMMA WithoutBag ==
  ASSUME NEW b, IsABag(b), NEW o \in BagToSet(b)
  PROVE  /\ IsABag(Without(b, o))
         /\ BagToSet(Without(b, o)) = IF b[o] = 1 THEN BagToSet(b) \ {o} ELSE BagToSet(b)
         /\ b[o] > 1 => Without(b, o)[o] = b[o] - 1
         /\ \A p \in BagToSet(b) : p # o => Without(b, o)[p] = b[p]
BY DEF Without, IsABag, BagToSet, SetToBag, \ominus

\* A finite bag of things that have a quantity.
OrderBag(b) ==
  IsABag(b) /\ IsFiniteSet(BagToSet(b)) /\ \A o \in BagToSet(b) : o.qty \in Nat

\* What an order is of a total of a kind.
Part(o, kind) == IF o \in kind THEN o.qty ELSE 0

\* The terms of a total.
Quantities(b, kind) == [o \in BagToSet(b) \cap kind |-> o.qty * b[o]]

\* The arithmetic of a further copy of an order.
LEMMA ProductNat ==
  ASSUME NEW m \in Nat, NEW n \in Nat
  PROVE  /\ m * n \in Nat
         /\ m * (n + 1) = m * n + m
OBVIOUS

\* A total is a sum over a finite set.
LEMMA TotalIs ==
  ASSUME NEW b, OrderBag(b), NEW kind
  PROVE  LET f == Quantities(b, kind)
             S == BagToSet(b) \cap kind IN
         /\ Total(b, kind) = SumFunctionOnSet(f, S)
         /\ IsFiniteSet(S)
         /\ \A o \in S : f[o] = o.qty * b[o] /\ f[o] \in Nat /\ b[o] \in Nat \ {0}
         /\ Total(b, kind) \in Nat
<1> DEFINE f == Quantities(b, kind)
           S == BagToSet(b) \cap kind
<1>1. DOMAIN f = S
  BY DEF Quantities
<1>2. Total(b, kind) = SumFunctionOnSet(f, S)
  BY <1>1 DEF Total, SumFunction, Quantities
<1>3. IsFiniteSet(S)
  BY FS_Subset DEF OrderBag
<1>4. ASSUME NEW o \in S
      PROVE  f[o] = o.qty * b[o] /\ f[o] \in Nat /\ b[o] \in Nat \ {0}
  <2>1. o.qty \in Nat /\ b[o] \in Nat \ {0}
    BY DEF OrderBag, IsABag, BagToSet
  <2>2. f[o] = o.qty * b[o]
    BY DEF Quantities
  <2> QED BY <2>1, <2>2, ProductNat
<1> HIDE DEF f, S
<1>5. SumFunctionOnSet(f, S) \in Nat
  BY <1>3, <1>4, SumType
<1> QED BY <1>2, <1>3, <1>4, <1>5 DEF f, S

\* An order more leaves a finite bag of orders.
LEMMA WithOrderBag ==
  ASSUME NEW b, OrderBag(b), NEW o, o.qty \in Nat
  PROVE  OrderBag(With(b, o))
BY WithBag, FS_AddElement DEF OrderBag

\* So does an order less.
LEMMA WithoutOrderBag ==
  ASSUME NEW b, OrderBag(b), NEW o \in BagToSet(b)
  PROVE  OrderBag(Without(b, o))
BY WithoutBag, FS_RemoveElement DEF OrderBag

\* Bag c has one o more than b.
OneMore(b, c, o) ==
  /\ BagToSet(c) = BagToSet(b) \cup {o}
  /\ c[o] = (IF o \in BagToSet(b) THEN b[o] ELSE 0) + 1
  /\ \A p \in BagToSet(b) : p # o => c[p] = b[p]

\* An order more adds its part to the total.
LEMMA TotalOneMore ==
  ASSUME NEW b, OrderBag(b), NEW c, OrderBag(c), NEW o, o.qty \in Nat, OneMore(b, c, o), NEW kind
  PROVE  Total(c, kind) = Total(b, kind) + Part(o, kind)
<1> DEFINE f == Quantities(b, kind)
           g == Quantities(c, kind)
           S == BagToSet(b) \cap kind
           T == BagToSet(c) \cap kind
<1>2. /\ BagToSet(c) = BagToSet(b) \cup {o}
      /\ c[o] = (IF o \in BagToSet(b) THEN b[o] ELSE 0) + 1
      /\ \A p \in BagToSet(b) : p # o => c[p] = b[p]
  BY DEF OneMore
<1>3. Total(b, kind) = SumFunctionOnSet(f, S) /\ IsFiniteSet(S)
  BY TotalIs
<1>4. Total(c, kind) = SumFunctionOnSet(g, T) /\ IsFiniteSet(T)
  BY TotalIs
<1>5. \A p \in S : f[p] = p.qty * b[p] /\ f[p] \in Nat /\ b[p] \in Nat \ {0}
  BY TotalIs
<1>6. \A p \in T : g[p] = p.qty * c[p] /\ g[p] \in Nat
  BY TotalIs
<1>7. T \ {o} = S \ {o} /\ (o \notin kind => S = T /\ o \notin S)
                          /\ (o \in kind => o \in T)
  BY <1>2
<1>8. o \in kind => IF o \in S THEN c[o] = b[o] + 1 ELSE c[o] = 1
  BY <1>2
<1>9. \A p \in S \ {o} : g[p] = f[p]
  BY <1>2, <1>5, <1>6
<1> HIDE DEF f, g, S, T
<1>10. IsFiniteSet(S \ {o}) /\ SumFunctionOnSet(f, S \ {o}) \in Nat
  BY <1>3, <1>5, FS_RemoveElement, SumType
<1>11. SumFunctionOnSet(g, T \ {o}) = SumFunctionOnSet(f, S \ {o})
  BY <1>7, <1>9, <1>10, SumSame
<1>12. CASE o \notin kind
  <2>1. S \ {o} = S /\ T \ {o} = T
    BY <1>7, <1>12
  <2> QED BY <1>3, <1>4, <1>10, <1>11, <1>12, <2>1 DEF Part
<1>13. CASE o \in kind
  <2>1. SumFunctionOnSet(g, T) = g[o] + SumFunctionOnSet(f, S \ {o})
    BY <1>4, <1>6, <1>7, <1>11, <1>13, SumWithout
  <2>2. g[o] = o.qty * c[o] /\ g[o] \in Nat
    BY <1>6, <1>7, <1>13
  <2>3. CASE o \notin S
    <3>1. g[o] = o.qty
      BY <1>8, <1>13, <2>2, <2>3
    <3>2. S \ {o} = S
      BY <2>3
    <3>3. Total(b, kind) \in Nat /\ Total(c, kind) = o.qty + Total(b, kind)
      BY <1>3, <1>4, <1>10, <2>1, <3>1, <3>2
    <3> QED BY <1>13, <3>3 DEF Part
  <2>4. CASE o \in S
    <3>1. f[o] = o.qty * b[o] /\ f[o] \in Nat /\ b[o] \in Nat
      BY <1>5, <2>4
    <3>2. g[o] = f[o] + o.qty
      BY <1>8, <1>13, <2>2, <2>4, <3>1, ProductNat
    <3>3. SumFunctionOnSet(f, S) = f[o] + SumFunctionOnSet(f, S \ {o})
      BY <1>3, <1>5, <2>4, SumWithout
    <3> QED BY <1>3, <1>4, <1>10, <1>13, <2>1, <3>1, <3>2, <3>3 DEF Part
  <2> QED BY <2>3, <2>4
<1> QED BY <1>12, <1>13

\* An order that is added.
LEMMA TotalWith ==
  ASSUME NEW b, OrderBag(b), NEW o, o.qty \in Nat, NEW kind
  PROVE  Total(With(b, o), kind) = Total(b, kind) + Part(o, kind)
<1>1. OneMore(b, With(b, o), o)
  BY WithBag DEF OneMore, OrderBag
<1> QED BY <1>1, WithOrderBag, TotalOneMore

\* An order that is taken out.
LEMMA TotalWithout ==
  ASSUME NEW b, OrderBag(b), NEW o \in BagToSet(b), NEW kind
  PROVE  Total(b, kind) = Total(Without(b, o), kind) + Part(o, kind)
<1>1. OneMore(Without(b, o), b, o)
  <2>1. IsABag(b) /\ b[o] \in Nat \ {0}
    BY DEF OrderBag, IsABag, BagToSet
  <2> QED BY <2>1, WithoutBag DEF OneMore
<1>2. o.qty \in Nat
  BY DEF OrderBag
<1> QED BY <1>1, <1>2, WithoutOrderBag, TotalOneMore

-----------------------------------------------------------------------------
(* Sequences of answers                                                    *)

\* What the exchange may answer.
Response == Answer \cup Balance

\* An answer about an order has one, an answer about balances has none.
LEMMA ResponseType ==
  ASSUME NEW a \in Response
  PROVE  /\ a.btc \in 0..Cash
         /\ IsAnswered(a) <=> a \in Answer
         /\ IsAnswered(a) => a.order \in Order
<1>1. CASE a \in Answer
  <2>1. DOMAIN a = {"order", "btc"}
    BY <1>1 DEF Answer
  <2> QED BY <1>1, <2>1 DEF Answer, IsAnswered
<1>2. CASE a \in Balance
  <2>1. DOMAIN a = {"btc"}
    BY <1>2 DEF Balance
  <2>2. ~IsAnswered(a)
    BY <2>1 DEF IsAnswered
  <2>3. a \notin Answer
    <3>1. ASSUME a \in Answer PROVE FALSE
      <4>1. DOMAIN a = {"order", "btc"}
        BY <3>1 DEF Answer
      <4> QED BY <2>1, <4>1
    <3> QED BY <3>1
  <2> QED BY <1>2, <2>2, <2>3 DEF Balance
<1> QED BY <1>1, <1>2 DEF Response

\* The fields of an order.
LEMMA OrderType ==
  ASSUME NEW o \in Order
  PROVE  /\ o.side \in Sides /\ o.by \in Purposes
         /\ o.qty \in 1..(2 * Cash)
         /\ o.qty \in Nat \ {0}
BY PortfolioAssumption DEF Order, Orders

\* What an answer is of a total.
LEMMA QuantityType ==
  ASSUME NEW a \in Response, NEW kind
  PROVE  Quantity(a, kind) \in Nat
BY ResponseType, OrderType DEF Quantity

\* The terms of the total of a sequence of answers.
Quants(s, kind) == [j \in 1..Len(s) |-> Quantity(s[j], kind)]

\* Such a total is a sum over an interval.
LEMMA TotalFromType ==
  ASSUME NEW s \in Seq(Response), NEW i \in Nat \ {0}, NEW kind
  PROVE  /\ TotalFrom(s, i, kind) = SumFunctionOnSet(Quants(s, kind), i..Len(s))
         /\ \A j \in 1..Len(s) : Quants(s, kind)[j] = Quantity(s[j], kind) /\ Quants(s, kind)[j] \in Nat
         /\ TotalFrom(s, i, kind) \in Nat
         /\ i > Len(s) => TotalFrom(s, i, kind) = 0
<1>1. TotalFrom(s, i, kind) = SumFunctionOnSet(Quants(s, kind), i..Len(s))
  BY DEF TotalFrom, Quants
<1>2. \A j \in 1..Len(s) : Quants(s, kind)[j] = Quantity(s[j], kind) /\ Quants(s, kind)[j] \in Nat
  BY QuantityType DEF Quants
<1>3. IsFiniteSet(i..Len(s)) /\ \A j \in i..Len(s) : j \in 1..Len(s)
  BY FS_Interval
<1>4. i > Len(s) => i..Len(s) = {}
  OBVIOUS
<1> QED BY <1>1, <1>2, <1>3, <1>4, SumType, SumEmpty

\* An answer at the end adds its quantity.
LEMMA TotalFromAppend ==
  ASSUME NEW s \in Seq(Response), NEW a \in Response, NEW i \in 1..(Len(s) + 1), NEW kind
  PROVE  TotalFrom(Append(s, a), i, kind) = TotalFrom(s, i, kind) + Quantity(a, kind)
<1> DEFINE t == Append(s, a)
           n == Len(s)
           f == Quants(s, kind)
           g == Quants(t, kind)
<1>1. /\ t \in Seq(Response) /\ Len(t) = n + 1 /\ n \in Nat
      /\ \A j \in 1..n : t[j] = s[j]
      /\ t[n + 1] = a
  OBVIOUS
<1> HIDE DEF t
<1>2. TotalFrom(s, i, kind) = SumFunctionOnSet(f, i..n) /\ TotalFrom(s, i, kind) \in Nat
  BY TotalFromType
<1>3. TotalFrom(t, i, kind) = SumFunctionOnSet(g, i..(n + 1))
  BY <1>1, TotalFromType
<1>4. \A j \in 1..n : f[j] = Quantity(s[j], kind)
  BY TotalFromType
<1>5. \A j \in 1..(n + 1) : g[j] = Quantity(t[j], kind) /\ g[j] \in Nat
  BY <1>1, TotalFromType
<1>6. i \in 1..(n + 1) /\ i \in Int /\ n \in Int /\ n + 1 \in Int
  BY <1>1
<1> HIDE DEF f, g, n
<1>7. SumFunctionOnSet(g, i..(n + 1)) = g[n + 1] + SumFunctionOnSet(g, i..n)
  <2>1. i <= n + 1 /\ (n + 1) - 1 = n /\ \A j \in i..(n + 1) : g[j] \in Nat
    BY <1>5, <1>6
  <2>2. SumFunctionOnSet(g, i..(n + 1)) = g[n + 1] + SumFunctionOnSet(g, i..((n + 1) - 1))
    BY <1>6, <2>1, SumInterval
  <2> QED BY <2>1, <2>2
<1>10. SumFunctionOnSet(g, i..n) = SumFunctionOnSet(f, i..n)
  <2>1. \A j \in i..n : g[j] = f[j]
    BY <1>1, <1>4, <1>5, <1>6
  <2>2. IsFiniteSet(i..n)
    BY <1>6, FS_Interval
  <2> QED BY <2>1, <2>2, SumSame
<1>11. g[n + 1] = Quantity(a, kind) /\ Quantity(a, kind) \in Nat
  BY <1>1, <1>5, <1>6, QuantityType
<1>12. TotalFrom(t, i, kind) = Quantity(a, kind) + TotalFrom(s, i, kind)
  BY <1>2, <1>3, <1>7, <1>10, <1>11
<1> QED BY <1>2, <1>11, <1>12 DEF t

\* What is left of a sequence once an element is removed.
LEMMA Removed ==
  ASSUME NEW S, NEW s \in Seq(S), NEW i \in 1..Len(s)
  PROVE  /\ RemoveAt(s, i) \in Seq(S)
         /\ Len(RemoveAt(s, i)) = Len(s) - 1
         /\ \A j \in 1..(Len(s) - 1) : RemoveAt(s, i)[j] = s[IF j < i THEN j ELSE j + 1]
<1> DEFINE a == SubSeq(s, 1, i - 1)
           b == SubSeq(s, i + 1, Len(s))
<1>1. RemoveAt(s, i) = a \o b
  BY DEF RemoveAt
<1>2. a \in Seq(S) /\ Len(a) = i - 1 /\ \A j \in 1..(i - 1) : a[j] = s[j]
  OBVIOUS
<1>3. b \in Seq(S) /\ Len(b) = Len(s) - i /\ \A j \in 1..(Len(s) - i) : b[j] = s[i + j]
  OBVIOUS
<1> HIDE DEF a, b
<1>4. /\ a \o b \in Seq(S) /\ Len(a \o b) = Len(a) + Len(b)
      /\ \A j \in 1..(Len(a) + Len(b)) : (a \o b)[j] = IF j <= Len(a) THEN a[j] ELSE b[j - Len(a)]
  <2>1. a \in Seq(S) /\ b \in Seq(S)
    BY <1>2, <1>3
  <2> QED BY <2>1
<1>5. Len(a \o b) = Len(s) - 1
  BY <1>2, <1>3, <1>4
<1>6. ASSUME NEW j \in 1..(Len(s) - 1)
      PROVE  (a \o b)[j] = s[IF j < i THEN j ELSE j + 1]
  <2>0. i \in Nat /\ j \in Nat /\ Len(s) \in Nat /\ 1 <= j /\ j <= Len(s) - 1 /\ 1 <= i /\ i <= Len(s)
    OBVIOUS
  <2>1. (a \o b)[j] = IF j <= Len(a) THEN a[j] ELSE b[j - Len(a)]
    BY <1>2, <1>3, <1>4, <2>0
  <2>2. CASE j < i
    BY <1>2, <2>0, <2>1, <2>2
  <2>3. CASE ~(j < i)
    <3>1. j - (i - 1) \in 1..(Len(s) - i) /\ i + (j - (i - 1)) = j + 1 /\ ~(j <= i - 1)
      BY <2>0, <2>3
    <3>2. b[j - (i - 1)] = s[j + 1]
      BY <1>3, <3>1
    <3> QED BY <1>2, <2>1, <2>3, <3>1, <3>2
  <2> QED BY <2>2, <2>3
<1> QED BY <1>1, <1>4, <1>5, <1>6

\* It has no other elements.
LEMMA RemovedElements ==
  ASSUME NEW S, NEW s \in Seq(S), NEW i \in 1..Len(s), NEW j \in 1..Len(RemoveAt(s, i))
  PROVE  \E k \in 1..Len(s) : RemoveAt(s, i)[j] = s[k]
<1>1. Len(RemoveAt(s, i)) = Len(s) - 1 /\ Len(s) \in Nat
  BY Removed
<1>2. RemoveAt(s, i)[j] = s[IF j < i THEN j ELSE j + 1]
  BY <1>1, Removed
<1>3. (IF j < i THEN j ELSE j + 1) \in 1..Len(s)
  <2>1. j \in 1..(Len(s) - 1)
    BY <1>1
  <2>2. j \in 1..Len(s) /\ j + 1 \in 1..Len(s)
    BY <1>1, <2>1
  <2> QED BY <2>2
<1> QED BY <1>2, <1>3

\* The first answer leaves: the others move up, and its quantity is gone.
LEMMA TotalFromRest ==
  ASSUME NEW s \in Seq(Response), s # <<>>, NEW i \in 1..Len(s), NEW kind
  PROVE  /\ TotalFrom(RemoveAt(s, 1), i, kind) = TotalFrom(s, i + 1, kind)
         /\ TotalFrom(s, 1, kind) = Quantity(s[1], kind) + TotalFrom(s, 2, kind)
<1> DEFINE t == RemoveAt(s, 1)
           n == Len(s) - 1
           f == Quants(s, kind)
           g == Quants(t, kind)
<1>1. /\ t \in Seq(Response) /\ Len(t) = n /\ n \in Nat
      /\ \A j \in 1..n : t[j] = s[j + 1]
  BY Removed
<1>2. Len(s) = n + 1
  OBVIOUS
<1>3. TotalFrom(s, i + 1, kind) = SumFunctionOnSet(f, (i + 1)..(n + 1))
  BY <1>2, TotalFromType
<1>4. /\ TotalFrom(s, 1, kind) = SumFunctionOnSet(f, 1..(n + 1)) 
      /\ TotalFrom(s, 2, kind) = SumFunctionOnSet(f, 2..(n + 1)) 
  BY <1>2, TotalFromType
<1>5. \A j \in 1..(n + 1) : f[j] = Quantity(s[j], kind) /\ f[j] \in Nat
  BY <1>2, TotalFromType
<1>6. i \in Nat \ {0} /\ n \in Nat /\ 1 \in 1..(n + 1)
  BY <1>1
<1> HIDE DEF t, n
<1>7. TotalFrom(t, i, kind) = SumFunctionOnSet(g, i..n) 
  BY <1>1, <1>6, TotalFromType
<1>8. \A j \in 1..n : g[j] = Quantity(t[j], kind) /\ g[j] \in Nat
  BY <1>1, <1>6, TotalFromType
<1> HIDE DEF f, g
<1>9. SumFunctionOnSet(f, (i + 1)..(n + 1)) = SumFunctionOnSet(g, i..n)
  <2>1. ASSUME NEW j \in i..n PROVE g[j] \in Nat /\ f[j + 1] = g[j]
    <3>1. j \in 1..n /\ j + 1 \in 1..(n + 1)
      BY <1>6
    <3> QED BY <1>1, <1>5, <1>8, <3>1
  <2>2. Shifted(g, f, i, n)
    BY <2>1 DEF Shifted
  <2>3. i \in Nat
    BY <1>6
  <2> QED BY <1>6, <2>2, <2>3, SumShifted
<1>10. SumFunctionOnSet(f, 1..(n + 1)) = f[1] + SumFunctionOnSet(f, 2..(n + 1))
  <2>1. 1 <= n + 1 /\ \A j \in 1..(n + 1) : f[j] \in Nat
    BY <1>5, <1>6
  <2>2. SumFunctionOnSet(f, 1..(n + 1)) = f[1] + SumFunctionOnSet(f, (1 + 1)..(n + 1))
    BY <1>6, <2>1, SumInterval
  <2> QED BY <2>2
<1>11. f[1] = Quantity(s[1], kind)
  BY <1>5, <1>6
<1> QED BY <1>3, <1>4, <1>7, <1>9, <1>10, <1>11 DEF t

-----------------------------------------------------------------------------
(* Types                                                                   *)

\* A finite bag of elements of S.
BagOf(S, b) == IsABag(b) /\ BagToSet(b) \subseteq S /\ IsFiniteSet(BagToSet(b))

\* The inductive type invariant: that the bags are finite is what lets their
\* orders be summed.
TypeInv == TypeOK /\ IsFiniteSet(BagToSet(sent)) /\ IsFiniteSet(BagToSet(queue))

\* Orders, under way and queued, have a quantity.
LEMMA BagOfOrders ==
  ASSUME NEW b, BagOf(Order, b) \/ BagOf(Queued, b)
  PROVE  OrderBag(b)
<1>1. \A o \in Order \cup Queued : o.qty \in Nat
  BY PortfolioAssumption DEF Order, Orders, Queued
<1> QED BY <1>1 DEF BagOf, OrderBag

\* An element of S more.
LEMMA WithIsBagOf ==
  ASSUME NEW S, NEW b, BagOf(S, b), NEW o \in S
  PROVE  BagOf(S, With(b, o))
BY WithBag, FS_AddElement DEF BagOf

\* An element less.
LEMMA WithoutIsBagOf ==
  ASSUME NEW S, NEW b, BagOf(S, b), NEW o \in BagToSet(b)
  PROVE  BagOf(S, Without(b, o))
BY WithoutBag, FS_RemoveElement DEF BagOf

\* What the other proofs need to know of the types,
LEMMA TypeFacts ==
  ASSUME TypeInv
  PROVE  /\ held \in 0..Cash /\ btc \in 0..Cash
         /\ rUsdt \in Nat /\ rBtc \in Nat /\ late \in Nat
         /\ keptUsdt \in Nat /\ keptBtc \in Nat
         /\ Cash \in Nat /\ Cap \in 0..Cash
         /\ BagOf(Order, sent) /\ BagOf(Queued, queue)
         /\ answers \in Seq(Response)
         /\ OrderBag(sent) /\ OrderBag(queue)
         /\ \A kind : Total(sent, kind) \in Nat /\ Total(queue, kind) \in Nat
<1>1. BagOf(Order, sent) /\ BagOf(Queued, queue)
  BY DEF TypeInv, TypeOK, BagOf
<1>2. OrderBag(sent) /\ OrderBag(queue)
  BY <1>1, BagOfOrders
<1>3. \A kind : Total(sent, kind) \in Nat /\ Total(queue, kind) \in Nat
  BY <1>2, TotalIs
<1> QED BY <1>1, <1>2, <1>3, PortfolioAssumption DEF TypeInv, TypeOK, Response

\* and of the numbers alone.
LEMMA Numbers ==
  ASSUME TypeInv
  PROVE  /\ held \in 0..Cash /\ btc \in 0..Cash
         /\ rUsdt \in Nat /\ rBtc \in Nat /\ late \in Nat
         /\ keptUsdt \in Nat /\ keptBtc \in Nat
         /\ Cash \in Nat /\ Cap \in 0..Cash
BY PortfolioAssumption DEF TypeInv, TypeOK

\* Subtraction that stops at zero.
LEMMA LessType ==
  ASSUME NEW a \in Nat, NEW b \in Nat
  PROVE  Less(a, b) \in Nat /\ Less(a, b) <= a
BY DEF Less

\* An order that is sent.
LEMMA SubmitType ==
  ASSUME TypeInv, NEW side \in Sides, NEW qty \in 1..(2 * Cash), NEW by \in Purposes,
         Submit(side, qty, by)
  PROVE  BagOf(Order, sent')
<1>1. [side |-> side, qty |-> qty, by |-> by] \in Order
  BY DEF Order, Orders
<1> QED BY <1>1, TypeFacts, WithIsBagOf DEF Submit

\* An order that is queued.
LEMMA EnqueueType ==
  ASSUME TypeInv, NEW side \in Sides, NEW qty \in 1..(2 * Cash), Enqueue(side, qty)
  PROVE  BagOf(Queued, queue')
<1>1. [side |-> side, qty |-> qty] \in Queued
  BY DEF Queued
<1> QED BY <1>1, TypeFacts, WithIsBagOf DEF Enqueue

\* An intent's size, doubled by an arbitrage, is still that of an order.
LEMMA SizeType ==
  ASSUME TypeInv, NEW arbitrage \in BOOLEAN, NEW qty \in Sizes(arbitrage)
  PROVE  qty \in 1..(2 * Cash)
<1>1. AvailUsdt \in 0..Cash /\ Headroom \in Nat
  BY TypeFacts DEF AvailUsdt, Headroom, Exposure, Less
<1> QED BY <1>1, TypeFacts DEF Sizes, Least

\* A defensive sell keeps the types.
LEMMA DefendType ==
  ASSUME TypeInv, NEW qty \in 1..btc, Defend(qty)
  PROVE  TypeInv'
<1>1. qty \in 1..(2 * Cash) /\ "sell" \in Sides /\ "defence" \in Purposes
  BY TypeFacts DEF Sides, Purposes
<1>2. BagOf(Order, sent')
  BY <1>1, SubmitType DEF Defend
<1> QED BY <1>2 DEF TypeInv, TypeOK, BagOf, Defend, mirror, kept, observers

\* Every defence sells no more than the mirror shows.
LEMMA Defences ==
  ASSUME TypeInv,
         \/ CapTrim \/ StopLoss \/ TrailingStop \/ RegimeExit
         \/ VaultSweep \/ PatternVeto \/ FloorBreach \/ BankExtract
  PROVE  \E qty \in 1..btc : Defend(qty)
<1> USE TypeFacts
<1>1. CASE CapTrim BY <1>1 DEF CapTrim
<1>2. CASE StopLoss BY <1>2 DEF StopLoss
<1>3. CASE TrailingStop BY <1>3 DEF TrailingStop
<1>4. CASE RegimeExit BY <1>4 DEF RegimeExit
<1>5. ASSUME Defend(btc) PROVE btc \in 1..btc
  BY <1>5 DEF Defend
<1>6. CASE VaultSweep \/ PatternVeto \/ FloorBreach
  BY <1>5, <1>6 DEF VaultSweep, PatternVeto, FloorBreach
<1>7. CASE BankExtract
  BY <1>7 DEF BankExtract, Less
<1> QED BY <1>1, <1>2, <1>3, <1>4, <1>6, <1>7

\* A buy of an intent: an order of its size is sent and reserved, or queued.
LEMMA BuyIntents ==
  ASSUME TypeInv, BuyIntent
  PROVE  \E qty \in 1..(2 * Cash) :
           /\ loose' = (loose \/ qty > Headroom)
           /\ \/ Submit("buy", qty, "intent") /\ rUsdt' = rUsdt + qty /\ UNCHANGED queue
              \/ Enqueue("buy", qty) /\ UNCHANGED <<sent, rUsdt>>
<1>1. PICK arbitrage \in BOOLEAN : \E qty \in Sizes(arbitrage) :
        /\ loose' = (loose \/ qty > Headroom)
        /\ \/ Submit("buy", qty, "intent") /\ rUsdt' = rUsdt + qty /\ UNCHANGED queue
           \/ Enqueue("buy", qty) /\ UNCHANGED <<sent, rUsdt>>
  BY DEF BuyIntent
<1>2. Sizes(arbitrage) \subseteq 1..(2 * Cash)
  BY SizeType
<1> QED BY <1>1, <1>2

\* The same of a sell.
LEMMA SellIntents ==
  ASSUME TypeInv, SellIntent
  PROVE  \E qty \in 1..(2 * Cash) :
           \/ Submit("sell", qty, "intent") /\ rBtc' = rBtc + qty /\ UNCHANGED queue
           \/ Enqueue("sell", qty) /\ UNCHANGED <<sent, rBtc>>
<1>1. PICK qty \in 1..AvailBtc :
        \/ Submit("sell", qty, "intent") /\ rBtc' = rBtc + qty /\ UNCHANGED queue
        \/ Enqueue("sell", qty) /\ UNCHANGED <<sent, rBtc>>
  BY DEF SellIntent
<1>2. qty \in 1..(2 * Cash)
  <2>1. btc \in Nat /\ rBtc \in Nat /\ Cash \in Nat /\ btc <= Cash
    BY Numbers
  <2>2. AvailBtc \in Nat /\ AvailBtc <= btc
    BY <2>1, LessType DEF AvailBtc
  <2> QED BY <2>1, <2>2
<1> WITNESS qty \in 1..(2 * Cash)
<1> QED BY <1>1

\* The failure of an order: what it changes keeps its type.
LEMMA FailsType ==
  ASSUME TypeInv, NEW o \in Order, Fails(o)
  PROVE  /\ BagOf(Queued, queue')
         /\ rUsdt' \in Nat /\ rBtc' \in Nat
         /\ keptUsdt' \in Nat /\ keptBtc' \in Nat
         /\ cashout' \in {"no", "asked", "sold", "lapsed"}
         /\ loose' \in BOOLEAN
<1>1. o.side \in Sides /\ o.qty \in 1..(2 * Cash) /\ o.qty \in Nat
  BY OrderType
<1>2. BagOf(Queued, queue')
  BY <1>1, TypeFacts, EnqueueType DEF Fails, KeepsReservation
<1>3. rUsdt' \in Nat /\ rBtc' \in Nat
  <2>1. Less(rUsdt, o.qty) \in Nat /\ Less(rBtc, o.qty) \in Nat
    BY <1>1, Numbers, LessType
  <2> QED BY <2>1, Numbers DEF Fails, Release, KeepsReservation
<1>4. keptUsdt' \in Nat /\ keptBtc' \in Nat
  BY <1>1, Numbers DEF Fails, KeepsReservation, kept
<1> QED BY <1>2, <1>3, <1>4 DEF Fails, After, TypeInv, TypeOK

\* The type invariant is inductive: a step for each action.
LEMMA TypeStep == TypeInv /\ [Next]_vars => TypeInv'
<1> SUFFICES ASSUME TypeInv, [Next]_vars PROVE TypeInv'
  OBVIOUS
<1> USE DEF account, mirror, kept, observers
<1>0. TypeInv = (/\ TypeOK /\ BagOf(Order, sent) /\ BagOf(Queued, queue))
  BY DEF TypeInv, TypeOK, BagOf
<1>1. CASE BuyIntent
  <2>1. PICK qty \in 1..(2 * Cash) :
          /\ loose' = (loose \/ qty > Headroom)
          /\ \/ Submit("buy", qty, "intent") /\ rUsdt' = rUsdt + qty /\ UNCHANGED queue
             \/ Enqueue("buy", qty) /\ UNCHANGED <<sent, rUsdt>>
    BY <1>1, BuyIntents
  <2>2. "buy" \in Sides /\ "intent" \in Purposes
    BY DEF Sides, Purposes
  <2>3. BagOf(Order, sent') /\ BagOf(Queued, queue') /\ rUsdt' \in Nat
    BY <2>1, <2>2, TypeFacts, SubmitType, EnqueueType
  <2>4. loose' \in BOOLEAN
    BY <2>1
  <2> QED BY <1>1, <2>3, <2>4 DEF BuyIntent, TypeInv, TypeOK, BagOf
<1>2. CASE SellIntent
  <2>1. PICK qty \in 1..(2 * Cash) :
          \/ Submit("sell", qty, "intent") /\ rBtc' = rBtc + qty /\ UNCHANGED queue
          \/ Enqueue("sell", qty) /\ UNCHANGED <<sent, rBtc>>
    BY <1>2, SellIntents
  <2>2. "sell" \in Sides /\ "intent" \in Purposes
    BY DEF Sides, Purposes
  <2>3. BagOf(Order, sent') /\ BagOf(Queued, queue') /\ rBtc' \in Nat
    BY <2>1, <2>2, TypeFacts, SubmitType, EnqueueType
  <2> QED BY <1>2, <2>3 DEF SellIntent, TypeInv, TypeOK, BagOf
<1>3. CASE \/ CapTrim \/ StopLoss \/ TrailingStop \/ RegimeExit
           \/ VaultSweep \/ PatternVeto \/ FloorBreach \/ BankExtract
  BY <1>3, Defences, DefendType
<1>4. CASE Freeze
  BY <1>4 DEF Freeze, TypeInv, TypeOK
<1>5. CASE Thaw
  BY <1>5 DEF Thaw, TypeInv, TypeOK
<1>6. CASE HandleCashout
  <2>1. Flatten(btc)
    BY <1>6 DEF HandleCashout
  <2>2. BagOf(Order, sent')
    <3>1. btc # 0 => btc \in 1..(2 * Cash)
      BY TypeFacts
    <3>2. "sell" \in Sides /\ "defence" \in Purposes /\ "cashout" \in Purposes
      BY DEF Sides, Purposes
    <3>3. \/ sent' = sent
          \/ btc # 0 /\ (Submit("sell", btc, "defence") \/ Submit("sell", btc, "cashout"))
      BY <2>1 DEF Flatten
    <3>4. CASE sent' = sent
      <4>1. BagOf(Order, sent)
        BY TypeFacts
      <4> QED BY <3>4, <4>1
    <3>5. CASE btc # 0 /\ (Submit("sell", btc, "defence") \/ Submit("sell", btc, "cashout"))
      BY <3>1, <3>2, <3>5, SubmitType
    <3> QED BY <3>3, <3>4, <3>5
  <2>3. cashout' \in {"no", "asked", "sold", "lapsed"} /\ late' \in Nat
    <3>1. UnderWay \in Nat
      <4>1. Less(held, btc) \in Nat
        BY Numbers, LessType
      <4> QED BY <4>1, TypeFacts DEF UnderWay
    <3> QED BY <2>1, <3>1 DEF Flatten, TypeInv, TypeOK
  <2> QED BY <2>1, <2>2, <2>3 DEF Flatten, TypeInv, TypeOK, BagOf
<1>7. ASSUME NEW o \in BagToSet(sent), Fill(o) PROVE TypeInv'
  <2>1. o \in Order /\ o.qty \in Nat /\ o.side \in Sides
    BY TypeFacts, OrderType DEF BagOf
  <2>2. held' \in 0..Cash
    <3>1. CASE o.side = "buy"
      <4>1. held' = held + Least(o.qty, Cash - held)
        BY <1>7, <3>1 DEF Fill, Filled
      <4> QED BY <2>1, <4>1, Numbers DEF Least
    <3>2. CASE o.side # "buy"
      <4>1. held' = held - Least(o.qty, held)
        BY <1>7, <3>2 DEF Fill, Filled
      <4> QED BY <2>1, <4>1, Numbers DEF Least
    <3> QED BY <3>1, <3>2
  <2>3. BagOf(Order, sent')
    BY <1>7, TypeFacts, WithoutIsBagOf DEF Fill
  <2>4. answers' \in Seq(Answer \cup Balance)
    <3>1. [order |-> o, btc |-> held'] \in Answer
      BY <2>1, <2>2 DEF Answer
    <3>2. answers \in Seq(Answer \cup Balance)
      BY TypeFacts DEF Response
    <3> QED BY <1>7, <3>1, <3>2 DEF Fill
  <2> QED BY <1>7, <2>2, <2>3, <2>4 DEF Fill, After, TypeInv, TypeOK, BagOf
<1>8. ASSUME NEW o \in BagToSet(sent), Refuse(o) PROVE TypeInv'
  <2>1. o \in Order
    BY TypeFacts DEF BagOf
  <2>2. BagOf(Order, sent')
    BY <1>8, TypeFacts, WithoutIsBagOf DEF Refuse
  <2> QED BY <1>8, <2>1, <2>2, FailsType DEF Refuse, TypeInv, TypeOK, BagOf
<1>9. CASE Balances
  <2>1. [btc |-> held] \in Response
    BY TypeFacts DEF Balance, Response
  <2>2. answers' \in Seq(Answer \cup Balance)
    BY <1>9, <2>1, TypeFacts DEF Balances, Response
  <2> QED BY <1>9, <2>2 DEF Balances, TypeInv, TypeOK
<1>10. ASSUME NEW i \in 1..Len(answers), Receive(i) PROVE TypeInv'
  <2>1. answers[i] \in Response /\ answers' \in Seq(Answer \cup Balance)
    BY <1>10, TypeFacts, Removed DEF Receive, Response
  <2>2. answers[i].order \in Order /\ answers[i].btc \in 0..Cash
    BY <1>10, <2>1, ResponseType DEF Receive
  <2>3. answers[i].order.qty \in Nat
    BY <2>2, OrderType
  <2>4. rUsdt' \in Nat /\ rBtc' \in Nat
    <3> DEFINE rb == IF answers[i].btc = 0 THEN 0 ELSE rBtc
    <3>1. Less(rUsdt, answers[i].order.qty) \in Nat /\ Less(rb, answers[i].order.qty) \in Nat /\ rb \in Nat
      BY <2>3, Numbers, LessType
    <3>2. Release(answers[i].order, rb)
      BY <1>10 DEF Receive
    <3> QED BY <3>1, <3>2, Numbers DEF Release
  <2>5. keptUsdt' \in Nat /\ keptBtc' \in Nat
    BY <1>10, Numbers DEF Receive
  <2> QED BY <1>10, <2>1, <2>2, <2>4, <2>5 DEF Receive, TypeInv, TypeOK
<1>11. ASSUME NEW i \in 1..Len(answers), Sync(i) PROVE TypeInv'
  <2>1. answers[i] \in Response /\ answers' \in Seq(Answer \cup Balance)
    BY <1>11, TypeFacts, Removed DEF Sync, Response
  <2>2. answers[i].btc \in 0..Cash
    BY <2>1, ResponseType
  <2> QED BY <1>11, <2>1, <2>2 DEF Sync, TypeInv, TypeOK
<1>12. ASSUME NEW i \in 1..Len(answers), LoseAnswer(i) PROVE TypeInv'
  <2>1. answers[i] \in Response /\ answers' \in Seq(Answer \cup Balance)
    BY <1>12, TypeFacts, Removed DEF LoseAnswer, Response
  <2>2. answers[i].order \in Order
    BY <1>12, <2>1, ResponseType DEF LoseAnswer
  <2> QED BY <1>12, <2>1, <2>2, FailsType DEF LoseAnswer, TypeInv, TypeOK, BagOf
<1>13. ASSUME NEW q \in BagToSet(queue), Replay(q) PROVE TypeInv'
  <2>1. q.side \in Sides /\ q.qty \in 1..(2 * Cash) /\ "replay" \in Purposes
    BY TypeFacts DEF BagOf, Queued, Purposes
  <2>2. BagOf(Order, sent') /\ BagOf(Queued, queue')
    BY <1>13, <2>1, TypeFacts, SubmitType, WithoutIsBagOf DEF Replay
  <2> QED BY <1>13, <2>2 DEF Replay, TypeInv, TypeOK, BagOf
<1>14. ASSUME NEW q \in BagToSet(queue), Expire(q) PROVE TypeInv'
  <2>1. BagOf(Queued, queue')
    BY <1>14, TypeFacts, WithoutIsBagOf DEF Expire
  <2> QED BY <1>14, <2>1 DEF Expire, TypeInv, TypeOK, BagOf
<1>15. CASE UNCHANGED vars
  BY <1>15 DEF vars, TypeInv, TypeOK
<1> QED
  BY <1>1, <1>2, <1>3, <1>4, <1>5, <1>6, <1>7, <1>8, <1>9, <1>10, <1>11, <1>12,
     <1>13, <1>14, <1>15 DEF Next

\* It holds at the start.
LEMMA TypeStart == Init => TypeInv
<1> SUFFICES ASSUME Init PROVE TypeInv
  OBVIOUS
<1>1. IsABag(EmptyBag) /\ BagToSet(EmptyBag) = {}
  BY DEF EmptyBag, SetToBag, IsABag, BagToSet
<1>2. answers \in Seq(Answer \cup Balance)
  BY DEF Init
<1>3. /\ IsABag(sent) /\ BagToSet(sent) = {}
      /\ IsABag(queue) /\ BagToSet(queue) = {}
  BY <1>1 DEF Init
<1>4. /\ held \in 0..Cash /\ btc \in 0..Cash
      /\ rUsdt \in Nat /\ rBtc \in Nat /\ late \in Nat
      /\ keptUsdt \in Nat /\ keptBtc \in Nat
  BY PortfolioAssumption DEF Init
<1>5. TypeOK
  BY <1>2, <1>3, <1>4 DEF Init, TypeOK
<1> QED BY <1>3, <1>5, FS_EmptySet DEF TypeInv

\* The balances, the orders and the answers have their types whatever the order of
\* fills, failures and syncs (execution_worker.js 581-593, 686, 899-900): what the
\* mirror shows is never negative and never more than the account.
THEOREM TypeCorrect == Spec => []TypeOK
<1>1. TypeInv => TypeOK
  BY DEF TypeInv
<1> QED BY <1>1, TypeStart, TypeStep, PTL DEF Spec

-----------------------------------------------------------------------------
(* Reservations                                                            *)

\* The part of an order in the totals that the proofs are about.
LEMMA PartOfOrder ==
  ASSUME NEW o \in Order
  PROVE  /\ \A s \in Sides : Part(o, Intents(s)) = IF o.side = s /\ o.by = "intent" THEN o.qty ELSE 0
         /\ Part(o, Buys) = IF o.side = "buy" THEN o.qty ELSE 0
BY DEF Part, Intents, Buys, Order, Orders, Sides

\* What should be reserved is a sum of two numbers.
LEMMA ReservedParts ==
  ASSUME TypeInv, NEW s \in Sides
  PROVE  /\ Total(sent, Intents(s)) \in Nat
         /\ TotalFrom(answers, 1, Intents(s)) \in Nat
         /\ Reserved(s) = Total(sent, Intents(s)) + TotalFrom(answers, 1, Intents(s))
         /\ Reserved(s) \in Nat
BY TypeFacts, TotalFromType DEF Reserved

\* Steps that leave the orders and the answers alone leave it alone.
LEMMA ReservedSame ==
  ASSUME UNCHANGED <<sent, answers>>, NEW s
  PROVE  Reserved(s)' = Reserved(s)
BY DEF Reserved

\* An order that is sent adds to it if it is an intent's.
LEMMA ReservedSubmit ==
  ASSUME TypeInv, NEW side \in Sides, NEW qty \in 1..(2 * Cash), NEW by \in Purposes,
         Submit(side, qty, by), answers' = answers, NEW s \in Sides
  PROVE  Reserved(s)' = Reserved(s) + IF side = s /\ by = "intent" THEN qty ELSE 0
<1> DEFINE o == [side |-> side, qty |-> qty, by |-> by]
<1>1. o \in Order /\ o.side = side /\ o.by = by /\ o.qty = qty
  BY DEF Order, Orders
<1>2. o.qty \in Nat
  BY <1>1, OrderType
<1>3. sent' = With(sent, o)
  BY DEF Submit
<1> HIDE DEF o
<1>4. Total(sent', Intents(s)) = Total(sent, Intents(s)) + Part(o, Intents(s))
  BY <1>2, <1>3, TypeFacts, TotalWith
<1>5. Part(o, Intents(s)) = IF side = s /\ by = "intent" THEN qty ELSE 0
  BY <1>1, PartOfOrder
<1>6. Reserved(s)' = Total(sent', Intents(s)) + TotalFrom(answers, 1, Intents(s))
  BY DEF Reserved
<1>7. Part(o, Intents(s)) \in Nat
  BY <1>1, <1>2, <1>5
<1> QED BY <1>4, <1>5, <1>6, <1>7, ReservedParts

\* An order that is refused takes its part away.
LEMMA ReservedRefuse ==
  ASSUME TypeInv, NEW o \in BagToSet(sent), sent' = Without(sent, o), answers' = answers,
         NEW s \in Sides
  PROVE  Reserved(s) = Reserved(s)' + Part(o, Intents(s)) /\ Reserved(s)' \in Nat
<1>1. o \in Order /\ o.qty \in Nat
  BY TypeFacts, OrderType DEF BagOf
<1>2. Part(o, Intents(s)) \in Nat
  BY <1>1 DEF Part
<1>3. Total(sent, Intents(s)) = Total(sent', Intents(s)) + Part(o, Intents(s))
  BY TypeFacts, TotalWithout
<1>4. Total(sent', Intents(s)) \in Nat
  BY TypeFacts, WithoutOrderBag, TotalIs
<1>5. Reserved(s)' = Total(sent', Intents(s)) + TotalFrom(answers, 1, Intents(s))
  BY DEF Reserved
<1> QED BY <1>2, <1>3, <1>4, <1>5, ReservedParts

\* A fill moves an order's part from the orders to the answers.
LEMMA ReservedFill ==
  ASSUME TypeInv, NEW o \in BagToSet(sent), sent' = Without(sent, o), NEW b \in 0..Cash,
         answers' = Append(answers, [order |-> o, btc |-> b]),
         NEW s \in Sides
  PROVE  Reserved(s)' = Reserved(s)
<1> DEFINE a == [order |-> o, btc |-> b]
           K == Intents(s)
<1>1. o \in Order /\ o.qty \in Nat
  BY TypeFacts, OrderType DEF BagOf
<1>2. Part(o, K) \in Nat
  BY <1>1 DEF Part
<1>3. Total(sent, K) = Total(sent', K) + Part(o, K) /\ Total(sent', K) \in Nat
  BY TypeFacts, TotalWithout, WithoutOrderBag, TotalIs
<1>4. a \in Response
  BY <1>1 DEF Answer, Response
<1>5. Quantity(a, K) = Part(o, K)
  BY DEF Quantity, IsAnswered, Part
<1> HIDE DEF a, K
<1>6. TotalFrom(answers', 1, K) = TotalFrom(answers, 1, K) + Quantity(a, K)
  <2>1. 1 \in 1..(Len(answers) + 1) /\ answers \in Seq(Response) /\ answers' = Append(answers, a)
    BY TypeFacts DEF a
  <2> QED BY <1>4, <2>1, TotalFromAppend
<1>7. Reserved(s)' = Total(sent', K) + TotalFrom(answers', 1, K)
  BY DEF Reserved, K
<1>8. /\ Total(sent, K) \in Nat /\ TotalFrom(answers, 1, K) \in Nat
      /\ Reserved(s) = Total(sent, K) + TotalFrom(answers, 1, K)
  BY ReservedParts DEF K
<1> QED BY <1>2, <1>3, <1>5, <1>6, <1>7, <1>8

\* The first answer takes its part away.
LEMMA ReservedReceive ==
  ASSUME TypeInv, sent' = sent, answers # <<>>, answers' = RemoveAt(answers, 1),
         NEW s \in Sides
  PROVE  /\ Reserved(s) = Reserved(s)' + Quantity(answers[1], Intents(s))
         /\ Reserved(s)' \in Nat
<1> DEFINE K == Intents(s)
<1>1. answers \in Seq(Response) /\ 1 \in 1..Len(answers) /\ answers[1] \in Response
  BY TypeFacts
<1> HIDE DEF K
<1>2. /\ TotalFrom(answers', 1, K) = TotalFrom(answers, 1 + 1, K)
      /\ TotalFrom(answers, 1, K) = Quantity(answers[1], K) + TotalFrom(answers, 2, K)
  BY <1>1, TotalFromRest
<1>3. TotalFrom(answers, 2, K) \in Nat /\ Quantity(answers[1], K) \in Nat
  BY <1>1, TotalFromType, QuantityType
<1>4. Reserved(s)' = Total(sent, K) + TotalFrom(answers', 1, K)
  BY DEF Reserved, K
<1>5. /\ Total(sent, K) \in Nat
      /\ Reserved(s) = Total(sent, K) + TotalFrom(answers, 1, K)
  BY ReservedParts DEF K
<1> QED BY <1>2, <1>3, <1>4, <1>5 DEF K

\* Release leaves what the other orders have reserved: p is what remains to be
\* reserved, kb what remains of the BTC kept, and the reservation of o is the rest.
LEMMA Released ==
  ASSUME TypeInv, NEW o \in Order, NEW rb \in Nat, NEW kb \in Nat,
         Release(o, rb), ReservationsMatch, ~stale,
         NEW p \in [Sides -> Nat], rb = 0 \/ (rb = rBtc /\ kb = keptBtc),
         \A s \in Sides : Reserved(s) = p[s] + Part(o, Intents(s))
  PROVE  rUsdt' = p["buy"] + keptUsdt /\ rBtc' <= p["sell"] + kb
<1>1. o.qty \in Nat /\ o.side \in Sides
  BY OrderType
<1>2. "buy" \in Sides /\ "sell" \in Sides /\ "buy" # "sell"
  BY DEF Sides
<1>3. /\ rUsdt = p["buy"] + Part(o, Intents("buy")) + keptUsdt
      /\ rb <= p["sell"] + Part(o, Intents("sell")) + kb
  <2>1. Reserved("buy") \in Nat /\ Reserved("sell") \in Nat
    BY <1>2, ReservedParts
  <2> QED BY <1>2, <2>1, Numbers DEF ReservationsMatch
<1>4. /\ Part(o, Intents("buy")) = IF o.side = "buy" /\ o.by = "intent" THEN o.qty ELSE 0
      /\ Part(o, Intents("sell")) = IF o.side = "sell" /\ o.by = "intent" THEN o.qty ELSE 0
  BY <1>2, PartOfOrder
<1>5. p["buy"] \in Nat /\ p["sell"] \in Nat
  BY <1>2
<1> QED BY <1>1, <1>3, <1>4, <1>5, Numbers DEF Release, Less

\* Steps that leave orders, answers and reservations alone keep the match.
LEMMA ReservationsUntouched ==
  ASSUME ReservationsMatch, UNCHANGED <<sent, answers, rUsdt, rBtc, kept, stale>>
  PROVE  ReservationsMatch'
BY ReservedSame DEF ReservationsMatch, kept

\* So do orders without a reservation.
LEMMA ReservationsDefend ==
  ASSUME TypeInv, ReservationsMatch, NEW qty \in 1..(2 * Cash), NEW by \in Purposes \ {"intent"},
         Submit("sell", qty, by) \/ Submit("buy", qty, by),
         UNCHANGED <<answers, rUsdt, rBtc, kept, stale>>
  PROVE  ReservationsMatch'
<1>1. \A s \in Sides : Reserved(s)' = Reserved(s)
  <2> TAKE s \in Sides
  <2>1. PICK side \in Sides : Submit(side, qty, by)
    BY DEF Sides
  <2>2. Reserved(s)' = Reserved(s) + 0
    BY <2>1, ReservedSubmit
  <2> QED BY <2>2, ReservedParts
<1> QED BY <1>1 DEF ReservationsMatch, Sides, kept

\* ReservationsMatch is inductive with the types: a step for each action.
LEMMA ReservationsStep ==
  TypeInv /\ TypeInv' /\ ReservationsMatch /\ [Next]_vars => ReservationsMatch'
<1> SUFFICES ASSUME TypeInv, TypeInv', ReservationsMatch, [Next]_vars PROVE ReservationsMatch'
  OBVIOUS
<1> USE DEF account, mirror, kept, observers
<1>0. "buy" \in Sides /\ "sell" \in Sides /\ "buy" # "sell" /\ "intent" \in Purposes
  BY DEF Sides, Purposes
<1>1. CASE BuyIntent
  <2>1. PICK qty \in 1..(2 * Cash) :
          \/ Submit("buy", qty, "intent") /\ rUsdt' = rUsdt + qty
          \/ UNCHANGED <<sent, rUsdt>>
    BY <1>1, BuyIntents
  <2>2. UNCHANGED <<answers, rBtc, kept, stale>>
    BY <1>1 DEF BuyIntent
  <2>3. CASE UNCHANGED <<sent, rUsdt>>
    BY <2>2, <2>3, ReservationsUntouched
  <2>4. CASE Submit("buy", qty, "intent") /\ rUsdt' = rUsdt + qty
    <3>1. Reserved("buy")' = Reserved("buy") + qty /\ Reserved("sell")' = Reserved("sell") + 0
      BY <1>0, <2>2, <2>4, ReservedSubmit
    <3>2. Reserved("buy") \in Nat /\ Reserved("sell") \in Nat
      BY <1>0, ReservedParts
    <3> QED BY <2>2, <2>4, <3>1, <3>2, Numbers DEF ReservationsMatch
  <2> QED BY <2>1, <2>3, <2>4
<1>2. CASE SellIntent
  <2>1. PICK qty \in 1..(2 * Cash) :
          \/ Submit("sell", qty, "intent") /\ rBtc' = rBtc + qty
          \/ UNCHANGED <<sent, rBtc>>
    BY <1>2, SellIntents
  <2>2. UNCHANGED <<answers, rUsdt, kept, stale>>
    BY <1>2 DEF SellIntent
  <2>3. CASE UNCHANGED <<sent, rBtc>>
    BY <2>2, <2>3, ReservationsUntouched
  <2>4. CASE Submit("sell", qty, "intent") /\ rBtc' = rBtc + qty
    <3>1. Reserved("buy")' = Reserved("buy") + 0 /\ Reserved("sell")' = Reserved("sell") + qty
      BY <1>0, <2>2, <2>4, ReservedSubmit
    <3>2. Reserved("buy") \in Nat /\ Reserved("sell") \in Nat
      BY <1>0, ReservedParts
    <3> QED BY <2>2, <2>4, <3>1, <3>2, Numbers DEF ReservationsMatch
  <2> QED BY <2>1, <2>3, <2>4
<1>3. CASE \/ CapTrim \/ StopLoss \/ TrailingStop \/ RegimeExit
           \/ VaultSweep \/ PatternVeto \/ FloorBreach \/ BankExtract
  <2>1. PICK qty \in 1..btc : Defend(qty)
    BY <1>3, Defences
  <2>2. qty \in 1..(2 * Cash) /\ "defence" \in Purposes \ {"intent"}
    BY Numbers DEF Purposes
  <2> QED BY <2>1, <2>2, ReservationsDefend DEF Defend
<1>4. CASE Freeze
  BY <1>4, ReservationsUntouched DEF Freeze
<1>5. CASE Thaw
  BY <1>5, ReservationsUntouched DEF Thaw
<1>6. CASE HandleCashout
  <2>1. Flatten(btc)
    BY <1>6 DEF HandleCashout
  <2>2. btc # 0 => btc \in 1..(2 * Cash)
    BY Numbers
  <2>3. "defence" \in Purposes \ {"intent"} /\ "cashout" \in Purposes \ {"intent"}
    BY DEF Purposes
  <2> QED BY <2>1, <2>2, <2>3, ReservationsDefend, ReservationsUntouched DEF Flatten
<1>7. ASSUME NEW o \in BagToSet(sent), Fill(o) PROVE ReservationsMatch'
  <2>1. held' \in 0..Cash
    BY Numbers DEF TypeInv, TypeOK
  <2>2. /\ sent' = Without(sent, o)
        /\ answers' = Append(answers, [order |-> o, btc |-> held'])
        /\ UNCHANGED <<rUsdt, rBtc, kept, stale>>
    BY <1>7 DEF Fill
  <2>3. \A s \in Sides : Reserved(s)' = Reserved(s)
    BY <2>1, <2>2, ReservedFill
  <2> QED BY <1>0, <2>2, <2>3 DEF ReservationsMatch
<1>8. ASSUME NEW o \in BagToSet(sent), Refuse(o) PROVE ReservationsMatch'
  <2> SUFFICES ASSUME ~stale'
               PROVE  /\ rUsdt' = Reserved("buy")' + keptUsdt'
                      /\ rBtc' <= Reserved("sell")' + keptBtc'
    BY DEF ReservationsMatch
  <2>1. o \in Order
    BY TypeFacts DEF BagOf
  <2>2. sent' = Without(sent, o) /\ answers' = answers /\ Fails(o) /\ ~stale
    BY <1>8 DEF Refuse
  <2> DEFINE p == [s \in Sides |-> Reserved(s)']
  <2>3. \A s \in Sides : Reserved(s) = p[s] + Part(o, Intents(s)) /\ p[s] \in Nat
    BY <2>2, ReservedRefuse
  <2>4. p \in [Sides -> Nat] /\ p["buy"] = Reserved("buy")' /\ p["sell"] = Reserved("sell")'
    BY <1>0, <2>3
  <2> HIDE DEF p
  <2>5. CASE Release(o, rBtc) /\ UNCHANGED kept
    <3>1. rBtc \in Nat /\ keptBtc \in Nat
      BY Numbers
    <3>2. rBtc = 0 \/ (rBtc = rBtc /\ keptBtc = keptBtc)
      OBVIOUS
    <3>3. rUsdt' = p["buy"] + keptUsdt /\ rBtc' <= p["sell"] + keptBtc
      BY <2>1, <2>2, <2>3, <2>4, <2>5, <3>1, <3>2, Released
    <3> QED BY <2>4, <2>5, <3>3
  <2>6. CASE KeepsReservation(o)
    <3>1. /\ Part(o, Intents("buy")) = IF o.side = "buy" THEN o.qty ELSE 0
          /\ Part(o, Intents("sell")) = IF o.side = "sell" THEN o.qty ELSE 0
      BY <1>0, <2>1, <2>6, PartOfOrder DEF KeepsReservation
    <3>2. o.qty \in Nat /\ p["buy"] \in Nat /\ p["sell"] \in Nat
      BY <1>0, <2>1, <2>3, OrderType
    <3>3. /\ rUsdt = p["buy"] + Part(o, Intents("buy")) + keptUsdt
          /\ rBtc <= p["sell"] + Part(o, Intents("sell")) + keptBtc
      BY <1>0, <2>2, <2>3 DEF ReservationsMatch
    <3>4. /\ UNCHANGED <<rUsdt, rBtc>>
          /\ keptUsdt' = IF o.side = "buy" THEN keptUsdt + o.qty ELSE keptUsdt
          /\ keptBtc' = IF o.side = "sell" THEN keptBtc + o.qty ELSE keptBtc
      BY <2>6 DEF KeepsReservation
    <3> QED BY <2>4, <3>1, <3>2, <3>3, <3>4, Numbers
  <2> QED BY <2>2, <2>5, <2>6 DEF Fails
<1>9. CASE Balances
  <2>1. answers' = Append(answers, [btc |-> held]) /\ UNCHANGED <<sent, rUsdt, rBtc, kept, stale>>
    BY <1>9 DEF Balances
  <2>2. \A s \in Sides : Reserved(s)' = Reserved(s)
    <3> TAKE s \in Sides
    <3>1. [btc |-> held] \in Response /\ ~IsAnswered([btc |-> held])
      BY Numbers DEF Response, Balance, IsAnswered
    <3>2. Quantity([btc |-> held], Intents(s)) = 0
      BY <3>1 DEF Quantity
    <3>3. 1 \in 1..(Len(answers) + 1) /\ answers \in Seq(Response)
      BY TypeFacts
    <3>4. TotalFrom(answers', 1, Intents(s)) = TotalFrom(answers, 1, Intents(s)) + 0
      BY <2>1, <3>1, <3>2, <3>3, TotalFromAppend
    <3> QED BY <2>1, <3>4, ReservedParts DEF Reserved
  <2> QED BY <1>0, <2>1, <2>2 DEF ReservationsMatch
<1>10. ASSUME NEW i \in 1..Len(answers), Receive(i) PROVE ReservationsMatch'
  <2> SUFFICES ASSUME ~stale'
               PROVE  /\ rUsdt' = Reserved("buy")' + keptUsdt'
                      /\ rBtc' <= Reserved("sell")' + keptBtc'
    BY DEF ReservationsMatch
  <2> DEFINE o == answers[1].order
             rb == IF answers[1].btc = 0 THEN 0 ELSE rBtc
             kb == IF answers[1].btc = 0 THEN 0 ELSE keptBtc
             p == [s \in Sides |-> Reserved(s)']
  <2>1. i = 1 /\ ~stale /\ sent' = sent /\ answers' = RemoveAt(answers, 1) /\ Release(o, rb)
        /\ IsAnswered(answers[1]) /\ keptUsdt' = keptUsdt /\ keptBtc' = kb
    <3>1. Len(answers) \in Nat
      BY TypeFacts
    <3>2. i \in Nat /\ 1 <= i
      BY <3>1
    <3>3. ~stale /\ ~(i > 1)
      BY <1>10 DEF Receive, TypeInv, TypeOK
    <3>4. i = 1
      BY <3>2, <3>3
    <3> QED BY <1>10, <3>3, <3>4 DEF Receive
  <2>2. answers # <<>> /\ answers[1] \in Response
    BY TypeFacts
  <2>3. o \in Order
    BY <2>1, <2>2, ResponseType
  <2>4. \A s : Quantity(answers[1], Intents(s)) = Part(o, Intents(s))
    BY <2>1 DEF Quantity, Part
  <2>5. \A s \in Sides : Reserved(s) = p[s] + Part(o, Intents(s)) /\ p[s] \in Nat
    BY <2>1, <2>2, <2>4, ReservedReceive
  <2>6. p \in [Sides -> Nat] /\ p["buy"] = Reserved("buy")' /\ p["sell"] = Reserved("sell")'
    BY <1>0, <2>5
  <2>7. rb \in Nat /\ kb \in Nat /\ (rb = 0 \/ (rb = rBtc /\ kb = keptBtc))
    BY Numbers
  <2> HIDE DEF p, o, rb, kb
  <2>8. rUsdt' = p["buy"] + keptUsdt /\ rBtc' <= p["sell"] + kb
    BY <2>1, <2>3, <2>5, <2>6, <2>7, Released
  <2>9. keptUsdt' = keptUsdt /\ keptBtc' = kb
    BY <2>1
  <2> QED BY <2>6, <2>8, <2>9
<1>11. ASSUME NEW i \in 1..Len(answers), Sync(i) PROVE ReservationsMatch'
  <2> SUFFICES ASSUME ~stale'
               PROVE  /\ rUsdt' = Reserved("buy")' + keptUsdt'
                      /\ rBtc' <= Reserved("sell")' + keptBtc'
    BY DEF ReservationsMatch
  <2>1. /\ rUsdt' = 0 /\ rBtc' = 0 /\ keptUsdt' = 0 /\ keptBtc' = 0 /\ sent' = sent /\ BagToSet(sent) = {}
        /\ answers' = RemoveAt(answers, i) /\ ~(Len(answers) > 1)
    BY <1>11 DEF Sync
  <2>2. Len(answers) = 1 /\ answers' \in Seq(Response) /\ Len(answers') = 0
    <3>1. Len(answers) \in Nat /\ answers \in Seq(Response)
      BY TypeFacts
    <3>2. Len(answers) = 1
      <4>1. 1 <= i /\ i <= Len(answers) /\ i \in Nat
        BY <3>1
      <4>2. ~(Len(answers) > 1)
        BY <2>1
      <4>3. Len(answers) \in Nat /\ 1 <= Len(answers)
        BY <3>1, <4>1
      <4>4. \A n \in Nat : 1 <= n /\ ~(n > 1) => n = 1
        OBVIOUS
      <4> QED BY <4>2, <4>3, <4>4
    <3>3. answers' \in Seq(Response) /\ Len(answers') = Len(answers) - 1
      BY <2>1, <3>1, Removed
    <3> QED BY <3>2, <3>3
  <2>3. BagToSet(sent') = {} /\ answers' = <<>>
    BY <2>1, <2>2
  <2>4. \A s : Total(sent', Intents(s)) = 0 /\ TotalFrom(answers', 1, Intents(s)) = 0
    <3>1. 1..Len(answers') = {}
      BY <2>2
    <3> QED BY <2>3, <3>1, SumEmpty DEF Total, SumFunction, TotalFrom
  <2>5. Reserved("buy")' = 0 /\ Reserved("sell")' = 0
    BY <2>4 DEF Reserved
  <2> QED BY <2>1, <2>5
<1>12. ASSUME NEW i \in 1..Len(answers), LoseAnswer(i) PROVE ReservationsMatch'
  BY <1>12 DEF LoseAnswer, ReservationsMatch
<1>13. ASSUME NEW q \in BagToSet(queue), Replay(q) PROVE ReservationsMatch'
  <2>1. q.side \in Sides /\ q.qty \in 1..(2 * Cash) /\ "replay" \in Purposes \ {"intent"}
    BY TypeFacts DEF BagOf, Queued, Purposes
  <2>2. Submit("sell", q.qty, "replay") \/ Submit("buy", q.qty, "replay")
    BY <1>13, <2>1 DEF Replay, Sides
  <2> QED BY <1>13, <2>1, <2>2, ReservationsDefend DEF Replay
<1>14. ASSUME NEW q \in BagToSet(queue), Expire(q) PROVE ReservationsMatch'
  BY <1>14, ReservationsUntouched DEF Expire
<1>15. CASE UNCHANGED vars
  BY <1>15, ReservationsUntouched DEF vars
<1> QED
  BY <1>1, <1>2, <1>3, <1>4, <1>5, <1>6, <1>7, <1>8, <1>9, <1>10, <1>11, <1>12,
     <1>13, <1>14, <1>15 DEF Next

\* At the start nothing is under way and nothing reserved.
LEMMA ReservationsStart ==
  ASSUME Init
  PROVE  /\ ReservationsMatch
         /\ BagToSet(sent) = {} /\ Len(answers) = 0
         /\ \A kind : Total(sent, kind) = 0 /\ TotalFrom(answers, 1, kind) = 0
<1>1. BagToSet(sent) = {} /\ Len(answers) = 0
  BY DEF Init, EmptyBag, SetToBag, BagToSet
<1>2. 1..Len(answers) = {}
  BY <1>1
<1>3. \A kind : Total(sent, kind) = 0
  BY <1>1, SumEmpty DEF Total, SumFunction
<1>4. \A kind : TotalFrom(answers, 1, kind) = 0
  BY <1>2, SumEmpty DEF TotalFrom
<1>5. ReservationsMatch
  BY <1>3, <1>4 DEF Init, ReservationsMatch, Reserved
<1> QED BY <1>1, <1>3, <1>4, <1>5

\* An order's units are reserved until it ends and no longer, whatever the order of
\* fills, failures and replays (execution_worker.js 581-593, 686, 899-900); what
\* stays reserved is of orders whose failure the store rejected (950-956).  For any
\* cash, cap and number of orders, and any number of rejections.
THEOREM ReservationsCorrect == Spec => []ReservationsMatch
<1> DEFINE Inv == TypeInv /\ ReservationsMatch
<1>1. Init => Inv
  BY TypeStart, ReservationsStart
<1>2. Inv /\ [Next]_vars => Inv'
  BY TypeStep, ReservationsStep
<1>3. Inv => ReservationsMatch
  OBVIOUS
<1> QED BY <1>1, <1>2, <1>3, PTL DEF Spec

-----------------------------------------------------------------------------
(* Exposure                                                                *)

\* The portfolio in the worker after the first k answers have been taken over.
Mirror(k) == IF k = 0 THEN btc ELSE answers[k].btc

\* In order, the answers lead from the worker's portfolio to the exchange's: what is
\* held is no more than any portfolio on the way, with the buys answered after it
\* and without the intents' sells answered after it.
MirrorBounds ==
  ~stale =>
    \A k \in 0..Len(answers) :
      held <= TotalFrom(answers, k + 1, Buys)
              + Less(Mirror(k), TotalFrom(answers, k + 1, Intents("sell")))

\* Steps that leave the account, the answers and the mirror alone.
LEMMA MirrorUntouched ==
  ASSUME MirrorBounds, UNCHANGED <<held, answers, btc, stale>>
  PROVE  MirrorBounds'
BY DEF MirrorBounds, Mirror

\* The arithmetic of an answer: a buy or a sell more behind the portfolio m.
LEMMA StillBounded ==
  ASSUME NEW h \in Nat, NEW w \in Nat, NEW m \in Nat, NEW v \in Nat,
         NEW bought \in Nat, NEW sold \in Nat, NEW g \in Nat,
         h <= w + Less(m, v),
         g <= Less(h, sold) + bought
  PROVE  g <= (w + bought) + Less(m, v + sold)
BY DEF Less

\* A further answer keeps the bounds, if the account has moved no more than it says.
LEMMA MirrorAppend ==
  ASSUME TypeInv, MirrorBounds, ~stale, NEW a \in Response,
         answers' = Append(answers, a), btc' = btc, a.btc = held', held' \in Nat,
         held' <= Less(held, Quantity(a, Intents("sell"))) + Quantity(a, Buys)
  PROVE  MirrorBounds'
<1> DEFINE n == Len(answers)
           w(k) == TotalFrom(answers, k + 1, Buys)
           v(k) == TotalFrom(answers, k + 1, Intents("sell"))
           bought == Quantity(a, Buys)
           sold == Quantity(a, Intents("sell"))
<1>1. answers \in Seq(Response) /\ n \in Nat
  BY TypeFacts
<1>2. Len(answers') = n + 1 /\ answers'[n + 1] = a /\ \A k \in 1..n : answers'[k] = answers[k]
  BY <1>1
<1>3. bought \in Nat /\ sold \in Nat
  BY QuantityType
<1> SUFFICES ASSUME NEW k \in 0..(n + 1)
             PROVE  held' <= TotalFrom(answers', k + 1, Buys)
                             + Less(Mirror(k)', TotalFrom(answers', k + 1, Intents("sell")))
  BY <1>2 DEF MirrorBounds
<1>4. CASE k \in 0..n
  <2>1. k + 1 \in 1..(Len(answers) + 1)
    BY <1>1, <1>4
  <2>2. /\ TotalFrom(answers', k + 1, Buys) = w(k) + bought
        /\ TotalFrom(answers', k + 1, Intents("sell")) = v(k) + sold
    BY <1>1, <2>1, TotalFromAppend
  <2>3. Mirror(k)' = Mirror(k) /\ Mirror(k) \in Nat
    <3>1. CASE k = 0
      BY <3>1, Numbers DEF Mirror
    <3>2. CASE k # 0
      <4>1. k \in 1..n
        BY <1>1, <1>4, <3>2
      <4>2. answers[k] \in Response
        BY <1>1, <4>1
      <4>3. answers[k].btc \in Nat
        BY <4>2, ResponseType, Numbers
      <4> QED BY <1>2, <3>2, <4>1, <4>3 DEF Mirror
    <3> QED BY <3>1, <3>2
  <2>4. held <= w(k) + Less(Mirror(k), v(k))
    BY <1>4 DEF MirrorBounds
  <2>5. w(k) \in Nat /\ v(k) \in Nat
    <3>1. k + 1 \in Nat \ {0}
      BY <1>1, <1>4
    <3> QED BY <1>1, <3>1, TotalFromType
  <2>6. held \in Nat
    BY Numbers
  <2> HIDE DEF w, v, bought, sold
  <2>7. held' <= (w(k) + bought) + Less(Mirror(k), v(k) + sold)
    BY <1>3, <2>3, <2>4, <2>5, <2>6, StillBounded DEF bought, sold
  <2> QED BY <2>2, <2>3, <2>7
<1>5. CASE k = n + 1
  <2>1. Mirror(k)' = held'
    BY <1>1, <1>2, <1>5 DEF Mirror
  <2>2. answers' \in Seq(Response) /\ k + 1 \in Nat \ {0} /\ k + 1 > Len(answers')
    BY <1>1, <1>2, <1>5
  <2>3. TotalFrom(answers', k + 1, Buys) = 0 /\ TotalFrom(answers', k + 1, Intents("sell")) = 0
    BY <2>2, TotalFromType
  <2> QED BY <2>1, <2>3 DEF Less
<1> QED BY <1>1, <1>4, <1>5

\* The first answer is taken over: each portfolio takes the place of the one before.
LEMMA MirrorRemove ==
  ASSUME TypeInv, MirrorBounds, ~stale, answers # <<>>,
         answers' = RemoveAt(answers, 1), btc' = answers[1].btc, held' = held
  PROVE  MirrorBounds'
<1> DEFINE n == Len(answers)
<1>1. answers \in Seq(Response) /\ n \in Nat /\ n >= 1
  BY TypeFacts
<1>2. Len(answers') = n - 1 /\ \A k \in 1..(n - 1) : answers'[k] = answers[k + 1]
  <2>1. 1 \in 1..Len(answers)
    BY <1>1
  <2>2. Len(answers') = n - 1 /\ \A k \in 1..(n - 1) : answers'[k] = answers[IF k < 1 THEN k ELSE k + 1]
    BY <1>1, <2>1, Removed
  <2>3. \A k \in 1..(n - 1) : ~(k < 1)
    BY <1>1
  <2> QED BY <2>2, <2>3
<1> SUFFICES ASSUME NEW k \in 0..(n - 1)
             PROVE  held' <= TotalFrom(answers', k + 1, Buys)
                             + Less(Mirror(k)', TotalFrom(answers', k + 1, Intents("sell")))
  BY <1>2 DEF MirrorBounds
<1>3. k + 1 \in 1..n /\ k + 1 \in 0..n
  BY <1>1
<1>4. \A kind : TotalFrom(answers', k + 1, kind) = TotalFrom(answers, (k + 1) + 1, kind)
  BY <1>1, <1>3, TotalFromRest
<1>5. Mirror(k)' = Mirror(k + 1)
  BY <1>1, <1>2, <1>3 DEF Mirror
<1>6. held <= TotalFrom(answers, (k + 1) + 1, Buys)
              + Less(Mirror(k + 1), TotalFrom(answers, (k + 1) + 1, Intents("sell")))
  BY <1>3 DEF MirrorBounds
<1> QED BY <1>4, <1>5, <1>6

\* What the fill of an order does to the account.
LEMMA FillFacts ==
  ASSUME TypeInv, NEW o \in BagToSet(sent), Fill(o)
  PROVE  /\ o \in Order /\ o.qty \in Nat /\ held' \in 0..Cash
         /\ o.side = "buy" => held' <= held + o.qty
         /\ o.side = "sell" => held' = Less(held, o.qty)
         /\ o.side = "buy" \/ o.side = "sell"
<1>1. o \in Order /\ o.qty \in Nat /\ (o.side = "buy" \/ o.side = "sell")
  BY TypeFacts, OrderType DEF BagOf, Sides
<1>2. held \in Nat /\ Cash \in Nat /\ held <= Cash
  BY Numbers
<1>3. CASE o.side = "buy"
  <2>1. held' = held + Least(o.qty, Cash - held)
    BY <1>3 DEF Fill, Filled
  <2> QED BY <1>1, <1>2, <1>3, <2>1 DEF Least
<1>4. CASE o.side = "sell"
  <2>1. held' = held - Least(o.qty, held)
    BY <1>4 DEF Fill, Filled
  <2> QED BY <1>1, <1>2, <1>4, <2>1 DEF Least, Less
<1> QED BY <1>1, <1>3, <1>4

\* MirrorBounds is inductive with the types: a step for each action.
LEMMA MirrorStep ==
  TypeInv /\ MirrorBounds /\ [Next]_vars => MirrorBounds'
<1> SUFFICES ASSUME TypeInv, MirrorBounds, [Next]_vars PROVE MirrorBounds'
  OBVIOUS
<1> USE DEF account, mirror, kept, observers
<1>1. CASE BuyIntent \/ SellIntent
  BY <1>1, MirrorUntouched DEF BuyIntent, SellIntent
<1>2. CASE \/ CapTrim \/ StopLoss \/ TrailingStop \/ RegimeExit
           \/ VaultSweep \/ PatternVeto \/ FloorBreach \/ BankExtract
  BY <1>2, Defences, MirrorUntouched DEF Defend
<1>3. CASE Freeze \/ Thaw \/ HandleCashout
  BY <1>3, MirrorUntouched DEF Freeze, Thaw, HandleCashout, Flatten
<1>4. ASSUME NEW o \in BagToSet(sent), Fill(o) PROVE MirrorBounds'
  <2> SUFFICES ASSUME ~stale PROVE MirrorBounds'
    BY <1>4 DEF Fill, MirrorBounds
  <2> DEFINE a == [order |-> o, btc |-> held']
  <2>1. o \in Order /\ o.qty \in Nat /\ held' \in 0..Cash
    BY <1>4, FillFacts
  <2>2. a \in Response /\ a.btc = held'
    BY <2>1 DEF Response, Answer
  <2>3. /\ Quantity(a, Buys) = Part(o, Buys)
        /\ Quantity(a, Intents("sell")) = Part(o, Intents("sell"))
    BY DEF Quantity, IsAnswered, Part
  <2>4. /\ Part(o, Buys) = IF o.side = "buy" THEN o.qty ELSE 0
        /\ Part(o, Intents("sell")) = IF o.side = "sell" /\ o.by = "intent" THEN o.qty ELSE 0
    BY <2>1, PartOfOrder DEF Sides
  <2>5. answers' = Append(answers, a) /\ btc' = btc
    BY <1>4 DEF Fill
  <2> HIDE DEF a
  <2>6. held' <= Less(held, Quantity(a, Intents("sell"))) + Quantity(a, Buys)
    BY <1>4, <2>1, <2>3, <2>4, FillFacts, Numbers DEF Less
  <2>7. held' \in Nat
    BY <2>1, Numbers
  <2> QED BY <2>2, <2>5, <2>6, <2>7, MirrorAppend
<1>5. CASE Balances
  <2> SUFFICES ASSUME ~stale PROVE MirrorBounds'
    BY <1>5 DEF Balances, MirrorBounds
  <2> DEFINE a == [btc |-> held]
  <2>1. a \in Response /\ a.btc = held /\ ~IsAnswered(a)
    BY Numbers DEF Response, Balance, IsAnswered
  <2>2. answers' = Append(answers, a) /\ btc' = btc /\ held' = held /\ held \in Nat
    BY <1>5, Numbers DEF Balances
  <2>3. Quantity(a, Buys) = 0 /\ Quantity(a, Intents("sell")) = 0
    BY <2>1 DEF Quantity
  <2>4. held' <= Less(held, Quantity(a, Intents("sell"))) + Quantity(a, Buys)
    BY <2>2, <2>3 DEF Less
  <2> HIDE DEF a
  <2> QED BY <2>1, <2>2, <2>4, MirrorAppend
<1>6. ASSUME NEW i \in 1..Len(answers), Receive(i) \/ Sync(i) PROVE MirrorBounds'
  <2> SUFFICES ASSUME ~stale' PROVE MirrorBounds'
    BY DEF MirrorBounds
  <2>1. Len(answers) \in Nat /\ answers # <<>>
    BY TypeFacts
  <2>2. i \in Nat /\ 1 <= i /\ i <= Len(answers)
    BY <2>1
  <2>3. ~stale /\ (~(i > 1) \/ ~(Len(answers) > 1))
    BY <1>6 DEF Receive, Sync, TypeInv, TypeOK
  <2>4. i = 1
    BY <2>1, <2>2, <2>3
  <2>5. answers' = RemoveAt(answers, 1) /\ btc' = answers[1].btc /\ held' = held
    BY <1>6, <2>4 DEF Receive, Sync
  <2> QED BY <2>1, <2>3, <2>5, MirrorRemove
<1>7. ASSUME NEW i \in 1..Len(answers), LoseAnswer(i) PROVE MirrorBounds'
  BY <1>7 DEF LoseAnswer, MirrorBounds
<1>8. ASSUME NEW o \in BagToSet(sent), Refuse(o) PROVE MirrorBounds'
  BY <1>8, MirrorUntouched DEF Refuse
<1>9. ASSUME NEW q \in BagToSet(queue), Replay(q) \/ Expire(q) PROVE MirrorBounds'
  BY <1>9, MirrorUntouched DEF Replay, Expire
<1>10. CASE UNCHANGED vars
  BY <1>10, MirrorUntouched DEF vars
<1> QED
  BY <1>1, <1>2, <1>3, <1>4, <1>5, <1>6, <1>7, <1>8, <1>9, <1>10 DEF Next

\* The last portfolio under way to the mirror, or the mirror, is the account.
MirrorEndsRight == ~stale => Mirror(Len(answers)) = held

\* A fill and a balance are appended as the account then stands, and only the
\* first answer is ever taken away while nothing has lost track.
LEMMA MirrorEndStep ==
  TypeInv /\ MirrorEndsRight /\ [Next]_vars => MirrorEndsRight'
<1> SUFFICES ASSUME TypeInv, MirrorEndsRight, [Next]_vars PROVE MirrorEndsRight'
  OBVIOUS
<1> USE DEF account, mirror, kept, observers
<1>0. answers \in Seq(Response) /\ Len(answers) \in Nat
  BY TypeFacts
<1>1. ASSUME UNCHANGED <<held, answers, btc, stale>> PROVE MirrorEndsRight'
  BY <1>1 DEF MirrorEndsRight, Mirror
<1>2. CASE BuyIntent \/ SellIntent
  BY <1>1, <1>2 DEF BuyIntent, SellIntent
<1>3. CASE \/ CapTrim \/ StopLoss \/ TrailingStop \/ RegimeExit
           \/ VaultSweep \/ PatternVeto \/ FloorBreach \/ BankExtract
  BY <1>1, <1>3, Defences DEF Defend
<1>4. CASE Freeze \/ Thaw \/ HandleCashout
  BY <1>1, <1>4 DEF Freeze, Thaw, HandleCashout, Flatten
<1>5. ASSUME NEW a \in Response, answers' = Append(answers, a), a.btc = held'
      PROVE  MirrorEndsRight'
  <2>1. Len(answers') = Len(answers) + 1 /\ answers'[Len(answers) + 1] = a
    BY <1>0, <1>5
  <2> QED BY <1>0, <1>5, <2>1 DEF MirrorEndsRight, Mirror
<1>6. ASSUME NEW o \in BagToSet(sent), Fill(o) PROVE MirrorEndsRight'
  <2>1. o \in Order /\ held' \in 0..Cash
    BY <1>6, FillFacts
  <2>2. [order |-> o, btc |-> held'] \in Response
    BY <2>1 DEF Response, Answer
  <2> QED BY <1>5, <1>6, <2>2 DEF Fill
<1>7. CASE Balances
  <2>1. [btc |-> held] \in Response
    BY Numbers DEF Response, Balance
  <2> QED BY <1>5, <1>7, <2>1 DEF Balances
<1>8. ASSUME NEW i \in 1..Len(answers), Receive(i) \/ Sync(i) PROVE MirrorEndsRight'
  <2> SUFFICES ASSUME ~stale' PROVE MirrorEndsRight'
    BY DEF MirrorEndsRight
  <2>1. i \in Nat /\ 1 <= i /\ i <= Len(answers)
    BY <1>0
  <2>2. ~stale /\ (~(i > 1) \/ ~(Len(answers) > 1))
    BY <1>8 DEF Receive, Sync, TypeInv, TypeOK
  <2>3. i = 1
    BY <1>0, <2>1, <2>2
  <2>4. answers' = RemoveAt(answers, 1) /\ btc' = answers[1].btc /\ held' = held
    BY <1>8, <2>3 DEF Receive, Sync
  <2>5. Len(answers') = Len(answers) - 1
        /\ \A k \in 1..(Len(answers) - 1) : answers'[k] = answers[IF k < 1 THEN k ELSE k + 1]
    BY <1>0, <2>1, <2>3, <2>4, Removed
  <2>6. Mirror(Len(answers)) = answers[Len(answers)].btc
    BY <1>0, <2>1 DEF Mirror
  <2>7. CASE Len(answers) = 1
    BY <2>2, <2>4, <2>5, <2>6, <2>7 DEF MirrorEndsRight, Mirror
  <2>8. CASE Len(answers) # 1
    <3>1. /\ Len(answers) - 1 \in 1..(Len(answers) - 1)
          /\ ~(Len(answers) - 1 < 1) /\ Len(answers) - 1 # 0
          /\ (Len(answers) - 1) + 1 = Len(answers)
      <4>1. \A n \in Nat : n >= 1 /\ n # 1 =>
               n - 1 \in 1..(n - 1) /\ ~(n - 1 < 1) /\ n - 1 # 0 /\ (n - 1) + 1 = n
        OBVIOUS
      <4>2. Len(answers) >= 1
        BY <1>0, <2>1
      <4> QED BY <1>0, <2>8, <4>1, <4>2
    <3>2. answers'[Len(answers) - 1] = answers[Len(answers)]
      BY <2>5, <3>1
    <3> QED BY <2>2, <2>4, <2>5, <2>6, <3>1, <3>2 DEF MirrorEndsRight, Mirror
  <2> QED BY <2>7, <2>8
<1>9. ASSUME NEW i \in 1..Len(answers), LoseAnswer(i) PROVE MirrorEndsRight'
  BY <1>9 DEF LoseAnswer, MirrorEndsRight
<1>10. ASSUME NEW o \in BagToSet(sent), Refuse(o) PROVE MirrorEndsRight'
  BY <1>1, <1>10 DEF Refuse
<1>11. ASSUME NEW q \in BagToSet(queue), Replay(q) \/ Expire(q) PROVE MirrorEndsRight'
  BY <1>1, <1>11 DEF Replay, Expire
<1>12. CASE UNCHANGED vars
  BY <1>1, <1>12 DEF vars
<1> QED
  BY <1>2, <1>3, <1>4, <1>6, <1>7, <1>8, <1>9, <1>10, <1>11, <1>12 DEF Next

\* Once every answer has been taken over the mirror is the account, unless one
\* was lost or overtaken, or a sync came between.
THEOREM MirrorCorrect == Spec => []MirrorCatchesUp
<1>1. Init => MirrorEndsRight
  <2>1. Init => Len(answers) = 0 /\ btc = held
    BY DEF Init
  <2> QED BY <2>1 DEF MirrorEndsRight, Mirror
<1>2. MirrorEndsRight => MirrorCatchesUp
  BY DEF MirrorEndsRight, MirrorCatchesUp, Mirror
<1> QED BY <1>1, <1>2, TypeStart, TypeStep, MirrorEndStep, PTL DEF Spec

\* Every buy under way is an intent's, and so has a reservation: a replayed one
\* would have none.
BuysByIntents ==
  ~loose =>
    /\ \A o \in BagToSet(sent) : o.side = "buy" => o.by = "intent"
    /\ \A i \in 1..Len(answers) :
         IsAnswered(answers[i]) /\ answers[i].order.side = "buy" => answers[i].order.by = "intent"

\* The reservations for buys stay within the cap.
ReservedWithinCap == ~stale /\ ~loose => rUsdt <= Cap

\* Steps that leave orders and answers alone.
LEMMA BuysUntouched ==
  ASSUME BuysByIntents, UNCHANGED <<sent, answers>>, loose => loose'
  PROVE  BuysByIntents'
BY DEF BuysByIntents

\* An order that is sent.
LEMMA BuysSubmit ==
  ASSUME TypeInv, BuysByIntents, NEW side \in Sides, NEW qty \in 1..(2 * Cash), NEW by \in Purposes,
         Submit(side, qty, by), side = "buy" => by = "intent", answers' = answers, loose => loose'
  PROVE  BuysByIntents'
<1> DEFINE o == [side |-> side, qty |-> qty, by |-> by]
<1>1. BagToSet(sent') = BagToSet(sent) \cup {o}
  BY TypeFacts, WithBag DEF Submit, BagOf
<1>2. o.side = "buy" => o.by = "intent"
  OBVIOUS
<1> QED BY <1>1, <1>2 DEF BuysByIntents

\* An order less.
LEMMA WithoutSubset ==
  ASSUME TypeInv, NEW o \in BagToSet(sent)
  PROVE  BagToSet(Without(sent, o)) \subseteq BagToSet(sent)
BY TypeFacts, WithoutBag DEF BagOf

\* An answer less.
LEMMA BuysFewer ==
  ASSUME TypeInv, BuysByIntents, BagToSet(sent') \subseteq BagToSet(sent),
         NEW i \in 1..Len(answers), answers' = RemoveAt(answers, i), loose => loose'
  PROVE  BuysByIntents'
<1>1. answers \in Seq(Response) /\ Len(answers) \in Nat
  BY TypeFacts
<1>2. \A j \in 1..Len(answers') : \E k \in 1..Len(answers) : answers'[j] = answers[k]
  BY <1>1, RemovedElements
<1> QED BY <1>2 DEF BuysByIntents

\* BuysByIntents is inductive with the types: a step for each action.
LEMMA BuysStep ==
  TypeInv /\ BuysByIntents /\ [Next]_vars => BuysByIntents'
<1> SUFFICES ASSUME TypeInv, BuysByIntents, [Next]_vars PROVE BuysByIntents'
  OBVIOUS
<1> USE DEF account, mirror, kept, observers
<1>0. /\ "buy" \in Sides /\ "sell" \in Sides
      /\ {"intent", "defence", "cashout", "replay"} \subseteq Purposes
  BY DEF Sides, Purposes
<1>1. CASE BuyIntent
  <2>1. PICK qty \in 1..(2 * Cash) :
          /\ loose' = (loose \/ qty > Headroom)
          /\ Submit("buy", qty, "intent") \/ sent' = sent
    BY <1>1, BuyIntents
  <2>2. answers' = answers /\ (loose => loose')
    BY <1>1, <2>1 DEF BuyIntent
  <2>3. CASE sent' = sent
    BY <2>2, <2>3, BuysUntouched
  <2>4. CASE Submit("buy", qty, "intent")
    BY <1>0, <2>2, <2>4, BuysSubmit
  <2> QED BY <2>1, <2>3, <2>4
<1>2. CASE SellIntent
  <2>1. PICK qty \in 1..(2 * Cash) : Submit("sell", qty, "intent") \/ sent' = sent
    BY <1>2, SellIntents
  <2>2. UNCHANGED <<answers, loose>>
    BY <1>2 DEF SellIntent
  <2>3. CASE sent' = sent
    BY <2>2, <2>3, BuysUntouched
  <2>4. CASE Submit("sell", qty, "intent")
    BY <1>0, <2>2, <2>4, BuysSubmit
  <2> QED BY <2>1, <2>3, <2>4
<1>3. CASE \/ CapTrim \/ StopLoss \/ TrailingStop \/ RegimeExit
           \/ VaultSweep \/ PatternVeto \/ FloorBreach \/ BankExtract
  <2>1. PICK qty \in 1..btc : Defend(qty)
    BY <1>3, Defences
  <2>2. qty \in 1..(2 * Cash)
    BY Numbers
  <2> QED BY <1>0, <2>1, <2>2, BuysSubmit DEF Defend
<1>4. CASE Freeze \/ Thaw
  BY <1>4, BuysUntouched DEF Freeze, Thaw
<1>5. CASE HandleCashout
  <2>1. Flatten(btc) /\ UNCHANGED <<answers, loose>>
    BY <1>5 DEF HandleCashout, Flatten
  <2>2. btc # 0 => btc \in 1..(2 * Cash)
    BY Numbers
  <2>3. \/ sent' = sent
        \/ btc # 0 /\ (Submit("sell", btc, "defence") \/ Submit("sell", btc, "cashout"))
    BY <2>1 DEF Flatten
  <2> QED BY <1>0, <2>1, <2>2, <2>3, BuysSubmit, BuysUntouched
<1>6. ASSUME NEW o \in BagToSet(sent), Fill(o) PROVE BuysByIntents'
  <2>1. BagToSet(sent') \subseteq BagToSet(sent)
    BY <1>6, WithoutSubset DEF Fill
  <2>2. /\ answers \in Seq(Response)
        /\ answers' = Append(answers, [order |-> o, btc |-> held']) /\ loose' = loose
    BY <1>6, TypeFacts DEF Fill
  <2>3. \A i \in 1..Len(answers') :
          answers'[i] = [order |-> o, btc |-> held'] \/ \E k \in 1..Len(answers) : answers'[i] = answers[k]
    BY <2>2
  <2> QED BY <2>1, <2>2, <2>3 DEF BuysByIntents
<1>7. CASE Balances
  <2>1. /\ answers \in Seq(Response)
        /\ answers' = Append(answers, [btc |-> held]) /\ loose' = loose /\ sent' = sent
    BY <1>7, TypeFacts DEF Balances
  <2>2. ~IsAnswered([btc |-> held])
    BY DEF IsAnswered
  <2>3. \A i \in 1..Len(answers') :
          answers'[i] = [btc |-> held] \/ \E k \in 1..Len(answers) : answers'[i] = answers[k]
    BY <2>1
  <2> QED BY <2>1, <2>2, <2>3 DEF BuysByIntents
<1>8. ASSUME NEW i \in 1..Len(answers), Receive(i) \/ Sync(i) \/ LoseAnswer(i) PROVE BuysByIntents'
  <2>1. CASE Receive(i) \/ Sync(i)
    BY <2>1, BuysFewer DEF Receive, Sync
  <2>2. CASE LoseAnswer(i)
    <3>1. sent' = sent /\ answers' = RemoveAt(answers, i) /\ (loose => loose')
      BY <2>2 DEF LoseAnswer, Fails
    <3> QED BY <3>1, BuysFewer
  <2> QED BY <1>8, <2>1, <2>2
<1>9. ASSUME NEW o \in BagToSet(sent), Refuse(o) PROVE BuysByIntents'
  <2>1. BagToSet(sent') \subseteq BagToSet(sent) /\ answers' = answers /\ (loose => loose')
    BY <1>9, WithoutSubset DEF Refuse, Fails
  <2> QED BY <2>1 DEF BuysByIntents
<1>10. ASSUME NEW q \in BagToSet(queue), Replay(q) PROVE BuysByIntents'
  <2>1. q.side \in Sides /\ q.qty \in 1..(2 * Cash) /\ "replay" \in Purposes
    BY <1>0, TypeFacts DEF BagOf, Queued
  <2>2. Submit(q.side, q.qty, "replay") /\ answers' = answers /\ loose' = (loose \/ q.side = "buy")
    BY <1>10 DEF Replay
  <2>3. CASE q.side = "buy"
    BY <2>2, <2>3 DEF BuysByIntents
  <2>4. CASE q.side # "buy"
    BY <2>1, <2>2, <2>4, BuysSubmit
  <2> QED BY <2>3, <2>4
<1>11. ASSUME NEW q \in BagToSet(queue), Expire(q) PROVE BuysByIntents'
  BY <1>11, BuysUntouched DEF Expire
<1>12. CASE UNCHANGED vars
  BY <1>12, BuysUntouched DEF vars
<1> QED
  BY <1>1, <1>2, <1>3, <1>4, <1>5, <1>6, <1>7, <1>8, <1>9, <1>10, <1>11, <1>12 DEF Next

\* Then the reservation is that of all buys, under way or answered, and of those
\* that failed and kept theirs.
LEMMA BuysReserved ==
  ASSUME TypeInv, ReservationsMatch, BuysByIntents, ~stale, ~loose
  PROVE  rUsdt = Total(sent, Buys) + TotalFrom(answers, 1, Buys) + keptUsdt
<1>1. Total(sent, Buys) = Total(sent, Intents("buy"))
  <2>1. \A o \in Order : o.side \in Sides /\ o.by \in Purposes /\ o.qty \in 1..(2 * Cash)
    BY OrderType
  <2>2. \A o \in BagToSet(sent) : o \in Buys <=> o \in Intents("buy")
    BY TypeFacts DEF BagOf, BuysByIntents, Buys, Intents, Order, Orders, Sides, Purposes
  <2>3. BagToSet(sent) \cap Buys = BagToSet(sent) \cap Intents("buy")
    BY <2>2
  <2> QED BY <2>3 DEF Total
<1>2. TotalFrom(answers, 1, Buys) = TotalFrom(answers, 1, Intents("buy"))
  <2>1. ASSUME NEW j \in 1..Len(answers)
        PROVE  Quantity(answers[j], Buys) = Quantity(answers[j], Intents("buy"))
    <3>1. answers[j] \in Response
      BY TypeFacts
    <3>2. IsAnswered(answers[j]) => answers[j].order \in Order
      BY <3>1, ResponseType
    <3>3. IsAnswered(answers[j]) => (answers[j].order \in Buys <=> answers[j].order \in Intents("buy"))
      BY <3>2 DEF BuysByIntents, Buys, Intents, Order, Orders, Sides, Purposes
    <3> QED BY <3>3 DEF Quantity
  <2>2. [j \in 1..Len(answers) |-> Quantity(answers[j], Buys)]
        = [j \in 1..Len(answers) |-> Quantity(answers[j], Intents("buy"))]
    BY <2>1
  <2> QED BY <2>2 DEF TotalFrom
<1>3. rUsdt = Reserved("buy") + keptUsdt
  BY DEF ReservationsMatch
<1> QED BY <1>1, <1>2, <1>3 DEF Reserved

\* What an order that is sent adds to the buys and to the intents' sells.
LEMMA TotalsSubmit ==
  ASSUME TypeInv, NEW side \in Sides, NEW qty \in 1..(2 * Cash), NEW by \in Purposes,
         Submit(side, qty, by)
  PROVE  /\ Total(sent', Buys) = Total(sent, Buys) + IF side = "buy" THEN qty ELSE 0
         /\ Total(sent', Intents("sell"))
            = Total(sent, Intents("sell")) + IF side = "sell" /\ by = "intent" THEN qty ELSE 0
<1> DEFINE o == [side |-> side, qty |-> qty, by |-> by]
<1>1. o \in Order /\ o.side = side /\ o.by = by /\ o.qty = qty
  BY DEF Order, Orders
<1>2. o.qty \in Nat
  BY <1>1, OrderType
<1>3. sent' = With(sent, o)
  BY DEF Submit
<1>4. /\ Part(o, Intents("sell")) = IF side = "sell" /\ by = "intent" THEN qty ELSE 0
      /\ Part(o, Buys) = IF side = "buy" THEN qty ELSE 0
  BY <1>1, PartOfOrder DEF Sides
<1> HIDE DEF o
<1>5. \A kind : Total(sent', kind) = Total(sent, kind) + Part(o, kind)
  BY <1>2, <1>3, TypeFacts, TotalWith
<1> QED BY <1>4, <1>5

\* What an order that ends takes from them.
LEMMA TotalsRemoved ==
  ASSUME TypeInv, NEW o \in BagToSet(sent), sent' = Without(sent, o)
  PROVE  /\ Total(sent, Buys) = Total(sent', Buys) + IF o.side = "buy" THEN o.qty ELSE 0
         /\ Total(sent, Intents("sell"))
            = Total(sent', Intents("sell")) + IF o.side = "sell" /\ o.by = "intent" THEN o.qty ELSE 0
         /\ Total(sent', Buys) \in Nat /\ Total(sent', Intents("sell")) \in Nat
<1>1. o \in Order
  BY TypeFacts DEF BagOf
<1>2. /\ Part(o, Intents("sell")) = IF o.side = "sell" /\ o.by = "intent" THEN o.qty ELSE 0
      /\ Part(o, Buys) = IF o.side = "buy" THEN o.qty ELSE 0
  BY <1>1, PartOfOrder DEF Sides
<1>3. \A kind : Total(sent, kind) = Total(sent', kind) + Part(o, kind) /\ Total(sent', kind) \in Nat
  BY TypeFacts, TotalWithout, WithoutOrderBag, TotalIs
<1> QED BY <1>2, <1>3

\* The part of the invariant that is about the cap.
Exposed == ReservedWithinCap /\ ExposureKept

\* Steps after which no more is held, reserved or under way.
LEMMA ExposureUntouched ==
  ASSUME TypeInv, Exposed, held' = held, rUsdt' \in Nat, rUsdt' <= rUsdt,
         Total(sent', Buys) = Total(sent, Buys),
         Total(sent', Intents("sell")) = Total(sent, Intents("sell")),
         ~stale' => ~stale, ~loose' => ~loose
  PROVE  Exposed'
<1>1. ReservedWithinCap'
  BY Numbers DEF Exposed, ReservedWithinCap
<1>2. ExposureKept'
  BY DEF Exposed, ExposureKept
<1> QED BY <1>1, <1>2 DEF Exposed

\* A further sell.
LEMMA ExposureMore ==
  ASSUME TypeInv, Exposed, NEW qty \in 1..(2 * Cash), NEW by \in Purposes, Submit("sell", qty, by),
         UNCHANGED <<held, rUsdt, stale, loose>>
  PROVE  Exposed'
<1>1. /\ Total(sent', Buys) = Total(sent, Buys) + 0
      /\ Total(sent', Intents("sell"))
         = Total(sent, Intents("sell")) + IF by = "intent" THEN qty ELSE 0
  BY TotalsSubmit DEF Sides
<1>2. Total(sent, Buys) \in Nat /\ Total(sent, Intents("sell")) \in Nat /\ qty \in Nat
  BY TypeFacts
<1>3. ReservedWithinCap'
  BY DEF Exposed, ReservedWithinCap
<1>4. ExposureKept'
  BY <1>1, <1>2, Numbers DEF Exposed, ExposureKept
<1> QED BY <1>3, <1>4 DEF Exposed

\* BTC that stays reserved lowers the exposure the worker counts; then a sell of
\* an intent has failed.
KeptLoosens == ~loose => keptBtc = 0

\* Every step keeps it.
LEMMA KeptStep == KeptLoosens /\ [Next]_vars => KeptLoosens'
<1> SUFFICES ASSUME KeptLoosens, [Next]_vars, ~loose' PROVE keptBtc' = 0
  BY DEF KeptLoosens
<1> USE DEF kept, observers
<1>1. CASE ~loose /\ UNCHANGED keptBtc
  BY <1>1 DEF KeptLoosens
<1>2. ASSUME NEW o, Fails(o) PROVE keptBtc' = 0
  BY <1>2 DEF Fails, KeepsReservation, KeptLoosens
<1>3. ASSUME NEW i, Receive(i) \/ Sync(i) PROVE keptBtc' = 0
  <2>1. ~loose /\ keptBtc = 0
    BY <1>3 DEF Receive, Sync, KeptLoosens
  <2>2. CASE Receive(i)
    BY <2>1, <2>2 DEF Receive
  <2>3. CASE Sync(i)
    BY <2>3 DEF Sync
  <2> QED BY <1>3, <2>2, <2>3
<1>4. CASE BuyIntent
  BY <1>1, <1>4 DEF BuyIntent
<1>5. CASE SellIntent \/ Freeze \/ Thaw \/ HandleCashout \/ Balances \/ UNCHANGED vars
  BY <1>1, <1>5 DEF SellIntent, Freeze, Thaw, HandleCashout, Flatten, Balances, vars
<1>6. CASE \/ CapTrim \/ StopLoss \/ TrailingStop \/ RegimeExit
           \/ VaultSweep \/ PatternVeto \/ FloorBreach \/ BankExtract
  BY <1>1, <1>6 DEF CapTrim, StopLoss, TrailingStop, RegimeExit, VaultSweep, PatternVeto,
                    FloorBreach, BankExtract, Defend
<1>7. ASSUME NEW o, Fill(o) \/ Refuse(o) PROVE keptBtc' = 0
  BY <1>1, <1>2, <1>7 DEF Fill, Refuse
<1>8. ASSUME NEW i, LoseAnswer(i) PROVE keptBtc' = 0
  BY <1>2, <1>8 DEF LoseAnswer
<1>9. ASSUME NEW q, Replay(q) \/ Expire(q) PROVE keptBtc' = 0
  BY <1>1, <1>9 DEF Replay, Expire
<1> QED BY <1>3, <1>4, <1>5, <1>6, <1>7, <1>8, <1>9 DEF Next

\* A buy within the headroom: the worker counts the exposure on its own portfolio,
\* and MirrorBounds carries it over to the exchange's.
LEMMA ExposureBuy ==
  ASSUME TypeInv, ReservationsMatch, MirrorBounds, BuysByIntents, KeptLoosens,
         NEW qty \in 1..(2 * Cash), Submit("buy", qty, "intent"), rUsdt' = rUsdt + qty,
         Headroom > 0, UNCHANGED <<held, stale>>, loose' = (loose \/ qty > Headroom)
  PROVE  Exposed'
<1> SUFFICES ASSUME ~stale', ~loose'
             PROVE  rUsdt' <= Cap /\ held' + Total(sent', Buys) <= Cap + Total(sent', Intents("sell"))
  BY DEF Exposed, ReservedWithinCap, ExposureKept
<1>1. ~stale /\ ~loose /\ ~(qty > Headroom)
  OBVIOUS
<1>2. /\ Total(sent', Buys) = Total(sent, Buys) + qty
      /\ Total(sent', Intents("sell")) = Total(sent, Intents("sell")) + 0
  BY TotalsSubmit DEF Sides, Purposes
<1>3. rUsdt = Total(sent, Buys) + TotalFrom(answers, 1, Buys) + keptUsdt
  BY <1>1, BuysReserved
<1>4. rBtc <= Total(sent, Intents("sell")) + TotalFrom(answers, 1, Intents("sell"))
  <2>1. keptBtc = 0
    BY <1>1 DEF KeptLoosens
  <2>2. Reserved("sell") \in Nat
    BY ReservedParts DEF Sides
  <2>3. rBtc <= Reserved("sell")
    BY <1>1, <2>1, <2>2, Numbers DEF ReservationsMatch
  <2> QED BY <2>3 DEF Reserved
<1>5. held <= TotalFrom(answers, 1, Buys) + Less(btc, TotalFrom(answers, 1, Intents("sell")))
  <2>1. 0 \in 0..Len(answers)
    BY TypeFacts
  <2>2. held <= TotalFrom(answers, 0 + 1, Buys) + Less(Mirror(0), TotalFrom(answers, 0 + 1, Intents("sell")))
    BY <1>1, <2>1 DEF MirrorBounds
  <2> QED BY <2>2 DEF Mirror
<1>6. /\ Total(sent, Buys) \in Nat /\ Total(sent, Intents("sell")) \in Nat
      /\ TotalFrom(answers, 1, Buys) \in Nat /\ TotalFrom(answers, 1, Intents("sell")) \in Nat
  BY TypeFacts, TotalFromType
<1>7. held \in Nat /\ Cap \in Nat /\ btc \in Nat /\ rBtc \in Nat /\ rUsdt \in Nat /\ qty \in Nat
  BY Numbers
<1>8. Headroom = Less(Cap, Less(btc, rBtc) + rUsdt)
  BY DEF Headroom, Exposure
<1>9. qty <= Headroom
  <2>1. Less(btc, rBtc) \in Nat
    BY <1>7, LessType
  <2>2. Headroom \in Nat
    BY <1>7, <1>8, <2>1, LessType
  <2> QED BY <1>1, <1>7, <2>2
<1>10. held + (Total(sent, Buys) + qty) <= Cap + Total(sent, Intents("sell")) /\ rUsdt + qty <= Cap
  <2> DEFINE buys == Total(sent, Buys)
             sells == Total(sent, Intents("sell"))
             bought == TotalFrom(answers, 1, Buys)
             sold == TotalFrom(answers, 1, Intents("sell"))
             room == Less(Cap, Less(btc, rBtc) + rUsdt)
  <2>1. /\ buys \in Nat /\ sells \in Nat /\ bought \in Nat /\ sold \in Nat
        /\ rUsdt = buys + bought + keptUsdt /\ rBtc <= sells + sold /\ held <= bought + Less(btc, sold)
    BY <1>3, <1>4, <1>5, <1>6
  <2>2. qty <= room /\ room > 0
    BY <1>8, <1>9
  <2> HIDE DEF buys, sells, bought, sold
  <2>3. held + (buys + qty) <= Cap + sells /\ rUsdt + qty <= Cap
    BY <1>7, <2>1, <2>2, Numbers DEF Less
  <2> QED BY <2>3 DEF buys, sells
<1> QED BY <1>2, <1>6, <1>10

\* Release reserves nothing.
LEMMA ReleaseLess ==
  ASSUME TypeInv, NEW o \in Order, NEW rb, Release(o, rb)
  PROVE  rUsdt' \in Nat /\ rUsdt' <= rUsdt
<1>1. o.qty \in Nat
  BY OrderType
<1>2. Less(rUsdt, o.qty) \in Nat /\ Less(rUsdt, o.qty) <= rUsdt
  BY <1>1, Numbers, LessType
<1> QED BY <1>2, Numbers DEF Release

\* The cap is kept: a step for each action.
LEMMA ExposureStep ==
  TypeInv /\ ReservationsMatch /\ MirrorBounds /\ BuysByIntents /\ KeptLoosens /\ Exposed
    /\ [Next]_vars => Exposed'
<1> SUFFICES ASSUME TypeInv, ReservationsMatch, MirrorBounds, BuysByIntents, KeptLoosens, Exposed,
                    [Next]_vars
             PROVE  Exposed'
  OBVIOUS
<1> USE DEF account, mirror, kept, observers
<1>0. /\ "buy" \in Sides /\ "sell" \in Sides
      /\ {"intent", "defence", "cashout", "replay"} \subseteq Purposes
      /\ rUsdt \in Nat
  BY Numbers DEF Sides, Purposes
<1>same. ASSUME UNCHANGED <<held, sent, rUsdt, stale>>, loose => loose' PROVE Exposed'
  BY <1>0, <1>same, ExposureUntouched
<1>1. CASE BuyIntent
  <2>1. PICK qty \in 1..(2 * Cash) :
          /\ loose' = (loose \/ qty > Headroom)
          /\ \/ Submit("buy", qty, "intent") /\ rUsdt' = rUsdt + qty
             \/ UNCHANGED <<sent, rUsdt>>
    BY <1>1, BuyIntents
  <2>2. Headroom > 0 /\ UNCHANGED <<held, stale>>
    BY <1>1 DEF BuyIntent
  <2>3. CASE UNCHANGED <<sent, rUsdt>>
    BY <1>same, <2>1, <2>2, <2>3
  <2>4. CASE Submit("buy", qty, "intent") /\ rUsdt' = rUsdt + qty
    BY <2>1, <2>2, <2>4, ExposureBuy
  <2> QED BY <2>1, <2>3, <2>4
<1>2. CASE SellIntent
  <2>1. PICK qty \in 1..(2 * Cash) : Submit("sell", qty, "intent") \/ sent' = sent
    BY <1>2, SellIntents
  <2>2. UNCHANGED <<held, rUsdt, stale, loose>>
    BY <1>2 DEF SellIntent
  <2>3. CASE sent' = sent
    BY <1>same, <2>2, <2>3
  <2>4. CASE Submit("sell", qty, "intent")
    BY <1>0, <2>2, <2>4, ExposureMore
  <2> QED BY <2>1, <2>3, <2>4
<1>3. CASE \/ CapTrim \/ StopLoss \/ TrailingStop \/ RegimeExit
           \/ VaultSweep \/ PatternVeto \/ FloorBreach \/ BankExtract
  <2>1. PICK qty \in 1..btc : Defend(qty)
    BY <1>3, Defences
  <2>2. qty \in 1..(2 * Cash)
    BY Numbers
  <2> QED BY <1>0, <2>1, <2>2, ExposureMore DEF Defend
<1>4. CASE Freeze \/ Thaw
  BY <1>4, <1>same DEF Freeze, Thaw
<1>5. CASE HandleCashout
  <2>1. Flatten(btc) /\ UNCHANGED <<held, rUsdt, stale, loose>>
    BY <1>5 DEF HandleCashout, Flatten
  <2>2. btc # 0 => btc \in 1..(2 * Cash)
    BY Numbers
  <2>3. \/ sent' = sent
        \/ btc # 0 /\ (Submit("sell", btc, "defence") \/ Submit("sell", btc, "cashout"))
    BY <2>1 DEF Flatten
  <2> QED BY <1>0, <1>same, <2>1, <2>2, <2>3, ExposureMore
<1>6. ASSUME NEW o \in BagToSet(sent), Fill(o) PROVE Exposed'
  <2>1. sent' = Without(sent, o) /\ UNCHANGED <<rUsdt, stale, loose>>
    BY <1>6 DEF Fill
  <2> SUFFICES ASSUME ~stale, ~loose
               PROVE  held' + Total(sent', Buys) <= Cap + Total(sent', Intents("sell"))
    BY <2>1 DEF Exposed, ReservedWithinCap, ExposureKept
  <2> DEFINE buys == Total(sent, Buys)
             sells == Total(sent, Intents("sell"))
             nextBuys == Total(sent', Buys)
             nextSells == Total(sent', Intents("sell"))
  <2>2. /\ buys = nextBuys + IF o.side = "buy" THEN o.qty ELSE 0
        /\ sells = nextSells + IF o.side = "sell" /\ o.by = "intent" THEN o.qty ELSE 0
        /\ nextBuys \in Nat /\ nextSells \in Nat
    BY <2>1, TotalsRemoved
  <2>3. /\ o.side = "buy" => held' <= held + o.qty
        /\ o.side = "sell" => held' = Less(held, o.qty)
        /\ o.side = "buy" \/ o.side = "sell"
        /\ o.qty \in Nat /\ held' \in Nat
    BY <1>6, FillFacts, Numbers
  <2>4. buys <= Cap
    <3>1. rUsdt = buys + TotalFrom(answers, 1, Buys) + keptUsdt /\ rUsdt <= Cap
      BY BuysReserved DEF Exposed, ReservedWithinCap
    <3>2. TotalFrom(answers, 1, Buys) \in Nat /\ buys \in Nat /\ Cap \in Nat /\ keptUsdt \in Nat
      BY TypeFacts, TotalFromType
    <3> QED BY <3>1, <3>2
  <2>5. held + buys <= Cap + sells
    BY DEF Exposed, ExposureKept
  <2>6. held \in Nat /\ Cap \in Nat
    BY Numbers
  <2> HIDE DEF buys, sells, nextBuys, nextSells
  <2>7. held' + nextBuys <= Cap + nextSells
    <3>1. CASE o.side = "buy"
      <4>1. buys = nextBuys + o.qty /\ sells = nextSells + 0 /\ held' <= held + o.qty
        BY <2>2, <2>3, <3>1
      <4>2. o.qty \in Nat /\ held' \in Nat /\ nextBuys \in Nat /\ nextSells \in Nat
        BY <2>2, <2>3
      <4>3. held + (nextBuys + o.qty) <= Cap + nextSells
        BY <2>5, <4>1, <4>2
      <4>4. \A h, g, n, q, m \in Nat : g <= h + q /\ h + (n + q) <= m => g + n <= m
        OBVIOUS
      <4>5. Cap + nextSells \in Nat
        BY <2>6, <4>2
      <4> QED BY <2>6, <4>1, <4>2, <4>3, <4>4, <4>5
    <3>2. CASE o.side = "sell" /\ o.by = "intent"
      <4>1. buys = nextBuys + 0 /\ sells = nextSells + o.qty /\ held' = Less(held, o.qty)
        BY <2>2, <2>3, <3>2
      <4> QED BY <2>2, <2>3, <2>4, <2>5, <2>6, <4>1 DEF Less
    <3>3. CASE o.side = "sell" /\ o.by # "intent"
      <4>1. buys = nextBuys + 0 /\ sells = nextSells + 0 /\ held' = Less(held, o.qty)
        BY <2>2, <2>3, <3>3
      <4> QED BY <2>2, <2>3, <2>5, <2>6, <4>1 DEF Less
    <3> QED BY <2>3, <3>1, <3>2, <3>3
  <2> QED BY <2>7 DEF nextBuys, nextSells
<1>7. CASE Balances
  BY <1>7, <1>same DEF Balances
<1>8. ASSUME NEW i \in 1..Len(answers), Receive(i) PROVE Exposed'
  <2>1. answers[i].order \in Order
    <3>1. answers[i] \in Response
      BY TypeFacts
    <3> QED BY <1>8, <3>1, ResponseType DEF Receive
  <2>2. rUsdt' \in Nat /\ rUsdt' <= rUsdt
    BY <1>8, <2>1, ReleaseLess DEF Receive
  <2>3. UNCHANGED <<held, sent, loose>> /\ (~stale' => ~stale)
    BY <1>8 DEF Receive
  <2> QED BY <2>2, <2>3, ExposureUntouched
<1>9. ASSUME NEW i \in 1..Len(answers), Sync(i) PROVE Exposed'
  <2>1. rUsdt' \in Nat /\ rUsdt' <= rUsdt
    BY <1>0, <1>9 DEF Sync
  <2>2. UNCHANGED <<held, sent, loose>> /\ (~stale' => ~stale)
    BY <1>9 DEF Sync
  <2> QED BY <2>1, <2>2, ExposureUntouched
<1>10. ASSUME NEW i \in 1..Len(answers), LoseAnswer(i) PROVE Exposed'
  BY <1>10 DEF LoseAnswer, Exposed, ReservedWithinCap, ExposureKept
<1>11. ASSUME NEW o \in BagToSet(sent), Refuse(o) PROVE Exposed'
  <2>1. /\ sent' = Without(sent, o) /\ UNCHANGED <<held, stale>>
        /\ Release(o, rBtc) \/ rUsdt' = rUsdt
        /\ loose' = (loose \/ (o.side = "sell" /\ o.by = "intent"))
    BY <1>11 DEF Refuse, Fails, KeepsReservation
  <2> SUFFICES ASSUME ~stale, ~loose, ~loose'
               PROVE  rUsdt' <= Cap /\ held + Total(sent', Buys) <= Cap + Total(sent', Intents("sell"))
    BY <2>1 DEF Exposed, ReservedWithinCap, ExposureKept
  <2>2. o \in Order /\ o.qty \in Nat
    BY TypeFacts, OrderType DEF BagOf
  <2>3. rUsdt' \in Nat /\ rUsdt' <= rUsdt /\ rUsdt <= Cap
    BY <1>0, <2>1, <2>2, ReleaseLess DEF Exposed, ReservedWithinCap
  <2>4. ~(o.side = "sell" /\ o.by = "intent")
    BY <2>1
  <2>5. /\ Total(sent, Buys) = Total(sent', Buys) + IF o.side = "buy" THEN o.qty ELSE 0
        /\ Total(sent, Intents("sell")) = Total(sent', Intents("sell")) + 0
        /\ Total(sent', Buys) \in Nat /\ Total(sent', Intents("sell")) \in Nat
    BY <2>1, <2>4, TotalsRemoved
  <2>6. held + Total(sent, Buys) <= Cap + Total(sent, Intents("sell"))
    BY DEF Exposed, ExposureKept
  <2>7. rUsdt' <= Cap
    BY <1>0, <2>3, Numbers
  <2>8. held + Total(sent', Buys) <= Cap + Total(sent', Intents("sell"))
    BY <2>2, <2>5, <2>6, Numbers
  <2> QED BY <2>7, <2>8
<1>12. ASSUME NEW q \in BagToSet(queue), Replay(q) PROVE Exposed'
  <2>1. q.side \in Sides /\ q.qty \in 1..(2 * Cash)
    BY TypeFacts DEF BagOf, Queued
  <2>2. /\ Submit(q.side, q.qty, "replay") /\ UNCHANGED <<held, rUsdt, stale>>
        /\ loose' = (loose \/ q.side = "buy")
    BY <1>12 DEF Replay
  <2>3. CASE q.side = "buy"
    BY <2>2, <2>3 DEF Exposed, ReservedWithinCap, ExposureKept
  <2>4. CASE q.side = "sell"
    <3>1. Submit("sell", q.qty, "replay") /\ (~loose' => ~loose)
      BY <2>2, <2>4
    <3>2. /\ Total(sent', Buys) = Total(sent, Buys) + 0
          /\ Total(sent', Intents("sell")) = Total(sent, Intents("sell")) + 0
      BY <1>0, <2>1, <3>1, TotalsSubmit
    <3>3. Total(sent, Buys) \in Nat /\ Total(sent, Intents("sell")) \in Nat
      BY TypeFacts
    <3>4. Total(sent', Buys) = Total(sent, Buys) /\ Total(sent', Intents("sell")) = Total(sent, Intents("sell"))
      BY <3>2, <3>3
    <3> QED BY <1>0, <2>2, <3>1, <3>4, ExposureUntouched
  <2> QED BY <2>1, <2>3, <2>4 DEF Sides
<1>13. ASSUME NEW q \in BagToSet(queue), Expire(q) PROVE Exposed'
  BY <1>13, <1>same DEF Expire
<1>14. CASE UNCHANGED vars
  BY <1>14, <1>same DEF vars
<1> QED
  BY <1>1, <1>2, <1>3, <1>4, <1>5, <1>6, <1>7, <1>8, <1>9, <1>10, <1>11, <1>12,
     <1>13, <1>14 DEF Next

\* At the start nothing is held.
LEMMA ExposureStart ==
  ASSUME Init
  PROVE  MirrorBounds /\ BuysByIntents /\ KeptLoosens /\ Exposed
<1>1. /\ BagToSet(sent) = {} /\ Len(answers) = 0
      /\ \A kind : Total(sent, kind) = 0 /\ TotalFrom(answers, 1, kind) = 0
  BY ReservationsStart
<1>2. MirrorBounds
  <2> SUFFICES ASSUME NEW k \in 0..Len(answers)
               PROVE  held <= TotalFrom(answers, k + 1, Buys)
                              + Less(Mirror(k), TotalFrom(answers, k + 1, Intents("sell")))
    BY DEF MirrorBounds
  <2>1. k = 0
    BY <1>1
  <2>2. Mirror(k) = 0 /\ held = 0
    BY <2>1 DEF Init, Mirror
  <2>3. TotalFrom(answers, k + 1, Buys) = 0 /\ TotalFrom(answers, k + 1, Intents("sell")) = 0
    BY <1>1, <2>1
  <2> QED BY <2>2, <2>3 DEF Less
<1>3. BuysByIntents
  BY <1>1 DEF BuysByIntents
<1>4. Exposed
  BY <1>1, TypeStart, Numbers DEF Init, Exposed, ReservedWithinCap, ExposureKept
<1>5. KeptLoosens
  BY DEF Init, KeptLoosens
<1> QED BY <1>2, <1>3, <1>4, <1>5

\* "cannot push total exposure past max_total_exposure_pct" (execution_worker.js
\* 515-516), for any cash, cap and number of orders: what is held and being bought
\* stays within the cap, the intents' sells under way taken off.
THEOREM ExposureCorrect == Spec => []ExposureKept
<1> DEFINE Inv == TypeInv /\ ReservationsMatch /\ MirrorBounds /\ BuysByIntents /\ KeptLoosens
                  /\ Exposed
<1>1. Init => Inv
  BY TypeStart, ReservationsStart, ExposureStart
<1>2. Inv /\ [Next]_vars => Inv'
  BY TypeStep, ReservationsStep, MirrorStep, BuysStep, KeptStep, ExposureStep
<1>3. Inv => ExposureKept
  BY DEF Exposed
<1> QED BY <1>1, <1>2, <1>3, PTL DEF Spec

-----------------------------------------------------------------------------
(* The cash-out                                                            *)

\* What is being bought or waits to be.
Coming == Total(sent, Buys) + Total(queue, QueuedBuys)

\* The orders of the cash-out that is observed, or of one that has lapsed.
CashoutOrders(b) == {o \in BagToSet(b) : o.by = "cashout"}

\* There is at most one, it sells, and it is there only while it is waited for.
OneCashout ==
  ~stale =>
    \A o \in CashoutOrders(sent) :
      /\ o.side = "sell" /\ sent[o] = 1
      /\ cashout \in {"asked", "lapsed"}
      /\ \A p \in CashoutOrders(sent) : p = o

\* A cash-out is waited for only under the freeze; its order and what was being
\* bought when it was asked for cover all that is held or being bought, and once it
\* has sold, the latter alone.
CashoutCovers ==
  /\ cashout \in {"asked", "sold"} => frozen
  /\ ~stale /\ cashout = "asked" =>
       /\ Coming <= late
       /\ \A o \in CashoutOrders(sent) : held + Coming <= late + o.qty
  /\ ~stale /\ cashout = "sold" => held + Coming <= late

\* A number.
LEMMA ComingType ==
  ASSUME TypeInv
  PROVE  Coming \in Nat
BY TypeFacts DEF Coming

\* A buy that is queued adds to what waits.
LEMMA QueuedEnqueue ==
  ASSUME TypeInv, NEW side \in Sides, NEW qty \in 1..(2 * Cash), Enqueue(side, qty)
  PROVE  Total(queue', QueuedBuys) = Total(queue, QueuedBuys) + IF side = "buy" THEN qty ELSE 0
<1> DEFINE q == [side |-> side, qty |-> qty]
<1>1. q.qty \in Nat /\ Part(q, QueuedBuys) = IF side = "buy" THEN qty ELSE 0
  BY Numbers DEF Part, QueuedBuys
<1>2. queue' = With(queue, q)
  BY DEF Enqueue
<1> HIDE DEF q
<1>3. Total(queue', QueuedBuys) = Total(queue, QueuedBuys) + Part(q, QueuedBuys)
  BY <1>1, <1>2, TypeFacts, TotalWith
<1> QED BY <1>1, <1>3

\* One that leaves the queue takes it away.
LEMMA QueuedRemoved ==
  ASSUME TypeInv, NEW q \in BagToSet(queue), queue' = Without(queue, q)
  PROVE  /\ Total(queue, QueuedBuys)
            = Total(queue', QueuedBuys) + IF q.side = "buy" THEN q.qty ELSE 0
         /\ Total(queue', QueuedBuys) \in Nat
         /\ q.side \in Sides /\ q.qty \in 1..(2 * Cash) /\ q.qty \in Nat
<1>1. q \in Queued /\ q.side \in Sides /\ q.qty \in 1..(2 * Cash) /\ q.qty \in Nat
  BY TypeFacts DEF BagOf, Queued
<1>2. Part(q, QueuedBuys) = IF q.side = "buy" THEN q.qty ELSE 0
  BY <1>1 DEF Part, QueuedBuys, Queued
<1>3. Total(queue, QueuedBuys) = Total(queue', QueuedBuys) + Part(q, QueuedBuys)
  BY TypeFacts, TotalWithout
<1>4. Total(queue', QueuedBuys) \in Nat
  BY TypeFacts, WithoutOrderBag, TotalIs
<1> QED BY <1>1, <1>2, <1>3, <1>4

\* A sell buys nothing.
LEMMA ComingSubmitSell ==
  ASSUME TypeInv, NEW qty \in 1..(2 * Cash), NEW by \in Purposes, Submit("sell", qty, by),
         queue' = queue
  PROVE  Coming' = Coming
<1>1. Total(sent', Buys) = Total(sent, Buys) + 0
  BY TotalsSubmit DEF Sides
<1> QED BY <1>1, TypeFacts DEF Coming

\* A replay moves a buy from the queue to the exchange.
LEMMA ComingReplay ==
  ASSUME TypeInv, NEW q \in BagToSet(queue), Replay(q)
  PROVE  Coming' = Coming
<1>1. queue' = Without(queue, q) /\ Submit(q.side, q.qty, "replay") /\ "replay" \in Purposes
  BY DEF Replay, Purposes
<1>2. /\ Total(queue, QueuedBuys)
         = Total(queue', QueuedBuys) + IF q.side = "buy" THEN q.qty ELSE 0
      /\ Total(queue', QueuedBuys) \in Nat
      /\ q.side \in Sides /\ q.qty \in 1..(2 * Cash) /\ q.qty \in Nat
  BY <1>1, QueuedRemoved
<1>3. Total(sent', Buys) = Total(sent, Buys) + IF q.side = "buy" THEN q.qty ELSE 0
  BY <1>1, <1>2, TotalsSubmit
<1>4. Total(sent, Buys) \in Nat
  BY TypeFacts
<1> QED BY <1>2, <1>3, <1>4 DEF Coming

\* A fill moves a buy to the account, or sells.
LEMMA ComingFill ==
  ASSUME TypeInv, NEW o \in BagToSet(sent), Fill(o)
  PROVE  /\ Coming' \in Nat /\ Coming' <= Coming /\ held' \in Nat
         /\ held' + Coming' <= held + Coming
         /\ o.side = "sell" => Coming' = Coming
<1> DEFINE later == Total(queue, QueuedBuys)
           buys == Total(sent, Buys)
           nextBuys == Total(sent', Buys)
<1>1. /\ o.side = "buy" => held' <= held + o.qty
      /\ o.side = "sell" => held' = Less(held, o.qty)
      /\ o.side = "buy" \/ o.side = "sell"
  BY FillFacts
<1>2. o.qty \in Nat /\ held' \in Nat /\ held \in Nat
  BY FillFacts, Numbers
<1>3. sent' = Without(sent, o) /\ queue' = queue
  BY DEF Fill
<1>4. buys = nextBuys + IF o.side = "buy" THEN o.qty ELSE 0
  BY <1>3, TotalsRemoved
<1>5. buys \in Nat /\ later \in Nat /\ nextBuys \in Nat
  BY <1>3, TypeFacts, TotalsRemoved
<1>6. Coming = buys + later /\ Coming' = nextBuys + later
  BY <1>3 DEF Coming
<1> HIDE DEF buys, later, nextBuys
<1>7. CASE o.side = "buy"
  <2>1. buys = nextBuys + o.qty /\ held' <= held + o.qty /\ o.side # "sell"
    BY <1>1, <1>4, <1>7
  <2> QED BY <1>2, <1>5, <1>6, <2>1
<1>8. CASE o.side = "sell"
  <2>1. buys = nextBuys + 0 /\ held' = Less(held, o.qty)
    BY <1>1, <1>4, <1>8
  <2>2. held' <= held
    BY <1>2, <2>1, LessType
  <2> QED BY <1>2, <1>5, <1>6, <2>1, <2>2
<1> QED BY <1>1, <1>7, <1>8

\* A buy that is refused is queued or gone.
LEMMA ComingRefuse ==
  ASSUME TypeInv, NEW o \in BagToSet(sent), Refuse(o)
  PROVE  Coming' \in Nat /\ Coming' <= Coming
<1> DEFINE qty == IF o.side = "buy" THEN o.qty ELSE 0
<1>1. o.qty \in 1..(2 * Cash) /\ o.qty \in Nat /\ o.side \in Sides
  BY TypeFacts, OrderType DEF BagOf
<1>2. sent' = Without(sent, o) /\ (Enqueue(o.side, o.qty) \/ queue' = queue)
  BY DEF Refuse, Fails, KeepsReservation
<1>3. Total(sent, Buys) = Total(sent', Buys) + qty /\ Total(sent', Buys) \in Nat
  BY <1>2, TotalsRemoved
<1>4. Total(queue', QueuedBuys) = Total(queue, QueuedBuys) + qty
      \/ Total(queue', QueuedBuys) = Total(queue, QueuedBuys)
  BY <1>1, <1>2, QueuedEnqueue
<1>5. qty \in Nat /\ Total(queue, QueuedBuys) \in Nat
  BY <1>1, TypeFacts
<1> HIDE DEF qty
<1> QED BY <1>3, <1>4, <1>5 DEF Coming

\* No order of a cash-out comes or goes.
LEMMA OneSame ==
  ASSUME OneCashout, CashoutOrders(sent') = CashoutOrders(sent),
         \A p \in CashoutOrders(sent) : sent'[p] = sent[p],
         ~stale' => ~stale, cashout' = cashout
  PROVE  OneCashout'
BY DEF OneCashout

\* Another order is sent.
LEMMA OneSubmit ==
  ASSUME TypeInv, OneCashout, NEW side \in Sides, NEW qty \in 1..(2 * Cash),
         NEW by \in Purposes \ {"cashout"}, Submit(side, qty, by),
         ~stale' => ~stale, cashout' = cashout
  PROVE  OneCashout' /\ CashoutOrders(sent') = CashoutOrders(sent)
<1> DEFINE o == [side |-> side, qty |-> qty, by |-> by]
<1>1. sent' = With(sent, o) /\ o.by # "cashout"
  BY DEF Submit
<1> HIDE DEF o
<1>2. /\ BagToSet(sent') = BagToSet(sent) \cup {o}
      /\ \A p \in BagToSet(sent) : p # o => sent'[p] = sent[p]
  BY <1>1, TypeFacts, WithBag DEF BagOf
<1>3. CashoutOrders(sent') = CashoutOrders(sent)
  BY <1>1, <1>2 DEF CashoutOrders
<1>4. \A p \in CashoutOrders(sent) : sent'[p] = sent[p]
  BY <1>1, <1>2 DEF CashoutOrders
<1> QED BY <1>3, <1>4, OneSame

\* Another order ends.
LEMMA OneFewer ==
  ASSUME TypeInv, OneCashout, NEW o \in BagToSet(sent), sent' = Without(sent, o),
         o.by # "cashout", ~stale' => ~stale, cashout' = cashout
  PROVE  OneCashout' /\ CashoutOrders(sent') = CashoutOrders(sent)
<1>1. /\ BagToSet(sent') = IF sent[o] = 1 THEN BagToSet(sent) \ {o} ELSE BagToSet(sent)
      /\ \A p \in BagToSet(sent) : p # o => sent'[p] = sent[p]
  BY TypeFacts, WithoutBag DEF BagOf
<1>2. CashoutOrders(sent') = CashoutOrders(sent)
  BY <1>1 DEF CashoutOrders
<1>3. \A p \in CashoutOrders(sent) : sent'[p] = sent[p]
  BY <1>1 DEF CashoutOrders
<1> QED BY <1>2, <1>3, OneSame

\* The order of the cash-out ends: there is no other.
LEMMA OneDone ==
  ASSUME TypeInv, OneCashout, NEW o \in BagToSet(sent), sent' = Without(sent, o),
         o.by = "cashout", ~stale
  PROVE  o.side = "sell" /\ CashoutOrders(sent') = {}
<1>1. o \in CashoutOrders(sent)
  BY DEF CashoutOrders
<1>2. o.side = "sell" /\ sent[o] = 1 /\ \A p \in CashoutOrders(sent) : p = o
  BY <1>1 DEF OneCashout
<1>3. BagToSet(sent') = BagToSet(sent) \ {o}
  BY <1>2, TypeFacts, WithoutBag DEF BagOf
<1> QED BY <1>2, <1>3 DEF CashoutOrders

\* No more is held or being bought, and the cash-out's order stays.
LEMMA CoversLess ==
  ASSUME TypeInv, CashoutCovers, CashoutOrders(sent') = CashoutOrders(sent),
         Coming' \in Nat, Coming' <= Coming, held' \in Nat, held' + Coming' <= held + Coming,
         UNCHANGED <<cashout, late>>, frozen => frozen', ~stale' => ~stale
  PROVE  CashoutCovers'
<1> DEFINE now == held + Coming
           next == held' + Coming'
<1>1. /\ Coming \in Nat /\ late \in Nat /\ late' = late
      /\ now \in Nat /\ next \in Nat /\ next <= now
  <2>1. Coming \in Nat /\ late \in Nat /\ held \in Nat
    BY ComingType, Numbers
  <2>2. late' = late
    OBVIOUS
  <2>3. now \in Nat
    BY <2>1
  <2>4. held' \in Nat /\ Coming' \in Nat
    OBVIOUS
  <2>5. next \in Nat
    <3>1. \A h, c \in Nat : h + c \in Nat
      OBVIOUS
    <3> QED BY <2>4, <3>1
  <2>6. next <= now
    OBVIOUS
  <2> QED BY <2>1, <2>2, <2>3, <2>5, <2>6
<1> HIDE DEF now, next
<1>2. (cashout' \in {"asked", "sold"}) => frozen'
  BY DEF CashoutCovers
<1>3. ASSUME ~stale', cashout' = "asked"
      PROVE  Coming' <= late' /\ \A o \in CashoutOrders(sent') : next <= late' + o.qty
  <2>1. Coming <= late /\ \A o \in CashoutOrders(sent) : now <= late + o.qty
    BY <1>3 DEF CashoutCovers, now
  <2>2. \A o \in CashoutOrders(sent) : o.qty \in Nat
    BY TypeFacts, OrderType DEF BagOf, CashoutOrders
  <2>3. Coming' <= late'
    BY <1>1, <2>1
  <2>4. ASSUME NEW o \in CashoutOrders(sent') PROVE next <= late' + o.qty
    <3>1. now <= late + o.qty /\ o.qty \in Nat
      BY <2>1, <2>2
    <3> QED BY <1>1, <3>1
  <2> QED BY <2>3, <2>4
<1>4. ASSUME ~stale', cashout' = "sold" PROVE next <= late'
  <2>1. now <= late
    BY <1>4 DEF CashoutCovers, now
  <2> QED BY <1>1, <2>1
<1> QED BY <1>2, <1>3, <1>4 DEF CashoutCovers, next

\* Steps that leave orders, account and queue alone.
LEMMA CashoutUntouched ==
  ASSUME TypeInv, OneCashout, CashoutCovers, UNCHANGED <<held, sent, queue, cashout, late>>,
         frozen => frozen', ~stale' => ~stale
  PROVE  OneCashout' /\ CashoutCovers'
<1>1. Coming' = Coming /\ CashoutOrders(sent') = CashoutOrders(sent)
  BY DEF Coming
<1>2. OneCashout'
  BY <1>1, OneSame
<1>3. Coming \in Nat /\ held \in Nat /\ Coming <= Coming /\ held + Coming <= held + Coming
  BY ComingType, Numbers
<1> QED BY <1>1, <1>2, <1>3, CoversLess

\* A further sell.
LEMMA CashoutSell ==
  ASSUME TypeInv, OneCashout, CashoutCovers, NEW qty \in 1..(2 * Cash),
         NEW by \in Purposes \ {"cashout"}, Submit("sell", qty, by),
         UNCHANGED <<held, queue, cashout, late, frozen, stale>>
  PROVE  OneCashout' /\ CashoutCovers'
<1>1. OneCashout' /\ CashoutOrders(sent') = CashoutOrders(sent)
  BY OneSubmit DEF Sides
<1>2. Coming' = Coming
  BY ComingSubmitSell
<1>3. Coming \in Nat /\ held \in Nat /\ Coming <= Coming /\ held + Coming <= held + Coming
  BY ComingType, Numbers
<1> QED BY <1>1, <1>2, <1>3, CoversLess

\* While the worker is not frozen no cash-out is waited for.
LEMMA CashoutIdle ==
  ASSUME CashoutCovers, ~frozen, UNCHANGED <<frozen, cashout>>
  PROVE  CashoutCovers'
BY DEF CashoutCovers

\* Nor is one that has failed or lapsed.
LEMMA CashoutEnds ==
  ASSUME cashout' \notin {"asked", "sold"}
  PROVE  CashoutCovers'
BY DEF CashoutCovers

\* The cash-out is asked for: all that the mirror shows is sold.
LEMMA CashoutAsked ==
  ASSUME TypeInv, OneCashout, CashoutCovers, HandleCashout
  PROVE  OneCashout' /\ CashoutCovers'
<1>0. /\ "sell" \in Sides /\ "defence" \in Purposes \ {"cashout"} /\ "cashout" \in Purposes
      /\ btc \in Nat /\ held \in Nat /\ Coming \in Nat
  BY Numbers, ComingType DEF Sides, Purposes
<1>1. frozen /\ Flatten(btc) /\ UNCHANGED <<held, queue, frozen, stale>>
  BY DEF HandleCashout, Flatten
<1>2. btc # 0 => btc \in 1..(2 * Cash)
  BY Numbers
<1>3. CASE cashout # "no" /\ btc = 0
  BY <1>1, <1>3, CashoutUntouched DEF Flatten
<1>4. CASE cashout # "no" /\ btc # 0
  BY <1>0, <1>1, <1>2, <1>4, CashoutSell DEF Flatten
<1>5. late' = UnderWay => late' = Less(held, btc) + Coming
  <2>1. Less(held, btc) \in Nat
    BY Numbers, LessType
  <2>2. Total(sent, Buys) \in Nat /\ Total(queue, QueuedBuys) \in Nat
    BY TypeFacts
  <2> QED BY <2>1, <2>2 DEF UnderWay, Coming
<1>6. ~stale /\ cashout = "no" => CashoutOrders(sent) = {}
  BY DEF OneCashout
<1>7. CASE cashout = "no" /\ btc = 0
  <2>1. UNCHANGED sent /\ cashout' = "sold" /\ late' = Less(held, btc) + Coming
    BY <1>1, <1>5, <1>7 DEF Flatten
  <2>2. Coming' = Coming
    BY <1>1, <2>1 DEF Coming
  <2>3. OneCashout'
    BY <1>1, <1>6, <1>7, <2>1 DEF OneCashout
  <2>4. held' + Coming' <= late'
    BY <1>0, <1>1, <1>7, <2>1, <2>2 DEF Less
  <2> QED BY <1>1, <2>1, <2>3, <2>4 DEF CashoutCovers
<1>8. CASE cashout = "no" /\ btc # 0
  <2> DEFINE o == [side |-> "sell", qty |-> btc, by |-> "cashout"]
  <2>1. Submit("sell", btc, "cashout") /\ cashout' = "asked" /\ late' = Less(held, btc) + Coming
    BY <1>1, <1>5, <1>8 DEF Flatten
  <2>2. Coming' = Coming
    BY <1>0, <1>1, <1>2, <1>8, <2>1, ComingSubmitSell
  <2>3. sent' = With(sent, o) /\ o.by = "cashout" /\ o.side = "sell" /\ o.qty = btc
    BY <2>1 DEF Submit
  <2> HIDE DEF o
  <2>4. /\ BagToSet(sent') = BagToSet(sent) \cup {o}
        /\ sent'[o] = (IF o \in BagToSet(sent) THEN sent[o] ELSE 0) + 1
    BY <2>3, TypeFacts, WithBag DEF BagOf
  <2>5. ~stale' => CashoutOrders(sent') = {o} /\ sent'[o] = 1
    BY <1>1, <1>6, <1>8, <2>3, <2>4 DEF CashoutOrders
  <2>6. OneCashout'
    BY <2>1, <2>3, <2>5 DEF OneCashout
  <2>7. Coming' <= late' /\ held' + Coming' <= late' + btc
    BY <1>0, <1>1, <2>1, <2>2 DEF Less
  <2> QED BY <1>1, <2>1, <2>3, <2>5, <2>6, <2>7 DEF CashoutCovers
<1> QED BY <1>3, <1>4, <1>7, <1>8

\* A fill, of the cash-out's order or of another.
LEMMA CashoutFill ==
  ASSUME TypeInv, OneCashout, CashoutCovers, NEW o \in BagToSet(sent), Fill(o)
  PROVE  OneCashout' /\ CashoutCovers'
<1>1. /\ sent' = Without(sent, o) /\ cashout' = After(o, "sold")
      /\ UNCHANGED <<late, frozen, stale>>
  BY DEF Fill
<1>2. /\ Coming' \in Nat /\ Coming' <= Coming /\ held' \in Nat
      /\ held' + Coming' <= held + Coming
      /\ o.side = "sell" => Coming' = Coming
  BY ComingFill
<1>3. CASE o.by # "cashout"
  <2>1. cashout' = cashout
    BY <1>1, <1>3 DEF After
  <2>2. OneCashout' /\ CashoutOrders(sent') = CashoutOrders(sent)
    BY <1>1, <1>3, <2>1, OneFewer
  <2> QED BY <1>1, <1>2, <2>1, <2>2, CoversLess
<1>4. CASE o.by = "cashout"
  <2>1. cashout' = IF cashout = "asked" THEN "sold" ELSE "no"
    BY <1>1, <1>4 DEF After
  <2>2. ~stale => o.side = "sell" /\ CashoutOrders(sent') = {}
    BY <1>1, <1>4, OneDone
  <2>3. OneCashout'
    BY <1>1, <2>2 DEF OneCashout
  <2>4. ASSUME ~stale', cashout' = "sold" PROVE held' + Coming' <= late'
    <3>1. ~stale /\ cashout = "asked" /\ o.side = "sell" /\ o \in CashoutOrders(sent)
      BY <1>1, <1>4, <2>1, <2>2, <2>4 DEF CashoutOrders
    <3>2. Coming <= late /\ held + Coming <= late + o.qty
      BY <3>1 DEF CashoutCovers
    <3>3. held' = Less(held, o.qty) /\ o.qty \in Nat
      BY <3>1, FillFacts
    <3>4. Coming' = Coming /\ late' = late /\ Coming \in Nat /\ late \in Nat /\ held \in Nat
      BY <1>1, <1>2, <3>1, ComingType, Numbers
    <3> QED BY <3>2, <3>3, <3>4 DEF Less
  <2>5. (cashout' \in {"asked", "sold"}) => frozen'
    BY <1>1, <2>1 DEF CashoutCovers
  <2>6. cashout' # "asked"
    BY <2>1
  <2> QED BY <2>3, <2>4, <2>5, <2>6 DEF CashoutCovers
<1> QED BY <1>3, <1>4

\* A refusal, of the cash-out's order or of another.
LEMMA CashoutRefuse ==
  ASSUME TypeInv, OneCashout, CashoutCovers, NEW o \in BagToSet(sent), Refuse(o)
  PROVE  OneCashout' /\ CashoutCovers'
<1>1. /\ sent' = Without(sent, o) /\ cashout' = After(o, "no")
      /\ UNCHANGED <<held, late, frozen, stale>>
  BY DEF Refuse, Fails
<1>2. CASE o.by # "cashout"
  <2>1. cashout' = cashout
    BY <1>1, <1>2 DEF After
  <2>2. OneCashout' /\ CashoutOrders(sent') = CashoutOrders(sent)
    BY <1>1, <1>2, <2>1, OneFewer
  <2>3. Coming' \in Nat /\ Coming' <= Coming
    BY ComingRefuse
  <2>4. held' \in Nat /\ held' + Coming' <= held + Coming
    BY <1>1, <2>3, ComingType, Numbers
  <2> QED BY <1>1, <2>1, <2>2, <2>3, <2>4, CoversLess
<1>3. CASE o.by = "cashout"
  <2>1. cashout' = "no"
    BY <1>1, <1>3 DEF After
  <2>2. ~stale' => CashoutOrders(sent') = {}
    BY <1>1, <1>3, OneDone
  <2> QED BY <2>1, <2>2, CashoutEnds DEF OneCashout
<1> QED BY <1>2, <1>3

\* OneCashout and CashoutCovers are inductive with the types.
LEMMA CashoutStep ==
  TypeInv /\ OneCashout /\ CashoutCovers /\ [Next]_vars => OneCashout' /\ CashoutCovers'
<1> SUFFICES ASSUME TypeInv, OneCashout, CashoutCovers, [Next]_vars
             PROVE  OneCashout' /\ CashoutCovers'
  OBVIOUS
<1> USE DEF account, mirror, kept, observers
<1>0. /\ "buy" \in Sides /\ "sell" \in Sides
      /\ {"intent", "defence", "replay"} \subseteq Purposes \ {"cashout"}
  BY DEF Sides, Purposes
<1>same. ASSUME sent' = sent, UNCHANGED <<cashout, stale>> PROVE OneCashout'
  BY <1>same DEF OneCashout
<1>1. CASE BuyIntent
  <2>1. PICK qty \in 1..(2 * Cash) : Submit("buy", qty, "intent") \/ sent' = sent
    BY <1>1, BuyIntents
  <2>2. ~frozen /\ UNCHANGED <<frozen, cashout, stale>>
    BY <1>1 DEF BuyIntent
  <2>3. CASE sent' = sent
    BY <1>same, <2>2, <2>3, CashoutIdle
  <2>4. CASE Submit("buy", qty, "intent")
    BY <1>0, <2>2, <2>4, OneSubmit, CashoutIdle
  <2> QED BY <2>1, <2>3, <2>4
<1>2. CASE SellIntent
  <2>1. PICK qty \in 1..(2 * Cash) : Submit("sell", qty, "intent") \/ sent' = sent
    BY <1>2, SellIntents
  <2>2. ~frozen /\ UNCHANGED <<frozen, cashout, stale>>
    BY <1>2 DEF SellIntent
  <2>3. CASE sent' = sent
    BY <1>same, <2>2, <2>3, CashoutIdle
  <2>4. CASE Submit("sell", qty, "intent")
    BY <1>0, <2>2, <2>4, OneSubmit, CashoutIdle
  <2> QED BY <2>1, <2>3, <2>4
<1>3. CASE \/ CapTrim \/ StopLoss \/ TrailingStop \/ RegimeExit
           \/ VaultSweep \/ PatternVeto \/ FloorBreach \/ BankExtract
  <2>1. PICK qty \in 1..btc : Defend(qty)
    BY <1>3, Defences
  <2>2. qty \in 1..(2 * Cash)
    BY Numbers
  <2> QED BY <1>0, <2>1, <2>2, CashoutSell DEF Defend
<1>4. CASE Freeze
  BY <1>4, CashoutUntouched DEF Freeze
<1>5. CASE Thaw
  <2>1. /\ cashout' = IF cashout \in {"asked", "lapsed"} THEN "lapsed" ELSE "no"
        /\ UNCHANGED <<sent, stale>>
    BY <1>5 DEF Thaw
  <2>2. OneCashout'
    BY <2>1 DEF OneCashout
  <2> QED BY <2>1, <2>2, CashoutEnds
<1>6. CASE HandleCashout
  BY <1>6, CashoutAsked
<1>7. ASSUME NEW o \in BagToSet(sent), Fill(o) \/ Refuse(o) PROVE OneCashout' /\ CashoutCovers'
  BY <1>7, CashoutFill, CashoutRefuse
<1>8. CASE Balances
  BY <1>8, CashoutUntouched DEF Balances
<1>9. ASSUME NEW i \in 1..Len(answers), Receive(i) \/ Sync(i) PROVE OneCashout' /\ CashoutCovers'
  <2>1. CASE Receive(i)
    BY <2>1, CashoutUntouched DEF Receive
  <2>2. CASE Sync(i)
    <3>1. ~stale' => ~stale
      BY <2>2 DEF Sync
    <3>2. UNCHANGED <<held, sent, queue, frozen, cashout, late>>
      BY <2>2 DEF Sync
    <3> QED BY <3>1, <3>2, CashoutUntouched
  <2> QED BY <1>9, <2>1, <2>2
<1>10. ASSUME NEW i \in 1..Len(answers), LoseAnswer(i) PROVE OneCashout' /\ CashoutCovers'
  <2>1. stale' = TRUE /\ frozen' = frozen /\ (cashout' = cashout \/ cashout' = "no")
    BY <1>10 DEF LoseAnswer, Fails, After
  <2>2. OneCashout'
    BY <2>1 DEF OneCashout
  <2>3. CashoutCovers'
    BY <2>1 DEF CashoutCovers
  <2> QED BY <2>2, <2>3
<1>11. ASSUME NEW q \in BagToSet(queue), Replay(q) PROVE OneCashout' /\ CashoutCovers'
  <2>1. q.side \in Sides /\ q.qty \in 1..(2 * Cash)
    BY TypeFacts DEF BagOf, Queued
  <2>2. Submit(q.side, q.qty, "replay") /\ UNCHANGED <<held, cashout, late, frozen, stale>>
    BY <1>11 DEF Replay
  <2>3. OneCashout' /\ CashoutOrders(sent') = CashoutOrders(sent)
    BY <1>0, <2>1, <2>2, OneSubmit
  <2>4. Coming' = Coming
    BY <1>11, ComingReplay
  <2>5. Coming \in Nat /\ held \in Nat /\ Coming <= Coming /\ held + Coming <= held + Coming
    BY ComingType, Numbers
  <2> QED BY <2>2, <2>3, <2>4, <2>5, CoversLess
<1>12. ASSUME NEW q \in BagToSet(queue), Expire(q) PROVE OneCashout' /\ CashoutCovers'
  <2>1. queue' = Without(queue, q) /\ UNCHANGED <<held, sent, cashout, late, frozen, stale>>
    BY <1>12 DEF Expire
  <2>2. Coming' \in Nat /\ Coming' <= Coming
    <3> DEFINE qty == IF q.side = "buy" THEN q.qty ELSE 0
    <3>1. /\ Total(queue, QueuedBuys) = Total(queue', QueuedBuys) + qty
          /\ Total(queue', QueuedBuys) \in Nat /\ qty \in Nat
      BY <2>1, QueuedRemoved
    <3> HIDE DEF qty
    <3>2. Total(sent, Buys) \in Nat
      BY TypeFacts
    <3> QED BY <2>1, <3>1, <3>2 DEF Coming
  <2>3. held' \in Nat /\ held' + Coming' <= held + Coming
    BY <2>1, <2>2, ComingType, Numbers
  <2> QED BY <1>same, <2>1, <2>2, <2>3, CoversLess
<1>13. CASE UNCHANGED vars
  BY <1>13, CashoutUntouched DEF vars
<1> QED
  BY <1>1, <1>2, <1>3, <1>4, <1>5, <1>6, <1>7, <1>8, <1>9, <1>10, <1>11, <1>12,
     <1>13 DEF Next

\* A cash-out leaves nothing but what was being bought when it was asked for, however
\* many other sells compete with it (execution_worker.js 819-847), for any cash, cap
\* and number of orders.
THEOREM CashoutCorrect == Spec => []CashoutKept
<1> DEFINE Inv == TypeInv /\ OneCashout /\ CashoutCovers
<1>1. Init => Inv
  <2> SUFFICES ASSUME Init PROVE Inv
    OBVIOUS
  <2>1. TypeInv
    BY TypeStart
  <2>2. CashoutOrders(sent) = {}
    BY DEF Init, CashoutOrders, EmptyBag, SetToBag, BagToSet
  <2> QED BY <2>1, <2>2 DEF Init, OneCashout, CashoutCovers
<1>2. Inv /\ [Next]_vars => Inv'
  BY TypeStep, CashoutStep
<1>3. Inv => CashoutKept
  <2> SUFFICES ASSUME Inv, ~stale, cashout = "sold" PROVE held <= late
    BY DEF CashoutKept
  <2>1. held + Coming <= late
    BY DEF CashoutCovers
  <2> QED BY <2>1, ComingType, Numbers
<1> QED BY <1>1, <1>2, <1>3, PTL DEF Spec
=============================================================================
