---------------------------- MODULE TallyProofs ----------------------------
(***************************************************************************)
(* What the totals of Tally are: natural numbers, additive over disjoint   *)
(* sets, and dependent on nothing but the amounts of the set's members.    *)
(* And counting as it gives the members of a sorted set their places.      *)
(***************************************************************************)
EXTENDS Tally, FiniteSetTheorems, TLAPS

LEMMA CoinsFinite ==
    ASSUME NEW S, IsFiniteSet(S), NEW f, NEW m \in Nat
    PROVE  IsFiniteSet(Coins(S, f, m))
<1>1. IsFiniteSet(1..m)
  BY FS_Interval
<1>2. IsFiniteSet(S \X (1..m))
  BY <1>1, FS_Product
<1> QED
  BY <1>2, FS_Subset DEF Coins

LEMMA TotalNat ==
    ASSUME NEW S, IsFiniteSet(S), NEW f, NEW m \in Nat
    PROVE  Total(S, f, m) \in Nat
BY CoinsFinite, FS_CardinalityType DEF Total

LEMMA TotalEmpty ==
    ASSUME NEW f, NEW m \in Nat
    PROVE  Total({}, f, m) = 0
<1>1. Coins({}, f, m) = {}
  BY DEF Coins
<1> QED
  BY <1>1, FS_EmptySet DEF Total

LEMMA TotalCongruence ==
    ASSUME NEW S, NEW f, NEW g, NEW m \in Nat, \A x \in S : f[x] = g[x]
    PROVE  Total(S, f, m) = Total(S, g, m)
<1>1. Coins(S, f, m) = Coins(S, g, m)
  BY DEF Coins
<1> QED
  BY <1>1 DEF Total

LEMMA TotalDisjointUnion ==
    ASSUME NEW S, IsFiniteSet(S), NEW T, IsFiniteSet(T), S \cap T = {},
           NEW f, NEW m \in Nat
    PROVE  Total(S \cup T, f, m) = Total(S, f, m) + Total(T, f, m)
<1>1. Coins(S \cup T, f, m) = Coins(S, f, m) \cup Coins(T, f, m)
  BY DEF Coins
<1>2. Coins(S, f, m) \cap Coins(T, f, m) = {}
  BY DEF Coins
<1>3. /\ IsFiniteSet(Coins(S, f, m))
      /\ IsFiniteSet(Coins(T, f, m))
  BY CoinsFinite
<1>4. /\ Cardinality(Coins(S, f, m)) \in Nat
      /\ Cardinality(Coins(T, f, m)) \in Nat
  BY <1>3, FS_CardinalityType
<1>5. Cardinality(Coins(S, f, m) \cup Coins(T, f, m)) =
         Cardinality(Coins(S, f, m)) + Cardinality(Coins(T, f, m))
           - Cardinality(Coins(S, f, m) \cap Coins(T, f, m))
  BY <1>3, FS_Union
<1>6. Cardinality(Coins(S, f, m) \cap Coins(T, f, m)) = 0
  BY <1>2, FS_EmptySet
<1>7. Cardinality(Coins(S, f, m) \cup Coins(T, f, m)) =
         Cardinality(Coins(S, f, m)) + Cardinality(Coins(T, f, m))
  BY <1>4, <1>5, <1>6
<1> QED
  BY <1>1, <1>7, Zenon DEF Total

LEMMA TotalSingleton ==
    ASSUME NEW x, NEW f, NEW m \in Nat, f[x] \in 0..m
    PROVE  Total({x}, f, m) = f[x]
<1>1. Coins({x}, f, m) = {x} \X (1..f[x])
  BY DEF Coins
<1> DEFINE n == f[x]
<1>a. n \in Nat /\ n \in Int /\ 1 \in Int
  OBVIOUS
<1>b. IsFiniteSet(1..n) /\ Cardinality(1..n) = IF 1 > n THEN 0 ELSE n - 1 + 1
  <2> HIDE DEF n
  <2> QED
    BY <1>a, FS_Interval
<1>2. IsFiniteSet(1..f[x]) /\ Cardinality(1..f[x]) = f[x]
  BY <1>a, <1>b
<1>3. IsFiniteSet({x}) /\ Cardinality({x}) = 1
  BY FS_Singleton
<1>4. Cardinality({x} \X (1..f[x])) = 1 * f[x]
  BY <1>2, <1>3, FS_Product
<1> QED
  BY <1>1, <1>4 DEF Total

LEMMA TotalZero ==
    ASSUME NEW S, NEW f, NEW m \in Nat, \A x \in S : f[x] = 0
    PROVE  Total(S, f, m) = 0
<1>1. Coins(S, f, m) = {}
  BY DEF Coins
<1> QED
  BY <1>1, FS_EmptySet DEF Total

\* One more member adds its amount, whatever happened to amounts outside.
LEMMA TotalOneMore ==
    ASSUME NEW S, IsFiniteSet(S), NEW x, x \notin S, NEW f, NEW g, NEW m \in Nat,
           \A y \in S : g[y] = f[y], g[x] \in 0..m
    PROVE  Total(S \cup {x}, g, m) = Total(S, f, m) + g[x]
<1>1. IsFiniteSet({x}) /\ S \cap {x} = {}
  BY FS_Singleton
<1>2. Total(S \cup {x}, g, m) = Total(S, g, m) + Total({x}, g, m)
  BY <1>1, TotalDisjointUnion
<1>3. Total(S, g, m) = Total(S, f, m)
  BY TotalCongruence
<1>4. Total({x}, g, m) = g[x]
  BY TotalSingleton
<1> QED
  BY <1>2, <1>3, <1>4

LEMMA TotalWithout ==
    ASSUME NEW S, IsFiniteSet(S), NEW x \in S, NEW f, NEW m \in Nat, f[x] \in 0..m
    PROVE  Total(S, f, m) = Total(S \ {x}, f, m) + f[x]
<1> DEFINE T == S \ {x}
<1>1. IsFiniteSet(T) /\ x \notin T /\ S = T \cup {x}
  BY FS_Subset
<1>2. \A y \in T : f[y] = f[y]
  OBVIOUS
<1> HIDE DEF T
<1>3. Total(T \cup {x}, f, m) = Total(T, f, m) + f[x]
  BY <1>1, <1>2, TotalOneMore
<1> USE DEF T
<1> QED
  BY <1>1, <1>3

-----------------------------------------------------------------------------
(* The places of the members of a finite set under a strict order *)

StrictlyOrders(R, S) ==
    /\ \A a \in S : <<a, a>> \notin R
    /\ \A a, b, c \in S : <<a, b>> \in R /\ <<b, c>> \in R => <<a, c>> \in R
    /\ \A a, b \in S : a = b \/ <<a, b>> \in R \/ <<b, a>> \in R

Earlier(R, S, b) == {a \in S : <<a, b>> \in R}

Place(R, S, b) == Cardinality(Earlier(R, S, b))

\* Every member of a sorted set has a place of its own, and every place a member.
LEMMA DistinctPlaces ==
    ASSUME NEW S, IsFiniteSet(S), NEW R, StrictlyOrders(R, S)
    PROVE  /\ Cardinality(S) \in Nat
           /\ \A b \in S : Place(R, S, b) \in 0..(Cardinality(S) - 1)
           /\ \A a, b \in S : Place(R, S, a) = Place(R, S, b) => a = b
           /\ \A i \in 1..Cardinality(S) : \E b \in S : Place(R, S, b) = i - 1
<1> DEFINE n == Cardinality(S)
<1>0. n \in Nat
  BY FS_CardinalityType
<1>1. ASSUME NEW b \in S
      PROVE  IsFiniteSet(Earlier(R, S, b)) /\ Place(R, S, b) \in 0..(n - 1)
  <2>1. IsFiniteSet(S \ {b}) /\ Cardinality(S \ {b}) = n - 1
    BY FS_RemoveElement
  <2>2. Earlier(R, S, b) \in SUBSET (S \ {b})
    BY DEF Earlier, StrictlyOrders
  <2>3. IsFiniteSet(Earlier(R, S, b)) /\ Place(R, S, b) <= n - 1
    BY <2>1, <2>2, FS_Subset DEF Place
  <2>4. Place(R, S, b) \in Nat
    BY <2>3, FS_CardinalityType DEF Place
  <2> QED
    BY <1>0, <2>3, <2>4
<1>2. ASSUME NEW a \in S, NEW b \in S, <<a, b>> \in R
      PROVE  Place(R, S, a) < Place(R, S, b)
  <2>1. a \in Earlier(R, S, b)
    BY <1>2 DEF Earlier
  <2>2. Earlier(R, S, a) \in SUBSET (Earlier(R, S, b) \ {a})
    BY <1>2 DEF Earlier, StrictlyOrders
  <2>3. /\ IsFiniteSet(Earlier(R, S, b) \ {a})
        /\ Cardinality(Earlier(R, S, b) \ {a}) = Place(R, S, b) - 1
    BY <1>1, <2>1, FS_RemoveElement DEF Place
  <2>4. Place(R, S, a) <= Place(R, S, b) - 1
    BY <2>2, <2>3, FS_Subset DEF Place
  <2>5. Place(R, S, a) \in Int /\ Place(R, S, b) \in Int
    BY <1>1
  <2> QED
    BY <2>4, <2>5
<1>3. \A a, b \in S : Place(R, S, a) = Place(R, S, b) => a = b
  <2> SUFFICES ASSUME NEW a \in S, NEW b \in S, Place(R, S, a) = Place(R, S, b)
               PROVE  a = b
    OBVIOUS
  <2>1. Place(R, S, a) \in Int
    BY <1>1
  <2>2. <<a, b>> \notin R /\ <<b, a>> \notin R
    BY <1>2, <2>1
  <2> QED
    BY <2>2 DEF StrictlyOrders
<1>4. \A i \in 1..n : \E b \in S : Place(R, S, b) = i - 1
  <2> DEFINE f == [b \in S |-> Place(R, S, b) + 1]
  <2>1. \A b \in S : f[b] = Place(R, S, b) + 1 /\ f[b] \in 1..n
    BY <1>0, <1>1
  <2>2. \A a, b \in S : f[a] = f[b] => a = b
    <3> SUFFICES ASSUME NEW a \in S, NEW b \in S, f[a] = f[b]
                 PROVE  Place(R, S, a) = Place(R, S, b)
      BY <1>3
    <3>1. Place(R, S, a) \in Int /\ Place(R, S, b) \in Int
      BY <1>1
    <3> QED
      BY <2>1, <3>1
  <2>3. f \in Injection(S, 1..n)
    <3>1. f \in [S -> 1..n]
      BY <2>1
    <3> HIDE DEF f
    <3> QED
      BY <2>2, <3>1 DEF Injection, IsInjective
  <2>4. IsFiniteSet(1..n) /\ Cardinality(1..n) = n
    BY <1>0, FS_Interval
  <2>5. f \in Surjection(S, 1..n)
    <3> HIDE DEF f
    <3> QED
      BY <2>3, <2>4, FS_Injection
  <2>6. \A i \in 1..n : \E b \in S : f[b] = i
    BY <2>5 DEF Surjection
  <2> QED
    <3> SUFFICES ASSUME NEW i \in 1..n
                 PROVE  \E b \in S : Place(R, S, b) = i - 1
      OBVIOUS
    <3>1. PICK b \in S : f[b] = i
      BY <2>6
    <3>2. Place(R, S, b) \in Int /\ Place(R, S, b) + 1 = i
      BY <1>1, <2>1, <3>1
    <3> QED
      BY <3>2
<1> QED
  BY <1>0, <1>1, <1>3, <1>4
=============================================================================
