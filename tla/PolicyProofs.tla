---------------------------- MODULE PolicyProofs ----------------------------
(***************************************************************************)
(* The prompt cache, the key pool and the ranking, for every number of     *)
(* keys, entries, turns and backends: the cache keeps its keys in the      *)
(* order of their use and forgets none before its turn, no key of the pool *)
(* is passed over more than once by each of the others, and the bill of    *)
(* whichever backend answers stays in proportion to the hold.              *)
(***************************************************************************)
EXTENDS PromptCache, KeyPool, Ranking, TallyProofs, SequenceTheorems

-----------------------------------------------------------------------------
(* Numbers and sequences *)

LEMMA DivMod ==
    ASSUME NEW a \in Int, NEW n \in Nat \ {0}
    PROVE  /\ a \div n \in Int /\ a % n \in 0..(n - 1)
           /\ a = n * (a \div n) + (a % n)
OBVIOUS

LEMMA ModOfSum ==
    ASSUME NEW n \in Nat \ {0}, NEW q \in Int, NEW r \in 0..(n - 1)
    PROVE  (n * q + r) % n = r
OBVIOUS

LEMMA ModOfMultiple ==
    ASSUME NEW n \in Nat \ {0}, NEW x \in Int, NEW z \in Int
    PROVE  (x + n * z) % n = x % n
<1> DEFINE y == x \div n
           r == x % n
<1>1. y \in Int /\ r \in 0..(n - 1) /\ x = n * y + r
  BY DivMod
<1> HIDE DEF y
<1>2. y + z \in Int /\ x + n * z = n * (y + z) + r
  <2> HIDE DEF r
  <2> QED
    BY <1>1, Z3
<1>3. (n * (y + z) + r) % n = r
  BY <1>1, <1>2, ModOfSum
<1> QED
  BY <1>2, <1>3

\* Counting on from anywhere, every remainder comes up within one round.
LEMMA EveryRemainder ==
    ASSUME NEW size \in Nat \ {0}, NEW start \in Int, NEW r \in 0..(size - 1)
    PROVE  \E n \in 0..(size - 1) : (start + n) % size = r
<1> DEFINE from == r - start
           n == from % size
           d == from \div size
<1>1. n \in 0..(size - 1) /\ d \in Int /\ from = size * d + n
  <2>1. from \in Int
    OBVIOUS
  <2> HIDE DEF from
  <2> QED
    BY <2>1, DivMod
<1>2. start + n = r + size * (0 - d)
  <2> HIDE DEF d, n
  <2>1. r - start = size * d + n
    BY <1>1
  <2>2. size * (0 - d) = 0 - size * d /\ size * d \in Int
    BY <1>1, Z3
  <2> QED
    BY <1>1, <2>1, <2>2, Z3
<1>3. (r + size * (0 - d)) % size = r
  <2>1. r \in Int /\ 0 - d \in Int
    BY <1>1
  <2> HIDE DEF d
  <2>2. (r + size * (0 - d)) % size = r % size
    BY <2>1, ModOfMultiple
  <2> QED
    BY <2>2
<1> QED
  BY <1>1, <1>2, <1>3

LEMMA LeastOf ==
    ASSUME NEW T, T \subseteq Nat, T # {}
    PROVE  Min(T) \in T /\ \A y \in T : Min(T) <= y
<1>1. \E x \in T : \A y \in T : ~(<<y, x>> \in OpToRel(<, Nat))
  BY NatLessThanWellFounded, WFMin
<1>2. \A x, y \in Nat : y < x => <<y, x>> \in OpToRel(<, Nat)
  BY DEF OpToRel
<1>3. \E x \in T : \A y \in T : ~(y < x)
  BY <1>1, <1>2
<1>4. \E x \in T : \A y \in T : x <= y
  BY <1>3
<1> QED
  BY <1>4 DEF Min

LEMMA Members ==
    ASSUME NEW S, NEW s \in Seq(S)
    PROVE  ToSet(s) = {s[i] : i \in 1..Len(s)} /\ ToSet(s) \subseteq S
<1>1. DOMAIN s = 1..Len(s) /\ \A i \in 1..Len(s) : s[i] \in S
  BY LenProperties, ElementOfSeq
<1> QED
  BY <1>1 DEF ToSet

-----------------------------------------------------------------------------
(* Sorting a finite set by a strict order *)

\* A sequence that has at each place the member of that place has each member once.
LEMMA Sorted ==
    ASSUME NEW S, IsFiniteSet(S), NEW R, StrictlyOrders(R, S),
           NEW q \in [1..Cardinality(S) -> S],
           \A i \in 1..Cardinality(S) : Place(R, S, q[i]) = i - 1
    PROVE  /\ q \in Seq(S) /\ DOMAIN q = 1..Cardinality(S)
           /\ IsInjective(q) /\ ToSet(q) = S
<1> DEFINE n == Cardinality(S)
<1>1. n \in Nat
  BY DistinctPlaces
<1>2. q \in Seq(S) /\ DOMAIN q = 1..n
  BY <1>1, SeqDef
<1>3. IsInjective(q)
  <2> SUFFICES ASSUME NEW i \in 1..n, NEW j \in 1..n, q[i] = q[j]
               PROVE  i = j
    BY <1>2 DEF IsInjective
  <2> QED
    BY <1>1
<1>4. ASSUME NEW b \in S PROVE \E i \in 1..n : q[i] = b
  <2> DEFINE i == Place(R, S, b) + 1
  <2>1. Place(R, S, b) \in 0..(n - 1)
    BY DistinctPlaces
  <2>2. i \in 1..n /\ i - 1 = Place(R, S, b)
    BY <1>1, <2>1
  <2>3. q[i] \in S /\ Place(R, S, q[i]) = Place(R, S, b)
    BY <2>2
  <2>4. q[i] = b
    BY <2>3, DistinctPlaces
  <2> QED
    BY <2>2, <2>4
<1>5. ToSet(q) = S
  <2>1. ToSet(q) = {q[i] : i \in 1..n}
    BY <1>2 DEF ToSet
  <2> QED
    BY <1>4, <2>1
<1> QED
  BY <1>2, <1>3, <1>5

-----------------------------------------------------------------------------
(* The ranking *)

LEMMA BackendsAre == Backends \subseteq Int /\ IsFiniteSet(Backends)
<1>1. Len(config) \in Int
  BY RankingAssumption
<1> QED
  BY <1>1, FS_Interval DEF Backends

LEMMA CandidatesAre ==
    ASSUME RouteTypeOK, NEW k \in Kinds
    PROVE  /\ Candidates(k) \in SUBSET Backends
           /\ IsFiniteSet(Candidates(k)) /\ Cardinality(Candidates(k)) \in Nat
<1>1. Candidates(k) \subseteq up
  BY DEF Candidates, Fitting, Capable, Preferably
<1>2. Candidates(k) \in SUBSET Backends
  BY <1>1 DEF RouteTypeOK
<1> QED
  BY <1>2, BackendsAre, FS_Subset, FS_CardinalityType

LEMMA KeysArePairs ==
    ASSUME RouteTypeOK, strategy # "round_robin", NEW k, NEW b \in Backends
    PROVE  KeyOf(k, b) \in Int \X Int
<1>1. /\ config[b].prompt \in Int /\ config[b].tier \in Int
      /\ b \in fresh => average[b] \in Int
  <2>1. config[b].prompt \in Nat /\ config[b].tier \in Int
    BY RankingAssumption
  <2>2. b \in fresh => average[b] \in Nat
    BY RankingAssumption, Zenon DEF RouteTypeOK
  <2> QED
    BY <2>1, <2>2
<1>2. strategy \in {"cost_first", "cascade", "latency_first", "complexity"}
  BY RankingAssumption DEF RouteTypeOK
<1>3. CheapestFirst(b) \in Int \X Int
  BY <1>1 DEF CheapestFirst
<1>4. CascadeKey(b) \in Int \X Int
  BY <1>1 DEF CascadeKey
<1>5. MostCapableFirst(b) \in Int \X Int
  BY <1>1 DEF MostCapableFirst
<1>6. FastestFirst(b) \in Int \X Int
  BY <1>1 DEF FastestFirst
<1> QED
  BY <1>2, <1>3, <1>4, <1>5, <1>6 DEF KeyOf

LEMMA BeforeOrders ==
    ASSUME RouteTypeOK, strategy # "round_robin", NEW k \in Kinds, NEW S \in SUBSET Backends
    PROVE  StrictlyOrders({p \in S \X S : Before(k, p[1], p[2])}, S)
<1> DEFINE R == {p \in S \X S : Before(k, p[1], p[2])}
           x(b) == KeyOf(k, b)[1]
           y(b) == KeyOf(k, b)[2]
<1>1. \A b \in S : b \in Int /\ x(b) \in Int /\ y(b) \in Int /\ KeyOf(k, b) = <<x(b), y(b)>>
  <2> SUFFICES ASSUME NEW b \in S
               PROVE  b \in Int /\ x(b) \in Int /\ y(b) \in Int /\ KeyOf(k, b) = <<x(b), y(b)>>
    OBVIOUS
  <2>1. KeyOf(k, b) \in Int \X Int
    BY KeysArePairs
  <2>2. b \in Int
    BY BackendsAre
  <2> QED
    BY <2>1, <2>2
<1>2. \A a, b \in S : <<a, b>> \in R <=>
         x(a) < x(b) \/ (x(a) = x(b) /\ (y(a) < y(b) \/ (y(a) = y(b) /\ a < b)))
  <2> SUFFICES ASSUME NEW a \in S, NEW b \in S
               PROVE  Before(k, a, b) <=>
                        x(a) < x(b) \/ (x(a) = x(b) /\ (y(a) < y(b) \/ (y(a) = y(b) /\ a < b)))
    OBVIOUS
  <2>1. KeyOf(k, a) = KeyOf(k, b) <=> x(a) = x(b) /\ y(a) = y(b)
    BY <1>1, Zenon
  <2> QED
    BY <1>1, <2>1 DEF Before
<1> HIDE DEF R, x, y
<1>3. \A a \in S : <<a, a>> \notin R
  BY <1>1, <1>2
<1>4. \A a, b \in S : a = b \/ <<a, b>> \in R \/ <<b, a>> \in R
  <2> SUFFICES ASSUME NEW a \in S, NEW b \in S, <<a, b>> \notin R, <<b, a>> \notin R
               PROVE  a = b
    OBVIOUS
  <2>1. x(a) = x(b) /\ y(a) = y(b) /\ ~(a < b) /\ ~(b < a)
    BY <1>1, <1>2
  <2>2. a \in Int /\ b \in Int
    BY <1>1
  <2> QED
    BY <2>1, <2>2
<1>5. \A a, b, c \in S : <<a, b>> \in R /\ <<b, c>> \in R => <<a, c>> \in R
  BY <1>1, <1>2
<1> QED
  BY <1>3, <1>4, <1>5 DEF StrictlyOrders, R

\* Every candidate is ranked once.
LEMMA RankedIsSorted ==
    ASSUME RouteTypeOK, strategy # "round_robin", NEW k \in Kinds
    PROVE  LET S == Candidates(k)
           IN /\ Ranked(k) \in Seq(S) /\ DOMAIN Ranked(k) = 1..Cardinality(S)
              /\ IsInjective(Ranked(k)) /\ ToSet(Ranked(k)) = S
<1> DEFINE S == Candidates(k)
           R == {p \in S \X S : Before(k, p[1], p[2])}
           q == InOrder(S, LAMBDA a, b : Before(k, a, b))
<1>1. S \in SUBSET Backends /\ IsFiniteSet(S)
  BY CandidatesAre
<1>2. StrictlyOrders(R, S)
  <2> HIDE DEF S
  <2> QED
    BY <1>1, BeforeOrders
<1>3. Ranked(k) = q
  BY DEF Ranked
<1>4. \A b \in S : {a \in S : Before(k, a, b)} = Earlier(R, S, b)
  <2> HIDE DEF S
  <2> QED
    BY DEF Earlier
<1> HIDE DEF S, R
<1>5. q = [i \in 1..Cardinality(S) |-> q[i]]
  BY DEF InOrder
<1>6. \A i \in 1..Cardinality(S) : q[i] \in S /\ Place(R, S, q[i]) = i - 1
  <2> SUFFICES ASSUME NEW i \in 1..Cardinality(S)
               PROVE  q[i] \in S /\ Place(R, S, q[i]) = i - 1
    OBVIOUS
  <2>1. \E b \in S : Cardinality({a \in S : Before(k, a, b)}) = i - 1
    <3>1. \E b \in S : Place(R, S, b) = i - 1
      BY <1>1, <1>2, DistinctPlaces
    <3> QED
      BY <1>4, <3>1 DEF Place
  <2>2. q[i] = CHOOSE b \in S : Cardinality({a \in S : Before(k, a, b)}) = i - 1
    BY DEF InOrder
  <2> HIDE DEF q
  <2>3. q[i] \in S /\ Cardinality({a \in S : Before(k, a, q[i])}) = i - 1
    BY <2>1, <2>2, Zenon
  <2> QED
    BY <1>4, <2>3 DEF Place
<1> HIDE DEF q
<1>7. q \in [1..Cardinality(S) -> S]
  BY <1>5, <1>6
<1>8. IsFiniteSet(S) /\ \A i \in 1..Cardinality(S) : Place(R, S, q[i]) = i - 1
  BY <1>1, <1>6
<1>9. /\ q \in Seq(S) /\ DOMAIN q = 1..Cardinality(S)
      /\ IsInjective(q) /\ ToSet(q) = S
  BY ONLY <1>2, <1>7, <1>8, Sorted, Zenon
<1> QED
  BY <1>3, <1>9 DEF S

\* A round robin sorts by place and then starts where the turn is.
LEMMA RotatedIsSorted ==
    ASSUME RouteTypeOK, NEW S \in SUBSET Backends, IsFiniteSet(S)
    PROVE  /\ Rotated(S) \in Seq(S) /\ DOMAIN Rotated(S) = 1..Cardinality(S)
           /\ IsInjective(Rotated(S)) /\ ToSet(Rotated(S)) = S
<1> DEFINE R == {p \in S \X S : p[1] < p[2]}
           n == Cardinality(S)
           q == InOrder(S, <)
           at(i) == ((turns + i - 1) % n) + 1
<1>1. \A b \in S : b \in Int
  BY BackendsAre
<1>2. StrictlyOrders(R, S)
  BY <1>1 DEF StrictlyOrders
<1>3. \A b \in S : {a \in S : a < b} = Earlier(R, S, b)
  BY DEF Earlier
<1>4. n \in Nat
  BY FS_CardinalityType
<1> HIDE DEF R
<1>5. q = [i \in 1..n |-> q[i]]
  BY DEF InOrder
<1>6. \A i \in 1..n : q[i] \in S /\ Place(R, S, q[i]) = i - 1
  <2> SUFFICES ASSUME NEW i \in 1..n
               PROVE  q[i] \in S /\ Place(R, S, q[i]) = i - 1
    OBVIOUS
  <2>1. \E b \in S : Cardinality({a \in S : a < b}) = i - 1
    <3>1. \E b \in S : Place(R, S, b) = i - 1
      BY <1>2, DistinctPlaces
    <3> QED
      BY <1>3, <3>1 DEF Place
  <2>2. q[i] = CHOOSE b \in S : Cardinality({a \in S : a < b}) = i - 1
    BY DEF InOrder
  <2> HIDE DEF q
  <2>3. q[i] \in S /\ Cardinality({a \in S : a < q[i]}) = i - 1
    BY <2>1, <2>2, Zenon
  <2> QED
    BY <1>3, <2>3 DEF Place
<1> HIDE DEF q
<1>7. q \in [1..n -> S] /\ \A i \in 1..n : Place(R, S, q[i]) = i - 1
  BY <1>5, <1>6
<1>8. DOMAIN q = 1..n /\ IsInjective(q) /\ ToSet(q) = S
  BY <1>2, <1>7, Sorted
<1>9. Rotated(S) = [i \in 1..n |-> q[at(i)]]
  BY DEF Rotated, q
<1>10. turns \in Nat
  BY RankingAssumption DEF RouteTypeOK
<1>11. ASSUME NEW i \in 1..n
       PROVE  at(i) \in 1..n
  <2>1. n \in Nat \ {0} /\ turns + i - 1 \in Int
    BY <1>4, <1>10
  <2>2. (turns + i - 1) % n \in 0..(n - 1)
    BY <2>1, DivMod
  <2> QED
    BY <1>4, <2>2
<1>12. ASSUME NEW j \in 1..n
       PROVE  \E i \in 1..n : at(i) = j
  <2>1. n \in Nat \ {0} /\ turns \in Int /\ j - 1 \in 0..(n - 1)
    BY <1>4, <1>10
  <2>2. PICK m \in 0..(n - 1) : (turns + m) % n = j - 1
    BY <2>1, EveryRemainder
  <2>3. m + 1 \in 1..n /\ turns + (m + 1) - 1 = turns + m /\ (j - 1) + 1 = j
    BY <1>4, <1>10
  <2>4. at(m + 1) = j
    BY <2>2, <2>3
  <2> QED
    BY <2>3, <2>4
<1> HIDE DEF at
<1>13. \A i \in 1..n : Rotated(S)[i] = q[at(i)]
  BY <1>9
<1>14. Rotated(S) \in [1..n -> S]
  BY <1>7, <1>9, <1>11
<1>15. Rotated(S) \in Seq(S) /\ DOMAIN Rotated(S) = 1..n
  BY <1>4, <1>14, SeqDef
<1>16. ToSet(Rotated(S)) = S
  <2>1. ToSet(Rotated(S)) = {Rotated(S)[i] : i \in 1..n}
    BY <1>15 DEF ToSet
  <2>2. \A b \in S : \E j \in 1..n : q[j] = b
    BY <1>8 DEF ToSet
  <2>3. \A b \in S : \E i \in 1..n : Rotated(S)[i] = b
    BY <1>12, <1>13, <2>2
  <2> QED
    BY <1>14, <2>1, <2>3
<1>17. IsInjective(Rotated(S))
  <2>1. Rotated(S) \in Surjection(1..n, S)
    BY <1>14, <1>15, <1>16 DEF Surjection, ToSet
  <2>2. IsFiniteSet(1..n) /\ Cardinality(1..n) = n
    BY <1>4, FS_Interval
  <2>3. Rotated(S) \in Injection(1..n, S)
    BY <2>1, <2>2, FS_SurjSameCardinalityImpliesInj
  <2> QED
    BY <2>3 DEF Injection
<1> QED
  BY <1>15, <1>16, <1>17

\* A ranking has every candidate, once.
LEMMA RankedHasEach ==
    ASSUME RouteTypeOK, NEW k \in Kinds
    PROVE  /\ Ranked(k) \in Seq(Candidates(k))
           /\ DOMAIN Ranked(k) = 1..Cardinality(Candidates(k))
           /\ IsInjective(Ranked(k)) /\ ToSet(Ranked(k)) = Candidates(k)
<1>1. CASE strategy = "round_robin"
  <2>1. Candidates(k) \in SUBSET Backends /\ IsFiniteSet(Candidates(k))
    BY CandidatesAre
  <2>2. Ranked(k) = Rotated(Candidates(k))
    BY <1>1 DEF Ranked
  <2> QED
    BY <2>1, <2>2, RotatedIsSorted
<1>2. CASE strategy # "round_robin"
  BY <1>2, RankedIsSorted
<1> QED
  BY <1>1, <1>2

-----------------------------------------------------------------------------
(* What is held *)

Rates(b) == config[b].prompt + config[b].answer

LEMMA RatesAreNumbers ==
    ASSUME NEW b \in Backends
    PROVE  /\ config[b].prompt \in Nat /\ config[b].answer \in Nat /\ config[b].tokens \in Nat
           /\ Rates(b) \in Nat
<1>1. config[b].prompt \in Nat /\ config[b].answer \in Nat /\ config[b].tokens \in Nat
  BY RankingAssumption
<1> QED
  BY <1>1 DEF Rates

\* The last place of a set sorted by rates is the dearest's.
LEMMA DearestExists ==
    ASSUME NEW S \in SUBSET Backends, S # {}
    PROVE  \E b \in S : \A a \in S : Rates(a) <= Rates(b)
<1> DEFINE R == {p \in S \X S : \/ Rates(p[1]) < Rates(p[2])
                                \/ Rates(p[1]) = Rates(p[2]) /\ p[1] < p[2]}
           n == Cardinality(S)
<1>1. \A b \in S : b \in Int /\ Rates(b) \in Int
  BY BackendsAre, RatesAreNumbers
<1>2. IsFiniteSet(S)
  BY BackendsAre, FS_Subset
<1>3. StrictlyOrders(R, S)
  BY <1>1 DEF StrictlyOrders
<1>4. n \in Nat \ {0}
  BY <1>2, FS_CardinalityType, FS_EmptySet
<1>5. \A a, b \in S : <<a, b>> \in R => Rates(a) <= Rates(b)
  BY <1>1
<1> HIDE DEF R
<1>6. PICK b \in S : Place(R, S, b) = n - 1
  <2>1. n \in 1..n
    BY <1>4
  <2> QED
    BY <1>2, <1>3, <2>1, DistinctPlaces
<1>7. Earlier(R, S, b) = S \ {b}
  <2>1. IsFiniteSet(S \ {b}) /\ Cardinality(S \ {b}) = n - 1
    BY <1>2, FS_RemoveElement
  <2>2. Earlier(R, S, b) \in SUBSET (S \ {b})
    BY <1>3 DEF Earlier, StrictlyOrders
  <2> QED
    BY <1>6, <2>1, <2>2, FS_Subset DEF Place
<1>8. ASSUME NEW a \in S
      PROVE  Rates(a) <= Rates(b)
  <2>1. CASE a = b
    BY <1>1, <2>1
  <2>2. CASE a # b
    BY <1>5, <1>7, <2>2 DEF Earlier
  <2> QED
    BY <2>1, <2>2
<1> QED
  BY <1>8

\* max() over the ranking is the dearest of the candidates.
LEMMA CostliestIsDearest ==
    ASSUME RouteTypeOK, NEW k \in Kinds, Candidates(k) # {}
    PROVE  /\ Costliest(k) \in Candidates(k)
           /\ \A a \in Candidates(k) : Rates(a) <= Rates(Costliest(k))
<1> DEFINE ranked == Ranked(k)
           n == Cardinality(Candidates(k))
           T == {i \in DOMAIN ranked :
                   \A j \in DOMAIN ranked : Rates(ranked[j]) <= Rates(ranked[i])}
<1>1. /\ DOMAIN ranked = 1..n /\ n \in Nat
      /\ ToSet(ranked) = Candidates(k)
  BY RankedHasEach, CandidatesAre
<1>2. Costliest(k) = ranked[Min(T)]
  BY DEF Costliest, Rates
<1>3. /\ \A i \in 1..n : ranked[i] \in Candidates(k)
      /\ \A b \in Candidates(k) : \E i \in 1..n : ranked[i] = b
  BY <1>1 DEF ToSet
<1> HIDE DEF ranked
<1>4. PICK b \in Candidates(k) : \A a \in Candidates(k) : Rates(a) <= Rates(b)
  BY CandidatesAre, DearestExists
<1>5. T # {} /\ T \subseteq Nat
  <2>1. PICK i \in 1..n : ranked[i] = b
    BY <1>3
  <2>2. \A j \in 1..n : Rates(ranked[j]) <= Rates(b)
    BY <1>3, <1>4
  <2>3. i \in T
    BY <1>1, <2>1, <2>2
  <2> QED
    BY <1>1, <2>3
<1>6. Min(T) \in T
  <2> HIDE DEF T
  <2> QED
    BY <1>5, LeastOf
<1>7. /\ Min(T) \in 1..n
      /\ \A j \in 1..n : Rates(ranked[j]) <= Rates(ranked[Min(T)])
  <2> DEFINE m == Min(T)
  <2>1. m \in T
    BY <1>6
  <2> HIDE DEF m
  <2>2. m \in 1..n /\ \A j \in 1..n : Rates(ranked[j]) <= Rates(ranked[m])
    BY <1>1, <2>1
  <2> QED
    BY <2>2 DEF m
<1> HIDE DEF T
<1> QED
  BY <1>2, <1>3, <1>7

LEMMA MostTokensIsNumber ==
    ASSUME NEW k \in Kinds
    PROVE  MostTokens(k) \in Nat
BY RankingAssumption DEF MostTokens

LEMMA BillIsNumber ==
    ASSUME NEW b \in Backends, NEW p \in Nat, NEW n \in Nat
    PROVE  Bill(b, p, n) \in Nat
<1>1. config[b].prompt \in Nat /\ config[b].answer \in Nat
  BY RatesAreNumbers
<1>2. \A x, y \in Nat : x * y \in Nat
  OBVIOUS
<1>3. p * config[b].prompt \in Nat /\ n * config[b].answer \in Nat
  BY <1>1, <1>2
<1> QED
  BY <1>3 DEF Bill

-----------------------------------------------------------------------------
(* The invariant of the ranking *)

LEMMA RouteStarts == RouteInit => RouteInv
<1> SUFFICES ASSUME RouteInit PROVE RouteInv
  OBVIOUS
<1>1. order = <<>> /\ <<>> \in Seq(Backends) /\ DOMAIN <<>> = {}
  BY EmptySeq DEF RouteInit
<1>2. average = <<>> /\ 0 \in 0..(Rounds - 1)
  BY RankingAssumption DEF RouteInit
<1> QED
  BY <1>1, <1>2
  DEF RouteInit, RouteInv, RouteTypeOK, fresh, HeldAtDearest, RankedOnce, IsInjective

LEMMA NextTurnIsTurn ==
    ASSUME RouteTypeOK, NEW k, NextTurn(k)
    PROVE  turns' \in 0..(Rounds - 1)
<1>1. turns \in 0..(Rounds - 1) /\ Rounds \in Nat \ {0}
  BY RankingAssumption DEF RouteTypeOK
<1>2. (turns + 1) % Rounds \in 0..(Rounds - 1)
  <2>1. turns + 1 \in Int
    BY <1>1
  <2> QED
    BY <1>1, <2>1, DivMod
<1> QED
  BY <1>1, <1>2 DEF NextTurn

LEMMA PriceKeepsInv ==
    ASSUME RouteInv, NEW k \in Kinds, Price(k)
    PROVE  RouteInv'
<1>0. RouteTypeOK
  BY DEF RouteInv
<1>1. /\ kind' = k /\ hold' = Quote(Costliest(k), MostTokens(k))
      /\ priced' = Candidates(k) /\ Candidates(k) # {}
      /\ stage' = "priced" /\ NextTurn(k)
      /\ UNCHANGED <<strategy, up, average, order>>
  BY DEF Price, Estimate
<1>2. /\ Costliest(k) \in Candidates(k) /\ Candidates(k) \subseteq Backends
      /\ \A a \in Candidates(k) : Rates(a) <= Rates(Costliest(k))
  BY <1>0, <1>1, CostliestIsDearest, CandidatesAre
<1>3. HeldAtDearest'
  BY <1>1, <1>2 DEF HeldAtDearest, Rates, Quote, Bill, MostTokens
<1>4. RouteTypeOK'
  <2>1. hold' \in Nat
    BY <1>1, <1>2, RatesAreNumbers, MostTokensIsNumber, BillIsNumber DEF Quote
  <2>2. turns' \in 0..(Rounds - 1)
    BY <1>0, <1>1, NextTurnIsTurn
  <2> QED
    BY <1>0, <1>1, <1>2, <2>1, <2>2 DEF RouteTypeOK, fresh
<1>5. RankedOnce'
  BY <1>1 DEF RouteInv, RankedOnce, IsInjective
<1> QED
  BY <1>1, <1>3, <1>4, <1>5 DEF RouteInv

LEMMA PriceNothingKeepsInv ==
    ASSUME RouteInv, NEW k \in Kinds, PriceNothing(k)
    PROVE  RouteInv'
BY DEF RouteInv, RouteTypeOK, fresh, PriceNothing, HeldAtDearest, RankedOnce, IsInjective

LEMMA RouteKeepsInv ==
    ASSUME RouteInv, Route
    PROVE  RouteInv'
<1>0. RouteTypeOK /\ kind \in Kinds
  BY DEF RouteInv, RouteTypeOK
<1>1. /\ order' = Ranked(kind) /\ stage' = "routed" /\ NextTurn(kind)
      /\ UNCHANGED <<strategy, up, average, kind, hold, priced>>
  BY DEF Route
<1>2. order' \in Seq(Backends) /\ IsInjective(order')
  <2>1. Ranked(kind) \in Seq(Candidates(kind)) /\ IsInjective(Ranked(kind))
    BY <1>0, RankedHasEach
  <2>2. Candidates(kind) \in SUBSET Backends
    BY <1>0, CandidatesAre
  <2>3. Ranked(kind) \in Seq(Backends)
    <3> DEFINE n == Len(Ranked(kind))
    <3>1. n \in Nat /\ Ranked(kind) \in [1..n -> Candidates(kind)]
      BY <2>1, LenProperties
    <3>2. Ranked(kind) \in [1..n -> Backends]
      BY <2>2, <3>1
    <3> QED
      BY <3>1, <3>2, SeqDef
  <2> QED
    BY <1>1, <2>1, <2>3
<1>3. turns' \in 0..(Rounds - 1)
  BY <1>0, <1>1, NextTurnIsTurn
<1>4. RouteTypeOK'
  BY <1>0, <1>1, <1>2, <1>3 DEF RouteTypeOK, fresh
<1>5. HeldAtDearest'
  BY <1>1 DEF RouteInv, HeldAtDearest, Quote, Bill, MostTokens
<1> QED
  BY <1>1, <1>2, <1>4, <1>5 DEF RouteInv, RankedOnce, IsInjective

\* However a request ends, what it held and how it was ranked are gone.
LEMMA OverKeepsInv ==
    ASSUME RouteInv, Over,
           fresh' \subseteq Backends /\ \A b \in fresh' : average'[b] \in Latencies
    PROVE  RouteInv'
<1>1. /\ stage' = "idle" /\ hold' = 0 /\ priced' = {} /\ order' = <<>>
      /\ UNCHANGED <<strategy, up, turns, kind>>
  BY DEF Over
<1>2. <<>> \in Seq(Backends) /\ DOMAIN <<>> = {}
  BY EmptySeq
<1>3. RouteTypeOK'
  BY <1>1, <1>2 DEF RouteInv, RouteTypeOK
<1>4. HeldAtDearest' /\ RankedOnce'
  BY <1>1, <1>2 DEF HeldAtDearest, RankedOnce, IsInjective
<1> QED
  BY <1>1, <1>3, <1>4 DEF RouteInv

LEMMA MeasuredKeepsInv ==
    ASSUME RouteInv, NEW i \in Backends, Measured(i)
    PROVE  RouteInv'
<1>1. PICK latency \in Latencies :
         average' = [b \in fresh \cup {order[i]} |->
                       IF b = order[i] THEN latency ELSE average[b]]
  BY DEF Measured
<1>2. order[i] \in Backends
  <2>1. order \in Seq(Backends) /\ i \in DOMAIN order
    BY DEF Measured, RouteInv, RouteTypeOK
  <2>2. DOMAIN order = 1..Len(order) /\ order \in [1..Len(order) -> Backends]
    BY <2>1, LenProperties
  <2> QED
    BY <2>1, <2>2
<1>3. /\ fresh \subseteq Backends
      /\ \A b \in fresh : average[b] \in Latencies
  BY DEF RouteInv, RouteTypeOK
<1>4. fresh' \subseteq Backends /\ \A b \in fresh' : average'[b] \in Latencies
  BY <1>1, <1>2, <1>3 DEF fresh
<1> QED
  BY <1>4, OverKeepsInv DEF Measured

LEMMA BreakerTurnsKeepsInv ==
    ASSUME RouteInv, NEW b \in Backends, BreakerTurns(b)
    PROVE  RouteInv'
<1>1. UNCHANGED <<strategy, average, turns, stage, kind, hold, priced, order>>
  BY DEF BreakerTurns, requestVars
<1>2. up' \subseteq Backends
  BY DEF BreakerTurns, RouteInv, RouteTypeOK
<1>3. RouteTypeOK'
  BY <1>1, <1>2 DEF RouteInv, RouteTypeOK, fresh
<1> QED
  BY <1>1, <1>3 DEF RouteInv, HeldAtDearest, Quote, Bill, MostTokens, RankedOnce, IsInjective

LEMMA GoesStaleKeepsInv ==
    ASSUME RouteInv, NEW b \in Backends, GoesStale(b)
    PROVE  RouteInv'
<1>1. UNCHANGED <<strategy, up, turns, stage, kind, hold, priced, order>>
  BY DEF GoesStale, requestVars
<1>2. average' = [a \in fresh \ {b} |-> average[a]]
  BY DEF GoesStale, Restrict
<1>3. fresh' \subseteq Backends /\ \A a \in fresh' : average'[a] \in Latencies
  BY <1>2 DEF RouteInv, RouteTypeOK, fresh
<1>4. RouteTypeOK'
  BY <1>1, <1>3 DEF RouteInv, RouteTypeOK
<1> QED
  BY <1>1, <1>4 DEF RouteInv, HeldAtDearest, Quote, Bill, MostTokens, RankedOnce, IsInjective

LEMMA RankingKeepsInv == RouteInv /\ [RouteNext]_routeVars => RouteInv'
<1> SUFFICES ASSUME RouteInv, [RouteNext]_routeVars PROVE RouteInv'
  OBVIOUS
<1>1. ASSUME NEW k \in Kinds, Price(k) PROVE RouteInv'
  BY <1>1, PriceKeepsInv
<1>2. ASSUME NEW k \in Kinds, PriceNothing(k) PROVE RouteInv'
  BY <1>2, PriceNothingKeepsInv
<1>3. CASE Route
  BY <1>3, RouteKeepsInv
<1>4. ASSUME Over, UNCHANGED average PROVE RouteInv'
  <2>1. fresh' \subseteq Backends /\ \A b \in fresh' : average'[b] \in Latencies
    BY <1>4 DEF RouteInv, RouteTypeOK, fresh
  <2> QED
    BY <1>4, <2>1, OverKeepsInv
<1>5. CASE RouteFails
  BY <1>4, <1>5 DEF RouteFails
<1>6. CASE Done
  BY <1>4, <1>6 DEF Done
<1>7. ASSUME NEW i \in Backends, Measured(i) PROVE RouteInv'
  BY <1>7, MeasuredKeepsInv
<1>8. ASSUME NEW b \in Backends, BreakerTurns(b) PROVE RouteInv'
  BY <1>8, BreakerTurnsKeepsInv
<1>9. ASSUME NEW b \in Backends, GoesStale(b) PROVE RouteInv'
  BY <1>9, GoesStaleKeepsInv
<1>10. CASE UNCHANGED routeVars
  BY <1>10
  DEF routeVars, requestVars, RouteInv, RouteTypeOK, fresh, HeldAtDearest, Quote, Bill, MostTokens,
      RankedOnce, IsInjective
<1> QED
  BY <1>1, <1>2, <1>3, <1>5, <1>6, <1>7, <1>8, <1>9, <1>10 DEF RouteNext

\* Whatever breakers and latencies do between the price and the call, and whatever
\* strategy ranks: a request holds the price of the dearest backend it was priced over.
THEOREM RouteInvariant == RouteSafety => []RouteInv
<1>1. RouteInit => RouteInv
  BY RouteStarts
<1>2. RouteInv /\ [RouteNext]_routeVars => RouteInv'
  BY RankingKeepsInv
<1> QED
  BY <1>1, <1>2, PTL DEF RouteSafety

\* One product at a time: from smaller numbers comes no larger product.
LEMMA ProductsGrow ==
    ASSUME NEW u \in Nat, NEW v \in Nat, NEW w \in Nat, u <= v
    PROVE  u * w <= v * w /\ w * u <= w * v /\ u * w \in Nat /\ v * w \in Nat
           /\ u * w = w * u /\ v * w = w * v
BY Z3

\* Rates that add up to no more, for counts of at most m, against rates and counts of
\* at least l: the first sum is to the second at most as m is to l.
LEMMA SumsInProportion ==
    ASSUME NEW x \in Nat, NEW y \in Nat, NEW v \in Nat, NEW w \in Nat, x + y <= v + w,
           NEW m \in Nat, NEW p \in Nat, NEW a \in Nat, p <= m, a <= m,
           NEW l \in Nat, NEW t \in Nat, NEW n \in Nat, l <= t, l <= n
    PROVE  (p * x + a * y) * l <= (t * v + n * w) * m
<1> DEFINE bill == p * x + a * y
           held == t * v + n * w
           rate == v + w
<1>1. bill \in Nat /\ bill <= m * rate
  <2>1. p * x <= m * x /\ a * y <= m * y /\ p * x \in Nat /\ a * y \in Nat
        /\ m * x \in Nat /\ m * y \in Nat
    BY ProductsGrow
  <2>2. m * x + m * y = m * (x + y)
    BY Z3
  <2>3. m * (x + y) <= m * rate /\ m * (x + y) \in Nat /\ m * rate \in Nat
    BY ProductsGrow
  <2> QED
    BY <2>1, <2>2, <2>3
<1>2. held \in Nat /\ l * rate <= held
  <2>1. l * v <= t * v /\ l * w <= n * w /\ t * v \in Nat /\ n * w \in Nat
        /\ l * v \in Nat /\ l * w \in Nat
    BY ProductsGrow
  <2>2. l * v + l * w = l * rate
    BY Z3
  <2> QED
    BY <2>1, <2>2
<1>3. rate \in Nat
  OBVIOUS
<1> HIDE DEF bill, held, rate
<1>4. m * rate \in Nat /\ l * rate \in Nat
  BY <1>3, ProductsGrow
<1>5. bill * l <= (m * rate) * l /\ (l * rate) * m <= held * m
  BY <1>1, <1>2, <1>4, ProductsGrow
<1>6. (m * rate) * l = (l * rate) * m
  BY <1>3, Z3
<1>7. bill * l \in Int /\ (m * rate) * l \in Int /\ held * m \in Int
  BY <1>1, <1>2, <1>4
<1>8. bill * l <= held * m
  BY <1>5, <1>6, <1>7
<1> QED
  BY <1>8 DEF bill, held

\* For any rates, any counts a provider reports, and any strategy: an answer of one of
\* the backends its hold was priced over is billed at most as many times the hold as the
\* larger count reported is the least of those the hold was priced for.
THEOREM BillsStayInProportion == RouteSafety => []BillInProportion
<1>1. RouteInv => BillInProportion
  <2> SUFFICES ASSUME RouteInv, NEW i \in DOMAIN order, order[i] \in priced,
                      NEW prompt \in Reported, NEW answer \in Reported
               PROVE  Bill(order[i], prompt, answer) * Min(Counted)
                         <= hold * Max({prompt, answer})
    BY DEF BillInProportion
  <2>1. priced \subseteq Backends /\ kind \in Kinds
    BY DEF RouteInv, RouteTypeOK
  <2>2. PICK b \in priced : /\ \A a \in priced : Rates(a) <= Rates(b)
                            /\ hold = Quote(b, MostTokens(kind))
    BY DEF RouteInv, HeldAtDearest, Rates
  <2> DEFINE c == order[i]
             least == Min(Counted)
             most == Max({prompt, answer})
  <2>3. c \in Backends /\ b \in Backends /\ Rates(c) <= Rates(b)
    BY <2>1, <2>2
  <2>4. prompt \in Nat /\ answer \in Nat /\ MostTokens(kind) \in Nat
    BY <2>1, RankingAssumption, MostTokensIsNumber
  <2>5. least \in Nat /\ least <= config[b].tokens /\ least <= MostTokens(kind)
    <3>1. Counted \subseteq Nat
      BY <2>1, <2>4, RatesAreNumbers DEF Counted
    <3>2. config[b].tokens \in Counted /\ MostTokens(kind) \in Counted
      BY DEF Counted
    <3>3. least \in Counted /\ \A n \in Counted : least <= n
      <4> HIDE DEF least
      <4>1. Min(Counted) \in Counted /\ \A n \in Counted : Min(Counted) <= n
        BY <3>1, <3>2, LeastOf
      <4> QED
        BY <4>1 DEF least
    <3> HIDE DEF least
    <3> QED
      BY <3>1, <3>2, <3>3
  <2>6. most \in Nat /\ prompt <= most /\ answer <= most
    <3>1. \E n \in {prompt, answer} : \A k \in {prompt, answer} : k <= n
      BY <2>4
    <3>2. most \in {prompt, answer} /\ \A k \in {prompt, answer} : k <= most
      BY <3>1 DEF Max
    <3> HIDE DEF most
    <3> QED
      BY <2>4, <3>2
  <2>7. /\ config[c].prompt \in Nat /\ config[c].answer \in Nat
        /\ config[b].prompt \in Nat /\ config[b].answer \in Nat
        /\ config[b].tokens \in Nat
        /\ config[c].prompt + config[c].answer <= config[b].prompt + config[b].answer
    BY <2>3, RatesAreNumbers DEF Rates
  <2> HIDE DEF c, least, most
  <2>8. (prompt * config[c].prompt + answer * config[c].answer) * least
          <= (config[b].tokens * config[b].prompt
                + MostTokens(kind) * config[b].answer) * most
    BY <2>4, <2>5, <2>6, <2>7, SumsInProportion
  <2>9. Bill(c, prompt, answer) * least <= hold * most
    BY <2>2, <2>8 DEF Bill, Quote
  <2> QED
    BY <2>9 DEF c, least, most
<1> QED
  BY <1>1, RouteInvariant, PTL

USE CacheAssumption, PoolAssumption

-----------------------------------------------------------------------------
(* The order of the cache's entries *)

\* What del and move_to_end take out: the one place a key has.
LEMMA Removed ==
    ASSUME NEW S, NEW s \in Seq(S), NEW i \in 1..Len(s),
           \A j \in 1..Len(s) : s[j] = s[i] => j = i
    PROVE  /\ RemoveFirst(s, s[i]) \in Seq(S)
           /\ Len(RemoveFirst(s, s[i])) = Len(s) - 1
           /\ \A j \in 1..(Len(s) - 1) :
                 RemoveFirst(s, s[i])[j] = IF j < i THEN s[j] ELSE s[j + 1]
<1> DEFINE before == SubSeq(s, 1, i - 1)
           after  == SubSeq(s, i + 1, Len(s))
<1>1. Len(s) \in Nat /\ \A j \in 1..Len(s) : s[j] \in S
  BY LenProperties, ElementOfSeq
<1>2. RemoveFirst(s, s[i]) = before \o after
  <2>1. {j \in 1..Len(s) : s[j] = s[i]} = {i}
    OBVIOUS
  <2>2. Min({i}) = i
    BY DEF Min
  <2>3. SelectInSeq(s, LAMBDA v : v = s[i]) = i
    BY <2>1, <2>2 DEF SelectInSeq
  <2> QED
    BY <2>3 DEF RemoveFirst, RemoveAt
<1>3. /\ before \in Seq(S) /\ Len(before) = i - 1
      /\ \A j \in 1..(i - 1) : before[j] = s[j]
  <2>1. 1 \in Int /\ i - 1 \in Int /\ \A j \in 1..(i - 1) : s[j] \in S
    BY <1>1
  <2> QED
    BY <2>1, SubSeqProperties
<1>4. /\ after \in Seq(S) /\ Len(after) = Len(s) - i
      /\ \A j \in 1..(Len(s) - i) : after[j] = s[i + j]
  <2>1. i + 1 \in Int /\ Len(s) \in Int /\ \A j \in (i + 1)..Len(s) : s[j] \in S
    BY <1>1
  <2> QED
    BY <1>1, <2>1, SubSeqProperties
<1>5. /\ before \o after \in Seq(S)
      /\ Len(before \o after) = Len(s) - 1
      /\ \A j \in 1..(Len(s) - 1) :
            (before \o after)[j] = IF j <= i - 1 THEN before[j] ELSE after[j - (i - 1)]
  <2> HIDE DEF before, after
  <2>1. /\ before \o after \in Seq(S)
        /\ Len(before \o after) = Len(before) + Len(after)
        /\ \A j \in 1..(Len(before) + Len(after)) :
              (before \o after)[j] = IF j <= Len(before) THEN before[j] ELSE after[j - Len(before)]
    BY <1>3, <1>4, ConcatProperties
  <2> QED
    BY <1>1, <1>3, <1>4, <2>1
<1> HIDE DEF before, after
<1>6. \A j \in 1..(Len(s) - 1) :
         (before \o after)[j] = IF j < i THEN s[j] ELSE s[j + 1]
  <2> SUFFICES ASSUME NEW j \in 1..(Len(s) - 1)
               PROVE  (before \o after)[j] = IF j < i THEN s[j] ELSE s[j + 1]
    OBVIOUS
  <2>1. CASE j < i
    BY <1>1, <1>3, <1>5, <2>1
  <2>2. CASE ~(j < i)
    <3>1. j - (i - 1) \in 1..(Len(s) - i) /\ i + (j - (i - 1)) = j + 1 /\ ~(j <= i - 1)
      BY <1>1, <2>2
    <3> QED
      BY <1>4, <1>5, <2>2, <3>1
  <2> QED
    BY <2>1, <2>2
<1> QED
  BY <1>2, <1>5, <1>6

UsedInOrder(s, u) == \A i, j \in 1..Len(s) : i < j => s[j] \in u[s[i]]

LEMMA KeysOnce ==
    ASSUME CacheInv
    PROVE  \A i, j \in 1..Len(entries) : entries[i] = entries[j] => i = j
<1> SUFFICES ASSUME NEW i \in 1..Len(entries), NEW j \in 1..Len(entries),
                    entries[i] = entries[j], i < j
             PROVE  FALSE
  BY DEF CacheInv, CacheTypeOK
<1>1. entries[j] \in used[entries[i]] /\ entries[i] \in CacheKeys
  BY ElementOfSeq DEF CacheInv, CacheTypeOK, OrderedByUse
<1> QED
  BY <1>1 DEF CacheInv, OrderedByUse

LEMMA Without ==
    ASSUME CacheInv, NEW k \in CacheKeys, NEW w, w = RemoveFirst(entries, k)
    PROVE  /\ w \in Seq(CacheKeys)
           /\ Len(w) = IF Cached(k) THEN Len(entries) - 1 ELSE Len(entries)
           /\ ToSet(w) = ToSet(entries) \ {k}
           /\ UsedInOrder(w, used)
<1>1. /\ entries \in Seq(CacheKeys) /\ Len(entries) \in Nat
      /\ UsedInOrder(entries, used)
      /\ ToSet(entries) = {entries[i] : i \in 1..Len(entries)}
  BY Members DEF CacheInv, CacheTypeOK, OrderedByUse, UsedInOrder
<1>2. CASE ~Cached(k)
  <2>1. w = entries
    BY <1>1, <1>2 DEF RemoveFirst, Cached
  <2> QED
    BY <1>1, <1>2, <2>1 DEF Cached
<1>3. CASE Cached(k)
  <2>1. PICK i \in 1..Len(entries) : entries[i] = k
    BY <1>1, <1>3 DEF Cached
  <2>2. \A j \in 1..Len(entries) : entries[j] = entries[i] => j = i
    BY KeysOnce
  <2>3. /\ w \in Seq(CacheKeys) /\ Len(w) = Len(entries) - 1
        /\ \A j \in 1..(Len(entries) - 1) : w[j] = IF j < i THEN entries[j] ELSE entries[j + 1]
    BY <1>1, <2>1, <2>2, Removed
  <2>4. UsedInOrder(w, used)
    BY <1>1, <2>3 DEF UsedInOrder
  <2>5. ToSet(w) = {w[j] : j \in 1..Len(w)}
    BY <2>3, Members
  <2>6. ToSet(w) \subseteq ToSet(entries) \ {k}
    BY <1>1, <2>1, <2>2, <2>3, <2>5
  <2>7. ASSUME NEW j \in 1..Len(entries), entries[j] # k
        PROVE  entries[j] \in ToSet(w)
    <3>1. CASE j < i
      BY <1>1, <2>3, <2>5, <3>1
    <3>2. CASE j > i
      <4>1. j - 1 \in 1..Len(w) /\ w[j - 1] = entries[j]
        BY <1>1, <2>3, <3>2
      <4> QED
        BY <2>5, <4>1
    <3> QED
      BY <1>1, <2>1, <2>7, <3>1, <3>2
  <2> QED
    BY <1>1, <1>3, <2>3, <2>4, <2>6, <2>7
<1> QED
  BY <1>2, <1>3

LEMMA Moved ==
    ASSUME CacheInv, NEW k \in CacheKeys, Use(k), NEW m, m = MoveToEnd(k)
    PROVE  /\ m \in Seq(CacheKeys) /\ Len(m) \in Nat
           /\ Len(m) = IF Cached(k) THEN Len(entries) ELSE Len(entries) + 1
           /\ m[Len(m)] = k
           /\ ToSet(m) = ToSet(entries) \cup {k}
           /\ UsedInOrder(m, used')
<1> DEFINE w == RemoveFirst(entries, k)
<1>1. /\ w \in Seq(CacheKeys)
      /\ Len(w) = IF Cached(k) THEN Len(entries) - 1 ELSE Len(entries)
      /\ ToSet(w) = ToSet(entries) \ {k} /\ UsedInOrder(w, used)
  BY Without
<1>2. m = Append(w, k)
  BY DEF MoveToEnd
<1>3. Len(w) \in Nat /\ Len(entries) \in Nat /\ \A i \in 1..Len(w) : w[i] \in CacheKeys
  BY <1>1, LenProperties, ElementOfSeq DEF CacheInv, CacheTypeOK
<1> HIDE DEF w
<1>4. /\ m \in Seq(CacheKeys) /\ Len(m) = Len(w) + 1
      /\ \A i \in 1..Len(w) : m[i] = w[i]
      /\ m[Len(w) + 1] = k
  BY <1>1, <1>2, AppendProperties
<1>5. ToSet(w) = {w[i] : i \in 1..Len(w)} /\ ToSet(m) = {m[i] : i \in 1..Len(m)}
  BY <1>1, <1>4, Members
<1>6. ToSet(m) = ToSet(w) \cup {k}
  BY <1>3, <1>4, <1>5
<1>7. UsedInOrder(m, used')
  <2> SUFFICES ASSUME NEW i \in 1..Len(m), NEW j \in 1..Len(m), i < j
               PROVE  m[j] \in used'[m[i]]
    BY DEF UsedInOrder
  <2>1. i \in 1..Len(w) /\ m[i] = w[i] /\ w[i] \in CacheKeys
    BY <1>3, <1>4
  <2>2. w[i] # k
    BY <1>1, <1>5, <2>1
  <2>3. used'[w[i]] = used[w[i]] \cup {k}
    BY <2>1, <2>2 DEF Use
  <2>4. CASE j = Len(m)
    BY <1>4, <2>1, <2>3, <2>4
  <2>5. CASE j # Len(m)
    BY <1>1, <1>3, <1>4, <2>1, <2>3, <2>5 DEF UsedInOrder
  <2> QED
    BY <2>4, <2>5
<1> QED
  BY <1>1, <1>3, <1>4, <1>6, <1>7

LEMMA UseKeepsCount ==
    ASSUME CacheInv, NEW k \in CacheKeys, Use(k)
    PROVE  /\ used' \in [CacheKeys -> SUBSET CacheKeys]
           /\ \A x \in CacheKeys : IsFiniteSet(used'[x]) /\ x \notin used'[x]
           /\ \A x \in CacheKeys \ {k} : Cardinality(used[x]) <= Cardinality(used'[x])
<1>1. used \in [CacheKeys -> SUBSET CacheKeys]
  BY DEF CacheInv, CacheTypeOK
<1>2. used' = [x \in CacheKeys |-> IF x = k THEN {} ELSE used[x] \cup {k}]
  BY DEF Use
<1>3. ASSUME NEW x \in CacheKeys \ {k}
      PROVE  /\ IsFiniteSet(used[x] \cup {k}) /\ x \notin used[x]
             /\ Cardinality(used[x]) <= Cardinality(used[x] \cup {k})
  <2>1. IsFiniteSet(used[x]) /\ x \notin used[x]
    BY DEF CacheInv, OrderedByUse
  <2>2. IsFiniteSet(used[x] \cup {k})
    BY <2>1, FS_AddElement
  <2> QED
    BY <2>1, <2>2, FS_Subset
<1>4. IsFiniteSet({})
  BY FS_EmptySet
<1> QED
  BY <1>1, <1>2, <1>3, <1>4

\* The key in front of a cache that is over its bound has seen them all used.
LEMMA FrontHasSeenAll ==
    ASSUME NEW s \in Seq(CacheKeys), NEW u, UsedInOrder(s, u), Len(s) = MaxEntries + 1,
           \A x \in CacheKeys : IsFiniteSet(u[x]) /\ x \notin u[x]
    PROVE  Cardinality(u[s[1]]) >= MaxEntries
<1> DEFINE seen == [j \in 1..MaxEntries |-> s[j + 1]]
<1>1. \A j \in 1..(MaxEntries + 1) : s[j] \in CacheKeys
  BY ElementOfSeq
<1>2. \A i, j \in 1..(MaxEntries + 1) : i < j => s[j] \in u[s[i]] /\ s[j] # s[i]
  BY <1>1 DEF UsedInOrder
<1>3. IsFiniteSet(u[s[1]])
  BY <1>1
<1>4. seen \in [1..MaxEntries -> u[s[1]]]
  BY <1>2
<1>5. \A i, j \in 1..MaxEntries : seen[i] = seen[j] => i = j
  <2> SUFFICES ASSUME NEW i \in 1..MaxEntries, NEW j \in 1..MaxEntries, seen[i] = seen[j], i # j
               PROVE  FALSE
    OBVIOUS
  <2>1. s[i + 1] = s[j + 1]
    OBVIOUS
  <2> QED
    BY <1>2, <2>1
<1>6. seen \in Injection(1..MaxEntries, u[s[1]])
  <2> HIDE DEF seen
  <2> QED
    BY <1>4, <1>5 DEF Injection, IsInjective
<1>7. Cardinality(1..MaxEntries) <= Cardinality(u[s[1]])
  <2> HIDE DEF seen
  <2> QED
    BY <1>3, <1>6, FS_Injection
<1>8. Cardinality(1..MaxEntries) = MaxEntries
  BY FS_Interval
<1>9. Cardinality(u[s[1]]) \in Nat
  BY <1>3, FS_CardinalityType
<1> QED
  BY <1>7, <1>8, <1>9

-----------------------------------------------------------------------------
(* The cache's invariant *)

LEMMA CacheStarts == CacheInit => CacheInv
<1> SUFFICES ASSUME CacheInit PROVE CacheInv
  OBVIOUS
<1>1. entries \in Seq(CacheKeys) /\ Len(entries) = 0
  BY EmptySeq DEF CacheInit
<1>2. \A k \in CacheKeys : used[k] = {} /\ age[k] = TTL + 1
  BY DEF CacheInit, Expired
<1>3. IsFiniteSet({})
  BY FS_EmptySet
<1> QED
  BY <1>1, <1>2, <1>3
     DEF CacheInit, CacheInv, CacheTypeOK, OrderedByUse, GoneForAReason, Expired

LEMMA HitKeepsInv ==
    ASSUME CacheInv, NEW r \in Asking, NEW k \in CacheKeys, Hit(r, k)
    PROVE  CacheInv'
<1>1. entries' = MoveToEnd(k) /\ Use(k) /\ Cached(k) /\ UNCHANGED <<age, calling>>
  BY DEF Hit, OrderAfterHit
<1>2. /\ entries' \in Seq(CacheKeys) /\ Len(entries') = Len(entries)
      /\ ToSet(entries') = ToSet(entries) \cup {k} /\ UsedInOrder(entries', used')
  BY <1>1, Moved
<1>3. CacheTypeOK' /\ OrderedByUse' /\ Len(entries') <= MaxEntries
  BY <1>1, <1>2, UseKeepsCount DEF CacheInv, CacheTypeOK, OrderedByUse, UsedInOrder
<1>4. GoneForAReason'
  <2> SUFFICES ASSUME NEW x \in CacheKeys, x \notin ToSet(entries'), age'[x] <= TTL
               PROVE  Cardinality(used'[x]) >= MaxEntries
    BY <1>3 DEF GoneForAReason, Cached, CacheTypeOK, Expired
  <2>1. x # k /\ ~Cached(x) /\ age[x] <= TTL
    BY <1>1, <1>2 DEF Cached
  <2>2. Cardinality(used[x]) >= MaxEntries
    BY <2>1 DEF CacheInv, CacheTypeOK, GoneForAReason, Expired
  <2>3. Cardinality(used[x]) <= Cardinality(used'[x])
    BY <1>1, <2>1, UseKeepsCount
  <2>4. Cardinality(used[x]) \in Nat /\ Cardinality(used'[x]) \in Nat
    BY <1>1, UseKeepsCount, FS_CardinalityType DEF CacheInv, OrderedByUse
  <2> QED
    BY <2>2, <2>3, <2>4
<1> QED
  BY <1>3, <1>4 DEF CacheInv

LEMMA MissKeepsInv ==
    ASSUME CacheInv, NEW r \in Asking, NEW k \in CacheKeys, Miss(r, k)
    PROVE  CacheInv'
<1>1. /\ entries' = RemoveFirst(entries, k) /\ calling' = [calling EXCEPT ![r] = k]
      /\ ~Cached(k) \/ age[k] > TTL
      /\ UNCHANGED <<age, used>>
  BY DEF Miss
<1>2. /\ entries' \in Seq(CacheKeys) /\ ToSet(entries') = ToSet(entries) \ {k}
      /\ Len(entries') = IF Cached(k) THEN Len(entries) - 1 ELSE Len(entries)
      /\ UsedInOrder(entries', used)
  BY <1>1, Without
<1>3. Len(entries') <= MaxEntries
  <2>1. Len(entries) \in Nat
    BY LenProperties DEF CacheInv, CacheTypeOK
  <2> QED
    BY <1>2, <2>1 DEF CacheInv
<1>4. CacheTypeOK' /\ OrderedByUse'
  BY <1>1, <1>2 DEF CacheInv, CacheTypeOK, OrderedByUse, UsedInOrder
<1>5. GoneForAReason'
  BY <1>1, <1>2 DEF CacheInv, GoneForAReason, Cached
<1> QED
  BY <1>3, <1>4, <1>5 DEF CacheInv

\* A key that a Store evicts is the front one, and every key that stays was used
\* since it was.
LEMMA StoreKeepsInv ==
    ASSUME CacheInv, NEW r \in Asking, Store(r)
    PROVE  CacheInv'
<1> DEFINE k == calling[r]
           m == MoveToEnd(k)
<1>1. /\ k \in CacheKeys /\ Use(k) /\ entries' = Evicted(m)
      /\ age' = [age EXCEPT ![k] = 0] /\ calling' = [calling EXCEPT ![r] = NotAsking]
  BY DEF Store, OrderAfterSet
<1>2. /\ m \in Seq(CacheKeys) /\ Len(m) \in Nat
      /\ Len(m) = IF Cached(k) THEN Len(entries) ELSE Len(entries) + 1
      /\ m[Len(m)] = k
      /\ ToSet(m) = ToSet(entries) \cup {k} /\ UsedInOrder(m, used')
      /\ ToSet(m) = {m[i] : i \in 1..Len(m)}
  BY <1>1, Moved, Members
<1>3. /\ used' \in [CacheKeys -> SUBSET CacheKeys]
      /\ \A x \in CacheKeys : IsFiniteSet(used'[x]) /\ x \notin used'[x]
      /\ \A x \in CacheKeys \ {k} : Cardinality(used[x]) <= Cardinality(used'[x])
  BY <1>1, UseKeepsCount
<1>4. Len(m) <= MaxEntries + 1 /\ Len(m) >= 1
  <2>1. Len(entries) \in Nat /\ Len(entries) <= MaxEntries
    BY LenProperties DEF CacheInv, CacheTypeOK
  <2>2. Cached(k) => Len(entries) >= 1
    BY <2>1, Members DEF CacheInv, CacheTypeOK, Cached
  <2> QED
    BY <1>2, <2>1, <2>2
<1>5. age' \in [CacheKeys -> 0..Expired] /\ age'[k] = 0
      /\ \A x \in CacheKeys \ {k} : age'[x] = age[x]
  BY <1>1 DEF CacheInv, CacheTypeOK, Expired
<1>6. calling' \in [Asking -> CacheKeys \cup {NoKey, NotAsking}]
  BY <1>1 DEF CacheInv, CacheTypeOK
<1>7. \A x \in CacheKeys : x # k /\ ~Cached(x) /\ age'[x] <= TTL =>
         Cardinality(used'[x]) >= MaxEntries
  <2> SUFFICES ASSUME NEW x \in CacheKeys, x # k, ~Cached(x), age[x] <= TTL
               PROVE  Cardinality(used'[x]) >= MaxEntries
    BY <1>5
  <2>1. Cardinality(used[x]) >= MaxEntries
    BY DEF CacheInv, CacheTypeOK, GoneForAReason, Expired
  <2>2. Cardinality(used[x]) \in Nat /\ Cardinality(used'[x]) \in Nat
    BY <1>3, FS_CardinalityType DEF CacheInv, OrderedByUse
  <2> QED
    BY <1>3, <2>1, <2>2
<1> HIDE DEF m, k
<1>8. CASE Len(m) <= MaxEntries
  <2>1. entries' = m
    <3>1. ~(Len(m) > MaxEntries)
      BY <1>2, <1>8
    <3> QED
      BY <1>1, <3>1, Zenon DEF Evicted
  <2>2. GoneForAReason'
    BY <1>2, <1>3, <1>5, <1>7, <2>1 DEF GoneForAReason, Cached, Expired
  <2> QED
    BY <1>2, <1>3, <1>5, <1>6, <1>8, <2>1, <2>2
       DEF CacheInv, CacheTypeOK, OrderedByUse, UsedInOrder
<1>9. CASE Len(m) = MaxEntries + 1
  <2> DEFINE kept == SubSeq(m, 2, Len(m))
  <2>1. entries' = kept
    <3>1. Len(m) > MaxEntries /\ Len(m) - MaxEntries + 1 = 2
      BY <1>9
    <3> QED
      BY <1>1, <3>1, Zenon DEF Evicted
  <2>2. /\ kept \in Seq(CacheKeys) /\ Len(kept) = MaxEntries
        /\ \A i \in 1..MaxEntries : kept[i] = m[i + 1]
    <3>1. 2 \in Int /\ Len(m) \in Int /\ \A i \in 2..Len(m) : m[i] \in CacheKeys
      BY <1>2, ElementOfSeq
    <3> QED
      BY <1>9, <3>1, SubSeqProperties
  <2>3. ToSet(kept) = {kept[i] : i \in 1..MaxEntries}
    BY <2>2, Members
  <2> HIDE DEF kept
  <2>4. UsedInOrder(kept, used')
    <3>1. \A i, j \in 1..Len(m) : i < j => m[j] \in used'[m[i]]
      BY <1>2 DEF UsedInOrder
    <3>2. MaxEntries \in Nat /\ Len(m) = MaxEntries + 1 /\ Len(kept) = MaxEntries
      BY <1>9, <2>2
    <3>3. ASSUME NEW i \in 1..MaxEntries, NEW j \in 1..MaxEntries, i < j
          PROVE  kept[j] \in used'[kept[i]]
      <4>1. i + 1 \in 1..Len(m) /\ j + 1 \in 1..Len(m) /\ i + 1 < j + 1
        BY <3>2, <3>3
      <4> QED
        BY <2>2, <3>1, <4>1
    <3> QED
      BY <3>2, <3>3 DEF UsedInOrder
  <2>5. ASSUME NEW x \in CacheKeys, x \notin ToSet(kept), age'[x] <= TTL
        PROVE  Cardinality(used'[x]) >= MaxEntries
    <3>1. k \in ToSet(kept)
      BY <1>2, <1>9, <2>2, <2>3
    <3>2. CASE x = m[1]
      BY <1>2, <1>3, <1>9, <3>2, FrontHasSeenAll
    <3>3. CASE x # m[1]
      <4>1. x \notin ToSet(m)
        <5> SUFFICES ASSUME NEW i \in 1..Len(m), x = m[i] PROVE FALSE
          BY <1>2
        <5>1. i - 1 \in 1..MaxEntries /\ kept[i - 1] = m[i]
          BY <1>9, <2>2, <3>3
        <5> QED
          BY <2>3, <2>5, <5>1
      <4> QED
        BY <1>2, <1>7, <2>5, <3>1, <4>1 DEF Cached
    <3> QED
      BY <3>2, <3>3
  <2>6. GoneForAReason'
    BY <1>5, <2>1, <2>5 DEF GoneForAReason, Cached, Expired
  <2> QED
    BY <1>3, <1>5, <1>6, <2>1, <2>2, <2>4, <2>6
       DEF CacheInv, CacheTypeOK, OrderedByUse, UsedInOrder
<1> QED
  BY <1>2, <1>4, <1>8, <1>9

LEMMA CacheKeepsInv == CacheInv /\ [CacheNext]_cacheVars => CacheInv'
<1> SUFFICES ASSUME CacheInv, [CacheNext]_cacheVars PROVE CacheInv'
  OBVIOUS
<1>1. ASSUME NEW r \in Asking, NEW k \in CacheKeys, Hit(r, k) \/ Miss(r, k)
      PROVE  CacheInv'
  BY <1>1, HitKeepsInv, MissKeepsInv
<1>2. ASSUME NEW r \in Asking, Store(r)
      PROVE  CacheInv'
  BY <1>2, StoreKeepsInv
<1>3. ASSUME NEW r \in Asking, Bypass(r) \/ EndUnstored(r)
      PROVE  CacheInv'
  BY <1>3 DEF Bypass, EndUnstored, CacheInv, CacheTypeOK, OrderedByUse, GoneForAReason, Cached
<1>4. CASE Age
  <2>1. /\ UNCHANGED <<entries, calling, used>>
        /\ age' \in [CacheKeys -> 0..Expired]
        /\ \A k \in CacheKeys : age'[k] >= age[k]
    BY <1>4 DEF Age, CacheInv, CacheTypeOK, Expired
  <2>2. \A k \in CacheKeys : age[k] > TTL => age'[k] > TTL
    BY <2>1 DEF CacheInv, CacheTypeOK, Expired
  <2> QED
    BY <2>1, <2>2 DEF CacheInv, CacheTypeOK, OrderedByUse, GoneForAReason, Cached
<1>5. CASE Clear
  <2>1. /\ entries' = <<>> /\ UNCHANGED <<calling, used>>
        /\ age' \in [CacheKeys -> 0..Expired]
        /\ \A k \in CacheKeys : age'[k] > TTL
    BY <1>5 DEF Clear, Expired
  <2>2. entries' \in Seq(CacheKeys) /\ Len(entries') = 0
    BY <2>1, EmptySeq
  <2> QED
    BY <2>1, <2>2 DEF CacheInv, CacheTypeOK, OrderedByUse, GoneForAReason
<1>6. CASE UNCHANGED cacheVars
  BY <1>6 DEF cacheVars, CacheInv, CacheTypeOK, OrderedByUse, GoneForAReason, Cached
<1> QED
  BY <1>1, <1>2, <1>3, <1>4, <1>5, <1>6 DEF CacheNext

\* Whatever lookups, answers that come late and expiries do in between, a key that
\* is not in the cache is too old, or the cache is full of keys used since (get, set).
THEOREM CacheInvariant == CacheSpec => []CacheInv
  BY CacheStarts, CacheKeepsInv, PTL DEF CacheSpec

\* The cache stays within max_entries, with each key once, the least recently used
\* one in front, where popitem takes it (get, set).
THEOREM CacheOrdered == CacheSpec => []LeastRecentFirst
<1>1. CacheInv => LeastRecentFirst
  BY DEF CacheInv, CacheTypeOK, OrderedByUse, LeastRecentFirst
<1> QED
  BY <1>1, CacheInvariant, PTL

\* A request misses a key only if its answer is older than the TTL, or as many
\* other keys as the cache holds were used since (get).
THEOREM NothingForgottenEarly == CacheSpec => NoEarlyMiss
<1> DEFINE Deserved(r, k) ==
      calling[r] = NotAsking /\ calling'[r] = k =>
         age[k] > TTL \/ Cardinality(used[k]) >= MaxEntries
<1>1. CacheInv /\ [CacheNext]_cacheVars
        => [\A r \in Asking, k \in CacheKeys : Deserved(r, k)]_cacheVars
  <2> SUFFICES ASSUME CacheInv, CacheNext, NEW r \in Asking, NEW k \in CacheKeys,
                      calling[r] = NotAsking, calling'[r] = k
               PROVE  age[k] > TTL \/ Cardinality(used[k]) >= MaxEntries
    OBVIOUS
  <2>1. calling \in [Asking -> CacheKeys \cup {NoKey, NotAsking}]
    BY DEF CacheInv, CacheTypeOK
  <2>2. Miss(r, k)
    <3>1. k # NotAsking /\ k # NoKey /\ calling' # calling
      OBVIOUS
    <3>2. ~Age /\ ~Clear /\ \A q \in Asking, x \in CacheKeys : ~Hit(q, x)
      BY <3>1 DEF Age, Clear, Hit
    <3>3. \A q \in Asking : ~Bypass(q) /\ ~Store(q) /\ ~EndUnstored(q)
      BY <2>1, <3>1 DEF Bypass, Store, EndUnstored
    <3>4. PICK q \in Asking, x \in CacheKeys : Miss(q, x)
      BY <3>2, <3>3 DEF CacheNext
    <3>5. calling' = [calling EXCEPT ![q] = x]
      BY <3>4 DEF Miss
    <3>6. q = r /\ x = k
      BY <2>1, <3>1, <3>5
    <3> QED
      BY <3>4, <3>6
  <2> QED
    BY <2>2 DEF Miss, CacheInv, GoneForAReason
<1> QED
  BY <1>1, CacheInvariant, PTL DEF CacheSpec, NoEarlyMiss

-----------------------------------------------------------------------------
(* Turns: what the index is taken modulo *)

\* Where every size of the pool divides what the index is counted by, the count
\* may start over without any key noticing.
LEMMA TurnsStartOver ==
    ASSUME NEW n \in Nat \ {0}, Turns % n = 0, NEW a \in Nat, NEW b \in Nat
    PROVE  ((a % Turns) + b) % n = (a + b) % n
<1> DEFINE q == a \div Turns
           p == Turns \div n
           r == a % Turns
<1>1. q \in Int /\ r \in 0..(Turns - 1) /\ a = Turns * q + r
  BY DivMod
<1>2. p \in Int /\ Turns = n * p
  BY DivMod
<1> HIDE DEF q, p, r
<1>3. p * q \in Int /\ a + b = (r + b) + n * (p * q)
  <2>1. Turns * q = n * (p * q)
    BY <1>1, <1>2, Z3
  <2> QED
    BY <1>1, <1>2, <2>1, Z3
<1>4. ((r + b) + n * (p * q)) % n = (r + b) % n
  <2>1. r + b \in Int /\ p * q \in Int
    BY <1>1, <1>3
  <2> QED
    BY <2>1, ModOfMultiple
<1> QED
  BY <1>3, <1>4 DEF r

LEMMA PoolSize ==
    ASSUME PoolTypeOK
    PROVE  /\ Len(keys) \in Nat /\ DOMAIN keys = 1..Len(keys)
           /\ \A i \in 1..Len(keys) : keys[i] \in ProviderKeys
           /\ ToSet(keys) = {keys[i] : i \in 1..Len(keys)}
           /\ Len(keys) # 0 => Turns % Len(keys) = 0
<1>1. /\ keys \in Seq(ProviderKeys) /\ Len(keys) \in Nat /\ DOMAIN keys = 1..Len(keys)
      /\ keys \in [1..Len(keys) -> ProviderKeys]
  BY LenProperties DEF PoolTypeOK
<1>2. keys \in Injection(1..Len(keys), ProviderKeys)
  BY <1>1 DEF PoolTypeOK, Injection
<1>3. Cardinality(1..Len(keys)) <= Cardinality(ProviderKeys)
  BY <1>2, FS_Injection
<1>4. Cardinality(1..Len(keys)) = Len(keys)
  BY <1>1, FS_Interval
<1>5. Cardinality(ProviderKeys) \in Nat
  BY FS_CardinalityType
<1>6. Len(keys) # 0 => Len(keys) \in 1..Cardinality(ProviderKeys)
  BY <1>1, <1>3, <1>4, <1>5
<1> QED
  BY <1>1, <1>6, Members

LEMMA TurnIsAKey ==
    ASSUME PoolTypeOK, Len(keys) # 0, NEW n \in Nat
    PROVE  InTurn(n) \in ToSet(keys) /\ InTurn(n) \in ProviderKeys
<1>1. index + n \in Int /\ Len(keys) \in Nat \ {0}
  BY PoolSize DEF PoolTypeOK
<1>2. (index + n) % Len(keys) \in 0..(Len(keys) - 1)
  BY <1>1, DivMod
<1>3. ((index + n) % Len(keys)) + 1 \in 1..Len(keys)
  BY <1>1, <1>2
<1> QED
  BY <1>3, PoolSize DEF InTurn

LEMMA EveryKeyHasATurn ==
    ASSUME PoolTypeOK, NEW k \in ToSet(keys)
    PROVE  \E n \in 1..Len(keys) : InTurn(n - 1) = k
<1>1. PICK i \in 1..Len(keys) : keys[i] = k
  BY PoolSize
<1>2. Len(keys) \in Nat \ {0} /\ index \in Int /\ i - 1 \in 0..(Len(keys) - 1)
  BY <1>1, PoolSize DEF PoolTypeOK
<1>3. PICK n \in 0..(Len(keys) - 1) : (index + n) % Len(keys) = i - 1
  BY <1>2, EveryRemainder
<1>4. n + 1 \in 1..Len(keys) /\ (n + 1) - 1 = n /\ (i - 1) + 1 = i
  BY <1>1, <1>2
<1> QED
  BY <1>1, <1>3, <1>4 DEF InTurn

\* The key that is given is the first available one of the turns to come.
LEMMA FirstAvailable ==
    ASSUME PoolTypeOK, Available # {}
    PROVE  /\ Advance \in 1..Len(keys)
           /\ InTurn(Advance - 1) \in Available
           /\ \A n \in 1..Len(keys) : n < Advance => InTurn(n - 1) \notin Available
<1> DEFINE T == {n \in 1..Len(keys) : InTurn(n - 1) \in Available}
<1>1. T \subseteq Nat
  BY PoolSize
<1>2. T # {}
  BY EveryKeyHasATurn DEF Available
<1>3. Min(T) \in T /\ \A y \in T : Min(T) <= y
  <2> HIDE DEF T
  <2> QED
    BY <1>1, <1>2, LeastOf
<1>4. Advance = Min(T)
  BY DEF Advance
<1>5. Min(T) \in Nat /\ \A n \in 1..Len(keys) : n \in Nat
  <2>1. Min(T) \in Nat
    BY <1>1, <1>3, Zenon
  <2> QED
    BY <2>1
<1>6. \A m, n \in Nat : n < m => ~(m <= n)
  OBVIOUS
<1>7. \A n \in 1..Len(keys) : n < Advance => n \notin T
  <2> HIDE DEF T
  <2> QED
    BY <1>3, <1>4, <1>5, <1>6
<1> QED
  BY <1>3, <1>4, <1>7

\* Where the turns are after the index has moved past some of them.
LEMMA TurnsMove ==
    ASSUME PoolTypeOK, NEW a \in 1..Len(keys), index' = After(a), keys' = keys,
           NEW n \in 1..Len(keys)
    PROVE  InTurn(n - 1)' = IF a + n <= Len(keys) THEN InTurn(a + n - 1)
                                                  ELSE InTurn(a + n - Len(keys) - 1)
<1> DEFINE size == Len(keys)
<1>1. size \in Nat \ {0} /\ index \in Nat /\ Turns % size = 0
  BY PoolSize DEF PoolTypeOK
<1>2. (index' + (n - 1)) % size = (index + (a + n - 1)) % size
  <2>1. index + a \in Nat /\ n - 1 \in Nat
    BY <1>1, PoolSize
  <2>2. (((index + a) % Turns) + (n - 1)) % size = ((index + a) + (n - 1)) % size
    <3> HIDE DEF size
    <3> QED
      BY <1>1, <2>1, TurnsStartOver
  <2>3. (index + a) + (n - 1) = index + (a + n - 1)
    BY <1>1, PoolSize
  <2> QED
    BY <2>2, <2>3 DEF After
<1>3. (index + (a + n - 1)) % size = (index + (a + n - size - 1)) % size
  <2> DEFINE x == index + (a + n - size - 1)
  <2>1. x \in Int /\ 1 \in Int /\ index + (a + n - 1) = x + size * 1
    BY <1>1, PoolSize
  <2>2. (x + size * 1) % size = x % size
    <3> HIDE DEF x, size
    <3> QED
      BY <1>1, <2>1, ModOfMultiple
  <2> QED
    BY <2>1, <2>2
<1> QED
  BY <1>2, <1>3 DEF InTurn

-----------------------------------------------------------------------------
(* The pool's invariant *)

LEMMA PoolStarts == PoolInit => PoolInv
<1> SUFFICES ASSUME PoolInit PROVE PoolInv
  OBVIOUS
<1>1. keys \in Seq(ProviderKeys) /\ Len(keys) = 0 /\ DOMAIN keys = {}
  BY EmptySeq, LenProperties DEF PoolInit
<1> QED
  BY <1>1 DEF PoolInit, PoolInv, PoolTypeOK, TurnsToCome, IsInjective

\* Each key that stays behind is one turn nearer for every key that is passed.
LEMMA GiveKeepsInv ==
    ASSUME PoolInv, NEW key, NEW a \in 1..Len(keys), Give(key, a),
           \A n \in 1..Len(keys) : n <= a => InTurn(n - 1) \notin Available \ {key}
    PROVE  PoolInv'
<1>0. PoolTypeOK /\ TurnsToCome
  BY DEF PoolInv
<1>1. /\ index' = After(a) /\ UNCHANGED <<keys, cooldown>>
      /\ passed' = [k \in ProviderKeys |-> IF k \in Available \ {key} THEN passed[k] + 1 ELSE 0]
  BY DEF Give
<1>2. Len(keys) \in Nat \ {0} /\ passed \in [ProviderKeys -> Nat] /\ index \in Nat
  BY <1>0, PoolSize DEF PoolTypeOK
<1>3. PoolTypeOK'
  <2>1. (index + a) % Turns \in 0..(Turns - 1)
    <3>1. index + a \in Int
      BY <1>2
    <3> QED
      BY <3>1, DivMod
  <2>2. passed' \in [ProviderKeys -> Nat]
    BY <1>1, <1>2
  <2> QED
    BY <1>0, <1>1, <2>1, <2>2 DEF PoolTypeOK, After
<1>4. ASSUME NEW n \in 1..Len(keys)
      PROVE  passed'[InTurn(n - 1)'] + n <= Len(keys)
  <2>1. CASE a + n <= Len(keys)
    <3> DEFINE k == InTurn((a + n) - 1)
    <3>1. InTurn(n - 1)' = k
      BY <1>0, <1>1, <1>2, <2>1, TurnsMove
    <3>2. a + n \in 1..Len(keys) /\ (a + n) - 1 \in Nat
      BY <1>2, <2>1
    <3>3. passed[k] + (a + n) <= Len(keys)
      BY <1>0, <3>2 DEF TurnsToCome
    <3>4. k \in ProviderKeys
      BY <1>0, <1>2, <3>2, TurnIsAKey
    <3> HIDE DEF k
    <3>5. passed[k] \in Nat /\ passed'[k] \in Nat /\ passed'[k] <= passed[k] + 1
      BY <1>1, <1>2, <3>4
    <3> QED
      BY <1>2, <3>1, <3>3, <3>5
  <2>2. CASE a + n > Len(keys)
    <3> DEFINE m == a + n - Len(keys)
               k == InTurn(m - 1)
    <3>1. InTurn(n - 1)' = k
      BY <1>0, <1>1, <1>2, <2>2, TurnsMove
    <3>2. m \in 1..Len(keys) /\ m <= a /\ m - 1 \in Nat
      BY <1>2, <2>2
    <3>3. k \in ProviderKeys /\ k \notin Available \ {key}
      <4> HIDE DEF m
      <4> QED
        BY <1>0, <1>2, <3>2, TurnIsAKey
    <3> HIDE DEF k
    <3>4. passed'[k] = 0
      BY <1>1, <3>3
    <3> QED
      BY <1>2, <3>1, <3>4
  <2> QED
    BY <1>2, <2>1, <2>2
<1>5. TurnsToCome'
  BY <1>1, <1>4 DEF TurnsToCome
<1> QED
  BY <1>3, <1>5 DEF PoolInv

LEMMA AddKeepsInv ==
    ASSUME PoolInv, NEW k \in ProviderKeys, AddKey(k)
    PROVE  PoolInv'
<1>1. /\ k \notin ToSet(keys) /\ keys' = Append(keys, k) /\ UNCHANGED <<cooldown, index>>
      /\ passed' = [x \in ProviderKeys |-> 0] /\ PoolTypeOK
  BY DEF AddKey, PoolInv
<1>2. /\ keys' \in Seq(ProviderKeys) /\ Len(keys') = Len(keys) + 1
      /\ \A i \in 1..Len(keys) : keys'[i] = keys[i]
      /\ keys'[Len(keys) + 1] = k
  BY <1>1, AppendProperties DEF PoolTypeOK
<1>3. /\ Len(keys) \in Nat /\ DOMAIN keys = 1..Len(keys) /\ DOMAIN keys' = 1..Len(keys')
      /\ ToSet(keys) = {keys[i] : i \in 1..Len(keys)}
  BY <1>1, <1>2, PoolSize, LenProperties
<1>4. IsInjective(keys')
  <2> SUFFICES ASSUME NEW i \in 1..Len(keys'), NEW j \in 1..Len(keys'), keys'[i] = keys'[j]
               PROVE  i = j
    BY <1>3 DEF IsInjective
  <2>1. CASE i \in 1..Len(keys) /\ j \in 1..Len(keys)
    BY <1>1, <1>2, <1>3, <2>1 DEF PoolTypeOK, IsInjective
  <2>2. CASE i = Len(keys) + 1 \/ j = Len(keys) + 1
    BY <1>1, <1>2, <1>3, <2>2
  <2> QED
    BY <1>2, <1>3, <2>1, <2>2
<1>5. PoolTypeOK'
  BY <1>1, <1>2, <1>4 DEF PoolTypeOK
<1>6. TurnsToCome'
  <2> SUFFICES ASSUME NEW n \in 1..Len(keys')
               PROVE  passed'[InTurn(n - 1)'] + n <= Len(keys')
    BY DEF TurnsToCome
  <2>1. Len(keys') # 0 /\ n - 1 \in Nat
    BY <1>2, <1>3
  <2>2. InTurn(n - 1)' \in ProviderKeys
    <3> DEFINE place == (index' + (n - 1)) % Len(keys')
    <3>1. index' + (n - 1) \in Int /\ Len(keys') \in Nat \ {0}
      BY <1>1, <1>2, <1>3 DEF PoolTypeOK
    <3>2. place \in 0..(Len(keys') - 1)
      BY <3>1, DivMod
    <3>3. place + 1 \in 1..Len(keys')
      BY <3>1, <3>2
    <3>4. \A i \in 1..Len(keys') : keys'[i] \in ProviderKeys
      BY <1>2, ElementOfSeq
    <3> QED
      BY <3>3, <3>4 DEF InTurn
  <2> QED
    BY <1>1, <1>2, <1>3, <2>2
<1> QED
  BY <1>5, <1>6 DEF PoolInv

LEMMA PoolKeepsInv == PoolInv /\ [PoolNext]_poolVars => PoolInv'
<1> SUFFICES ASSUME PoolInv, [PoolNext]_poolVars PROVE PoolInv'
  OBVIOUS
<1>0. PoolTypeOK
  BY DEF PoolInv
<1>1. CASE GetNextKey
  <2>1. Available # {} /\ Give(InTurn(Advance - 1), Advance)
    BY <1>1 DEF GetNextKey
  <2>2. /\ Advance \in 1..Len(keys)
        /\ \A n \in 1..Len(keys) : n < Advance => InTurn(n - 1) \notin Available
    BY <1>0, <2>1, FirstAvailable
  <2>3. \A n \in 1..Len(keys) : n <= Advance =>
           InTurn(n - 1) \notin Available \ {InTurn(Advance - 1)}
    BY <2>2
  <2> QED
    <3> DEFINE a == Advance
    <3> HIDE DEF a
    <3> QED
      BY <2>1, <2>2, <2>3, GiveKeepsInv DEF a
<1>2. CASE GetSoonest
  <2>1. keys # <<>> /\ Available = {} /\ Give(keys[Soonest], Len(keys))
    BY <1>2 DEF GetSoonest
  <2>2. Len(keys) \in 1..Len(keys)
    BY <1>0, <2>1, EmptySeq DEF PoolTypeOK
  <2> QED
    BY <2>1, <2>2, GiveKeepsInv
<1>3. ASSUME NEW k \in ProviderKeys, AddKey(k)
      PROVE  PoolInv'
  BY <1>3, AddKeepsInv
<1>4. ASSUME UNCHANGED <<keys, index, passed>>, cooldown' \in [ProviderKeys -> 0..MaxCooldown]
      PROVE  PoolInv'
  BY <1>4 DEF PoolInv, PoolTypeOK, TurnsToCome, InTurn
<1>5. ASSUME NEW k \in ProviderKeys, MarkRateLimited(k)
      PROVE  PoolInv'
  BY <1>0, <1>4, <1>5 DEF MarkRateLimited, PoolTypeOK
<1>6. CASE CoolDown
  BY <1>0, <1>4, <1>6 DEF CoolDown, PoolTypeOK
<1>7. CASE UNCHANGED poolVars
  BY <1>0, <1>4, <1>7 DEF poolVars, PoolTypeOK
<1> QED
  BY <1>1, <1>2, <1>3, <1>5, <1>6, <1>7 DEF PoolNext

\* Of the keys of the pool each has been passed over at most as often as there are
\* turns before its own (get_next_key, add_key).
THEOREM PoolInvariant == PoolSpec => []PoolInv
  BY PoolStarts, PoolKeepsInv, PTL DEF PoolSpec

\* A key that is available is given before the others have been given once each,
\* whichever keys cool down in between (get_next_key).
THEOREM EveryKeyIsGiven == PoolSpec => []EveryKeyInTurn
<1>1. PoolInv => EveryKeyInTurn
  <2> SUFFICES ASSUME PoolInv, NEW k \in ToSet(keys) PROVE passed[k] < Len(keys)
    BY DEF EveryKeyInTurn
  <2>1. PoolTypeOK /\ TurnsToCome
    BY DEF PoolInv
  <2>2. PICK n \in 1..Len(keys) : InTurn(n - 1) = k
    BY <2>1, EveryKeyHasATurn
  <2>3. passed[k] + n <= Len(keys) /\ Len(keys) \in Nat /\ passed[k] \in Nat
    BY <2>1, <2>2, PoolSize DEF PoolTypeOK, TurnsToCome
  <2> QED
    BY <2>3
<1> QED
  BY <1>1, PoolInvariant, PTL

=============================================================================
