------------------------- MODULE AnswerStreamProofs -------------------------
(***************************************************************************)
(* The output filters, for every length of the model's text and of its     *)
(* pieces and every bound: type correctness, no leaked phrase in the       *)
(* client's text, and, of the texts that are Plain, that a filtered stream *)
(* is the filtered whole.                                                  *)
(***************************************************************************)
EXTENDS AnswerStream, TallyProofs, SequenceTheorems

Symbols == Chars \cup {Redacted, Restored}
Masked  == Chars \cup {Redacted}
Marks   == Symbols \cup {Nothing}

-----------------------------------------------------------------------------
(* Marked: which marks stay, and where *)

Before(marks, i) == Cardinality({j \in Kept(marks) : j < i})

LEMMA KeptIs ==
    ASSUME NEW marks \in Seq(Marks)
    PROVE  /\ Len(marks) \in Nat /\ DOMAIN marks = 1..Len(marks)
           /\ Kept(marks) = {i \in 1..Len(marks) : marks[i] # Nothing}
           /\ IsFiniteSet(Kept(marks)) /\ Cardinality(Kept(marks)) \in Nat
<1>1. Len(marks) \in Nat /\ DOMAIN marks = 1..Len(marks)
  BY LenProperties
<1>2. IsFiniteSet(1..Len(marks))
  BY <1>1, FS_Interval
<1>3. Kept(marks) \in SUBSET (1..Len(marks))
  BY <1>1 DEF Kept
<1>4. IsFiniteSet(Kept(marks))
  BY <1>2, <1>3, FS_Subset
<1> QED
  BY <1>1, <1>4, FS_CardinalityType DEF Kept

\* Counting the smaller members numbers a finite set of integers.
LEMMA SmallerMembers ==
    ASSUME NEW K, IsFiniteSet(K), K \subseteq Int
    PROVE  /\ \A i \in K : Cardinality({j \in K : j < i}) \in 0..(Cardinality(K) - 1)
           /\ \A i, j \in K : Cardinality({l \in K : l < i}) = Cardinality({l \in K : l < j})
                 => i = j
           /\ \A n \in 1..Cardinality(K) :
                 \E i \in K : Cardinality({j \in K : j < i}) = n - 1
<1> DEFINE R == {p \in K \X K : p[1] < p[2]}
<1>1. \A i \in K : Place(R, K, i) = Cardinality({j \in K : j < i})
  <2> SUFFICES ASSUME NEW i \in K PROVE Earlier(R, K, i) = {j \in K : j < i}
    BY DEF Place
  <2> QED
    BY DEF Earlier
<1>2. StrictlyOrders(R, K)
  <2>1. \A a, b \in K : <<a, b>> \in R <=> a < b
    OBVIOUS
  <2> HIDE DEF R
  <2>2. /\ \A a \in K : <<a, a>> \notin R
        /\ \A a, b \in K : a = b \/ <<a, b>> \in R \/ <<b, a>> \in R
    BY <2>1
  <2>3. \A a, b, c \in K : <<a, b>> \in R /\ <<b, c>> \in R => <<a, c>> \in R
    BY <2>1
  <2> QED
    BY <2>2, <2>3 DEF StrictlyOrders
<1> HIDE DEF R
<1>3. /\ \A i \in K : Place(R, K, i) \in 0..(Cardinality(K) - 1)
      /\ \A i, j \in K : Place(R, K, i) = Place(R, K, j) => i = j
  BY <1>2, DistinctPlaces
<1>4. ASSUME NEW n \in 1..Cardinality(K)
      PROVE  \E i \in K : Place(R, K, i) = n - 1
  BY <1>2, DistinctPlaces
<1> QED
  BY <1>1, <1>3, <1>4

LEMMA PicksAre ==
    ASSUME NEW marks \in Seq(Marks)
    PROVE  /\ \A i \in Kept(marks) : Before(marks, i) \in 0..(Cardinality(Kept(marks)) - 1)
           /\ \A i, j \in Kept(marks) : Before(marks, i) = Before(marks, j) => i = j
           /\ \A n \in 1..Cardinality(Kept(marks)) :
                 /\ Pick(marks, n) \in Kept(marks)
                 /\ Before(marks, Pick(marks, n)) = n - 1
<1> DEFINE K == Kept(marks)
<1>1. IsFiniteSet(K) /\ K \subseteq Int
  BY KeptIs
<1> HIDE DEF K
<1> DEFINE Smaller(i) == Cardinality({j \in K : j < i})
<1>2. \A i : Smaller(i) = Before(marks, i)
  BY DEF Before, K
<1>a. \A i \in K : Smaller(i) \in 0..(Cardinality(K) - 1)
  BY <1>1, SmallerMembers
<1>b. \A i, j \in K : Smaller(i) = Smaller(j) => i = j
  BY <1>1, SmallerMembers
<1>c. ASSUME NEW n \in 1..Cardinality(K)
      PROVE  \E i \in K : Smaller(i) = n - 1
  <2>1. \A m \in 1..Cardinality(K) : \E i \in K : Cardinality({j \in K : j < i}) = m - 1
    BY ONLY <1>1, SmallerMembers, Zenon
  <2> QED
    BY <1>c, <2>1
<1> HIDE DEF Smaller
<1>3. /\ \A i \in K : Before(marks, i) \in 0..(Cardinality(K) - 1)
      /\ \A i, j \in K : Before(marks, i) = Before(marks, j) => i = j
      /\ \A n \in 1..Cardinality(K) : \E i \in K : Before(marks, i) = n - 1
  BY <1>2, <1>a, <1>b, <1>c
<1>4. ASSUME NEW n \in 1..Cardinality(K)
      PROVE  Pick(marks, n) \in K /\ Before(marks, Pick(marks, n)) = n - 1
  <2>1. \E i \in K : Before(marks, i) = n - 1
    BY <1>3
  <2>2. Pick(marks, n) = CHOOSE i \in K : Before(marks, i) = n - 1
    BY DEF Pick, Before, K
  <2> QED
    BY <2>1, <2>2, Zenon
<1> QED
  BY <1>3, <1>4 DEF K

LEMMA MarkedIs ==
    ASSUME NEW marks \in Seq(Marks)
    PROVE  /\ Marked(marks) \in Seq(Symbols)
           /\ Len(Marked(marks)) = Cardinality(Kept(marks))
           /\ \A n \in 1..Cardinality(Kept(marks)) :
                 Marked(marks)[n] = marks[Pick(marks, n)]
<1> DEFINE N == Cardinality(Kept(marks))
           out == [n \in 1..N |-> marks[Pick(marks, n)]]
<1>1. N \in Nat
  BY KeptIs
<1>2. \A n \in 1..N : marks[Pick(marks, n)] \in Symbols
  <2> SUFFICES ASSUME NEW n \in 1..N PROVE marks[Pick(marks, n)] \in Symbols
    OBVIOUS
  <2>1. Pick(marks, n) \in Kept(marks)
    BY PicksAre
  <2>2. Pick(marks, n) \in 1..Len(marks) /\ marks[Pick(marks, n)] # Nothing
    BY <2>1, KeptIs
  <2>3. marks[Pick(marks, n)] \in Marks
    BY <2>2, ElementOfSeq
  <2> QED
    BY <2>2, <2>3 DEF Marks
<1> HIDE DEF N
<1>3. out \in [1..N -> Symbols]
  BY <1>2
<1>4. out \in Seq(Symbols) /\ Len(out) = N
  BY <1>1, <1>3
<1>5. Marked(marks) = out
  BY DEF Marked, N
<1> QED
  BY <1>4, <1>5 DEF N

\* Of two marks that stay, the earlier one has fewer before it.
LEMMA BeforeLess ==
    ASSUME NEW marks \in Seq(Marks), NEW i \in Kept(marks), NEW j \in Int, i < j
    PROVE  /\ Before(marks, i) \in Nat /\ Before(marks, j) \in Nat
           /\ Before(marks, i) < Before(marks, j)
<1> DEFINE K == Kept(marks)
           A == {k \in K : k < i}
           B == {k \in K : k < j}
<1>1. IsFiniteSet(K) /\ K \subseteq Int
  BY KeptIs
<1>2. A \in SUBSET (B \ {i}) /\ i \in B /\ A \in SUBSET K /\ B \in SUBSET K
  BY <1>1
<1>3. IsFiniteSet(A) /\ IsFiniteSet(B)
  BY <1>1, <1>2, FS_Subset
<1>4. Cardinality(A) \in Nat /\ Cardinality(B) \in Nat
  BY <1>3, FS_CardinalityType
<1>5. IsFiniteSet(B \ {i}) /\ Cardinality(B \ {i}) = Cardinality(B) - 1
  BY <1>2, <1>3, FS_RemoveElement
<1>6. Cardinality(A) <= Cardinality(B) - 1
  BY <1>2, <1>5, FS_Subset
<1> HIDE DEF A, B
<1>7. Cardinality(A) < Cardinality(B)
  BY <1>4, <1>6
<1> QED
  BY <1>4, <1>7 DEF Before, A, B

\* One place further in the output is the next mark that stays.
LEMMA NextPick ==
    ASSUME NEW marks \in Seq(Marks), NEW n \in Int,
           n \in 1..Len(Marked(marks)), n + 1 \in 1..Len(Marked(marks))
    PROVE  /\ Pick(marks, n) < Pick(marks, n + 1)
           /\ \A j \in 1..Len(marks) :
                 Pick(marks, n) < j /\ j < Pick(marks, n + 1) => marks[j] = Nothing
<1> DEFINE K == Kept(marks)
           a == Pick(marks, n)
           b == Pick(marks, n + 1)
<1>1. K \subseteq Int
  BY KeptIs
<1>2. a \in K /\ b \in K /\ Before(marks, a) = n - 1 /\ Before(marks, b) = n
  <2>1. n \in 1..Cardinality(K) /\ n + 1 \in 1..Cardinality(K)
    BY MarkedIs
  <2>2. Before(marks, b) = (n + 1) - 1
    BY <2>1, PicksAre
  <2> QED
    BY <2>1, <2>2, PicksAre
<1> HIDE DEF a, b
<1>3. a < b
  <2>1. a # b
    BY <1>2
  <2>2. ~(b < a)
    <3> SUFFICES ASSUME b < a PROVE FALSE
      OBVIOUS
    <3>1. Before(marks, b) < Before(marks, a)
      BY <1>1, <1>2, BeforeLess
    <3> QED
      BY <1>2, <3>1
  <2> QED
    BY <1>1, <1>2, <2>1, <2>2
<1>4. ASSUME NEW j \in 1..Len(marks), a < j, j < b, marks[j] # Nothing
      PROVE  FALSE
  <2>1. j \in K
    BY <1>4, KeptIs
  <2>2. /\ Before(marks, a) < Before(marks, j) /\ Before(marks, j) < Before(marks, b)
        /\ Before(marks, j) \in Nat
    BY <1>1, <1>2, <1>4, <2>1, BeforeLess
  <2> QED
    BY <1>2, <2>2
<1> QED
  BY <1>3, <1>4 DEF a, b

LEMMA ShiftedCount ==
    ASSUME NEW K, IsFiniteSet(K), K \subseteq Int, NEW n \in Int
    PROVE  /\ IsFiniteSet({n + k : k \in K})
           /\ Cardinality({n + k : k \in K}) = Cardinality(K)
<1> DEFINE T == {n + k : k \in K}
           f == [k \in K |-> n + k]
<1>1. f \in [K -> T] /\ \A k \in K : f[k] = n + k
  OBVIOUS
<1>2. \A t \in T : \E k \in K : f[k] = t
  OBVIOUS
<1> HIDE DEF f
<1>3. \A j, k \in K : f[j] = f[k] => j = k
  BY <1>1
<1> HIDE DEF T
<1>4. f \in Injection(K, T)
  BY <1>1, <1>3 DEF Injection, IsInjective
<1>5. f \in Surjection(K, T)
  BY <1>1, <1>2 DEF Surjection
<1>6. ExistsBijection(K, T)
  BY <1>4, <1>5 DEF ExistsBijection, Bijection
<1>7. IsFiniteSet(T) /\ Cardinality(T) = Cardinality(K)
  BY <1>6, FS_Bijection
<1> QED
  BY <1>7 DEF T

\* Where nothing is dropped the output is the input.
LEMMA MarkedAll ==
    ASSUME NEW marks \in Seq(Symbols)
    PROVE  Marked(marks) = marks
<1>1. marks \in Seq(Marks)
  BY SeqMonotonic DEF Marks
<1>2. \A i \in 1..Len(marks) : marks[i] \in Symbols /\ marks[i] # Nothing
  <2>1. \A i \in 1..Len(marks) : marks[i] \in Symbols
    BY ElementOfSeq
  <2>2. Nothing \notin Symbols
    BY DEF Symbols, Chars, Redacted, Restored, Nothing
  <2> QED
    BY <2>1, <2>2
<1> DEFINE n == Len(marks)
<1>3. n \in Nat /\ Kept(marks) = 1..n
  BY <1>1, <1>2, KeptIs
<1>4. Cardinality(Kept(marks)) = n
  BY <1>3, FS_Interval
<1>5. Marked(marks) \in Seq(Symbols) /\ Len(Marked(marks)) = n
  BY <1>1, <1>4, MarkedIs
<1>6. ASSUME NEW i \in 1..n PROVE Marked(marks)[i] = marks[i]
  <2>1. Pick(marks, i) \in 1..n /\ Before(marks, Pick(marks, i)) = i - 1
    BY <1>1, <1>3, <1>4, PicksAre
  <2> DEFINE p == Pick(marks, i)
  <2>2. {j \in Kept(marks) : j < p} = 1..(p - 1)
    BY <1>3, <2>1
  <2> HIDE DEF p
  <2>3. p \in 1..n
    BY <2>1 DEF p
  <2>4. Cardinality(1..(p - 1)) = p - 1
    BY <1>3, <2>3, FS_Interval
  <2>5. Before(marks, p) = p - 1
    BY <2>2, <2>4 DEF Before
  <2>6. Before(marks, p) = i - 1
    BY <2>1 DEF p
  <2>7. p = i
    BY <1>3, <2>3, <2>5, <2>6
  <2> QED
    BY <1>1, <1>4, <2>7, MarkedIs DEF p
<1> QED
  BY <1>5, <1>6, SeqEqual

LEMMA BeforeBound ==
    ASSUME NEW marks \in Seq(Marks), NEW i \in Kept(marks)
    PROVE  i \in Int /\ Before(marks, i) \in Nat
           /\ Before(marks, i) < Cardinality(Kept(marks))
<1>1. Cardinality(Kept(marks)) \in Nat /\ i \in Int
  BY KeptIs
<1>2. Before(marks, i) \in 0..(Cardinality(Kept(marks)) - 1)
  BY PicksAre
<1> QED
  BY <1>1, <1>2

\* A mark that stays is where as many marks as stay before it put it.
LEMMA PickOf ==
    ASSUME NEW marks \in Seq(Marks), NEW i \in Kept(marks), NEW n \in Int,
           n = Before(marks, i) + 1
    PROVE  n \in 1..Len(Marked(marks)) /\ Pick(marks, n) = i /\ Marked(marks)[n] = marks[i]
<1> DEFINE N == Cardinality(Kept(marks))
<1>1. N \in Nat /\ Before(marks, i) \in Nat /\ Before(marks, i) < N
  BY KeptIs, BeforeBound
<1> HIDE DEF N
<1>2. n \in 1..N /\ n - 1 = Before(marks, i)
  BY <1>1
<1>3. Pick(marks, n) \in Kept(marks) /\ Before(marks, Pick(marks, n)) = Before(marks, i)
  BY <1>2, PicksAre DEF N
<1>4. Pick(marks, n) = i
  BY <1>3, PicksAre
<1> QED
  BY <1>2, <1>4, MarkedIs DEF N

LEMMA ConcatKept ==
    ASSUME NEW a \in Seq(Marks), NEW b \in Seq(Marks)
    PROVE  /\ a \o b \in Seq(Marks)
           /\ \A i \in Kept(a) : /\ i \in Kept(a \o b) /\ (a \o b)[i] = a[i]
                                 /\ Before(a \o b, i) = Before(a, i)
           /\ \A j \in Kept(b) : /\ Len(a) + j \in Kept(a \o b)
                                 /\ (a \o b)[Len(a) + j] = b[j]
                                 /\ Before(a \o b, Len(a) + j) = Cardinality(Kept(a)) + Before(b, j)
           /\ Cardinality(Kept(a \o b)) = Cardinality(Kept(a)) + Cardinality(Kept(b))
<1> DEFINE m == a \o b
           L == Len(a)
           Shifted(K) == {L + k : k \in K}
<1>1. /\ L \in Nat /\ Len(b) \in Nat
      /\ m \in Seq(Marks) /\ Len(m) = L + Len(b)
      /\ \A i \in 1..L : m[i] = a[i]
      /\ \A j \in 1..Len(b) : m[L + j] = b[j]
  <2>1. L \in Nat /\ Len(b) \in Nat
    BY LenProperties
  <2>2. m \in Seq(Marks) /\ Len(m) = L + Len(b)
    BY ConcatProperties
  <2>3. \A i \in 1..(L + Len(b)) : m[i] = IF i <= L THEN a[i] ELSE b[i - L]
    BY ConcatProperties
  <2> HIDE DEF m, L
  <2>4. \A i \in 1..L : m[i] = a[i]
    BY <2>1, <2>3
  <2>5. ASSUME NEW j \in 1..Len(b) PROVE m[L + j] = b[j]
    <3>1. L + j \in 1..(L + Len(b)) /\ ~(L + j <= L) /\ (L + j) - L = j
      BY <2>1
    <3> QED
      BY <2>3, <3>1
  <2> QED
    BY <2>1, <2>2, <2>4, <2>5
<1>2. /\ Kept(m) = {i \in 1..(L + Len(b)) : m[i] # Nothing}
      /\ Kept(a) = {i \in 1..L : a[i] # Nothing}
      /\ Kept(b) = {i \in 1..Len(b) : b[i] # Nothing}
  BY <1>1, KeptIs
<1>3. /\ IsFiniteSet(Kept(a)) /\ IsFiniteSet(Kept(b))
      /\ Kept(a) \subseteq Int /\ Kept(b) \subseteq Int
  BY KeptIs
<1> HIDE DEF m, L
<1>4. Kept(m) = Kept(a) \cup Shifted(Kept(b)) /\ Kept(a) \subseteq 1..L
  <2>1. ASSUME NEW i \in Kept(m) PROVE i \in Kept(a) \/ i \in Shifted(Kept(b))
    <3>1. CASE i <= L
      BY <1>1, <1>2, <3>1
    <3>2. CASE ~(i <= L)
      <4>1. i - L \in 1..Len(b) /\ i = L + (i - L)
        BY <1>1, <1>2, <3>2
      <4>2. i - L \in Kept(b)
        BY <1>1, <1>2, <4>1
      <4> QED
        BY <4>1, <4>2
    <3> QED
      BY <3>1, <3>2
  <2>2. ASSUME NEW i \in Kept(a) PROVE i \in Kept(m)
    BY <1>1, <1>2
  <2>3. ASSUME NEW j \in Kept(b) PROVE L + j \in Kept(m)
    <3>1. j \in 1..Len(b) /\ L + j \in 1..(L + Len(b)) /\ m[L + j] = b[j] /\ b[j] # Nothing
      BY <1>1, <1>2
    <3> QED
      BY <1>2, <3>1
  <2>4. Kept(a) \subseteq 1..L
    BY <1>2
  <2> QED
    BY <2>1, <2>2, <2>3, <2>4
<1>5. ASSUME NEW i \in Kept(a)
      PROVE  i \in Kept(m) /\ m[i] = a[i] /\ Before(m, i) = Before(a, i)
  <2>1. {j \in Kept(m) : j < i} = {j \in Kept(a) : j < i}
    <3>1. \A j \in Shifted(Kept(b)) : ~(j < i)
      BY <1>1, <1>2
    <3> QED
      BY <1>4, <3>1
  <2> QED
    BY <1>1, <1>4, <2>1 DEF Before
<1>6. ASSUME NEW B \in SUBSET Kept(b)
      PROVE  Cardinality(Kept(a) \cup Shifted(B)) = Cardinality(Kept(a)) + Cardinality(B)
  <2>1. IsFiniteSet(B) /\ B \subseteq Int
    BY <1>3, FS_Subset
  <2>2. IsFiniteSet(Shifted(B)) /\ Cardinality(Shifted(B)) = Cardinality(B)
    <3>1. L \in Int
      BY <1>1
    <3> QED
      BY <2>1, <3>1, ShiftedCount
  <2>3. Kept(a) \cap Shifted(B) = {}
    BY <1>1, <1>2
  <2>4. Cardinality(Kept(a) \cap Shifted(B)) = 0
    BY <2>3, FS_EmptySet
  <2> HIDE DEF Shifted
  <2>5. Cardinality(Kept(a)) \in Nat /\ Cardinality(B) \in Nat
    BY <1>3, <2>1, FS_CardinalityType
  <2>6. Cardinality(Kept(a) \cup Shifted(B)) =
          Cardinality(Kept(a)) + Cardinality(Shifted(B)) - Cardinality(Kept(a) \cap Shifted(B))
    BY <1>3, <2>2, FS_Union
  <2> QED
    BY <2>2, <2>4, <2>5, <2>6
<1>7. ASSUME NEW j \in Kept(b)
      PROVE  /\ L + j \in Kept(m) /\ m[L + j] = b[j]
             /\ Before(m, L + j) = Cardinality(Kept(a)) + Before(b, j)
  <2> DEFINE B == {k \in Kept(b) : k < j}
  <2>1. {k \in Kept(m) : k < L + j} = Kept(a) \cup Shifted(B)
    <3>1. \A k \in Kept(a) : k < L + j
      BY <1>1, <1>2
    <3>2. \A k \in Kept(b) : L + k < L + j <=> k < j
      BY <1>1, <1>3
    <3> QED
      BY <1>4, <3>1, <3>2
  <2>2. L + j \in Kept(m)
    BY <1>4
  <2>3. m[L + j] = b[j]
    BY <1>1, <1>2
  <2>4. B \in SUBSET Kept(b)
    OBVIOUS
  <2> HIDE DEF B, Shifted
  <2>5. Cardinality({k \in Kept(m) : k < L + j}) = Cardinality(Kept(a)) + Cardinality(B)
    BY <1>6, <2>1, <2>4
  <2> QED
    BY <2>2, <2>3, <2>5 DEF Before, B
<1>8. Cardinality(Kept(m)) = Cardinality(Kept(a)) + Cardinality(Kept(b))
  <2> HIDE DEF Shifted
  <2> QED
    BY <1>4, <1>6
<1> QED
  BY <1>1, <1>5, <1>7, <1>8 DEF m, L

\* The parts of a text can be marked apart from each other.
LEMMA MarkedConcat ==
    ASSUME NEW a \in Seq(Marks), NEW b \in Seq(Marks)
    PROVE  Marked(a \o b) = Marked(a) \o Marked(b)
<1> DEFINE m == a \o b
           A == Cardinality(Kept(a))
           B == Cardinality(Kept(b))
           p == Marked(a)
           q == Marked(b)
<1>1. m \in Seq(Marks) /\ Cardinality(Kept(m)) = A + B /\ A \in Nat /\ B \in Nat
  BY ConcatKept, KeptIs
<1>2. Marked(m) \in Seq(Symbols) /\ Len(Marked(m)) = A + B
  <2> HIDE DEF m, A, B
  <2>1. Len(Marked(m)) = Cardinality(Kept(m))
    BY <1>1, MarkedIs
  <2> QED
    BY <1>1, <2>1, MarkedIs
<1>3. p \in Seq(Symbols) /\ Len(p) = A /\ q \in Seq(Symbols) /\ Len(q) = B
  BY MarkedIs
<1>4. /\ p \o q \in Seq(Symbols) /\ Len(p \o q) = A + B
      /\ \A i \in 1..(A + B) : (p \o q)[i] = IF i <= A THEN p[i] ELSE q[i - A]
  <2> HIDE DEF p, q, A, B
  <2>1. /\ p \o q \in Seq(Symbols) /\ Len(p \o q) = Len(p) + Len(q)
        /\ \A i \in 1..(Len(p) + Len(q)) :
              (p \o q)[i] = IF i <= Len(p) THEN p[i] ELSE q[i - Len(p)]
    BY <1>3, ConcatProperties
  <2> QED
    BY <1>3, <2>1
<1>5. ASSUME NEW i \in 1..(A + B) PROVE Marked(m)[i] = (p \o q)[i]
  <2>1. CASE i <= A
    <3> DEFINE k == Pick(a, i)
    <3>1. i \in 1..A
      BY <1>1, <2>1
    <3>2. k \in Kept(a) /\ Before(a, k) = i - 1 /\ p[i] = a[k]
      BY <3>1, PicksAre, MarkedIs
    <3> HIDE DEF k
    <3>3. k \in Kept(m) /\ m[k] = a[k] /\ Before(m, k) = i - 1
      BY <3>2, ConcatKept
    <3> HIDE DEF m
    <3>4. i \in Int /\ i = Before(m, k) + 1
      BY <1>1, <3>3
    <3>5. Marked(m)[i] = m[k]
      BY <1>1, <3>3, <3>4, PickOf
    <3> QED
      BY <1>4, <2>1, <3>2, <3>3, <3>5
  <2>2. CASE ~(i <= A)
    <3> DEFINE n == i - A
               k == Pick(b, n)
    <3>1. n \in 1..B /\ i = A + n /\ n \in Int
      BY <1>1, <2>2
    <3> HIDE DEF n
    <3>2. k \in Kept(b) /\ Before(b, k) = n - 1 /\ q[n] = b[k]
      BY <3>1, PicksAre, MarkedIs
    <3> HIDE DEF k
    <3>3. /\ Len(a) + k \in Kept(m) /\ m[Len(a) + k] = b[k]
          /\ Before(m, Len(a) + k) = A + Before(b, k)
      BY <3>2, ConcatKept
    <3> HIDE DEF m
    <3>4. i \in Int /\ i = Before(m, Len(a) + k) + 1
      BY <1>1, <3>1, <3>2, <3>3
    <3>5. Marked(m)[i] = m[Len(a) + k]
      BY <1>1, <3>3, <3>4, PickOf
    <3>6. (p \o q)[i] = q[n]
      BY <1>4, <2>2 DEF n
    <3> QED
      BY <3>2, <3>3, <3>5, <3>6
  <2> QED
    BY <2>1, <2>2
<1> HIDE DEF m, p, q
<1>6. Marked(m) = p \o q
  BY <1>1, <1>2, <1>4, <1>5, SeqEqual
<1> QED
  BY <1>6 DEF m, p, q

-----------------------------------------------------------------------------
(* Texts: beginnings, ends, and words *)

LEMMA FirstIs ==
    ASSUME NEW S, NEW text \in Seq(S), NEW n \in 0..Len(text)
    PROVE  /\ First(text, n) \in Seq(S) /\ Len(First(text, n)) = n
           /\ \A i \in 1..n : First(text, n)[i] = text[i]
<1>1. Len(text) \in Nat /\ n \in Int /\ n \in Nat /\ n <= Len(text) /\ 1 \in Int
  BY LenProperties
<1>2. \A i \in 1..n : text[i] \in S
  BY <1>1, ElementOfSeq
<1>3. /\ SubSeq(text, 1, n) \in Seq(S)
      /\ Len(SubSeq(text, 1, n)) = IF 1 <= n THEN n - 1 + 1 ELSE 0
      /\ \A i \in 1..(n - 1 + 1) : SubSeq(text, 1, n)[i] = text[1 + i - 1]
  BY <1>1, <1>2, SubSeqProperties
<1> QED
  BY <1>1, <1>3 DEF First

LEMMA RestIs ==
    ASSUME NEW S, NEW text \in Seq(S), NEW n \in 0..Len(text)
    PROVE  /\ Rest(text, n) \in Seq(S) /\ Len(Rest(text, n)) = Len(text) - n
           /\ \A i \in 1..(Len(text) - n) : Rest(text, n)[i] = text[n + i]
<1> DEFINE m == n + 1
           L == Len(text)
<1>1. L \in Nat /\ n \in Nat /\ n <= L /\ m \in Int /\ L \in Int /\ m = n + 1 /\ m >= 1
  BY LenProperties
<1>2. \A i \in m..L : text[i] \in S
  BY <1>1, ElementOfSeq
<1> HIDE DEF m, L
<1>3. /\ SubSeq(text, m, L) \in Seq(S)
      /\ Len(SubSeq(text, m, L)) = IF m <= L THEN L - m + 1 ELSE 0
      /\ \A i \in 1..(L - m + 1) : SubSeq(text, m, L)[i] = text[m + i - 1]
  BY <1>1, <1>2, SubSeqProperties
<1>4. Rest(text, n) = SubSeq(text, m, L)
  BY DEF Rest, m, L
<1>5. Len(SubSeq(text, m, L)) = L - n
  BY <1>1, <1>3
<1>6. ASSUME NEW i \in 1..(L - n) PROVE SubSeq(text, m, L)[i] = text[n + i]
  <2>1. i \in 1..(L - m + 1) /\ m + i - 1 = n + i
    BY <1>1
  <2> QED
    BY <1>3, <2>1
<1> QED
  BY <1>3, <1>4, <1>5, <1>6 DEF L

LEMMA FirstRest ==
    ASSUME NEW S, NEW text \in Seq(S), NEW n \in 0..Len(text)
    PROVE  First(text, n) \o Rest(text, n) = text
<1> DEFINE a == First(text, n)
           b == Rest(text, n)
<1>1. Len(text) \in Nat /\ n \in Nat /\ n <= Len(text)
  BY LenProperties
<1>2. /\ a \in Seq(S) /\ Len(a) = n /\ \A i \in 1..n : a[i] = text[i]
      /\ b \in Seq(S) /\ Len(b) = Len(text) - n
      /\ \A i \in 1..(Len(text) - n) : b[i] = text[n + i]
  BY FirstIs, RestIs
<1> HIDE DEF a, b
<1>3. /\ a \o b \in Seq(S) /\ Len(a \o b) = Len(a) + Len(b)
      /\ \A i \in 1..(Len(a) + Len(b)) : (a \o b)[i] = IF i <= Len(a) THEN a[i] ELSE b[i - Len(a)]
  BY <1>2, ConcatProperties
<1>4. Len(a \o b) = Len(text)
  BY <1>1, <1>2, <1>3
<1>5. ASSUME NEW i \in 1..Len(text) PROVE (a \o b)[i] = text[i]
  <2>1. i \in 1..(Len(a) + Len(b)) /\ i \in Int
    BY <1>1, <1>2
  <2>2. CASE i <= n
    BY <1>2, <1>3, <2>1, <2>2
  <2>3. CASE ~(i <= n)
    <3>1. i - n \in 1..(Len(text) - n) /\ n + (i - n) = i
      BY <1>1, <2>1, <2>3
    <3>2. (a \o b)[i] = b[i - n]
      BY <1>2, <1>3, <2>1, <2>3
    <3> QED
      BY <1>2, <3>1, <3>2
  <2> QED
    BY <2>2, <2>3
<1>6. a \o b = text
  BY <1>3, <1>4, <1>5, SeqEqual
<1> QED
  BY <1>6 DEF a, b

LEMMA ReadsTwo ==
    ASSUME NEW S, NEW text \in Seq(S), NEW i \in 1..Len(text), NEW a, NEW b
    PROVE  Reads(text, i, <<a, b>>) <=> i + 1 <= Len(text) /\ text[i] = a /\ text[i + 1] = b
<1>1. Len(text) \in Nat /\ i \in Int /\ i >= 1 /\ Len(<<a, b>>) = 2
  BY LenProperties
<1>2. CASE i + 1 <= Len(text)
  <2> DEFINE m == i + 1
             sub == SubSeq(text, i, m)
  <2>1. m \in Int /\ m = i + 1
    BY <1>1
  <2>2. \A j \in i..m : text[j] \in S
    BY <1>1, <1>2, ElementOfSeq
  <2> HIDE DEF m
  <2>3. /\ sub \in Seq(S) /\ Len(sub) = IF i <= m THEN m - i + 1 ELSE 0
        /\ \A j \in 1..(m - i + 1) : sub[j] = text[i + j - 1]
    BY <1>1, <2>1, <2>2, SubSeqProperties
  <2> HIDE DEF sub
  <2>4. Len(sub) = 2 /\ 1 \in 1..(m - i + 1) /\ 2 \in 1..(m - i + 1)
    BY <1>1, <2>1, <2>3
  <2>5. i + 1 - 1 = i /\ i + 2 - 1 = m
    BY <1>1, <2>1
  <2>6. sub[1] = text[i] /\ sub[2] = text[m]
    BY <2>3, <2>4, <2>5
  <2>7. sub = <<a, b>> <=> sub[1] = a /\ sub[2] = b
    <3>1. sub = <<sub[1], sub[2]>>
      BY <2>3, <2>4
    <3> QED
      BY <3>1
  <2>8. i + Len(<<a, b>>) - 1 = m
    BY <1>1, <2>1
  <2>9. Reads(text, i, <<a, b>>) <=> sub = <<a, b>>
    BY <1>2, <2>1, <2>8 DEF Reads, sub
  <2> QED
    BY <1>2, <2>1, <2>6, <2>7, <2>9
<1>3. CASE ~(i + 1 <= Len(text))
  BY <1>1, <1>3 DEF Reads
<1> QED
  BY <1>2, <1>3

LEMMA ReadsThree ==
    ASSUME NEW S, NEW text \in Seq(S), NEW i \in 1..Len(text), NEW a, NEW b, NEW c
    PROVE  Reads(text, i, <<a, b, c>>) <=>
              /\ i + 2 <= Len(text)
              /\ text[i] = a /\ text[i + 1] = b /\ text[i + 2] = c
<1>1. Len(text) \in Nat /\ i \in Int /\ i >= 1 /\ Len(<<a, b, c>>) = 3
  BY LenProperties
<1>2. CASE i + 2 <= Len(text)
  <2> DEFINE m == i + 2
             sub == SubSeq(text, i, m)
  <2>1. m \in Int /\ m = i + 2
    BY <1>1
  <2>2. \A j \in i..m : text[j] \in S
    BY <1>1, <1>2, ElementOfSeq
  <2> HIDE DEF m
  <2>3. /\ sub \in Seq(S) /\ Len(sub) = IF i <= m THEN m - i + 1 ELSE 0
        /\ \A j \in 1..(m - i + 1) : sub[j] = text[i + j - 1]
    BY <1>1, <2>1, <2>2, SubSeqProperties
  <2> HIDE DEF sub
  <2>4. Len(sub) = 3 /\ {1, 2, 3} \subseteq 1..(m - i + 1)
    BY <1>1, <2>1, <2>3
  <2>5. i + 1 - 1 = i /\ i + 2 - 1 = i + 1 /\ i + 3 - 1 = m
    BY <1>1, <2>1
  <2>6. sub[1] = text[i] /\ sub[2] = text[i + 1] /\ sub[3] = text[m]
    BY <2>3, <2>4, <2>5
  <2>7. sub = <<a, b, c>> <=> sub[1] = a /\ sub[2] = b /\ sub[3] = c
    <3>1. sub = <<sub[1], sub[2], sub[3]>>
      BY <2>3, <2>4
    <3> QED
      BY <3>1
  <2>8. i + Len(<<a, b, c>>) - 1 = m
    BY <1>1, <2>1
  <2>9. Reads(text, i, <<a, b, c>>) <=> sub = <<a, b, c>>
    BY <1>2, <2>1, <2>8 DEF Reads, sub
  <2> QED
    BY <1>2, <2>1, <2>6, <2>7, <2>9
<1>3. CASE ~(i + 2 <= Len(text))
  BY <1>1, <1>3 DEF Reads
<1> QED
  BY <1>2, <1>3

LEMMA MaxIs ==
    ASSUME NEW K, IsFiniteSet(K), K \subseteq Int, K # {}
    PROVE  Max(K) \in K /\ \A k \in K : k <= Max(K)
<1> DEFINE N == Cardinality(K)
<1>1. N \in Nat \ {0}
  BY FS_CardinalityType, FS_EmptySet
<1>2. N \in 1..N
  BY <1>1
<1> DEFINE Smaller(i) == Cardinality({j \in K : j < i})
<1>3. PICK i \in K : Smaller(i) = N - 1
  <2>1. \A n \in 1..Cardinality(K) : \E i \in K : Cardinality({j \in K : j < i}) = n - 1
    BY SmallerMembers, Zenon
  <2> QED
    BY <1>2, <2>1
<1>4. ASSUME NEW k \in K PROVE k <= i
  <2> SUFFICES ASSUME i < k PROVE FALSE
    BY <1>3
  <2>1. {j \in K : j < i} \in SUBSET {j \in K : j < k} /\ {j \in K : j < k} \in SUBSET K
    <3>1. \A j \in K : j < i => j < k
      BY <1>3
    <3> HIDE <1>3
    <3> QED
      BY <3>1
  <2>2. IsFiniteSet({j \in K : j < k}) /\ Smaller(i) <= Smaller(k)
    BY <2>1, FS_Subset
  <2>3. Smaller(k) \in 0..(N - 1)
    BY SmallerMembers
  <2>6. \A a, b \in K : Smaller(a) = Smaller(b) => a = b
    BY SmallerMembers
  <2> HIDE DEF Smaller, N
  <2>4. Smaller(k) = Smaller(i)
    BY <1>1, <1>3, <2>2, <2>3
  <2>5. k = i
    BY <1>3, <2>4, <2>6
  <2> QED
    BY <2>5
<1>5. \E x \in K : \A y \in K : x >= y
  BY <1>4
<1>6. Max(K) \in K /\ \A y \in K : Max(K) >= y
  BY <1>5 DEF Max
<1> QED
  BY <1>6

LEMMA MinIs ==
    ASSUME NEW K, IsFiniteSet(K), K \subseteq Int, K # {}
    PROVE  Min(K) \in K /\ \A k \in K : Min(K) <= k
<1> DEFINE N == Cardinality(K)
<1>1. N \in Nat \ {0}
  BY FS_CardinalityType, FS_EmptySet
<1>2. 1 \in 1..N /\ 1 - 1 = 0
  BY <1>1
<1>3. PICK i \in K : Cardinality({j \in K : j < i}) = 0
  <2>1. \A n \in 1..Cardinality(K) : \E i \in K : Cardinality({j \in K : j < i}) = n - 1
    BY SmallerMembers, Zenon
  <2> QED
    BY <1>2, <2>1
<1>4. {j \in K : j < i} = {}
  <2>1. {j \in K : j < i} \in SUBSET K
    OBVIOUS
  <2>2. IsFiniteSet({j \in K : j < i})
    BY <2>1, FS_Subset
  <2> QED
    BY <1>3, <2>2, FS_EmptySet
<1>5. \E x \in K : \A y \in K : x <= y
  BY <1>4
<1> QED
  BY <1>5 DEF Min

LEMMA WordEndIs ==
    ASSUME NEW S, NEW text \in Seq(S), NEW i \in 1..Len(text), IsWord(text, i)
    PROVE  /\ WordEnd(text, i) \in Int /\ i <= WordEnd(text, i) /\ WordEnd(text, i) <= Len(text)
           /\ \A n \in i..WordEnd(text, i) : IsWord(text, n)
           /\ WordEnd(text, i) < Len(text) => ~IsWord(text, WordEnd(text, i) + 1)
<1> DEFINE W == {j \in i..Len(text) : \A n \in i..j : IsWord(text, n)}
           w == Max(W)
<1>1. Len(text) \in Nat /\ i \in Int /\ i >= 1 /\ i <= Len(text) /\ Len(text) \in Int
  BY LenProperties
<1>2. i \in W
  BY <1>1
<1>3. W \in SUBSET (i..Len(text)) /\ IsFiniteSet(i..Len(text)) /\ W \subseteq Int
  BY <1>1, FS_Interval
<1>4. IsFiniteSet(W)
  BY <1>3, FS_Subset
<1>5. w \in W /\ \A k \in W : k <= w
  <2> HIDE DEF W
  <2> QED
    BY <1>2, <1>3, <1>4, MaxIs
<1> HIDE DEF w
<1>6. w \in Int /\ i <= w /\ w <= Len(text) /\ \A n \in i..w : IsWord(text, n)
  BY <1>1, <1>5
<1>7. ASSUME w < Len(text), IsWord(text, w + 1) PROVE FALSE
  <2>1. \A n \in i..(w + 1) : n \in i..w \/ n = w + 1
    BY <1>1, <1>6
  <2>2. w + 1 \in W
    BY <1>1, <1>6, <1>7, <2>1
  <2> QED
    BY <1>5, <1>6, <2>2
<1> QED
  BY <1>6, <1>7 DEF w, WordEnd

LEMMA WordEndUnique ==
    ASSUME NEW S, NEW text \in Seq(S), NEW i \in 1..Len(text), NEW w \in i..Len(text),
           \A n \in i..w : IsWord(text, n),
           w = Len(text) \/ ~IsWord(text, w + 1)
    PROVE  WordEnd(text, i) = w
<1>1. Len(text) \in Nat /\ i \in Int /\ w \in Int /\ i <= w /\ w <= Len(text)
  BY LenProperties
<1>2. IsWord(text, i)
  BY <1>1
<1> DEFINE v == WordEnd(text, i)
<1>3. /\ v \in Int /\ i <= v /\ v <= Len(text)
      /\ \A n \in i..v : IsWord(text, n)
      /\ v < Len(text) => ~IsWord(text, v + 1)
  BY <1>2, WordEndIs
<1> HIDE DEF v
<1>4. CASE v < w
  <2>1. v + 1 \in i..w /\ v < Len(text)
    BY <1>1, <1>3, <1>4
  <2> QED
    BY <1>3, <2>1
<1>5. CASE w < v
  <2>1. w + 1 \in i..v /\ w # Len(text)
    BY <1>1, <1>3, <1>5
  <2> QED
    BY <1>3, <2>1
<1>6. v = w
  BY <1>1, <1>3, <1>4, <1>5
<1> QED
  BY <1>6 DEF v

-----------------------------------------------------------------------------
(* What was dropped hides no leak *)

LEMMA LeakIs ==
    ASSUME NEW S, NEW text \in Seq(S)
    PROVE  Leaks(text) <=>
             \E i \in 1..Len(text) :
                i + 2 <= Len(text) /\ text[i] = "!" /\ text[i + 1] = "!" /\ text[i + 2] = "!"
<1>1. \A i \in 1..Len(text) : Reads(text, i, <<"!", "!", "!">>) <=>
         i + 2 <= Len(text) /\ text[i] = "!" /\ text[i + 1] = "!" /\ text[i + 2] = "!"
  BY ReadsThree
<1> QED
  BY <1>1 DEF Leaks

LEMMA SymbolsAre ==
    /\ Nothing \notin Symbols /\ Symbols \subseteq Marks
    /\ Chars \subseteq Masked /\ Masked \subseteq Symbols
    /\ Redacted # "!" /\ Restored # "!" /\ Nothing # "!"
    /\ Redacted \in Symbols /\ Restored \in Symbols /\ Redacted \in Masked /\ Nothing \in Marks
    /\ Word \subseteq Chars /\ Nothing \notin Word /\ Redacted \notin Word
    /\ "[" \notin Word /\ "]" \notin Word /\ "!" \notin Word
BY DEF Symbols, Marks, Masked, Chars, Word, Redacted, Restored, Nothing

\* Of an output whose marks of "!" are of the text, and are followed by marks
\* that stay, a leak is one of the text.
LEMMA LeakKept ==
    ASSUME NEW marks \in Seq(Marks), NEW text \in Seq(Symbols), Len(marks) = Len(text),
           \A j \in 1..Len(text) : marks[j] = "!" => text[j] = "!",
           \A j \in 1..Len(text) :
              marks[j] = "!" /\ j + 1 <= Len(text) => marks[j + 1] # Nothing,
           Leaks(Marked(marks))
    PROVE  Leaks(text)
<1> DEFINE out == Marked(marks)
           N == Cardinality(Kept(marks))
           L == Len(text)
           p(n) == Pick(marks, n)
<1>1. out \in Seq(Symbols) /\ Len(out) = N /\ N \in Nat /\ L \in Nat /\ Len(marks) = L
  BY MarkedIs, KeptIs, LenProperties
<1>2. PICK i \in 1..Len(out) :
         i + 2 <= Len(out) /\ out[i] = "!" /\ out[i + 1] = "!" /\ out[i + 2] = "!"
  <2> HIDE DEF out
  <2>1. Leaks(out)
    BY DEF out
  <2> QED
    BY <1>1, <2>1, LeakIs
<1> HIDE DEF out, N
<1>3. i \in Int /\ i + 1 + 1 = i + 2 /\ {i, i + 1, i + 2} \subseteq 1..N
  BY <1>1, <1>2
<1>4. \A n \in 1..N : p(n) \in 1..L /\ marks[p(n)] = out[n]
  <2> SUFFICES ASSUME NEW n \in 1..N PROVE p(n) \in 1..L /\ marks[p(n)] = out[n]
    OBVIOUS
  <2>1. p(n) \in Kept(marks) /\ out[n] = marks[p(n)]
    BY PicksAre, MarkedIs DEF N, out
  <2> QED
    BY <1>1, <2>1, KeptIs
<1>5. ASSUME NEW n \in Int, n \in 1..N, n + 1 \in 1..N, out[n] = "!"
      PROVE  p(n + 1) = p(n) + 1
  <2>1. /\ p(n) < p(n + 1)
        /\ \A j \in 1..L : p(n) < j /\ j < p(n + 1) => marks[j] = Nothing
    BY <1>1, <1>5, NextPick DEF out
  <2>2. p(n) \in 1..L /\ p(n + 1) \in 1..L /\ marks[p(n)] = "!"
    BY <1>4, <1>5
  <2> DEFINE a == p(n)
             b == p(n + 1)
  <2>3. a \in 1..L /\ b \in 1..L /\ a < b /\ marks[a] = "!"
    BY <2>1, <2>2
  <2>4. \A j \in 1..L : a < j /\ j < b => marks[j] = Nothing
    BY <2>1
  <2> HIDE DEF a, b, p
  <2>5. a + 1 \in 1..L /\ a < a + 1 /\ a + 1 <= L /\ a \in Int /\ b \in Int
    BY <1>1, <2>3
  <2>6. marks[a + 1] # Nothing
    BY <2>3, <2>5
  <2>7. ~(a + 1 < b)
    BY <2>4, <2>5, <2>6
  <2>8. b = a + 1
    BY <2>3, <2>5, <2>7
  <2> QED
    BY <2>8 DEF a, b
<1> DEFINE j == p(i)
<1>6. j \in 1..L /\ marks[j] = "!" /\ p(i + 1) \in 1..L /\ marks[p(i + 1)] = "!"
      /\ p(i + 2) \in 1..L /\ marks[p(i + 2)] = "!"
  BY <1>2, <1>3, <1>4
<1>7. p(i + 1) = j + 1
  BY <1>2, <1>3, <1>5
<1>8. p(i + 2) = p(i + 1) + 1
  <2>1. i + 1 \in Int /\ i + 1 \in 1..N /\ i + 1 + 1 \in 1..N /\ out[i + 1] = "!"
    BY <1>2, <1>3
  <2>2. p(i + 1 + 1) = p(i + 1) + 1
    BY <1>5, <2>1
  <2> QED
    BY <1>3, <2>2
<1> HIDE DEF p, j
<1>9. /\ j \in Int /\ j + 2 <= L
      /\ marks[j] = "!" /\ marks[j + 1] = "!" /\ marks[j + 2] = "!"
      /\ j + 1 \in 1..L /\ j + 2 \in 1..L /\ j \in 1..L
  <2>1. j \in Int /\ p(i + 2) = j + 2
    BY <1>6, <1>7, <1>8
  <2> QED
    BY <1>6, <1>7, <2>1
<1>10. text[j] = "!" /\ text[j + 1] = "!" /\ text[j + 2] = "!"
  BY <1>9
<1> QED
  BY <1>9, <1>10, LeakIs

\* The parts of a text of three parts.
LEMMA ThreeParts ==
    ASSUME NEW S, NEW a \in Seq(S), NEW b \in Seq(S), NEW c \in Seq(S)
    PROVE  /\ (a \o b) \o c \in Seq(S)
           /\ Len((a \o b) \o c) = Len(a) + Len(b) + Len(c)
           /\ Len(a) \in Nat /\ Len(b) \in Nat /\ Len(c) \in Nat
           /\ \A j \in 1..(Len(a) + Len(b) + Len(c)) :
                 ((a \o b) \o c)[j] = IF j <= Len(a) THEN a[j]
                                      ELSE IF j <= Len(a) + Len(b) THEN b[j - Len(a)]
                                      ELSE c[j - Len(a) - Len(b)]
<1> DEFINE ab == a \o b
<1>1. Len(a) \in Nat /\ Len(b) \in Nat /\ Len(c) \in Nat
  BY LenProperties
<1>2. /\ ab \in Seq(S) /\ Len(ab) = Len(a) + Len(b)
      /\ \A j \in 1..(Len(a) + Len(b)) : ab[j] = IF j <= Len(a) THEN a[j] ELSE b[j - Len(a)]
  BY ConcatProperties
<1> HIDE DEF ab
<1>3. /\ ab \o c \in Seq(S) /\ Len(ab \o c) = Len(ab) + Len(c)
      /\ \A j \in 1..(Len(ab) + Len(c)) :
            (ab \o c)[j] = IF j <= Len(ab) THEN ab[j] ELSE c[j - Len(ab)]
  <2>1. ab \in Seq(S) /\ c \in Seq(S)
    BY <1>2
  <2> QED
    BY ONLY <2>1, ConcatProperties
<1>4. ASSUME NEW j \in 1..(Len(a) + Len(b) + Len(c))
      PROVE  (ab \o c)[j] = IF j <= Len(a) THEN a[j]
                            ELSE IF j <= Len(a) + Len(b) THEN b[j - Len(a)]
                            ELSE c[j - Len(a) - Len(b)]
  <2>1. j \in 1..(Len(ab) + Len(c)) /\ j \in Int /\ j >= 1
    BY <1>1, <1>2
  <2>2. CASE j <= Len(ab)
    <3>1. j \in 1..(Len(a) + Len(b))
      BY <1>1, <1>2, <2>1, <2>2
    <3> QED
      BY <1>2, <1>3, <2>1, <2>2, <3>1
  <2>3. CASE ~(j <= Len(ab))
    <3>1. j - Len(ab) = j - Len(a) - Len(b) /\ ~(j <= Len(a)) /\ ~(j <= Len(a) + Len(b))
      BY <1>1, <1>2, <2>1, <2>3
    <3> QED
      BY <1>3, <2>1, <2>3, <3>1
  <2> QED
    BY <2>2, <2>3
<1> QED
  BY <1>1, <1>2, <1>3, <1>4 DEF ab

\* The marks of a filter: none but its own mark takes the place of a "!", and
\* nothing is dropped at the beginning or behind a "!".
Hides(marks, text) ==
    /\ marks \in Seq(Marks) /\ Len(marks) = Len(text)
    /\ \A j \in 1..Len(text) : marks[j] = "!" => text[j] = "!"
    /\ \A j \in 1..Len(text) :
          marks[j] = Nothing => j > 1 /\ marks[j - 1] # "!" /\ marks[j - 1] \notin Chars

LEMMA LeakThrough ==
    ASSUME NEW marks, NEW text \in Seq(Symbols), Hides(marks, text),
           NEW a \in Seq(Symbols), NEW c \in Seq(Symbols),
           Leaks((a \o Marked(marks)) \o c)
    PROVE  Leaks((a \o text) \o c)
<1> DEFINE all == (a \o marks) \o c
           whole == (a \o text) \o c
           A == Len(a)
           L == Len(text)
           N == A + L + Len(c)
<1>1. /\ a \in Seq(Marks) /\ c \in Seq(Marks) /\ marks \in Seq(Marks)
      /\ Len(marks) = L /\ Marked(marks) \in Seq(Symbols)
  BY SymbolsAre, SeqMonotonic, MarkedIs DEF Hides
<1>2. Marked(all) = (a \o Marked(marks)) \o c
  <2>1. a \o marks \in Seq(Marks)
    BY <1>1, ConcatProperties
  <2>2. Marked(all) = Marked(a \o marks) \o Marked(c)
    BY <1>1, <2>1, MarkedConcat
  <2>3. Marked(a \o marks) = Marked(a) \o Marked(marks)
    BY <1>1, MarkedConcat
  <2> QED
    BY <2>2, <2>3, MarkedAll
<1>3. /\ all \in Seq(Marks) /\ Len(all) = N /\ A \in Nat /\ L \in Nat /\ Len(c) \in Nat
      /\ \A j \in 1..N : all[j] = IF j <= A THEN a[j]
                                  ELSE IF j <= A + L THEN marks[j - A] ELSE c[j - A - L]
  <2> HIDE DEF all
  <2>1. /\ (a \o marks) \o c \in Seq(Marks)
        /\ Len((a \o marks) \o c) = Len(a) + Len(marks) + Len(c)
        /\ Len(a) \in Nat /\ Len(marks) \in Nat /\ Len(c) \in Nat
        /\ \A j \in 1..(Len(a) + Len(marks) + Len(c)) :
              ((a \o marks) \o c)[j] = IF j <= Len(a) THEN a[j]
                                   ELSE IF j <= Len(a) + Len(marks) THEN marks[j - Len(a)]
                                   ELSE c[j - Len(a) - Len(marks)]
    <3>1. a \in Seq(Marks) /\ marks \in Seq(Marks) /\ c \in Seq(Marks)
      BY <1>1
    <3> QED
      BY ONLY <3>1, ThreeParts
  <2> QED
    BY <1>1, <2>1 DEF all
<1>4. /\ whole \in Seq(Symbols) /\ Len(whole) = N
      /\ \A j \in 1..N : whole[j] = IF j <= A THEN a[j]
                                    ELSE IF j <= A + L THEN text[j - A] ELSE c[j - A - L]
  BY ThreeParts
<1> HIDE DEF all, whole, A, L
<1>5. N \in Nat
  BY <1>3
<1>6. ASSUME NEW j \in 1..N, all[j] = "!"
      PROVE  whole[j] = "!"
  <2>1. j \in Int /\ j >= 1 /\ j <= N
    BY <1>5
  <2>2. CASE j <= A
    BY <1>3, <1>4, <1>6, <2>2
  <2>3. CASE ~(j <= A) /\ j <= A + L
    <3>1. j - A \in 1..L /\ marks[j - A] = "!"
      BY <1>3, <1>6, <2>1, <2>3
    <3>2. text[j - A] = "!"
      BY <3>1 DEF Hides, L
    <3> QED
      BY <1>4, <2>3, <3>2
  <2>4. CASE ~(j <= A) /\ ~(j <= A + L)
    BY <1>3, <1>4, <1>6, <2>4
  <2> QED
    BY <2>2, <2>3, <2>4
<1>7. ASSUME NEW j \in 1..N, all[j] = "!", j + 1 <= N
      PROVE  all[j + 1] # Nothing
  <2>1. j \in Int /\ j >= 1 /\ j + 1 \in 1..N
    BY <1>5, <1>7
  <2>2. CASE j + 1 <= A
    <3>1. all[j + 1] = a[j + 1] /\ j + 1 \in 1..A
      BY <1>3, <2>1, <2>2
    <3>2. a[j + 1] \in Symbols
      BY <3>1, ElementOfSeq DEF A
    <3> QED
      BY <3>1, <3>2, SymbolsAre
  <2>3. CASE ~(j + 1 <= A) /\ j + 1 <= A + L
    <3> SUFFICES ASSUME all[j + 1] = Nothing PROVE FALSE
      OBVIOUS
    <3> DEFINE k == j + 1 - A
    <3>1. k \in 1..L /\ marks[k] = Nothing /\ k \in Int
      BY <1>3, <2>1, <2>3
    <3> HIDE DEF k
    <3>2. k > 1 /\ marks[k - 1] # "!"
      BY <3>1 DEF Hides, L
    <3> USE DEF k
    <3>3. ~(j <= A) /\ j <= A + L /\ j - A = k - 1
      BY <1>3, <2>1, <2>3, <3>2
    <3>4. all[j] = marks[j - A]
      BY <1>3, <3>3
    <3> QED
      BY <1>7, <3>2, <3>3, <3>4
  <2>4. CASE ~(j + 1 <= A) /\ ~(j + 1 <= A + L)
    <3>1. all[j + 1] = c[j + 1 - A - L] /\ j + 1 - A - L \in 1..Len(c)
      BY <1>3, <2>1, <2>4
    <3>2. c[j + 1 - A - L] \in Symbols
      BY <3>1, ElementOfSeq
    <3> QED
      BY <3>1, <3>2, SymbolsAre
  <2> QED
    BY <2>2, <2>3, <2>4
<1>8. Leaks(Marked(all))
  BY <1>2
<1> HIDE DEF N
<1>9. Leaks(whole)
  BY <1>3, <1>4, <1>6, <1>7, <1>8, LeakKept
<1> QED
  BY <1>9 DEF whole

-----------------------------------------------------------------------------
(* The marks of the two filters *)

RedactMarks(text) ==
    [j \in 1..Len(text) |-> IF IsSecret(text, j) THEN Redacted
                            ELSE IF InSecret(text, j) THEN Nothing
                            ELSE text[j]]

RestoreMarks(text) ==
    [j \in 1..Len(text) |-> IF Bracketed(text, j) \/ Bare(text, j) THEN Restored
                            ELSE IF InBracketed(text, j) THEN Nothing
                            ELSE text[j]]

LEMMA RedactIs ==
    ASSUME NEW text PROVE Redact(text) = Marked(RedactMarks(text))
BY DEF Redact, RedactMarks

LEMMA RestoreIs ==
    ASSUME NEW text PROVE Restore(text) = Marked(RestoreMarks(text))
BY DEF Restore, RestoreMarks

LEMMA StarterIs ==
    ASSUME NEW S, NEW text \in Seq(S), NEW i \in 1..Len(text)
    PROVE  /\ Starter(text, i) <=> i + 1 <= Len(text) /\ text[i] = "s" /\ text[i + 1] = "k"
           /\ Starter(text, i) => IsWord(text, i) /\ IsWord(text, i + 1)
<1>1. Starter(text, i) <=> i + 1 <= Len(text) /\ text[i] = "s" /\ text[i + 1] = "k"
  BY ReadsTwo DEF Starter
<1>2. Len(text) \in Nat /\ i \in Int /\ i >= 1
  BY LenProperties
<1>3. ASSUME Starter(text, i) PROVE IsWord(text, i) /\ IsWord(text, i + 1)
  <2>1. i + 1 \in 1..Len(text)
    BY <1>1, <1>2, <1>3
  <2> QED
    BY <1>1, <1>3, <2>1 DEF IsWord, At, Word
<1> QED
  BY <1>1, <1>3

LEMMA SecretIs ==
    ASSUME NEW S, NEW text \in Seq(S), NEW i \in 1..Len(text), IsSecret(text, i)
    PROVE  /\ Starter(text, i) /\ IsWord(text, i) /\ WordEnd(text, i) \in Int
           /\ i + 1 <= WordEnd(text, i) /\ WordEnd(text, i) <= Len(text)
           /\ \A n \in i..WordEnd(text, i) : IsWord(text, n)
<1>1. Starter(text, i) /\ WordEnd(text, i) - i + 1 >= 2 + MinBody
  BY DEF IsSecret, Matches
<1>2. IsWord(text, i)
  BY <1>1, StarterIs
<1>3. /\ WordEnd(text, i) \in Int /\ WordEnd(text, i) <= Len(text)
      /\ \A n \in i..WordEnd(text, i) : IsWord(text, n)
  BY <1>2, WordEndIs
<1>4. MinBody \in Nat /\ i \in Int
  BY TextAssumption
<1>5. i + 1 <= WordEnd(text, i)
  <2> HIDE <1>2
  <2>1. WordEnd(text, i) \in Int
    BY <1>3
  <2> QED
    BY <1>1, <1>4, <2>1
<1> QED
  BY <1>1, <1>2, <1>3, <1>5

\* A secret is of word characters.
LEMMA InSecretIs ==
    ASSUME NEW S, NEW text \in Seq(S), NEW j \in 1..Len(text), InSecret(text, j)
    PROVE  /\ IsWord(text, j)
           /\ ~IsSecret(text, j) => j > 1 /\ InSecret(text, j - 1)
<1>1. PICK i \in 1..j : IsSecret(text, i) /\ j <= WordEnd(text, i)
  BY DEF InSecret
<1>2. Len(text) \in Nat /\ j \in Int /\ i \in Int /\ i \in 1..Len(text) /\ i <= j /\ 1 <= i
  BY LenProperties
<1>3. WordEnd(text, i) \in Int /\ \A n \in i..WordEnd(text, i) : IsWord(text, n)
  BY <1>1, <1>2, SecretIs
<1>4. IsWord(text, j)
  BY <1>1, <1>2, <1>3
<1>5. ASSUME ~IsSecret(text, j) PROVE j > 1 /\ InSecret(text, j - 1)
  <2>1. i # j
    BY <1>1, <1>5
  <2>2. j > 1 /\ i \in 1..(j - 1) /\ j - 1 <= WordEnd(text, i)
    BY <1>1, <1>2, <1>3, <2>1
  <2> QED
    BY <1>1, <2>2 DEF InSecret
<1> QED
  BY <1>4, <1>5

LEMMA RedactMarksAre ==
    ASSUME NEW text \in Seq(Chars)
    PROVE  /\ RedactMarks(text) \in Seq(Marks) /\ Len(RedactMarks(text)) = Len(text)
           /\ \A j \in 1..Len(text) : RedactMarks(text)[j] \in Masked \cup {Nothing}
           /\ \A j \in 1..Len(text) :
                 /\ IsSecret(text, j) => RedactMarks(text)[j] = Redacted
                 /\ ~IsSecret(text, j) /\ InSecret(text, j) => RedactMarks(text)[j] = Nothing
                 /\ ~IsSecret(text, j) /\ ~InSecret(text, j) => RedactMarks(text)[j] = text[j]
<1> DEFINE L == Len(text)
           marks == RedactMarks(text)
<1>1. L \in Nat
  BY LenProperties
<1>2. \A j \in 1..L : text[j] \in Chars
  BY ElementOfSeq
<1>3. marks = [j \in 1..L |-> IF IsSecret(text, j) THEN Redacted
                              ELSE IF InSecret(text, j) THEN Nothing ELSE text[j]]
  BY DEF RedactMarks
<1> HIDE DEF marks, L
<1>4. \A j \in 1..L : marks[j] \in Masked \cup {Nothing}
  BY <1>2, <1>3, SymbolsAre
<1>5. \A j \in 1..L : marks[j] \in Marks
  BY <1>4, SymbolsAre
<1>6. marks \in [1..L -> Marks]
  BY <1>3, <1>5
<1>7. marks \in Seq(Marks) /\ Len(marks) = L
  BY <1>1, <1>6
<1> QED
  BY <1>3, <1>4, <1>7 DEF marks, L

LEMMA RedactHides ==
    ASSUME NEW text \in Seq(Chars)
    PROVE  Hides(RedactMarks(text), text)
<1> DEFINE marks == RedactMarks(text)
<1>1. ASSUME NEW j \in 1..Len(text), marks[j] = "!" PROVE text[j] = "!"
  BY <1>1, RedactMarksAre, SymbolsAre
<1>2. ASSUME NEW j \in 1..Len(text), marks[j] = Nothing
      PROVE  j > 1 /\ marks[j - 1] # "!" /\ marks[j - 1] \notin Chars
  <2>1. text[j] \in Chars
    BY ElementOfSeq
  <2>2. ~IsSecret(text, j) /\ InSecret(text, j)
    <3>1. Redacted # Nothing /\ text[j] # Nothing
      BY <2>1, SymbolsAre
    <3> QED
      BY <1>2, <3>1, RedactMarksAre
  <2>3. j > 1 /\ InSecret(text, j - 1)
    BY <2>2, InSecretIs
  <2>4. j - 1 \in 1..Len(text)
    BY <2>3, LenProperties
  <2>5. marks[j - 1] = Redacted \/ marks[j - 1] = Nothing
    BY <2>3, <2>4, RedactMarksAre
  <2>6. Redacted \notin Chars /\ Nothing \notin Chars
    BY DEF Chars, Redacted, Nothing
  <2> QED
    BY <2>3, <2>5, <2>6, SymbolsAre
<1>3. marks \in Seq(Marks) /\ Len(marks) = Len(text)
  BY RedactMarksAre
<1> QED
  BY <1>1, <1>2, <1>3 DEF Hides

LEMMA RedactType ==
    ASSUME NEW text \in Seq(Chars)
    PROVE  Redact(text) \in Seq(Masked)
<1> DEFINE marks == RedactMarks(text)
           out == Marked(marks)
           N == Cardinality(Kept(marks))
<1>1. marks \in Seq(Marks) /\ Len(marks) = Len(text)
      /\ \A j \in 1..Len(text) : marks[j] \in Masked \cup {Nothing}
  BY RedactMarksAre
<1>2. out \in Seq(Symbols) /\ Len(out) = N /\ N \in Nat
  <2> HIDE DEF marks
  <2> QED
    BY <1>1, MarkedIs, KeptIs
<1>3. ASSUME NEW n \in 1..N PROVE out[n] \in Masked
  <2> HIDE DEF marks
  <2>1. Pick(marks, n) \in Kept(marks) /\ out[n] = marks[Pick(marks, n)]
    BY <1>1, PicksAre, MarkedIs
  <2>2. Pick(marks, n) \in 1..Len(text) /\ marks[Pick(marks, n)] # Nothing
    BY <1>1, <2>1, KeptIs
  <2> QED
    BY <1>1, <2>1, <2>2
<1> HIDE DEF out, N
<1>4. out \in [1..N -> Symbols]
  BY <1>2, LenProperties
<1>5. out \in [1..N -> Masked]
  BY <1>3, <1>4
<1>6. out \in Seq(Masked)
  BY <1>2, <1>5
<1> QED
  BY <1>6, RedactIs DEF out

LEMMA BracketedIs ==
    ASSUME NEW S, NEW text \in Seq(S), NEW i \in Int
    PROVE  Bracketed(text, i) <=>
              /\ 1 <= i /\ i + 2 <= Len(text)
              /\ text[i] = "[" /\ text[i + 1] = "e" /\ text[i + 2] = "]"
<1>1. Len(text) \in Nat
  BY LenProperties
<1>2. CASE i \in 1..Len(text)
  <2>1. Reads(text, i, <<"[", "e", "]">>) <=>
           i + 2 <= Len(text) /\ text[i] = "[" /\ text[i + 1] = "e" /\ text[i + 2] = "]"
    BY <1>2, ReadsThree
  <2> QED
    BY <1>2, <2>1 DEF Bracketed
<1>3. CASE i \notin 1..Len(text)
  <2>1. ~(1 <= i /\ i + 2 <= Len(text))
    BY <1>1, <1>3
  <2>2. i >= 1 => ~(i + 3 - 1 <= Len(text))
    BY <1>1, <1>3
  <2>3. Len(<<"[", "e", "]">>) = 3
    OBVIOUS
  <2>4. ~(i >= 1 /\ Reads(text, i, <<"[", "e", "]">>))
    BY <2>2, <2>3 DEF Reads
  <2> QED
    BY <2>1, <2>4 DEF Bracketed
<1> QED
  BY <1>2, <1>3

LEMMA RestoreMarksAre ==
    ASSUME NEW text \in Seq(Masked)
    PROVE  /\ RestoreMarks(text) \in Seq(Marks) /\ Len(RestoreMarks(text)) = Len(text)
           /\ \A j \in 1..Len(text) :
                 RestoreMarks(text)[j] = IF Bracketed(text, j) \/ Bare(text, j) THEN Restored
                                         ELSE IF InBracketed(text, j) THEN Nothing ELSE text[j]
<1> DEFINE L == Len(text)
           marks == RestoreMarks(text)
<1>1. L \in Nat
  BY LenProperties
<1>2. \A j \in 1..L : text[j] \in Masked
  BY ElementOfSeq
<1>3. marks = [j \in 1..L |-> IF Bracketed(text, j) \/ Bare(text, j) THEN Restored
                              ELSE IF InBracketed(text, j) THEN Nothing ELSE text[j]]
  BY DEF RestoreMarks
<1> HIDE DEF marks, L
<1>4. \A j \in 1..L : marks[j] \in Marks
  BY <1>2, <1>3, SymbolsAre
<1>5. marks \in [1..L -> Marks]
  BY <1>3, <1>4
<1>6. marks \in Seq(Marks) /\ Len(marks) = L
  BY <1>1, <1>5
<1> QED
  BY <1>3, <1>6 DEF marks, L

LEMMA RestoreHides ==
    ASSUME NEW text \in Seq(Masked)
    PROVE  Hides(RestoreMarks(text), text)
<1> DEFINE marks == RestoreMarks(text)
           Shown(j) == Bracketed(text, j) \/ Bare(text, j)
<1>0. \A j \in 1..Len(text) :
         marks[j] = IF Shown(j) THEN Restored
                    ELSE IF InBracketed(text, j) THEN Nothing ELSE text[j]
  BY RestoreMarksAre
<1>1. ASSUME NEW j \in 1..Len(text), marks[j] = "!" PROVE text[j] = "!"
  <2> HIDE DEF marks, Shown
  <2> QED
    BY <1>0, <1>1, SymbolsAre
<1>2. ASSUME NEW j \in 1..Len(text), marks[j] = Nothing
      PROVE  j > 1 /\ marks[j - 1] # "!" /\ marks[j - 1] \notin Chars
  <2>1. text[j] \in Masked
    BY ElementOfSeq
  <2>2. ~Shown(j) /\ InBracketed(text, j)
    <3> HIDE DEF marks, Shown
    <3>1. Restored # Nothing /\ text[j] # Nothing
      BY <2>1, SymbolsAre
    <3> QED
      BY <1>0, <1>2, <3>1
  <2>3. PICK i \in (j - 2)..j : Bracketed(text, i)
    BY <2>2 DEF InBracketed
  <2>4. Len(text) \in Nat /\ j \in Int /\ i \in Int /\ 1 <= i /\ i # j
    <3>1. Len(text) \in Nat /\ j \in Int /\ i \in Int
      BY LenProperties
    <3>2. 1 <= i
      BY <2>3, <3>1, BracketedIs
    <3> QED
      BY <2>2, <2>3, <3>1, <3>2
  <2>5. j > 1 /\ j - 1 \in 1..Len(text) /\ i \in ((j - 1) - 2)..(j - 1)
    BY <2>4
  <2>6. InBracketed(text, j - 1)
    BY <2>3, <2>5 DEF InBracketed
  <2>7. marks[j - 1] = Restored \/ marks[j - 1] = Nothing
    <3> HIDE DEF marks, Shown
    <3> QED
      BY <1>0, <2>5, <2>6
  <2>8. Restored \notin Chars /\ Nothing \notin Chars
    BY DEF Chars, Restored, Nothing
  <2> QED
    BY <2>5, <2>7, <2>8, SymbolsAre
<1>3. marks \in Seq(Marks) /\ Len(marks) = Len(text)
  BY RestoreMarksAre
<1> QED
  BY <1>1, <1>2, <1>3 DEF Hides

LEMMA RestoreType ==
    ASSUME NEW text \in Seq(Masked)
    PROVE  Restore(text) \in Seq(Symbols)
BY RestoreMarksAre, MarkedIs, RestoreIs

LEMMA RedactLeak ==
    ASSUME NEW text \in Seq(Chars), NEW a \in Seq(Symbols), NEW c \in Seq(Symbols),
           Leaks((a \o Redact(text)) \o c)
    PROVE  Leaks((a \o text) \o c)
<1>1. text \in Seq(Symbols)
  BY SymbolsAre, SeqMonotonic
<1> QED
  BY <1>1, RedactHides, RedactIs, LeakThrough

LEMMA RestoreLeak ==
    ASSUME NEW text \in Seq(Masked), NEW a \in Seq(Symbols), NEW c \in Seq(Symbols),
           Leaks((a \o Restore(text)) \o c)
    PROVE  Leaks((a \o text) \o c)
<1>1. text \in Seq(Symbols)
  BY SymbolsAre, SeqMonotonic
<1> QED
  BY <1>1, RestoreHides, RestoreIs, LeakThrough

-----------------------------------------------------------------------------
(* How far the filters release *)

LEMMA ReleasableIs ==
    ASSUME NEW text \in Seq(Chars)
    PROVE  /\ Releasable(text) \in 0..Len(text)
           /\ Releasable(text) >= 1 => Releasable(text) + MinHoldback = Len(text)
           /\ Len(text) - MinHoldback <= Releasable(text)
<1> DEFINE d == Len(text) - MinHoldback
           K == {0, d}
<1>1. Len(text) \in Nat /\ MinHoldback \in Nat \ {0} /\ d \in Int
  BY LenProperties, TextAssumption
<1>2. \E x \in K : \A y \in K : x >= y
  <2>1. CASE d >= 0
    BY <1>1, <2>1
  <2>2. CASE ~(d >= 0)
    BY <1>1, <2>2
  <2> QED
    BY <2>1, <2>2
<1>3. Max(K) \in K /\ \A y \in K : Max(K) >= y
  BY <1>2 DEF Max
<1>4. Releasable(text) \in {0, d} /\ Releasable(text) >= 0 /\ Releasable(text) >= d
  BY <1>3 DEF Releasable
<1> QED
  BY <1>1, <1>4

LEMMA EmitIs ==
    ASSUME NEW text \in Seq(Chars)
    PROVE  /\ EmitBoundary(text) \in 0..Len(text)
           /\ EmitBoundary(text) >= 1 => EmitBoundary(text) + MinHoldback <= Len(text)
           /\ \A j \in 1..EmitBoundary(text) :
                 Starter(text, j) => j <= Len(text) - MaxSpan \/ Complete(text, j)
           /\ \/ EmitBoundary(text) = Releasable(text)
              \/ /\ EmitBoundary(text) + 1 \in 1..Len(text)
                 /\ Starter(text, EmitBoundary(text) + 1)
<1> DEFINE L == Len(text)
           R == Releasable(text)
           G == {i \in 1..L : /\ Starter(text, i)
                              /\ i > L - MaxSpan
                              /\ i <= R
                              /\ ~Complete(text, i)}
           b == EmitBoundary(text)
<1>1. L \in Nat /\ MinHoldback \in Nat \ {0} /\ MaxSpan \in Nat
  BY LenProperties, TextAssumption
<1>2. R \in 0..L /\ (R >= 1 => R + MinHoldback = L)
  BY ReleasableIs
<1>3. b = IF G = {} THEN R ELSE Min(G) - 1
  BY DEF EmitBoundary
<1> HIDE DEF b, R, L
<1>4. \A j \in 1..L : j \in G <=>
         Starter(text, j) /\ j > L - MaxSpan /\ j <= R /\ ~Complete(text, j)
  OBVIOUS
<1>5. G \in SUBSET (1..L)
  OBVIOUS
<1>6. IsFiniteSet(1..L) /\ 1..L \subseteq Int
  BY <1>1, FS_Interval
<1>7. IsFiniteSet(G) /\ G \subseteq Int
  BY <1>5, <1>6, FS_Subset
<1> HIDE DEF G
<1>8. CASE G = {}
  <2>1. b = R
    BY <1>3, <1>8
  <2>2. ASSUME NEW j \in 1..b, Starter(text, j)
        PROVE  j <= L - MaxSpan \/ Complete(text, j)
    <3>1. j \in 1..L /\ j \in Int /\ j <= R /\ j \notin G
      BY <1>1, <1>2, <1>8, <2>1
    <3> QED
      BY <1>1, <1>4, <2>2, <3>1
  <2> QED
    BY <1>1, <1>2, <2>1, <2>2 DEF b, R, L
<1>9. CASE G # {}
  <2> DEFINE g == Min(G)
  <2>1. g \in G /\ \A k \in G : g <= k
    BY <1>7, <1>9, MinIs
  <2>2. b = g - 1
    BY <1>3, <1>9
  <2> HIDE DEF g
  <2>3. g \in 1..L /\ g \in Int /\ Starter(text, g) /\ g <= R
    BY <1>1, <1>4, <1>5, <2>1
  <2>4. b \in 0..L /\ b + 1 = g /\ (b >= 1 => b + MinHoldback <= L)
    BY <1>1, <1>2, <2>2, <2>3
  <2>5. ASSUME NEW j \in 1..b, Starter(text, j)
        PROVE  j <= L - MaxSpan \/ Complete(text, j)
    <3>1. j \in 1..L /\ j \in Int /\ j <= R /\ ~(g <= j)
      BY <1>1, <1>2, <2>2, <2>3
    <3>2. j \notin G
      BY <2>1, <3>1
    <3> QED
      BY <1>1, <1>4, <2>5, <3>1, <3>2
  <2> QED
    BY <2>3, <2>4, <2>5 DEF b, R, L
<1> QED
  BY <1>8, <1>9

\* Where the restorer has let a text through: nothing is open, or the last
\* bracket is closed or too far back, or the text ends before that bracket.
LEMMA BoundaryIs ==
    ASSUME NEW text \in Seq(Masked)
    PROVE  /\ Boundary(text) \in 0..Len(text)
           /\ \/ /\ Boundary(text) = Len(text)
                 /\ \A i \in 1..Len(text) : text[i] # "["
              \/ /\ Boundary(text) = Len(text)
                 /\ \E last \in 1..Len(text) :
                       /\ text[last] = "["
                       /\ \A i \in 1..Len(text) : text[i] = "[" => i <= last
                       /\ \/ \E j \in last..Len(text) : text[j] \in {"]", Redacted}
                          \/ Len(text) - last + 1 > MaxTokenLen
              \/ /\ Boundary(text) + 1 \in 1..Len(text)
                 /\ text[Boundary(text) + 1] = "["
<1> DEFINE L == Len(text)
           O == {i \in 1..L : text[i] = "["}
           b == Boundary(text)
           last == Max(O)
<1>1. L \in Nat
  BY LenProperties
<1>2. b = IF \/ O = {}
             \/ \E j \in last..L : text[j] \in {"]", Redacted}
             \/ L - last + 1 > MaxTokenLen
          THEN L ELSE last - 1
  BY DEF Boundary
<1> HIDE DEF b, L
<1>3. \A i \in 1..L : i \in O <=> text[i] = "["
  OBVIOUS
<1>4. O \in SUBSET (1..L)
  OBVIOUS
<1>5. IsFiniteSet(1..L) /\ 1..L \subseteq Int
  BY <1>1, FS_Interval
<1>6. IsFiniteSet(O) /\ O \subseteq Int
  BY <1>4, <1>5, FS_Subset
<1> HIDE DEF O
<1>7. CASE O = {}
  BY <1>1, <1>2, <1>3, <1>7 DEF b, L
<1>8. CASE O # {}
  <2>1. last \in O /\ \A k \in O : k <= last
    BY <1>6, <1>8, MaxIs
  <2> HIDE DEF last
  <2>2. last \in 1..L /\ text[last] = "[" /\ \A i \in 1..L : text[i] = "[" => i <= last
    BY <1>3, <1>4, <2>1
  <2>3. CASE (\E j \in last..L : text[j] \in {"]", Redacted}) \/ L - last + 1 > MaxTokenLen
    <3>1. b = L
      BY <1>2, <2>3
    <3>2. b \in 0..L
      BY <1>1, <3>1
    <3> QED
      BY <2>2, <2>3, <3>1, <3>2 DEF b, L
  <2>4. CASE ~((\E j \in last..L : text[j] \in {"]", Redacted}) \/ L - last + 1 > MaxTokenLen)
    <3>1. b = last - 1
      BY <1>2, <1>8, <2>4
    <3>2. b \in 0..L /\ b + 1 = last
      BY <1>1, <2>2, <3>1
    <3> QED
      BY <2>2, <3>2 DEF b, L
  <2> QED
    BY <2>3, <2>4
<1> QED
  BY <1>7, <1>8

-----------------------------------------------------------------------------
(* A step of StreamingOutputFilter *)

FilterType(f) == f \in [pending : Seq(Chars), released : Seq(Masked), leaked : BOOLEAN]

\* What has been released and what is pending, together, is not a leak.
Unleaked(f) == ~f.leaked /\ ~Leaks(f.released \o f.pending)

LEMMA MaskedAre ==
    /\ \A text \in Seq(Chars) : text \in Seq(Masked) /\ text \in Seq(Symbols)
    /\ \A text \in Seq(Masked) : text \in Seq(Symbols)
<1>1. Chars \subseteq Masked /\ Masked \subseteq Symbols /\ Chars \subseteq Symbols
  BY SymbolsAre
<1> QED
  BY <1>1, SeqMonotonic

LEMMA Joined ==
    \A a, b \in Seq(Symbols) : a \o b \in Seq(Symbols)
<1> SUFFICES ASSUME NEW a \in Seq(Symbols), NEW b \in Seq(Symbols)
             PROVE  a \o b \in Seq(Symbols)
  OBVIOUS
<1> QED
  BY ConcatProperties

LEMMA Regrouped ==
    \A a, b, c \in Seq(Symbols) : (a \o b) \o c = a \o (b \o c)
<1> SUFFICES ASSUME NEW a \in Seq(Symbols), NEW b \in Seq(Symbols), NEW c \in Seq(Symbols)
             PROVE  (a \o b) \o c = a \o (b \o c)
  OBVIOUS
<1> QED
  BY ConcatAssociative

LEMMA ReleaseKeeps ==
    ASSUME NEW f, FilterType(f), ~f.leaked,
           NEW text \in Seq(Chars), NEW n \in 0..Len(text), ~Leaks(f.released \o text)
    PROVE  /\ FilterType(Release(f, text, n).filter) /\ Unleaked(Release(f, text, n).filter)
           /\ Release(f, text, n).safe = Redact(First(text, n))
           /\ Release(f, text, n).safe \in Seq(Masked)
           /\ Release(f, text, n).filter.released = f.released \o Release(f, text, n).safe
           /\ Release(f, text, n).filter.pending = Rest(text, n)
<1> DEFINE a == First(text, n)
           b == Rest(text, n)
           safe == Redact(a)
           g == [f EXCEPT !.pending = b, !.released = @ \o safe]
<1>1. a \in Seq(Chars) /\ b \in Seq(Chars) /\ a \o b = text
  BY FirstIs, RestIs, FirstRest
<1>2. safe \in Seq(Masked)
  BY <1>1, RedactType
<1>3. Release(f, text, n) = [filter |-> g, safe |-> safe]
  BY DEF Release, Result
<1>4. f.released \in Seq(Masked)
  BY DEF FilterType
<1> HIDE DEF a, b, safe
<1>5. f.released \o safe \in Seq(Masked)
  BY <1>2, <1>4, ConcatProperties
<1>6. FilterType(g) /\ g.leaked = f.leaked /\ g.released = f.released \o safe /\ g.pending = b
  BY <1>1, <1>5 DEF FilterType
<1>7. ~Leaks((f.released \o safe) \o b)
  <2> SUFFICES ASSUME Leaks((f.released \o safe) \o b) PROVE FALSE
    OBVIOUS
  <2>1. f.released \in Seq(Symbols) /\ b \in Seq(Symbols) /\ a \in Seq(Symbols)
    BY <1>1, <1>4, MaskedAre
  <2>2. Leaks((f.released \o a) \o b)
    BY <1>1, <2>1, RedactLeak DEF safe
  <2>3. (f.released \o a) \o b = f.released \o text
    <3>1. (f.released \o a) \o b = f.released \o (a \o b)
      BY <2>1, Regrouped, Zenon
    <3> QED
      BY <1>1, <3>1
  <2> QED
    BY <2>2, <2>3
<1> HIDE DEF g
<1>8. Unleaked(g)
  BY <1>6, <1>7 DEF Unleaked
<1> QED
  BY <1>2, <1>3, <1>6, <1>8 DEF a, b, safe

\* Silenced, or with so much of the text released that no leak is in sight.
LEMMA FeedKeeps ==
    ASSUME NEW f, FilterType(f), ~f.leaked, NEW delta \in Seq(Chars)
    PROVE  /\ FilterType(Feed(f, delta).filter) /\ Feed(f, delta).safe \in Seq(Masked)
           /\ Feed(f, delta).filter.released = f.released \o Feed(f, delta).safe
           /\ ~Feed(f, delta).filter.leaked =>
                 /\ Unleaked(Feed(f, delta).filter)
                 /\ Feed(f, delta) =
                       Release(f, f.pending \o delta, EmitBoundary(f.pending \o delta))
           /\ Feed(f, delta).filter.leaked => Feed(f, delta) = Silent(f)
<1> DEFINE text == f.pending \o delta
           n == EmitBoundary(text)
<1>1. f.pending \in Seq(Chars) /\ f.released \in Seq(Masked)
  BY DEF FilterType
<1>2. text \in Seq(Chars)
  BY <1>1, ConcatProperties
<1>3. Feed(f, delta) = IF Leaks(f.released \o text) THEN Silent(f) ELSE Release(f, text, n)
  BY DEF Feed
<1> HIDE DEF text
<1>4. n \in 0..Len(text)
  BY <1>2, EmitIs
<1> HIDE DEF n
<1>5. CASE Leaks(f.released \o text)
  <2>1. Feed(f, delta) = Silent(f)
    BY <1>3, <1>5
  <2>2. /\ Silent(f).filter = [f EXCEPT !.pending = <<>>, !.leaked = TRUE]
        /\ Silent(f).safe = <<>>
    BY DEF Silent, Result
  <2>3. <<>> \in Seq(Chars) /\ <<>> \in Seq(Masked)
    BY EmptySeq
  <2>4. FilterType(Silent(f).filter) /\ Silent(f).filter.leaked
        /\ Silent(f).filter.released = f.released
    BY <2>2, <2>3 DEF FilterType
  <2>5. f.released \o <<>> = f.released
    BY <1>1, ConcatEmptySeq
  <2> QED
    BY <2>1, <2>2, <2>3, <2>4, <2>5
<1>6. CASE ~Leaks(f.released \o text)
  <2>1. Feed(f, delta) = Release(f, text, n)
    BY <1>3, <1>6
  <2>2. /\ FilterType(Release(f, text, n).filter) /\ Unleaked(Release(f, text, n).filter)
        /\ Release(f, text, n).safe \in Seq(Masked)
        /\ Release(f, text, n).filter.released = f.released \o Release(f, text, n).safe
    BY <1>2, <1>4, <1>6, ReleaseKeeps
  <2>3. ~Release(f, text, n).filter.leaked
    BY <2>2 DEF Unleaked
  <2> QED
    BY <2>1, <2>2, <2>3 DEF text, n
<1> QED
  BY <1>5, <1>6

LEMMA FlushKeeps ==
    ASSUME NEW f, FilterType(f), Unleaked(f)
    PROVE  /\ FilterType(Flush(f).filter) /\ Unleaked(Flush(f).filter)
           /\ Flush(f).safe = Redact(f.pending) /\ Flush(f).safe \in Seq(Masked)
           /\ Flush(f).filter.released = f.released \o Flush(f).safe
           /\ Flush(f).filter.pending = <<>>
<1> DEFINE n == Len(f.pending)
<1>1. f.pending \in Seq(Chars)
  BY DEF FilterType
<1>2. n \in Nat /\ n \in 0..Len(f.pending)
  BY <1>1, LenProperties
<1>3. Flush(f) = Release(f, f.pending, n)
  BY DEF Flush, Unleaked
<1>4. First(f.pending, n) = f.pending
  BY <1>1, SubSeqFull DEF First
<1>5. Rest(f.pending, n) = <<>>
  BY <1>2, SubSeqEmpty DEF Rest
<1>6. ~f.leaked /\ ~Leaks(f.released \o f.pending)
  BY DEF Unleaked
<1> HIDE DEF n
<1>7. /\ FilterType(Release(f, f.pending, n).filter) /\ Unleaked(Release(f, f.pending, n).filter)
      /\ Release(f, f.pending, n).safe = Redact(First(f.pending, n))
      /\ Release(f, f.pending, n).safe \in Seq(Masked)
      /\ Release(f, f.pending, n).filter.released = f.released \o Release(f, f.pending, n).safe
      /\ Release(f, f.pending, n).filter.pending = Rest(f.pending, n)
  BY <1>1, <1>2, <1>6, ReleaseKeeps
<1> QED
  BY <1>3, <1>4, <1>5, <1>7

-----------------------------------------------------------------------------
(* A step of VaultRestorer *)

\* Nothing that follows makes a leak of what was sent and is held, that would
\* not make one of what was released.
Passes(s, h, r) == \A c \in Seq(Symbols) : Leaks((s \o h) \o c) => Leaks(r \o c)

RestorerOK ==
    /\ vault \in BOOLEAN /\ held \in Seq(Masked)
    /\ ~vault => held = <<>>

LEMMA ReadyIs ==
    ASSUME RestorerOK, NEW text \in Seq(Masked)
    PROVE  /\ held \o text \in Seq(Masked)
           /\ Boundary(held \o text) \in 0..Len(held \o text)
           /\ Ready(text) \in Seq(Symbols) /\ HeldAfter(text) \in Seq(Masked)
           /\ vault => /\ Ready(text) = Restore(First(held \o text, Boundary(held \o text)))
                       /\ HeldAfter(text) = Rest(held \o text, Boundary(held \o text))
           /\ ~vault => Ready(text) = text /\ HeldAfter(text) = <<>> /\ held = <<>>
<1> DEFINE all == held \o text
           b == Boundary(all)
<1>1. all \in Seq(Masked)
  BY ConcatProperties DEF RestorerOK
<1>2. b \in 0..Len(all)
  <2> HIDE DEF all
  <2> QED
    BY <1>1, BoundaryIs
<1>3. First(all, b) \in Seq(Masked) /\ Rest(all, b) \in Seq(Masked)
  <2> HIDE DEF all, b
  <2> QED
    BY <1>1, <1>2, FirstIs, RestIs
<1>4. Restore(First(all, b)) \in Seq(Symbols)
  BY <1>3, RestoreType
<1>5. vault \in BOOLEAN /\ (~vault => held = <<>>)
  BY DEF RestorerOK
<1>6. CASE vault
  <2>1. Ready(text) = Restore(First(all, b)) /\ HeldAfter(text) = Rest(all, b)
    BY <1>6 DEF Ready, HeldAfter
  <2> QED
    BY <1>1, <1>2, <1>3, <1>4, <1>6, <2>1
<1>7. CASE ~vault
  <2>1. Ready(text) = text /\ HeldAfter(text) = <<>> /\ held = <<>>
    BY <1>5, <1>7 DEF Ready, HeldAfter
  <2>2. text \in Seq(Symbols) /\ <<>> \in Seq(Masked)
    BY MaskedAre, EmptySeq
  <2> QED
    BY <1>1, <1>2, <1>7, <2>1, <2>2
<1> QED
  BY <1>5, <1>6, <1>7

LEMMA ReadyPasses ==
    ASSUME RestorerOK, sent \in Seq(Symbols), NEW text \in Seq(Masked), NEW r \in Seq(Symbols),
           Passes(sent, held, r)
    PROVE  Passes(sent \o Ready(text), HeldAfter(text), r \o text)
<1> SUFFICES ASSUME NEW c \in Seq(Symbols), Leaks(((sent \o Ready(text)) \o HeldAfter(text)) \o c)
             PROVE  Leaks((r \o text) \o c)
  BY DEF Passes
<1>1. held \in Seq(Symbols) /\ text \in Seq(Symbols) /\ vault \in BOOLEAN
  BY MaskedAre DEF RestorerOK
<1>2. text \o c \in Seq(Symbols) /\ (r \o text) \o c = r \o (text \o c)
  BY <1>1, ConcatProperties, ConcatAssociative
<1>3. Leaks((sent \o held) \o (text \o c))
  <2>1. /\ (sent \o held) \o text = sent \o (held \o text)
        /\ ((sent \o held) \o text) \o c = (sent \o held) \o (text \o c)
    <3>1. sent \o held \in Seq(Symbols)
      BY <1>1, Joined, Zenon
    <3>2. (sent \o held) \o text = sent \o (held \o text)
      BY <1>1, Regrouped, Zenon
    <3>3. ((sent \o held) \o text) \o c = (sent \o held) \o (text \o c)
      BY <1>1, <3>1, Regrouped, Zenon
    <3> QED
      BY <3>2, <3>3
  <2>2. CASE vault
    <3> DEFINE a == First(held \o text, Boundary(held \o text))
               b == Rest(held \o text, Boundary(held \o text))
    <3>1. Ready(text) = Restore(a) /\ HeldAfter(text) = b
      BY <2>2, ReadyIs
    <3>2. a \in Seq(Masked) /\ b \in Seq(Masked) /\ a \o b = held \o text
      <4> DEFINE all == held \o text
                 n == Boundary(all)
      <4>1. all \in Seq(Masked) /\ n \in 0..Len(all)
        BY ReadyIs
      <4> HIDE DEF all, n
      <4>2. First(all, n) \in Seq(Masked) /\ Rest(all, n) \in Seq(Masked)
            /\ First(all, n) \o Rest(all, n) = all
        BY <4>1, FirstIs, RestIs, FirstRest
      <4> QED
        BY <4>2 DEF all, n
    <3> HIDE DEF a, b
    <3>3. Restore(a) \in Seq(Symbols) /\ a \in Seq(Symbols) /\ b \in Seq(Symbols)
      BY <3>2, RestoreType, MaskedAre
    <3>4. b \o c \in Seq(Symbols)
      BY <3>3, ConcatProperties
    <3>5. ((sent \o Restore(a)) \o b) \o c = (sent \o Restore(a)) \o (b \o c)
      <4>1. sent \o Restore(a) \in Seq(Symbols)
        BY <3>3, Joined, Zenon
      <4> QED
        BY <3>3, <4>1, Regrouped, Zenon
    <3>6. Leaks((sent \o Restore(a)) \o (b \o c))
      BY <3>1, <3>5
    <3>7. Leaks((sent \o a) \o (b \o c))
      BY <3>2, <3>4, <3>6, RestoreLeak
    <3>8. (sent \o a) \o b = sent \o (a \o b)
      BY <3>3, Regrouped, Zenon
    <3>9. ((sent \o a) \o b) \o c = (sent \o a) \o (b \o c)
      <4>1. sent \o a \in Seq(Symbols)
        BY <3>3, Joined, Zenon
      <4> QED
        BY <3>3, <4>1, Regrouped, Zenon
    <3> QED
      BY <2>1, <3>2, <3>7, <3>8, <3>9
  <2>3. CASE ~vault
    <3>1. Ready(text) = text /\ HeldAfter(text) = <<>> /\ held = <<>>
      BY <2>3, ReadyIs
    <3>2. sent \o text \in Seq(Symbols)
      BY <1>1, ConcatProperties
    <3>3. (sent \o text) \o <<>> = sent \o text /\ sent \o <<>> = sent
      BY <3>2, ConcatEmptySeq
    <3>4. (sent \o text) \o c = sent \o (text \o c)
      BY <1>1, ConcatAssociative
    <3> QED
      BY <3>1, <3>3, <3>4
  <2> QED
    BY <1>1, <2>2, <2>3
<1> QED
  BY <1>2, <1>3 DEF Passes

LEMMA ReadyWholeIs ==
    ASSUME RestorerOK, sent \in Seq(Symbols), NEW text \in Seq(Masked)
    PROVE  /\ ReadyWhole(text) \in Seq(Symbols)
           /\ sent \o ReadyWhole(text) =
                 (sent \o Ready(text)) \o Restore(HeldAfter(text))
           /\ sent \o ReadyWhole(text) \in Seq(Symbols)
<1>1. Ready(text) \in Seq(Symbols) /\ HeldAfter(text) \in Seq(Masked)
  BY ReadyIs
<1>2. Restore(HeldAfter(text)) \in Seq(Symbols)
  BY <1>1, RestoreType
<1>3. ReadyWhole(text) \in Seq(Symbols)
  BY <1>1, <1>2, ConcatProperties DEF ReadyWhole
<1>4. sent \o ReadyWhole(text) \in Seq(Symbols)
  BY <1>3, ConcatProperties
<1>5. (sent \o Ready(text)) \o Restore(HeldAfter(text)) =
         sent \o (Ready(text) \o Restore(HeldAfter(text)))
  BY <1>1, <1>2, ConcatAssociative
<1> QED
  BY <1>3, <1>4, <1>5 DEF ReadyWhole

LEMMA ReadyWholePasses ==
    ASSUME RestorerOK, sent \in Seq(Symbols), NEW text \in Seq(Masked), NEW r \in Seq(Symbols),
           Passes(sent, held, r)
    PROVE  Passes(sent \o ReadyWhole(text), <<>>, r \o text)
<1> SUFFICES ASSUME NEW c \in Seq(Symbols), Leaks(((sent \o ReadyWhole(text)) \o <<>>) \o c)
             PROVE  Leaks((r \o text) \o c)
  BY DEF Passes
<1> DEFINE s == sent \o Ready(text)
           h == HeldAfter(text)
<1>1. h \in Seq(Masked) /\ s \in Seq(Symbols)
  BY ReadyIs, ConcatProperties
<1>2. sent \o ReadyWhole(text) = s \o Restore(h) /\ sent \o ReadyWhole(text) \in Seq(Symbols)
  BY ReadyWholeIs
<1>3. Leaks((s \o Restore(h)) \o c)
  BY <1>2, ConcatEmptySeq
<1>4. Passes(s, h, r \o text)
  BY ReadyPasses
<1> HIDE DEF s, h
<1>5. Leaks((s \o h) \o c)
  BY <1>1, <1>3, RestoreLeak
<1> QED
  BY <1>4, <1>5 DEF Passes

\* What passes, and is not a leak with what may still follow, is not a leak.
LEMMA PassedNoLeak ==
    ASSUME NEW s \in Seq(Symbols), NEW h \in Seq(Symbols), NEW r \in Seq(Symbols),
           NEW p \in Seq(Symbols), Passes(s, h, r), ~Leaks(r \o p)
    PROVE  ~Leaks(s)
<1> SUFFICES ASSUME Leaks(s) PROVE FALSE
  OBVIOUS
<1> DEFINE x == h \o p
<1>1. x \in Seq(Symbols) /\ (s \o h) \o p = s \o x
  BY ConcatProperties, ConcatAssociative
<1> HIDE DEF x
<1>2. PICK i \in 1..Len(s) :
         i + 2 <= Len(s) /\ s[i] = "!" /\ s[i + 1] = "!" /\ s[i + 2] = "!"
  BY LeakIs
<1>3. /\ s \o x \in Seq(Symbols) /\ Len(s \o x) = Len(s) + Len(x)
      /\ \A j \in 1..(Len(s) + Len(x)) : (s \o x)[j] = IF j <= Len(s) THEN s[j] ELSE x[j - Len(s)]
  BY <1>1, ConcatProperties
<1>4. Len(s) \in Nat /\ Len(x) \in Nat
  BY <1>1, LenProperties
<1>5. i \in 1..Len(s \o x) /\ i + 2 <= Len(s \o x)
  BY <1>2, <1>3, <1>4
<1>6. \A j \in {i, i + 1, i + 2} : j \in 1..(Len(s) + Len(x)) /\ j <= Len(s)
  BY <1>2, <1>4
<1>7. (s \o x)[i] = "!" /\ (s \o x)[i + 1] = "!" /\ (s \o x)[i + 2] = "!"
  BY <1>2, <1>3, <1>6
<1>8. Leaks(s \o x)
  BY <1>3, <1>5, <1>7, LeakIs
<1> QED
  BY <1>1, <1>8 DEF Passes

-----------------------------------------------------------------------------
(* Type correctness, and no leak *)

NoLeakInv ==
    /\ TypeOK
    /\ ~filter.leaked => Unleaked(filter)
    /\ Passes(sent, held, filter.released)
    /\ ~Leaks(sent)
    /\ ~vault => held = <<>>
    /\ filter.leaked => stage \in {"stopped", "settled", "broken"}
    /\ stage = "stopped" => filter.leaked
    /\ saved # NoText => stage = "settled" /\ ~filter.leaked /\ saved = Text(filter)

LEMMA TypesAre ==
    ASSUME TypeOK
    PROVE  /\ received \in Seq(Chars) /\ FilterType(filter) /\ vault \in BOOLEAN
           /\ held \in Seq(Masked) /\ sent \in Seq(Symbols) /\ stage \in Stages
           /\ billed \in Seq(Masked) \cup {NoText} /\ saved \in Seq(Masked) \cup {NoText}
           /\ filter.pending \in Seq(Chars) /\ filter.released \in Seq(Masked)
           /\ filter.leaked \in BOOLEAN
<1>1. Symbols = Chars \cup {Redacted, Restored} /\ Masked = Chars \cup {Redacted}
  BY DEF Symbols, Masked
<1> QED
  BY <1>1 DEF TypeOK, FilterType

\* What a step must establish for the types.
LEMMA TypesNext ==
    ASSUME received' \in Seq(Chars), FilterType(filter'), vault' \in BOOLEAN,
           held' \in Seq(Masked), sent' \in Seq(Symbols), stage' \in Stages,
           billed' \in Seq(Masked) \cup {NoText}, saved' \in Seq(Masked) \cup {NoText}
    PROVE  TypeOK'
<1>1. Symbols = Chars \cup {Redacted, Restored} /\ Masked = Chars \cup {Redacted}
  BY DEF Symbols, Masked
<1> QED
  BY <1>1 DEF TypeOK, FilterType

LEMMA RestorerIs ==
    ASSUME NoLeakInv
    PROVE  RestorerOK
BY TypesAre DEF NoLeakInv, RestorerOK

LEMMA PieceIs ==
    ASSUME NEW piece \in Pieces \cup {<<>>}
    PROVE  piece \in Seq(Chars)
<1>1. CASE piece = <<>>
  BY <1>1, EmptySeq
<1>2. CASE piece \in Pieces
  <2>1. PICK n \in 1..MaxChunk : piece \in [1..n -> Chars]
    BY <1>2 DEF Pieces
  <2>2. n \in Nat
    BY StreamAssumption
  <2> QED
    BY <2>1, <2>2
<1> QED
  BY <1>1, <1>2

LEMMA ReceiveIs ==
    ASSUME TypeOK, NEW piece \in Seq(Chars), Receive(piece)
    PROVE  received' \in Seq(Chars) /\ received' = received \o piece /\ stage = "reading"
<1>1. received \in Seq(Chars)
  BY TypesAre
<1>2. received \o piece \in Seq(Chars)
  BY <1>1, ConcatProperties
<1> QED
  BY <1>2 DEF Receive

LEMMA EmptyHasNoLeak == ~Leaks(<<>>)
<1>1. 1..Len(<<>>) = {}
  OBVIOUS
<1> QED
  BY <1>1, Zenon DEF Leaks

LEMMA InitNoLeak ==
    ASSUME Init
    PROVE  NoLeakInv
<1>1. /\ <<>> \in Seq(Chars) /\ <<>> \in Seq(Masked) /\ <<>> \in Seq(Symbols)
  BY EmptySeq
<1>2. <<>> \o <<>> = <<>>
  BY <1>1, ConcatEmptySeq
<1>3. TypeOK
  BY <1>1 DEF Init, TypeOK, Stages, Masked, Symbols
<1>4. Passes(<<>>, <<>>, <<>>)
  BY <1>2 DEF Passes
<1>5. Unleaked(filter)
  BY <1>2, EmptyHasNoLeak DEF Init, Unleaked
<1>6. /\ sent = <<>> /\ held = <<>> /\ filter.released = <<>> /\ saved = NoText
      /\ ~filter.leaked /\ stage = "reading"
  BY DEF Init
<1>7. Passes(sent, held, filter.released)
  BY <1>4, <1>6
<1> QED
  BY <1>3, <1>5, <1>6, <1>7, EmptyHasNoLeak DEF NoLeakInv

\* The filter has let a text through and the restorer has passed on what of it
\* is ready: the state after is as leak-free.
LEMMA ReadyStep ==
    ASSUME NoLeakInv, ~filter.leaked, NEW text \in Seq(Masked),
           FilterType(filter'), Unleaked(filter'), filter'.released = filter.released \o text,
           sent' = sent \o Ready(text), held' = HeldAfter(text), vault' = vault
    PROVE  /\ sent' \in Seq(Symbols) /\ held' \in Seq(Masked)
           /\ Passes(sent', held', filter'.released)
           /\ ~Leaks(sent') /\ (~vault' => held' = <<>>)
<1>1. RestorerOK
  BY RestorerIs
<1>2. sent \in Seq(Symbols) /\ filter.released \in Seq(Symbols)
  BY TypesAre, MaskedAre DEF NoLeakInv
<1>3. /\ Ready(text) \in Seq(Symbols) /\ HeldAfter(text) \in Seq(Masked)
      /\ ~vault => HeldAfter(text) = <<>>
  BY <1>1, ReadyIs
<1>4. sent' \in Seq(Symbols) /\ held' \in Seq(Masked)
  BY <1>2, <1>3, ConcatProperties
<1>5. Passes(sent, held, filter.released)
  BY DEF NoLeakInv
<1>6. Passes(sent \o Ready(text), HeldAfter(text), filter.released \o text)
  BY <1>1, <1>2, <1>5, ReadyPasses
<1>7. Passes(sent', held', filter'.released)
  BY <1>6
<1>8. ~Leaks(filter'.released \o filter'.pending)
  BY DEF Unleaked
<1>9. /\ filter'.released \in Seq(Symbols) /\ filter'.pending \in Seq(Symbols)
      /\ held' \in Seq(Symbols)
  BY <1>4, MaskedAre DEF FilterType
<1>10. ~Leaks(sent')
  BY <1>4, <1>7, <1>8, <1>9, PassedNoLeak
<1> QED
  BY <1>3, <1>4, <1>7, <1>10

LEMMA ReadyWholeStep ==
    ASSUME NoLeakInv, ~filter.leaked, NEW text \in Seq(Masked),
           FilterType(filter'), Unleaked(filter'), filter'.released = filter.released \o text,
           sent' = sent \o ReadyWhole(text), held' = <<>>, vault' = vault
    PROVE  /\ sent' \in Seq(Symbols) /\ held' \in Seq(Masked)
           /\ Passes(sent', held', filter'.released)
           /\ ~Leaks(sent') /\ (~vault' => held' = <<>>)
<1>1. RestorerOK
  BY RestorerIs
<1>2. sent \in Seq(Symbols) /\ filter.released \in Seq(Symbols)
  BY TypesAre, MaskedAre DEF NoLeakInv
<1>3. sent' \in Seq(Symbols)
  BY <1>1, <1>2, ReadyWholeIs
<1>4. held' \in Seq(Masked) /\ held' \in Seq(Symbols)
  BY EmptySeq
<1>5. Passes(sent, held, filter.released)
  BY DEF NoLeakInv
<1>6. Passes(sent \o ReadyWhole(text), <<>>, filter.released \o text)
  BY <1>1, <1>2, <1>5, ReadyWholePasses
<1>7. Passes(sent', held', filter'.released)
  BY <1>6
<1>8. ~Leaks(filter'.released \o filter'.pending)
  BY DEF Unleaked
<1>9. filter'.released \in Seq(Symbols) /\ filter'.pending \in Seq(Symbols)
  BY MaskedAre DEF FilterType
<1>10. ~Leaks(sent')
  BY <1>3, <1>4, <1>7, <1>8, <1>9, PassedNoLeak
<1> QED
  BY <1>3, <1>4, <1>7, <1>10

\* While the loop runs nothing has leaked and nothing is saved.
LEMMA Running ==
    ASSUME NoLeakInv, stage \in {"reading", "finished", "closing"}
    PROVE  ~filter.leaked /\ Unleaked(filter) /\ saved = NoText
BY DEF NoLeakInv

LEMMA ChunkNoLeak ==
    ASSUME NoLeakInv, NEW piece \in Pieces, Chunk(piece)
    PROVE  NoLeakInv'
<1> DEFINE fed == Feed(filter, piece)
<1>1. TypeOK /\ piece \in Seq(Chars) /\ FilterType(filter)
  BY PieceIs, TypesAre DEF NoLeakInv
<1>2. received' \in Seq(Chars) /\ stage = "reading"
  BY <1>1, ReceiveIs DEF Chunk
<1>3. ~filter.leaked /\ saved = NoText
  BY <1>2, Running
<1>4. /\ ~fed.filter.leaked /\ filter' = fed.filter
      /\ sent' = sent \o Ready(fed.safe) /\ held' = HeldAfter(fed.safe)
      /\ stage' = "reading" /\ vault' = vault /\ billed' = billed /\ saved' = saved
  BY DEF Chunk
<1>5. /\ FilterType(fed.filter) /\ fed.safe \in Seq(Masked) /\ Unleaked(fed.filter)
      /\ fed.filter.released = filter.released \o fed.safe
  BY <1>1, <1>3, <1>4, FeedKeeps
<1> HIDE DEF fed
<1>6. /\ sent' \in Seq(Symbols) /\ held' \in Seq(Masked)
      /\ Passes(sent', held', filter'.released)
      /\ ~Leaks(sent') /\ (~vault' => held' = <<>>)
  BY <1>3, <1>4, <1>5, ReadyStep
<1>7. TypeOK'
  BY <1>1, <1>2, <1>4, <1>5, <1>6, TypesAre, TypesNext DEF Stages
<1>8. Unleaked(filter') /\ ~filter'.leaked /\ saved' = NoText /\ stage' # "stopped"
  BY <1>3, <1>4, <1>5
<1> QED
  BY <1>6, <1>7, <1>8 DEF NoLeakInv, Unleaked

LEMMA StopNoLeak ==
    ASSUME NoLeakInv, NEW piece \in Pieces, Stop(piece)
    PROVE  NoLeakInv'
<1> DEFINE fed == Feed(filter, piece)
<1>1. TypeOK /\ piece \in Seq(Chars) /\ FilterType(filter)
  BY PieceIs, TypesAre DEF NoLeakInv
<1>2. received' \in Seq(Chars) /\ stage = "reading"
  BY <1>1, ReceiveIs DEF Stop
<1>3. ~filter.leaked /\ saved = NoText
  BY <1>2, Running
<1>4. /\ fed.filter.leaked /\ filter' = fed.filter /\ stage' = "stopped"
      /\ vault' = vault /\ held' = held /\ sent' = sent
      /\ billed' = billed /\ saved' = saved
  BY DEF Stop
<1>5. FilterType(fed.filter) /\ fed = Silent(filter)
  BY <1>1, <1>3, <1>4, FeedKeeps
<1>6. fed.filter.released = filter.released
  <2>1. Silent(filter).filter = [filter EXCEPT !.pending = <<>>, !.leaked = TRUE]
    BY DEF Silent, Result
  <2>2. Silent(filter).filter.released = filter.released
    BY <1>1, <2>1 DEF FilterType
  <2> QED
    BY <1>5, <2>2
<1> HIDE DEF fed
<1>7. TypeOK'
  BY <1>1, <1>2, <1>4, <1>5, TypesAre, TypesNext DEF Stages
<1>8. /\ Passes(sent, held, filter.released) /\ ~Leaks(sent) /\ (~vault => held = <<>>)
  BY DEF NoLeakInv
<1>9. Passes(sent', held', filter'.released)
  BY <1>4, <1>6, <1>8
<1> QED
  BY <1>3, <1>4, <1>7, <1>8, <1>9 DEF NoLeakInv, Unleaked

\* The filter after the piece that comes with the end of the stream.
LEMMA LastFed ==
    ASSUME NEW f, FilterType(f), Unleaked(f), NEW piece \in Seq(Chars), NEW fed,
           fed = IF piece = <<>> THEN Result(f, <<>>) ELSE Feed(f, piece),
           ~fed.filter.leaked
    PROVE  /\ FilterType(fed.filter) /\ Unleaked(fed.filter) /\ fed.safe \in Seq(Masked)
           /\ fed.filter.released = f.released \o fed.safe
<1>1. CASE piece = <<>>
  <2>1. fed.filter = f /\ fed.safe = <<>>
    BY <1>1 DEF Result
  <2>2. f.released \in Seq(Masked) /\ <<>> \in Seq(Masked)
    BY EmptySeq DEF FilterType
  <2>3. f.released \o <<>> = f.released
    BY <2>2, ConcatEmptySeq
  <2> QED
    BY <2>1, <2>2, <2>3
<1>2. CASE piece # <<>>
  <2>1. fed = Feed(f, piece)
    BY <1>2
  <2>2. ~f.leaked
    BY DEF Unleaked
  <2> QED
    BY <2>1, <2>2, FeedKeeps
<1> QED
  BY <1>1, <1>2

LEMMA LastChunkNoLeak ==
    ASSUME NoLeakInv, NEW piece \in Pieces \cup {<<>>}, LastChunk(piece)
    PROVE  NoLeakInv'
<1> DEFINE fed     == IF piece = <<>> THEN Result(filter, <<>>) ELSE Feed(filter, piece)
           flushed == Flush(fed.filter)
           text    == fed.safe \o flushed.safe
<1>1. TypeOK /\ piece \in Seq(Chars) /\ FilterType(filter)
  BY PieceIs, TypesAre DEF NoLeakInv
<1>2. received' \in Seq(Chars) /\ stage = "reading"
  BY <1>1, ReceiveIs DEF LastChunk
<1>3. ~filter.leaked /\ Unleaked(filter) /\ saved = NoText
  BY <1>2, Running
<1>4. /\ ~fed.filter.leaked /\ filter' = flushed.filter
      /\ sent' = sent \o ReadyWhole(text) /\ held' = <<>>
      /\ stage' = "finished" /\ vault' = vault /\ billed' = billed /\ saved' = saved
  BY DEF LastChunk
<1>5. /\ FilterType(fed.filter) /\ Unleaked(fed.filter) /\ fed.safe \in Seq(Masked)
      /\ fed.filter.released = filter.released \o fed.safe
  <2> DEFINE g == fed
  <2>1. g = IF piece = <<>> THEN Result(filter, <<>>) ELSE Feed(filter, piece)
    OBVIOUS
  <2>2. ~g.filter.leaked
    BY <1>4
  <2> HIDE DEF g
  <2>3. /\ FilterType(g.filter) /\ Unleaked(g.filter) /\ g.safe \in Seq(Masked)
        /\ g.filter.released = filter.released \o g.safe
    BY <1>1, <1>3, <2>1, <2>2, LastFed
  <2> QED
    BY <2>3 DEF g
<1> HIDE DEF fed
<1>6. /\ FilterType(flushed.filter) /\ Unleaked(flushed.filter) /\ flushed.safe \in Seq(Masked)
      /\ flushed.filter.released = fed.filter.released \o flushed.safe
  BY <1>5, FlushKeeps
<1> HIDE DEF flushed
<1>7. text \in Seq(Masked)
  BY <1>5, <1>6, ConcatProperties
<1>8. flushed.filter.released = filter.released \o text
  <2>1. /\ filter.released \in Seq(Symbols)
        /\ fed.safe \in Seq(Symbols) /\ flushed.safe \in Seq(Symbols)
    BY <1>1, <1>5, <1>6, TypesAre, MaskedAre
  <2>2. (filter.released \o fed.safe) \o flushed.safe =
           filter.released \o (fed.safe \o flushed.safe)
    BY <2>1, Regrouped, Zenon
  <2> QED
    BY <1>5, <1>6, <2>2
<1> HIDE DEF text
<1>9. /\ sent' \in Seq(Symbols) /\ held' \in Seq(Masked)
      /\ Passes(sent', held', filter'.released)
      /\ ~Leaks(sent') /\ (~vault' => held' = <<>>)
  BY <1>3, <1>4, <1>6, <1>7, <1>8, ReadyWholeStep
<1>10. TypeOK'
  BY <1>1, <1>2, <1>4, <1>6, <1>9, TypesAre, TypesNext DEF Stages
<1>11. Unleaked(filter') /\ saved' = NoText /\ stage' # "stopped"
  BY <1>3, <1>4, <1>6
<1> QED
  BY <1>9, <1>10, <1>11 DEF NoLeakInv, Unleaked

LEMMA DrainTailNoLeak ==
    ASSUME NoLeakInv, DrainTail
    PROVE  NoLeakInv'
<1> DEFINE flushed == Flush(filter)
<1>1. TypeOK /\ FilterType(filter) /\ stage \in {"reading", "finished"}
  BY TypesAre DEF NoLeakInv, DrainTail
<1>2. ~filter.leaked /\ Unleaked(filter) /\ saved = NoText
  BY <1>1, Running
<1>3. /\ filter' = flushed.filter
      /\ sent' = sent \o ReadyWhole(flushed.safe) /\ held' = <<>>
      /\ stage' = "closing" /\ received' = received
      /\ vault' = vault /\ billed' = billed /\ saved' = saved
  BY DEF DrainTail, Leftover
<1>4. /\ FilterType(flushed.filter) /\ Unleaked(flushed.filter) /\ flushed.safe \in Seq(Masked)
      /\ flushed.filter.released = filter.released \o flushed.safe
  BY <1>1, <1>2, FlushKeeps
<1> HIDE DEF flushed
<1>5. /\ sent' \in Seq(Symbols) /\ held' \in Seq(Masked)
      /\ Passes(sent', held', filter'.released)
      /\ ~Leaks(sent') /\ (~vault' => held' = <<>>)
  BY <1>2, <1>3, <1>4, ReadyWholeStep
<1>6. TypeOK'
  BY <1>1, <1>3, <1>4, <1>5, TypesAre, TypesNext DEF Stages
<1>7. Unleaked(filter') /\ saved' = NoText /\ stage' # "stopped"
  BY <1>2, <1>3, <1>4
<1> QED
  BY <1>5, <1>6, <1>7 DEF NoLeakInv, Unleaked

LEMMA SettleNoLeak ==
    ASSUME NoLeakInv, Settle
    PROVE  NoLeakInv'
<1>1. /\ stage \in {"reading", "finished", "closing", "stopped"}
      /\ billed' = Text(filter) /\ saved' = IF Saves THEN Text(filter) ELSE NoText
      /\ stage' = "settled"
      /\ received' = received /\ filter' = filter /\ vault' = vault /\ held' = held /\ sent' = sent
  BY DEF Settle, SavedText
<1>2. TypeOK /\ Text(filter) \in Seq(Masked)
  <2>1. filter.released \in Seq(Masked) /\ filter.pending \in Seq(Masked)
    BY TypesAre, MaskedAre DEF NoLeakInv
  <2>2. filter.released \o filter.pending \in Seq(Masked)
    BY <2>1, ConcatProperties
  <2> QED
    BY <2>2 DEF NoLeakInv, Text
<1>3. TypeOK'
  BY <1>1, <1>2, TypesAre, TypesNext DEF Stages
<1>4. saved' # NoText => ~filter'.leaked /\ saved' = Text(filter')
  <2>1. CASE stage = "stopped"
    BY <1>1, <2>1 DEF Saves
  <2>2. CASE stage # "stopped"
    <3>1. ~filter.leaked
      BY <1>1, <2>2 DEF NoLeakInv
    <3> QED
      BY <1>1, <2>2, <3>1 DEF Saves
  <2> QED
    BY <2>1, <2>2
<1>5. /\ ~filter.leaked => Unleaked(filter)
      /\ Passes(sent, held, filter.released) /\ ~Leaks(sent) /\ (~vault => held = <<>>)
  BY DEF NoLeakInv
<1>6. /\ ~filter'.leaked => Unleaked(filter')
      /\ Passes(sent', held', filter'.released) /\ ~Leaks(sent') /\ (~vault' => held' = <<>>)
  BY <1>1, <1>5
<1> QED
  BY <1>1, <1>3, <1>4, <1>6 DEF NoLeakInv

LEMMA BreakNoLeak ==
    ASSUME NoLeakInv, Break
    PROVE  NoLeakInv'
<1>1. /\ stage \in {"reading", "finished", "closing", "stopped"}
      /\ stage' = IF stage \in {"finished", "closing"} THEN "abandoned" ELSE "broken"
      /\ billed' = <<>>
      /\ received' = received /\ filter' = filter /\ vault' = vault /\ held' = held
      /\ sent' = sent /\ saved' = saved
  BY DEF Break
<1>2. TypeOK /\ <<>> \in Seq(Masked)
  BY EmptySeq DEF NoLeakInv
<1>3. stage' \in Stages
  BY <1>1 DEF Stages
<1>4. TypeOK'
  BY <1>1, <1>2, <1>3, TypesAre, TypesNext
<1>5. /\ ~filter.leaked => Unleaked(filter)
      /\ Passes(sent, held, filter.released) /\ ~Leaks(sent) /\ (~vault => held = <<>>)
      /\ filter.leaked => stage = "stopped"
      /\ saved = NoText
  BY <1>1 DEF NoLeakInv
<1>6. /\ ~filter'.leaked => Unleaked(filter')
      /\ Passes(sent', held', filter'.released) /\ ~Leaks(sent') /\ (~vault' => held' = <<>>)
      /\ saved' = NoText
      /\ filter'.leaked => stage' = "broken"
      /\ stage' # "stopped"
  BY <1>1, <1>5
<1> QED
  BY <1>4, <1>6 DEF NoLeakInv

LEMMA StutterNoLeak ==
    ASSUME NoLeakInv, UNCHANGED vars
    PROVE  NoLeakInv'
<1>1. /\ received' = received /\ filter' = filter /\ vault' = vault /\ held' = held
      /\ sent' = sent /\ stage' = stage /\ billed' = billed /\ saved' = saved
  BY DEF vars
<1>2. TypeOK'
  BY <1>1 DEF NoLeakInv, TypeOK
<1> QED
  BY <1>1, <1>2 DEF NoLeakInv

LEMMA NextNoLeak ==
    ASSUME NoLeakInv, [Next]_vars
    PROVE  NoLeakInv'
<1>1. ASSUME NEW piece \in Pieces, Chunk(piece) PROVE NoLeakInv'
  BY <1>1, ChunkNoLeak
<1>2. ASSUME NEW piece \in Pieces, Stop(piece) PROVE NoLeakInv'
  BY <1>2, StopNoLeak
<1>3. ASSUME NEW piece \in Pieces \cup {<<>>}, LastChunk(piece) PROVE NoLeakInv'
  BY <1>3, LastChunkNoLeak
<1>4. CASE DrainTail
  BY <1>4, DrainTailNoLeak
<1>5. CASE Settle
  BY <1>5, SettleNoLeak
<1>6. CASE Break
  BY <1>6, BreakNoLeak
<1>7. CASE UNCHANGED vars
  BY <1>7, StutterNoLeak
<1> QED
  BY <1>1, <1>2, <1>3, <1>4, <1>5, <1>6, <1>7 DEF Next

LEMMA NoLeakInvariant == Spec => []NoLeakInv
<1>1. Init => NoLeakInv
  BY InitNoLeak
<1>2. NoLeakInv /\ [Next]_vars => NoLeakInv'
  BY NextNoLeak
<1> QED
  BY <1>1, <1>2, PTL DEF Spec

\* Every variable of the stream keeps its type, and neither the billed nor the
\* cached text has a restored value in it.
THEOREM TypeCorrect == Spec => []TypeOK
<1>1. NoLeakInv => TypeOK
  BY DEF NoLeakInv
<1> QED
  BY <1>1, NoLeakInvariant, PTL

\* Whatever the backend sends and however it is cut into pieces, the client is
\* never sent a whole leaked phrase, and no answer with one is cached.
THEOREM NoLeakEver == Spec => []NoLeakPassed
<1>1. NoLeakInv => NoLeakPassed
  BY DEF NoLeakInv, NoLeakPassed, Unleaked, Text
<1> QED
  BY <1>1, NoLeakInvariant, PTL

-----------------------------------------------------------------------------
(* Redacting a text in parts *)

LEMMA AtConcat ==
    ASSUME NEW S, NEW a \in Seq(S), NEW b \in Seq(S), NEW i \in Int
    PROVE  /\ At(a \o b, i) = IF i <= Len(a) THEN At(a, i) ELSE At(b, i - Len(a))
           /\ IsWord(a \o b, i) <=> IF i <= Len(a) THEN IsWord(a, i) ELSE IsWord(b, i - Len(a))
           /\ a \o b \in Seq(S) /\ Len(a \o b) = Len(a) + Len(b)
           /\ Len(a) \in Nat /\ Len(b) \in Nat
<1> DEFINE x == a \o b
<1>1. Len(a) \in Nat /\ Len(b) \in Nat
  BY LenProperties
<1>2. /\ x \in Seq(S) /\ Len(x) = Len(a) + Len(b)
      /\ \A j \in 1..(Len(a) + Len(b)) : x[j] = IF j <= Len(a) THEN a[j] ELSE b[j - Len(a)]
  BY ConcatProperties
<1> HIDE DEF x
<1>3. At(x, i) = IF i <= Len(a) THEN At(a, i) ELSE At(b, i - Len(a))
  <2>1. CASE i \in 1..Len(a)
    <3>1. i \in 1..(Len(a) + Len(b)) /\ i <= Len(a)
      BY <1>1, <2>1
    <3> QED
      BY <1>2, <2>1, <3>1 DEF At
  <2>2. CASE ~(i <= Len(a)) /\ i <= Len(a) + Len(b)
    <3>1. i \in 1..(Len(a) + Len(b)) /\ i - Len(a) \in 1..Len(b)
      BY <1>1, <2>2
    <3> QED
      BY <1>2, <2>2, <3>1 DEF At
  <2>3. CASE i < 1
    <3>1. i \notin 1..Len(a) /\ i \notin 1..Len(x) /\ i <= Len(a)
      BY <1>1, <1>2, <2>3
    <3> QED
      BY <3>1 DEF At
  <2>4. CASE ~(i <= Len(a) + Len(b))
    <3>1. i - Len(a) \notin 1..Len(b) /\ i \notin 1..Len(x) /\ ~(i <= Len(a))
      BY <1>1, <1>2, <2>4
    <3> QED
      BY <3>1 DEF At
  <2> QED
    BY <1>1, <2>1, <2>2, <2>3, <2>4
<1>4. IsWord(x, i) <=> IF i <= Len(a) THEN IsWord(a, i) ELSE IsWord(b, i - Len(a))
  BY <1>3 DEF IsWord
<1> QED
  BY <1>1, <1>2, <1>3, <1>4 DEF x

LEMMA AtIs ==
    ASSUME NEW S, NEW text \in Seq(S), NEW i
    PROVE  /\ i \in 1..Len(text) => At(text, i) = text[i]
           /\ i \notin 1..Len(text) => At(text, i) = Nothing /\ ~IsWord(text, i)
BY SymbolsAre DEF At, IsWord

LEMMA StarterEnd ==
    ASSUME NEW S, NEW text \in Seq(S), NEW i \in 1..Len(text), Starter(text, i)
    PROVE  /\ WordEnd(text, i) \in Int /\ i + 1 <= WordEnd(text, i)
           /\ WordEnd(text, i) <= Len(text)
<1> DEFINE w == WordEnd(text, i)
<1>1. IsWord(text, i) /\ IsWord(text, i + 1) /\ i + 1 <= Len(text)
  BY StarterIs
<1>2. w \in Int /\ i <= w /\ w <= Len(text) /\ (w < Len(text) => ~IsWord(text, w + 1))
  BY <1>1, WordEndIs
<1>3. Len(text) \in Nat /\ i \in Int
  BY LenProperties
<1> HIDE DEF w
<1>4. w # i
  BY <1>1, <1>2, <1>3
<1>5. i + 1 <= w
  BY <1>2, <1>3, <1>4
<1> QED
  BY <1>2, <1>5 DEF w

\* A word that ends before the first part does is the same word in the whole.
LEMMA WordInFirst ==
    ASSUME NEW S, NEW a \in Seq(S), NEW b \in Seq(S), NEW i \in 1..Len(a), IsWord(a, i)
    PROVE  /\ WordEnd(a \o b, i) <= Len(a) => WordEnd(a \o b, i) = WordEnd(a, i)
           /\ WordEnd(a, i) < Len(a) => WordEnd(a \o b, i) = WordEnd(a, i)
<1> DEFINE x == a \o b
<1>1. /\ x \in Seq(S) /\ Len(x) = Len(a) + Len(b) /\ Len(a) \in Nat /\ Len(b) \in Nat
      /\ i \in Int /\ i \in 1..Len(x)
  BY AtConcat
<1>2. \A n \in Int : n <= Len(a) => (IsWord(x, n) <=> IsWord(a, n))
  BY AtConcat
<1> HIDE DEF x
<1>3. IsWord(x, i)
  BY <1>1, <1>2
<1>4. ASSUME WordEnd(x, i) <= Len(a) PROVE WordEnd(x, i) = WordEnd(a, i)
  <2> DEFINE w == WordEnd(x, i)
  <2>1. /\ w \in Int /\ i <= w /\ \A n \in i..w : IsWord(x, n)
        /\ w < Len(x) => ~IsWord(x, w + 1)
    BY <1>1, <1>3, WordEndIs
  <2>2. w <= Len(a)
    BY <1>4
  <2> HIDE DEF w
  <2>3. \A n \in i..w : IsWord(a, n)
    BY <1>1, <1>2, <2>1, <2>2
  <2>4. w = Len(a) \/ ~IsWord(a, w + 1)
    BY <1>1, <1>2, <2>1, <2>2
  <2>5. w \in i..Len(a)
    BY <1>1, <2>1, <2>2
  <2>6. WordEnd(a, i) = w
    BY <2>3, <2>4, <2>5, WordEndUnique
  <2> QED
    BY <2>6 DEF w
<1>5. ASSUME WordEnd(a, i) < Len(a) PROVE WordEnd(x, i) = WordEnd(a, i)
  <2> DEFINE w == WordEnd(a, i)
  <2>1. /\ w \in Int /\ i <= w /\ \A n \in i..w : IsWord(a, n)
        /\ w < Len(a) => ~IsWord(a, w + 1)
    BY WordEndIs
  <2>2. w < Len(a)
    BY <1>5
  <2> HIDE DEF w
  <2>3. \A n \in i..w : IsWord(x, n)
    BY <1>1, <1>2, <2>1, <2>2
  <2>4. ~IsWord(x, w + 1)
    BY <1>1, <1>2, <2>1, <2>2
  <2>5. w \in i..Len(x)
    BY <1>1, <2>1, <2>2
  <2>6. WordEnd(x, i) = w
    BY <1>1, <2>3, <2>4, <2>5, WordEndUnique
  <2> QED
    BY <2>6 DEF w
<1> QED
  BY <1>4, <1>5 DEF x

LEMMA WordInRest ==
    ASSUME NEW S, NEW a \in Seq(S), NEW b \in Seq(S), NEW i \in 1..Len(b), IsWord(b, i)
    PROVE  WordEnd(a \o b, Len(a) + i) = Len(a) + WordEnd(b, i)
<1> DEFINE x == a \o b
           L == Len(a)
           w == WordEnd(b, i)
<1>1. /\ x \in Seq(S) /\ Len(x) = L + Len(b) /\ L \in Nat /\ Len(b) \in Nat
      /\ i \in Int /\ L + i \in 1..Len(x)
  BY AtConcat
<1>2. ASSUME NEW n \in Int, n >= 1 PROVE IsWord(x, L + n) <=> IsWord(b, n)
  <2>1. L + n \in Int /\ ~(L + n <= L) /\ (L + n) - L = n
    BY <1>1, <1>2
  <2>2. IsWord(x, L + n) <=> IF L + n <= L THEN IsWord(a, L + n) ELSE IsWord(b, (L + n) - L)
    BY <2>1, AtConcat
  <2> QED
    BY <2>1, <2>2
<1>3. /\ w \in Int /\ i <= w /\ w <= Len(b) /\ \A n \in i..w : IsWord(b, n)
      /\ w < Len(b) => ~IsWord(b, w + 1)
  BY WordEndIs
<1> HIDE DEF x, L, w
<1>4. ASSUME NEW n \in (L + i)..(L + w) PROVE IsWord(x, n)
  <2>1. n - L \in Int /\ n - L >= 1 /\ n - L \in i..w /\ L + (n - L) = n
    BY <1>1, <1>3
  <2> QED
    BY <1>2, <1>3, <2>1
<1>5. L + w = Len(x) \/ ~IsWord(x, L + w + 1)
  <2>1. CASE w = Len(b)
    BY <1>1, <2>1
  <2>2. CASE w # Len(b)
    <3>1. w + 1 \in Int /\ w + 1 >= 1 /\ w < Len(b) /\ L + (w + 1) = L + w + 1
      BY <1>1, <1>3, <2>2
    <3> QED
      BY <1>2, <1>3, <3>1
  <2> QED
    BY <2>1, <2>2
<1>6. L + w \in (L + i)..Len(x)
  BY <1>1, <1>3
<1>7. WordEnd(x, L + i) = L + w
  BY <1>1, <1>4, <1>5, <1>6, WordEndUnique
<1> QED
  BY <1>7 DEF x, L, w

LEMMA StarterInParts ==
    ASSUME NEW S, NEW a \in Seq(S), NEW b \in Seq(S)
    PROVE  /\ \A i \in 1..Len(a) :
                 /\ Starter(a, i) => Starter(a \o b, i)
                 /\ Starter(a \o b, i) /\ i + 1 <= Len(a) => Starter(a, i)
           /\ \A i \in 1..Len(b) : Starter(a \o b, Len(a) + i) <=> Starter(b, i)
<1> DEFINE x == a \o b
           L == Len(a)
<1>1. /\ x \in Seq(S) /\ Len(x) = L + Len(b) /\ L \in Nat /\ Len(b) \in Nat
      /\ \A j \in 1..(L + Len(b)) : x[j] = IF j <= L THEN a[j] ELSE b[j - L]
  BY ConcatProperties, LenProperties
<1> HIDE DEF x, L
<1>2. ASSUME NEW i \in 1..L, i + 1 <= L PROVE Starter(x, i) <=> Starter(a, i)
  <2>1. i \in 1..(L + Len(b)) /\ i <= L /\ i + 1 \in 1..(L + Len(b)) /\ i + 1 <= L + Len(b)
    BY <1>1, <1>2
  <2>2. x[i] = a[i] /\ x[i + 1] = a[i + 1]
    BY <1>1, <1>2, <2>1
  <2>3. Starter(a, i) <=> i + 1 <= Len(a) /\ a[i] = "s" /\ a[i + 1] = "k"
    BY StarterIs DEF L
  <2>4. Starter(x, i) <=> i + 1 <= Len(x) /\ x[i] = "s" /\ x[i + 1] = "k"
    BY <1>1, <2>1, StarterIs
  <2> QED
    BY <1>1, <1>2, <2>1, <2>2, <2>3, <2>4 DEF L
<1>3. ASSUME NEW i \in 1..L, Starter(a, i) PROVE i + 1 <= L
  BY <1>3, StarterIs DEF L
<1>4. ASSUME NEW i \in 1..Len(b) PROVE Starter(x, L + i) <=> Starter(b, i)
  <2>1. L + i \in 1..Len(x) /\ L + i \in 1..(L + Len(b)) /\ ~(L + i <= L) /\ (L + i) - L = i
    BY <1>1
  <2>2. x[L + i] = b[i]
    BY <1>1, <2>1
  <2>3. Starter(b, i) <=> i + 1 <= Len(b) /\ b[i] = "s" /\ b[i + 1] = "k"
    BY StarterIs
  <2>4. Starter(x, L + i) <=> (L + i) + 1 <= Len(x) /\ x[L + i] = "s" /\ x[(L + i) + 1] = "k"
    BY <1>1, <2>1, StarterIs
  <2>5. CASE i + 1 <= Len(b)
    <3>1. /\ (L + i) + 1 \in 1..(L + Len(b)) /\ ~((L + i) + 1 <= L) /\ ((L + i) + 1) - L = i + 1
          /\ (L + i) + 1 <= Len(x)
      BY <1>1, <2>5
    <3>2. x[(L + i) + 1] = b[i + 1]
      BY <1>1, <3>1
    <3> QED
      BY <2>2, <2>3, <2>4, <2>5, <3>1, <3>2
  <2>6. CASE ~(i + 1 <= Len(b))
    <3>1. ~((L + i) + 1 <= Len(x))
      BY <1>1, <2>6
    <3> QED
      BY <2>3, <2>4, <2>6, <3>1
  <2> QED
    BY <2>5, <2>6
<1> QED
  BY <1>2, <1>3, <1>4 DEF x, L

\* What Plain says of starters.
Separate(text) == \A i \in 1..Len(text) : Starter(text, i) => ~IsWord(text, i - 1)

\* Every secret that starts in the first n characters has ended there.
Ended(text, n) == \A i \in 1..n : Starter(text, i) => WordEnd(text, i) <= n

LEMMA SecretInFirst ==
    ASSUME NEW S, NEW a \in Seq(S), NEW b \in Seq(S), Ended(a \o b, Len(a)),
           NEW i \in 1..Len(a)
    PROVE  /\ IsSecret(a \o b, i) <=> IsSecret(a, i)
           /\ IsSecret(a, i) => WordEnd(a \o b, i) = WordEnd(a, i) /\ WordEnd(a, i) <= Len(a)
<1> DEFINE x == a \o b
<1>1. /\ x \in Seq(S) /\ Len(x) = Len(a) + Len(b) /\ Len(a) \in Nat /\ Len(b) \in Nat
      /\ i \in Int /\ i \in 1..Len(x)
  BY AtConcat
<1>2. IsWord(x, i - 1) <=> IsWord(a, i - 1)
  <2>1. i - 1 \in Int /\ i - 1 <= Len(a)
    BY <1>1
  <2> QED
    BY <2>1, AtConcat
<1>3. ASSUME Starter(x, i)
      PROVE  /\ Starter(a, i) /\ WordEnd(x, i) = WordEnd(a, i)
             /\ WordEnd(a, i) <= Len(a)
  <2>1. WordEnd(x, i) <= Len(a)
    BY <1>3 DEF Ended
  <2> HIDE DEF x
  <2>2. i + 1 <= WordEnd(x, i) /\ WordEnd(x, i) \in Int
    BY <1>1, <1>3, StarterEnd
  <2>3. i + 1 <= Len(a)
    BY <1>1, <2>1, <2>2
  <2> USE DEF x
  <2>4. Starter(a, i)
    BY <1>3, <2>3, StarterInParts
  <2>5. IsWord(a, i)
    BY <2>4, StarterIs
  <2>6. WordEnd(x, i) = WordEnd(a, i)
    BY <2>1, <2>5, WordInFirst
  <2> QED
    BY <2>1, <2>4, <2>6
<1>4. Starter(a, i) => Starter(x, i)
  BY StarterInParts
<1> HIDE DEF x
<1>5. IsSecret(x, i) <=> IsSecret(a, i)
  BY <1>2, <1>3, <1>4 DEF IsSecret, Matches
<1>6. IsSecret(a, i) => Starter(x, i)
  BY <1>4 DEF IsSecret, Matches
<1> QED
  BY <1>3, <1>5, <1>6 DEF x

LEMMA SecretInRest ==
    ASSUME NEW S, NEW a \in Seq(S), NEW b \in Seq(S), Separate(a \o b),
           NEW i \in 1..Len(b)
    PROVE  /\ IsSecret(a \o b, Len(a) + i) <=> IsSecret(b, i)
           /\ IsSecret(b, i) => WordEnd(a \o b, Len(a) + i) = Len(a) + WordEnd(b, i)
<1> DEFINE x == a \o b
           L == Len(a)
<1>1. /\ x \in Seq(S) /\ Len(x) = L + Len(b) /\ L \in Nat /\ Len(b) \in Nat
      /\ i \in Int /\ L + i \in 1..Len(x)
  BY AtConcat
<1>2. Starter(x, L + i) <=> Starter(b, i)
  BY StarterInParts
<1>3. Starter(b, i) => WordEnd(x, L + i) = L + WordEnd(b, i) /\ WordEnd(b, i) \in Int
  <2>1. ASSUME Starter(b, i) PROVE WordEnd(x, L + i) = L + WordEnd(b, i) /\ WordEnd(b, i) \in Int
    <3>1. IsWord(b, i)
      BY <2>1, StarterIs
    <3> QED
      BY <3>1, WordInRest, WordEndIs
  <2> QED
    BY <2>1
<1>4. Starter(x, L + i) => ~IsWord(x, (L + i) - 1)
  <2> HIDE DEF x
  <2>1. Separate(x)
    BY DEF x
  <2> QED
    BY <1>1, <2>1 DEF Separate
<1>5. Starter(x, L + i) => ~IsWord(b, i - 1)
  <2>1. CASE i = 1
    <3>1. i - 1 \notin 1..Len(b)
      BY <2>1
    <3> QED
      BY <3>1, AtIs
  <2>2. CASE i # 1
    <3> DEFINE n == (L + i) - 1
    <3>1. n \in Int /\ ~(n <= L) /\ n - L = i - 1
      BY <1>1, <2>2
    <3> HIDE DEF n
    <3>2. IsWord(x, n) <=> IF n <= L THEN IsWord(a, n) ELSE IsWord(b, n - L)
      BY <3>1, AtConcat
    <3>3. IsWord(x, n) <=> IsWord(b, i - 1)
      BY <3>1, <3>2
    <3> QED
      BY <1>4, <3>3 DEF n
  <2> QED
    BY <2>1, <2>2
<1> HIDE DEF x, L
<1>6. Matches(x, L + i) <=> Matches(b, i)
  <2>1. CASE Starter(b, i)
    <3>1. WordEnd(x, L + i) - (L + i) + 1 = WordEnd(b, i) - i + 1
      BY <1>1, <1>3, <2>1
    <3> QED
      BY <1>2, <3>1 DEF Matches
  <2>2. CASE ~Starter(b, i)
    BY <1>2, <2>2 DEF Matches
  <2> QED
    BY <2>1, <2>2
<1>7. IsSecret(x, L + i) <=> IsSecret(b, i)
  BY <1>2, <1>4, <1>5, <1>6 DEF IsSecret, Matches
<1>8. IsSecret(b, i) => Starter(b, i)
  BY DEF IsSecret, Matches
<1> QED
  BY <1>3, <1>7, <1>8 DEF x, L

LEMMA InSecretInFirst ==
    ASSUME NEW S, NEW a \in Seq(S), NEW b \in Seq(S), Ended(a \o b, Len(a)),
           NEW j \in 1..Len(a)
    PROVE  InSecret(a \o b, j) <=> InSecret(a, j)
<1>1. Len(a) \in Nat
  BY LenProperties
<1>2. \A i \in 1..j : i \in 1..Len(a)
  BY <1>1
<1>3. ASSUME NEW i \in 1..j
      PROVE  (IsSecret(a \o b, i) /\ j <= WordEnd(a \o b, i))
                <=> (IsSecret(a, i) /\ j <= WordEnd(a, i))
  <2>1. /\ IsSecret(a \o b, i) <=> IsSecret(a, i)
        /\ IsSecret(a, i) => WordEnd(a \o b, i) = WordEnd(a, i)
    BY <1>2, SecretInFirst
  <2> QED
    BY <2>1
<1> QED
  BY <1>3 DEF InSecret

LEMMA InSecretInRest ==
    ASSUME NEW S, NEW a \in Seq(S), NEW b \in Seq(S), Separate(a \o b), Ended(a \o b, Len(a)),
           NEW j \in 1..Len(b)
    PROVE  InSecret(a \o b, Len(a) + j) <=> InSecret(b, j)
<1> DEFINE x == a \o b
           L == Len(a)
<1>1. /\ L \in Nat /\ Len(b) \in Nat /\ j \in Int
  BY LenProperties
<1>2. ASSUME NEW i \in 1..(L + j), IsSecret(x, i), L + j <= WordEnd(x, i)
      PROVE  InSecret(b, j)
  <2>1. ~(i <= L)
    <3> SUFFICES ASSUME i <= L PROVE FALSE
      OBVIOUS
    <3>1. i \in 1..L
      BY <1>1
    <3>2. WordEnd(x, i) = WordEnd(a, i) /\ WordEnd(a, i) <= L /\ IsSecret(a, i)
      BY <1>2, <3>1, SecretInFirst
    <3>3. WordEnd(a, i) \in Int
      BY <3>1, <3>2, SecretIs
    <3> HIDE DEF x, L
    <3> QED
      BY <1>1, <1>2, <3>2, <3>3
  <2> DEFINE k == i - L
  <2>2. k \in 1..j /\ k \in 1..Len(b) /\ i = L + k
    BY <1>1, <2>1
  <2> HIDE DEF k
  <2>3. IsSecret(b, k) /\ WordEnd(x, L + k) = L + WordEnd(b, k)
    BY <1>2, <2>2, SecretInRest
  <2>4. WordEnd(b, k) \in Int
    BY <2>2, <2>3, SecretIs
  <2>5. j <= WordEnd(b, k)
    BY <1>1, <1>2, <2>2, <2>3, <2>4
  <2> QED
    BY <2>2, <2>3, <2>5 DEF InSecret
<1>3. ASSUME NEW k \in 1..j, IsSecret(b, k), j <= WordEnd(b, k)
      PROVE  InSecret(x, L + j)
  <2>1. k \in 1..Len(b) /\ L + k \in 1..(L + j)
    BY <1>1
  <2>2. IsSecret(x, L + k) /\ WordEnd(x, L + k) = L + WordEnd(b, k)
    BY <1>3, <2>1, SecretInRest
  <2>3. WordEnd(b, k) \in Int
    BY <1>3, <2>1, SecretIs
  <2>4. L + j <= WordEnd(x, L + k)
    BY <1>1, <1>3, <2>2, <2>3
  <2> QED
    BY <2>1, <2>2, <2>4 DEF InSecret
<1> QED
  BY <1>2, <1>3 DEF InSecret

\* A text can be redacted in parts, where the first has no secret still running.
LEMMA RedactSplit ==
    ASSUME NEW a \in Seq(Chars), NEW b \in Seq(Chars),
           Separate(a \o b), Ended(a \o b, Len(a))
    PROVE  Redact(a \o b) = Redact(a) \o Redact(b)
<1> DEFINE x == a \o b
           L == Len(a)
           p == RedactMarks(a)
           q == RedactMarks(b)
           m == RedactMarks(x)
<1>1. /\ x \in Seq(Chars) /\ Len(x) = L + Len(b) /\ L \in Nat /\ Len(b) \in Nat
      /\ \A j \in 1..(L + Len(b)) : x[j] = IF j <= L THEN a[j] ELSE b[j - L]
  BY ConcatProperties, LenProperties
<1>2. p \in Seq(Marks) /\ Len(p) = L /\ q \in Seq(Marks) /\ Len(q) = Len(b)
  BY RedactMarksAre
<1>3. m \in Seq(Marks) /\ Len(m) = L + Len(b)
  <2> HIDE DEF x
  <2> QED
    BY <1>1, RedactMarksAre
<1>4. /\ p \o q \in Seq(Marks) /\ Len(p \o q) = L + Len(b)
      /\ \A j \in 1..(L + Len(b)) : (p \o q)[j] = IF j <= L THEN p[j] ELSE q[j - L]
  <2> HIDE DEF p, q
  <2>1. /\ p \o q \in Seq(Marks) /\ Len(p \o q) = Len(p) + Len(q)
        /\ \A j \in 1..(Len(p) + Len(q)) :
              (p \o q)[j] = IF j <= Len(p) THEN p[j] ELSE q[j - Len(p)]
    BY <1>2, ConcatProperties
  <2> QED
    BY <1>2, <2>1
<1>5. ASSUME NEW j \in 1..(L + Len(b)) PROVE m[j] = (p \o q)[j]
  <2>1. m[j] = IF IsSecret(x, j) THEN Redacted ELSE IF InSecret(x, j) THEN Nothing ELSE x[j]
    <3> HIDE DEF x
    <3> QED
      BY <1>1, RedactMarksAre
  <2>2. CASE j <= L
    <3>1. j \in 1..Len(a)
      BY <1>1, <2>2
    <3>2. (IsSecret(x, j) <=> IsSecret(a, j)) /\ (InSecret(x, j) <=> InSecret(a, j)) /\ x[j] = a[j]
      BY <1>1, <2>2, <3>1, SecretInFirst, InSecretInFirst
    <3>3. p[j] = IF IsSecret(a, j) THEN Redacted ELSE IF InSecret(a, j) THEN Nothing ELSE a[j]
      BY <3>1, RedactMarksAre
    <3> HIDE DEF x, p, q, m
    <3> QED
      BY <1>4, <2>1, <2>2, <3>2, <3>3
  <2>3. CASE ~(j <= L)
    <3> DEFINE k == j - L
    <3>1. k \in 1..Len(b) /\ j = L + k
      BY <1>1, <2>3
    <3>2. x[j] = b[k] /\ (p \o q)[j] = q[k]
      BY <1>1, <1>4, <2>3
    <3> HIDE DEF k
    <3>3. (IsSecret(x, j) <=> IsSecret(b, k)) /\ (InSecret(x, j) <=> InSecret(b, k))
      BY <3>1, SecretInRest, InSecretInRest
    <3>4. q[k] = IF IsSecret(b, k) THEN Redacted ELSE IF InSecret(b, k) THEN Nothing ELSE b[k]
      BY <3>1, RedactMarksAre
    <3> HIDE DEF x, p, q, m
    <3> QED
      BY <2>1, <3>2, <3>3, <3>4
  <2> QED
    BY <2>2, <2>3
<1> HIDE DEF m, p, q
<1>6. m = p \o q
  BY <1>3, <1>4, <1>5, SeqEqual
<1>7. Marked(m) = Marked(p) \o Marked(q)
  BY <1>2, <1>6, MarkedConcat
<1> QED
  BY <1>7, RedactIs DEF m, p, q

-----------------------------------------------------------------------------
(* Restoring a text in parts *)

\* No name stands where a and b meet.
Loose(a, b) == a = <<>> \/ b = <<>> \/ (a[Len(a)] # "e" /\ b[1] # "e")

LEMMA EmptyStays ==
    /\ <<>> \in Seq(Chars) /\ <<>> \in Seq(Masked) /\ <<>> \in Seq(Symbols) /\ Len(<<>>) = 0
    /\ Redact(<<>>) = <<>> /\ Restore(<<>>) = <<>>
<1>1. /\ <<>> \in Seq(Chars) /\ <<>> \in Seq(Masked) /\ <<>> \in Seq(Symbols) /\ <<>> \in Seq(Marks)
      /\ Len(<<>>) = 0
  BY EmptySeq
<1>2. 1..Len(<<>>) = {}
  OBVIOUS
<1>3. RedactMarks(<<>>) = <<>> /\ RestoreMarks(<<>>) = <<>>
  BY <1>2 DEF RedactMarks, RestoreMarks
<1>4. Marked(<<>>) = <<>>
  BY <1>1, MarkedAll
<1> QED
  BY <1>1, <1>3, <1>4, RedactIs, RestoreIs

\* Of a placeholder that straddles two texts, its name is at their edge.
LEMMA BracketedInParts ==
    ASSUME NEW S, NEW a \in Seq(S), NEW b \in Seq(S), Loose(a, b)
    PROVE  /\ \A i \in Int : i <= Len(a) => (Bracketed(a \o b, i) <=> Bracketed(a, i))
           /\ \A i \in Int : i >= 1 => (Bracketed(a \o b, Len(a) + i) <=> Bracketed(b, i))
           /\ \A i \in Int : Bracketed(a, i) => i >= 1 /\ i + 2 <= Len(a)
           /\ \A i \in Int : Bracketed(b, i) => i >= 1
<1> DEFINE x == a \o b
           L == Len(a)
<1>1. /\ x \in Seq(S) /\ Len(x) = L + Len(b) /\ L \in Nat /\ Len(b) \in Nat
      /\ \A j \in 1..(L + Len(b)) : x[j] = IF j <= L THEN a[j] ELSE b[j - L]
  BY ConcatProperties, LenProperties
<1>2. \A i \in Int : Bracketed(a, i) <=>
         1 <= i /\ i + 2 <= L /\ a[i] = "[" /\ a[i + 1] = "e" /\ a[i + 2] = "]"
  BY BracketedIs
<1>3. \A i \in Int : Bracketed(b, i) <=>
         1 <= i /\ i + 2 <= Len(b) /\ b[i] = "[" /\ b[i + 1] = "e" /\ b[i + 2] = "]"
  BY BracketedIs
<1> HIDE DEF x
<1>4. \A i \in Int : Bracketed(x, i) <=>
         1 <= i /\ i + 2 <= Len(x) /\ x[i] = "[" /\ x[i + 1] = "e" /\ x[i + 2] = "]"
  BY <1>1, BracketedIs
<1>5. L >= 1 /\ Len(b) >= 1 => a[L] # "e" /\ b[1] # "e"
  <2>1. a = <<>> => L = 0
    BY EmptySeq DEF L
  <2>2. b = <<>> => Len(b) = 0
    BY EmptySeq
  <2> QED
    BY <1>1, <2>1, <2>2 DEF Loose, L
<1> HIDE DEF L
<1>6. ASSUME NEW i \in Int, i <= L
      PROVE  Bracketed(x, i) <=> Bracketed(a, i)
  <2>1. CASE i + 2 <= L /\ 1 <= i
    <3>1. x[i] = a[i] /\ x[i + 1] = a[i + 1] /\ x[i + 2] = a[i + 2] /\ i + 2 <= Len(x)
      BY <1>1, <2>1
    <3> QED
      BY <1>2, <1>4, <2>1, <3>1
  <2>2. CASE i + 1 = L /\ 1 <= i
    <3>1. i + 2 <= Len(x) => x[i + 1] = a[L] /\ Len(b) >= 1
      BY <1>1, <2>2
    <3> QED
      BY <1>1, <1>2, <1>4, <1>5, <2>2, <3>1
  <2>3. CASE i = L /\ 1 <= i
    <3>1. i + 2 <= Len(x) => x[i + 1] = b[1] /\ Len(b) >= 1
      BY <1>1, <2>3
    <3> QED
      BY <1>1, <1>2, <1>4, <1>5, <2>3, <3>1
  <2> QED
    BY <1>1, <1>2, <1>4, <1>6, <2>1, <2>2, <2>3
<1>7. ASSUME NEW i \in Int, i >= 1
      PROVE  Bracketed(x, L + i) <=> Bracketed(b, i)
  <2>1. CASE i + 2 <= Len(b)
    <3>1. /\ x[L + i] = b[i] /\ x[L + i + 1] = b[i + 1] /\ x[L + i + 2] = b[i + 2]
          /\ L + i + 2 <= Len(x) /\ 1 <= L + i
      BY <1>1, <1>7, <2>1
    <3> QED
      BY <1>1, <1>3, <1>4, <1>7, <2>1, <3>1
  <2>2. CASE ~(i + 2 <= Len(b))
    BY <1>1, <1>3, <1>4, <2>2
  <2> QED
    BY <2>1, <2>2
<1> QED
  BY <1>2, <1>3, <1>6, <1>7 DEF x, L

\* Elementwise, what each part makes of its own marks.
LEMMA InBracketedIs ==
    ASSUME NEW text, NEW j \in Int
    PROVE  InBracketed(text, j) <=>
              Bracketed(text, j) \/ Bracketed(text, j - 1) \/ Bracketed(text, j - 2)
<1>1. \A i : i \in (j - 2)..j <=> i = j \/ i = j - 1 \/ i = j - 2
  OBVIOUS
<1> QED
  BY <1>1 DEF InBracketed

LEMMA RestoredInParts ==
    ASSUME NEW a \in Seq(Masked), NEW b \in Seq(Masked), Loose(a, b)
    PROVE  /\ \A j \in 1..Len(a) : /\ InBracketed(a \o b, j) <=> InBracketed(a, j)
                                   /\ Bare(a \o b, j) <=> Bare(a, j)
           /\ \A j \in 1..Len(b) : /\ InBracketed(a \o b, Len(a) + j) <=> InBracketed(b, j)
                                   /\ Bare(a \o b, Len(a) + j) <=> Bare(b, j)
<1> DEFINE x == a \o b
           L == Len(a)
<1>1. /\ x \in Seq(Masked) /\ Len(x) = L + Len(b) /\ L \in Nat /\ Len(b) \in Nat
      /\ \A j \in 1..(L + Len(b)) : x[j] = IF j <= L THEN a[j] ELSE b[j - L]
  BY ConcatProperties, LenProperties
<1>2. /\ \A i \in Int : i <= L => (Bracketed(x, i) <=> Bracketed(a, i))
      /\ \A i \in Int : i >= 1 => (Bracketed(x, L + i) <=> Bracketed(b, i))
      /\ \A i \in Int : Bracketed(a, i) => i >= 1 /\ i + 2 <= L
      /\ \A i \in Int : Bracketed(b, i) => i >= 1
  BY BracketedInParts
<1>3. \A i \in Int : IsWord(x, i) <=> IF i <= L THEN IsWord(a, i) ELSE IsWord(b, i - L)
  BY AtConcat
<1>4. \A i : i \notin 1..L => ~IsWord(a, i)
  BY AtIs
<1>5. \A i : i \notin 1..Len(b) => ~IsWord(b, i)
  BY AtIs
<1>6. L >= 1 /\ Len(b) >= 1 => a[L] # "e" /\ b[1] # "e"
  <2>1. a = <<>> => L = 0
    BY EmptySeq DEF L
  <2>2. b = <<>> => Len(b) = 0
    BY EmptySeq
  <2> QED
    BY <1>1, <2>1, <2>2 DEF Loose, L
<1> HIDE DEF x, L
<1>7. ASSUME NEW j \in 1..L
      PROVE  /\ InBracketed(x, j) <=> InBracketed(a, j)
             /\ Bare(x, j) <=> Bare(a, j)
  <2>1. InBracketed(x, j) <=> InBracketed(a, j)
    <3>1. j \in Int /\ j - 1 \in Int /\ j - 2 \in Int /\ j <= L /\ j - 1 <= L /\ j - 2 <= L
      BY <1>1
    <3> QED
      BY <1>2, <3>1, InBracketedIs
  <2>2. x[j] = a[j] /\ j \in Int /\ j - 1 \in Int /\ j + 1 \in Int
    BY <1>1
  <2>3. IsWord(x, j - 1) <=> IsWord(a, j - 1)
    BY <1>1, <1>3, <2>2
  <2>4. CASE j + 1 <= L
    <3>1. IsWord(x, j + 1) <=> IsWord(a, j + 1)
      BY <1>3, <2>2, <2>4
    <3> QED
      BY <2>1, <2>2, <2>3, <3>1 DEF Bare
  <2>5. CASE j = L /\ Len(b) >= 1
    <3>1. a[j] # "e"
      BY <1>1, <1>6, <2>5
    <3> QED
      BY <2>1, <2>2, <3>1 DEF Bare
  <2>6. CASE j = L /\ Len(b) = 0
    <3>1. ~IsWord(a, j + 1)
      BY <1>1, <1>4, <2>6
    <3>2. ~IsWord(b, j + 1 - L)
      BY <1>1, <1>5, <2>6
    <3>3. IsWord(x, j + 1) <=> IsWord(b, j + 1 - L)
      BY <1>1, <1>3, <2>2, <2>6
    <3> QED
      BY <2>1, <2>2, <2>3, <3>1, <3>2, <3>3 DEF Bare
  <2> QED
    BY <1>1, <2>4, <2>5, <2>6
<1>8. ASSUME NEW j \in 1..Len(b)
      PROVE  /\ InBracketed(x, L + j) <=> InBracketed(b, j)
             /\ Bare(x, L + j) <=> Bare(b, j)
  <2> DEFINE l == L + j
  <2>1. /\ j \in Int /\ j - 1 \in Int /\ j - 2 \in Int /\ j + 1 \in Int /\ j >= 1
        /\ l \in Int /\ l - 1 \in Int /\ l - 2 \in Int /\ l + 1 \in Int
        /\ l = L + j /\ l - 1 = L + (j - 1) /\ l - 2 = L + (j - 2) /\ l + 1 = L + (j + 1)
        /\ x[l] = b[j]
    BY <1>1
  <2> HIDE DEF l
  <2>2. InBracketed(x, l) <=> InBracketed(b, j)
    <3>1. Bracketed(x, l) <=> Bracketed(b, j)
      BY <1>2, <2>1
    <3>2. Bracketed(x, l - 1) <=> Bracketed(b, j - 1)
      <4>1. CASE j - 1 >= 1
        BY <1>2, <2>1, <4>1
      <4>2. CASE j = 1
        BY <1>1, <1>2, <2>1, <4>2
      <4> QED
        BY <2>1, <4>1, <4>2
    <3>3. Bracketed(x, l - 2) <=> Bracketed(b, j - 2)
      <4>1. CASE j - 2 >= 1
        BY <1>2, <2>1, <4>1
      <4>2. CASE j \in {1, 2}
        BY <1>1, <1>2, <2>1, <4>2
      <4> QED
        BY <2>1, <4>1, <4>2
    <3>4. InBracketed(b, j) <=>
             Bracketed(b, j) \/ Bracketed(b, j - 1) \/ Bracketed(b, j - 2)
      BY <2>1, InBracketedIs, Zenon
    <3>5. InBracketed(x, l) <=>
             Bracketed(x, l) \/ Bracketed(x, l - 1) \/ Bracketed(x, l - 2)
      BY <2>1, InBracketedIs, Zenon
    <3> QED
      BY ONLY <3>1, <3>2, <3>3, <3>4, <3>5, Zenon
  <2>3. IsWord(x, l + 1) <=> IsWord(b, j + 1)
    BY <1>1, <1>3, <2>1
  <2>4. CASE j > 1
    <3>1. IsWord(x, l - 1) <=> IsWord(b, j - 1)
      BY <1>1, <1>3, <2>1, <2>4
    <3>2. Bare(x, l) <=> Bare(b, j)
      BY <2>1, <2>2, <2>3, <3>1 DEF Bare
    <3> QED
      BY <2>1, <2>2, <3>2
  <2>5. CASE j = 1 /\ L >= 1
    <3>1. b[j] # "e"
      BY <1>1, <1>6, <2>5
    <3>2. Bare(x, l) <=> Bare(b, j)
      BY <2>1, <3>1 DEF Bare
    <3> QED
      BY <2>1, <2>2, <3>2
  <2>6. CASE j = 1 /\ L = 0
    <3>1. ~IsWord(b, j - 1)
      BY <1>1, <1>5, <2>6
    <3>2. ~IsWord(a, l - 1)
      BY <1>1, <1>4, <2>1, <2>6
    <3>3. IsWord(x, l - 1) <=> IsWord(a, l - 1)
      BY <1>1, <1>3, <2>1, <2>6
    <3>4. Bare(x, l) <=> Bare(b, j)
      BY <2>1, <2>2, <2>3, <3>1, <3>2, <3>3 DEF Bare
    <3> QED
      BY <2>1, <2>2, <3>4
  <2> QED
    BY <1>1, <2>1, <2>4, <2>5, <2>6
<1> QED
  BY <1>7, <1>8 DEF x, L

\* A text can be restored in parts, where no name is at the edge.
LEMMA RestoreSplit ==
    ASSUME NEW a \in Seq(Masked), NEW b \in Seq(Masked), Loose(a, b)
    PROVE  Restore(a \o b) = Restore(a) \o Restore(b)
<1> DEFINE x == a \o b
           L == Len(a)
           p == RestoreMarks(a)
           q == RestoreMarks(b)
           m == RestoreMarks(x)
<1>1. /\ x \in Seq(Masked) /\ Len(x) = L + Len(b) /\ L \in Nat /\ Len(b) \in Nat
      /\ \A j \in 1..(L + Len(b)) : x[j] = IF j <= L THEN a[j] ELSE b[j - L]
  BY ConcatProperties, LenProperties
<1>2. p \in Seq(Marks) /\ Len(p) = L /\ q \in Seq(Marks) /\ Len(q) = Len(b)
  BY RestoreMarksAre
<1>3. m \in Seq(Marks) /\ Len(m) = L + Len(b)
  <2> HIDE DEF x
  <2> QED
    BY <1>1, RestoreMarksAre
<1>4. /\ p \o q \in Seq(Marks) /\ Len(p \o q) = L + Len(b)
      /\ \A j \in 1..(L + Len(b)) : (p \o q)[j] = IF j <= L THEN p[j] ELSE q[j - L]
  <2> HIDE DEF p, q
  <2>1. /\ p \o q \in Seq(Marks) /\ Len(p \o q) = Len(p) + Len(q)
        /\ \A j \in 1..(Len(p) + Len(q)) :
              (p \o q)[j] = IF j <= Len(p) THEN p[j] ELSE q[j - Len(p)]
    BY <1>2, ConcatProperties
  <2> QED
    BY <1>2, <2>1
<1>5. /\ \A j \in 1..Len(a) :
            /\ InBracketed(x, j) <=> InBracketed(a, j)
            /\ Bare(x, j) <=> Bare(a, j)
      /\ \A j \in 1..Len(b) :
            /\ InBracketed(x, L + j) <=> InBracketed(b, j)
            /\ Bare(x, L + j) <=> Bare(b, j)
  BY RestoredInParts
<1>6. ASSUME NEW j \in 1..(L + Len(b)) PROVE m[j] = (p \o q)[j]
  <2>1. m[j] = IF Bracketed(x, j) \/ Bare(x, j) THEN Restored
               ELSE IF InBracketed(x, j) THEN Nothing ELSE x[j]
    <3> HIDE DEF x
    <3> QED
      BY <1>1, RestoreMarksAre
  <2>2. CASE j <= L
    <3>1. j \in 1..Len(a) /\ j \in Int
      BY <1>1, <2>2
    <3>2. /\ Bracketed(x, j) <=> Bracketed(a, j)
          /\ Bare(x, j) <=> Bare(a, j)
          /\ InBracketed(x, j) <=> InBracketed(a, j)
          /\ x[j] = a[j]
      <4>1. Bracketed(x, j) <=> Bracketed(a, j)
        BY <2>2, <3>1, BracketedInParts
      <4> HIDE DEF x
      <4>2. (Bare(x, j) <=> Bare(a, j)) /\ (InBracketed(x, j) <=> InBracketed(a, j))
        BY ONLY <1>5, <3>1
      <4>3. x[j] = a[j]
        BY <1>1, <2>2
      <4> QED
        BY <4>1, <4>2, <4>3
    <3>3. p[j] = IF Bracketed(a, j) \/ Bare(a, j) THEN Restored
                 ELSE IF InBracketed(a, j) THEN Nothing ELSE a[j]
      BY <3>1, RestoreMarksAre
    <3> HIDE DEF x, p, q, m
    <3> QED
      BY <1>4, <2>1, <2>2, <3>2, <3>3
  <2>3. CASE ~(j <= L)
    <3> DEFINE k == j - L
    <3>1. k \in 1..Len(b) /\ j = L + k /\ k \in Int /\ k >= 1
      BY <1>1, <2>3
    <3>2. x[j] = b[k] /\ (p \o q)[j] = q[k]
      BY <1>1, <1>4, <2>3
    <3> HIDE DEF k
    <3>3. /\ Bracketed(x, j) <=> Bracketed(b, k)
          /\ Bare(x, j) <=> Bare(b, k)
          /\ InBracketed(x, j) <=> InBracketed(b, k)
      <4>1. Bracketed(x, L + k) <=> Bracketed(b, k)
        BY <3>1, BracketedInParts
      <4> HIDE DEF x, L
      <4>2. (Bare(x, L + k) <=> Bare(b, k)) /\ (InBracketed(x, L + k) <=> InBracketed(b, k))
        BY ONLY <1>5, <3>1
      <4> QED
        BY <3>1, <4>1, <4>2
    <3>4. q[k] = IF Bracketed(b, k) \/ Bare(b, k) THEN Restored
                 ELSE IF InBracketed(b, k) THEN Nothing ELSE b[k]
      BY <3>1, RestoreMarksAre
    <3> HIDE DEF x, p, q, m
    <3> QED
      BY <2>1, <3>2, <3>3, <3>4
  <2> QED
    BY <2>2, <2>3
<1> HIDE DEF m, p, q
<1>7. m = p \o q
  BY <1>3, <1>4, <1>6, SeqEqual
<1>8. Marked(m) = Marked(p) \o Marked(q)
  BY <1>2, <1>7, MarkedConcat
<1> QED
  BY <1>8, RestoreIs DEF m, p, q

-----------------------------------------------------------------------------
(* Names stay in their brackets *)

\* What Plain says of names.
Bound(text) ==
    \A i \in 1..Len(text) :
        text[i] = "e" => At(text, i - 1) = "[" /\ At(text, i + 1) \in {"]", Nothing}

LEMMA Neighbours ==
    ASSUME NEW marks \in Seq(Marks), NEW i \in Int, i \in Kept(marks), i + 1 \in Kept(marks),
           NEW n \in Int, n = Before(marks, i) + 1
    PROVE  /\ Before(marks, i + 1) = n
           /\ n \in 1..Len(Marked(marks)) /\ Marked(marks)[n] = marks[i]
           /\ n + 1 \in 1..Len(Marked(marks)) /\ Marked(marks)[n + 1] = marks[i + 1]
<1> DEFINE N == Cardinality(Kept(marks))
           p == Pick(marks, n + 1)
<1>1. N \in Nat /\ Len(Marked(marks)) = N
  BY KeptIs, MarkedIs
<1>2. n \in 1..N /\ Pick(marks, n) = i /\ Marked(marks)[n] = marks[i]
  BY <1>1, PickOf
<1>3. Before(marks, i) < Before(marks, i + 1) /\ Before(marks, i) \in Nat
  BY BeforeLess
<1>4. Before(marks, i + 1) < N /\ Before(marks, i + 1) \in Nat
  BY BeforeBound
<1>5. n + 1 \in 1..N
  BY <1>1, <1>3, <1>4
<1>6. /\ i < p
      /\ \A j \in 1..Len(marks) : i < j /\ j < p => marks[j] = Nothing
  BY <1>1, <1>2, <1>5, NextPick
<1>7. p \in Kept(marks) /\ Before(marks, p) = n
  BY <1>5, PicksAre
<1>8. p \in Int /\ i + 1 \in 1..Len(marks) /\ marks[i + 1] # Nothing
  BY <1>7, KeptIs
<1> HIDE DEF p
<1>9. p = i + 1
  BY <1>6, <1>8
<1>10. Marked(marks)[n + 1] = marks[p]
  BY <1>5, MarkedIs DEF p
<1> QED
  BY <1>1, <1>2, <1>5, <1>7, <1>9, <1>10

LEMMA BracketStays ==
    ASSUME NEW text \in Seq(Chars), NEW i \in 1..Len(text), text[i] \in {"[", "]"}
    PROVE  i \in Kept(RedactMarks(text)) /\ RedactMarks(text)[i] = text[i]
<1>1. ~IsWord(text, i)
  BY AtIs, SymbolsAre DEF IsWord
<1>2. ~IsSecret(text, i) /\ ~InSecret(text, i)
  BY <1>1, SecretIs, InSecretIs
<1>3. RedactMarks(text) \in Seq(Marks) /\ Len(RedactMarks(text)) = Len(text)
  BY RedactMarksAre
<1>4. RedactMarks(text)[i] = text[i]
  BY <1>2, RedactMarksAre
<1>5. text[i] # Nothing
  BY DEF Nothing
<1> QED
  BY <1>3, <1>4, <1>5, KeptIs

\* Redaction leaves names where they are.
LEMMA BoundRedact ==
    ASSUME NEW text \in Seq(Chars), Bound(text)
    PROVE  Bound(Redact(text))
<1> DEFINE m == RedactMarks(text)
           y == Marked(m)
<1>1. m \in Seq(Marks) /\ Len(m) = Len(text) /\ Len(text) \in Nat
  BY RedactMarksAre, LenProperties
<1>2. \A j \in 1..Len(text) : m[j] = "e" => text[j] = "e"
  BY RedactMarksAre DEF Redacted, Nothing
<1> HIDE DEF m
<1>3. Len(y) = Cardinality(Kept(m)) /\ Len(y) \in Nat /\ y \in Seq(Symbols)
  BY <1>1, KeptIs, MarkedIs
<1>4. ASSUME NEW n \in 1..Len(y), y[n] = "e"
      PROVE  At(y, n - 1) = "[" /\ At(y, n + 1) \in {"]", Nothing}
  <2> DEFINE i == Pick(m, n)
  <2>1. i \in Kept(m) /\ Before(m, i) = n - 1 /\ m[i] = "e"
    BY <1>1, <1>3, <1>4, PicksAre, MarkedIs
  <2> HIDE DEF i
  <2>2. i \in 1..Len(text) /\ i \in Int /\ n \in Int
    BY <1>1, <1>3, <2>1, KeptIs
  <2>3. At(text, i - 1) = "[" /\ At(text, i + 1) \in {"]", Nothing}
    BY <1>2, <2>1, <2>2 DEF Bound
  <2>4. i - 1 \in 1..Len(text) /\ text[i - 1] = "["
    BY <2>3, AtIs DEF Nothing
  <2>5. i - 1 \in Kept(m) /\ m[i - 1] = "["
    BY <2>4, BracketStays DEF m
  <2> DEFINE k == Before(m, i - 1) + 1
  <2>6. k \in Int /\ i - 1 \in Int /\ (i - 1) + 1 = i
    BY <1>1, <2>2, <2>5, BeforeBound
  <2> DEFINE h == i - 1
  <2>7. h \in Int /\ h \in Kept(m) /\ h + 1 \in Kept(m) /\ k = Before(m, h) + 1 /\ m[h] = "["
    BY <2>1, <2>5, <2>6
  <2>8. h + 1 = i
    BY <2>6
  <2> HIDE DEF h, k, y
  <2>9. Before(m, h + 1) = k /\ k \in 1..Len(Marked(m)) /\ Marked(m)[k] = m[h]
    BY <1>1, <2>6, <2>7, Neighbours
  <2>10. n - 1 = k /\ k \in 1..Len(y) /\ y[k] = "["
    BY <2>1, <2>2, <2>7, <2>8, <2>9 DEF y
  <2>11. At(y, n - 1) = "["
    BY <2>10, <1>3, AtIs
  <2>12. CASE At(text, i + 1) = "]"
    <3>1. i + 1 \in 1..Len(text) /\ text[i + 1] = "]"
      BY <2>12, AtIs DEF Nothing
    <3>2. i + 1 \in Kept(m) /\ m[i + 1] = "]"
      BY <3>1, BracketStays DEF m
    <3>3. n + 1 \in 1..Len(Marked(m)) /\ Marked(m)[n + 1] = m[i + 1]
      <4>1. n = Before(m, i) + 1
        BY <2>1, <2>2
      <4> QED
        BY <1>1, <2>1, <2>2, <3>2, <4>1, Neighbours
    <3>4. At(y, n + 1) = "]"
      BY <1>3, <3>2, <3>3, AtIs DEF y
    <3> QED
      BY <2>11, <3>4
  <2>13. CASE At(text, i + 1) = Nothing
    <3>1. i = Len(text)
      <4>1. i + 1 \in 1..Len(text) => text[i + 1] = Nothing
        BY <2>13, AtIs
      <4>2. i + 1 \in 1..Len(text) => text[i + 1] \in Chars
        BY ElementOfSeq
      <4>3. Nothing \notin Chars
        BY DEF Chars, Nothing
      <4> QED
        BY <1>1, <2>2, <4>1, <4>2, <4>3
    <3>2. n + 1 \notin 1..Len(y)
      <4>1. SUFFICES ASSUME n + 1 \in 1..Len(y) PROVE FALSE
        OBVIOUS
      <4>2. Pick(m, n) < Pick(m, n + 1)
        BY <1>1, <1>4, <2>2, <4>1, NextPick DEF y
      <4>3. Pick(m, n + 1) \in Kept(m)
        BY <1>1, <1>3, <4>1, PicksAre
      <4>4. Pick(m, n + 1) \in 1..Len(m)
        BY <1>1, <4>3, KeptIs
      <4> QED
        BY <1>1, <2>2, <3>1, <4>2, <4>4 DEF i
    <3>3. At(y, n + 1) = Nothing
      BY <1>3, <3>2, AtIs
    <3> QED
      BY <2>11, <3>3
  <2> QED
    BY <2>3, <2>12, <2>13
<1>5. Bound(y)
  BY <1>4 DEF Bound
<1> QED
  BY <1>5, RedactIs DEF m

LEMMA BoundFirst ==
    ASSUME NEW S, NEW a \in Seq(S), NEW b \in Seq(S), Bound(a \o b)
    PROVE  Bound(a)
<1> DEFINE x == a \o b
<1>1. /\ x \in Seq(S) /\ Len(x) = Len(a) + Len(b) /\ Len(a) \in Nat /\ Len(b) \in Nat
      /\ \A i \in Int : i <= Len(a) => At(x, i) = At(a, i)
  BY AtConcat
<1>2. \A i \in 1..Len(a) : At(a, i) = a[i] /\ At(x, i) = x[i]
  BY <1>1, AtIs
<1> HIDE DEF x
<1>3. ASSUME NEW i \in 1..Len(a), a[i] = "e"
      PROVE  At(a, i - 1) = "[" /\ At(a, i + 1) \in {"]", Nothing}
  <2>1. i \in Int /\ i - 1 \in Int /\ i + 1 \in Int /\ i - 1 <= Len(a) /\ i <= Len(a)
        /\ i \in 1..Len(x)
    BY <1>1
  <2>2. x[i] = "e"
    BY <1>1, <1>2, <1>3, <2>1
  <2>3. At(x, i - 1) = "[" /\ At(x, i + 1) \in {"]", Nothing}
    BY <2>1, <2>2 DEF Bound, x
  <2>4. At(a, i - 1) = "["
    BY <1>1, <2>1, <2>3
  <2>5. CASE i + 1 <= Len(a)
    BY <1>1, <2>1, <2>3, <2>4, <2>5
  <2>6. CASE ~(i + 1 <= Len(a))
    <3>1. At(a, i + 1) = Nothing
      BY <2>6, AtIs
    <3> QED
      BY <2>4, <3>1
  <2> QED
    BY <2>5, <2>6
<1> QED
  BY <1>3 DEF Bound

-----------------------------------------------------------------------------
(* StreamingOutputFilter redacts as the whole text is redacted *)

\* What Plain says of the length of secrets.
Fitting(text) ==
    \A i \in 1..Len(text) :
        Starter(text, i) => WordEnd(text, i) - i + MinHoldback < MaxSpan

LEMMA PlainIs ==
    ASSUME NEW text
    PROVE  Plain(text) <=> Separate(text) /\ Fitting(text) /\ Bound(text)
<1>1. ASSUME Plain(text) PROVE Separate(text) /\ Fitting(text) /\ Bound(text)
  BY <1>1 DEF Plain, Separate, Fitting, Bound
<1>2. ASSUME Separate(text), Fitting(text), Bound(text) PROVE Plain(text)
  BY <1>2 DEF Plain, Separate, Fitting, Bound
<1> QED
  BY <1>1, <1>2

LEMMA SeparateFirst ==
    ASSUME NEW S, NEW a \in Seq(S), NEW b \in Seq(S), Separate(a \o b)
    PROVE  Separate(a)
<1> DEFINE x == a \o b
<1>1. /\ x \in Seq(S) /\ Len(x) = Len(a) + Len(b) /\ Len(a) \in Nat /\ Len(b) \in Nat
      /\ \A i \in Int : i <= Len(a) => (IsWord(x, i) <=> IsWord(a, i))
  BY AtConcat
<1>2. \A i \in 1..Len(a) : Starter(a, i) => Starter(x, i)
  BY StarterInParts
<1> HIDE DEF x
<1>3. ASSUME NEW i \in 1..Len(a), Starter(a, i) PROVE ~IsWord(a, i - 1)
  <2>1. i \in 1..Len(x) /\ i - 1 \in Int /\ i - 1 <= Len(a)
    BY <1>1
  <2>2. ~IsWord(x, i - 1)
    BY <1>2, <1>3, <2>1 DEF Separate, x
  <2> QED
    BY <1>1, <2>1, <2>2
<1> QED
  BY <1>3 DEF Separate

LEMMA SuffixFits ==
    ASSUME NEW S, NEW a \in Seq(S), NEW b \in Seq(S), Separate(a \o b), Fitting(a \o b)
    PROVE  Separate(b) /\ Fitting(b)
<1> DEFINE x == a \o b
           L == Len(a)
<1>1. /\ x \in Seq(S) /\ Len(x) = L + Len(b) /\ L \in Nat /\ Len(b) \in Nat
      /\ \A i \in Int : IsWord(x, i) <=> IF i <= L THEN IsWord(a, i) ELSE IsWord(b, i - L)
  BY AtConcat
<1>2. \A i \in 1..Len(b) : Starter(x, L + i) <=> Starter(b, i)
  BY StarterInParts
<1>3. \A i \in 1..Len(b) : IsWord(b, i) => WordEnd(x, L + i) = L + WordEnd(b, i)
  BY WordInRest
<1>4. Separate(x) /\ Fitting(x)
  OBVIOUS
<1> HIDE DEF x, L
<1>5. ASSUME NEW i \in 1..Len(b), Starter(b, i)
      PROVE  ~IsWord(b, i - 1) /\ WordEnd(b, i) - i + MinHoldback < MaxSpan
  <2> DEFINE l == L + i
  <2>1. l \in 1..Len(x) /\ l - 1 \in Int /\ l - 1 - L = i - 1 /\ i \in Int /\ l \in Int
    BY <1>1
  <2>2. Starter(x, l)
    BY <1>2, <1>5
  <2>3. ~IsWord(x, l - 1) /\ WordEnd(x, l) - l + MinHoldback < MaxSpan
    <3> HIDE DEF l
    <3> QED
      BY <1>4, <2>1, <2>2 DEF Separate, Fitting
  <2>4. ~IsWord(b, i - 1)
    <3>1. CASE i = 1
      BY <3>1, AtIs
    <3>2. CASE i > 1
      BY <1>1, <2>1, <2>3, <3>2
    <3> QED
      BY <1>1, <3>1, <3>2
  <2>5. IsWord(b, i) /\ WordEnd(b, i) \in Int
    BY <1>5, StarterIs, StarterEnd
  <2>6. WordEnd(x, l) = L + WordEnd(b, i)
    BY <1>3, <2>5
  <2>7. MinHoldback \in Nat /\ MaxSpan \in Nat
    BY TextAssumption
  <2>8. WordEnd(b, i) - i + MinHoldback < MaxSpan
    BY <1>1, <2>1, <2>3, <2>5, <2>6, <2>7
  <2> QED
    BY <2>4, <2>8
<1> QED
  BY <1>5 DEF Separate, Fitting

LEMMA EndedFirst ==
    ASSUME NEW S, NEW a \in Seq(S), NEW b \in Seq(S), NEW n \in 0..Len(a), Ended(a \o b, n)
    PROVE  Ended(a, n)
<1> DEFINE x == a \o b
<1>1. Len(a) \in Nat /\ \A i \in 1..Len(a) : Starter(a, i) => Starter(x, i)
  BY StarterInParts, LenProperties
<1>2. ASSUME NEW i \in 1..n, Starter(a, i) PROVE WordEnd(a, i) <= n
  <2>1. i \in 1..Len(a) /\ n <= Len(a) /\ n \in Int
    BY <1>1
  <2>2. Starter(x, i)
    BY <1>1, <1>2, <2>1
  <2>3. WordEnd(x, i) <= n
    BY <2>2 DEF Ended
  <2>4. IsWord(a, i) /\ IsWord(x, i)
    <3>1. IsWord(a, i)
      BY <1>2, <2>1, StarterIs
    <3>2. IsWord(x, i) <=> IsWord(a, i)
      BY <2>1, AtConcat
    <3> QED
      BY <3>1, <3>2
  <2>5. WordEnd(x, i) \in Int
    <3>1. x \in Seq(S) /\ Len(x) = Len(a) + Len(b) /\ Len(b) \in Nat
      BY ConcatProperties, LenProperties
    <3> HIDE DEF x
    <3>2. i \in 1..Len(x)
      BY <1>1, <2>1, <3>1
    <3> QED
      BY <2>4, <3>1, <3>2, WordEndIs
  <2>6. WordEnd(x, i) <= Len(a)
    <3> HIDE DEF x
    <3> QED
      BY <1>1, <2>1, <2>3, <2>5
  <2>7. WordEnd(x, i) = WordEnd(a, i)
    BY <2>1, <2>4, <2>6, WordInFirst
  <2> QED
    BY <2>3, <2>7
<1> QED
  BY <1>2 DEF Ended

\* What has ended before the last character has ended for good.
LEMMA EndedStays ==
    ASSUME NEW S, NEW a \in Seq(S), NEW b \in Seq(S), NEW n \in Nat, n < Len(a), Ended(a, n)
    PROVE  Ended(a \o b, n)
<1> DEFINE x == a \o b
<1>1. Len(a) \in Nat /\ \A i \in 1..Len(a) : Starter(x, i) /\ i + 1 <= Len(a) => Starter(a, i)
  BY StarterInParts, LenProperties
<1>2. ASSUME NEW i \in 1..n, Starter(x, i) PROVE WordEnd(x, i) <= n
  <2>1. i \in 1..Len(a) /\ i + 1 <= Len(a)
    BY <1>1
  <2>2. Starter(a, i)
    BY <1>1, <1>2, <2>1
  <2>3. WordEnd(a, i) <= n
    BY <2>2 DEF Ended
  <2>4. IsWord(a, i) /\ WordEnd(a, i) \in Int
    BY <2>1, <2>2, StarterIs, StarterEnd
  <2>5. WordEnd(a, i) < Len(a)
    BY <1>1, <2>3, <2>4
  <2>6. WordEnd(x, i) = WordEnd(a, i)
    BY <2>1, <2>4, <2>5, WordInFirst
  <2> QED
    BY <2>3, <2>6
<1> QED
  BY <1>2 DEF Ended

\* No secret of what is let through goes on in what is held back.
LEMMA EmitEnds ==
    ASSUME NEW text \in Seq(Chars), Separate(text), Fitting(text),
           NEW j \in 1..EmitBoundary(text), Starter(text, j)
    PROVE  WordEnd(text, j) <= EmitBoundary(text)
<1> DEFINE b == EmitBoundary(text)
           R == Releasable(text)
           L == Len(text)
           w == WordEnd(text, j)
<1>1. /\ b \in 0..L
      /\ j <= L - MaxSpan \/ Complete(text, j)
      /\ b = R \/ (b + 1 \in 1..L /\ Starter(text, b + 1))
  BY EmitIs
<1>2. L \in Nat /\ MinHoldback \in Nat /\ MaxSpan \in Nat
  BY LenProperties, TextAssumption
<1>3. R \in 0..L /\ L - MinHoldback <= R
  BY ReleasableIs
<1>4. j \in 1..L /\ j \in Int
  BY <1>1, <1>2
<1>5. w - j + MinHoldback < MaxSpan
  BY <1>4 DEF Fitting
<1>6. IsWord(text, j)
  BY <1>4, StarterIs
<1>7. w \in Int /\ \A n \in j..w : IsWord(text, n)
  BY <1>4, <1>6, WordEndIs
<1>8. Complete(text, j) => w <= R
  BY DEF Complete
<1>9. b + 1 \in 1..L /\ Starter(text, b + 1) => ~IsWord(text, (b + 1) - 1)
  BY DEF Separate
<1> HIDE DEF b, R, L, w
<1>10. w <= R
  BY <1>1, <1>2, <1>3, <1>4, <1>5, <1>7, <1>8
<1>11. w <= b
  <2>1. CASE b = R
    BY <1>10, <2>1
  <2>2. CASE b + 1 \in 1..L /\ Starter(text, b + 1)
    <3>1. ~IsWord(text, b)
      <4>1. (b + 1) - 1 = b
        BY <1>1, <1>2
      <4> QED
        BY <1>9, <2>2, <4>1
    <3>2. j <= b
      BY <1>1, <1>2 DEF b
    <3> QED
      BY <1>1, <1>2, <1>7, <3>1, <3>2
  <2> QED
    BY <1>1, <2>1, <2>2
<1> QED
  BY <1>11 DEF b, w

\* While a stream is read: what is released is the redaction of what came
\* before the pending text, in which no secret goes on, whatever comes next.
FilterReading(f, r) ==
    \E a \in Seq(Chars) : /\ r = a \o f.pending
                          /\ f.released = Redact(a)
                          /\ a = <<>> \/ f.pending # <<>>
                          /\ Ended(r, Len(a))

LEMMA ReleaseIs ==
    ASSUME NEW f, FilterType(f), NEW text, NEW n
    PROVE  /\ Release(f, text, n).filter.pending = Rest(text, n)
           /\ Release(f, text, n).filter.released = f.released \o Redact(First(text, n))
           /\ Release(f, text, n).safe = Redact(First(text, n))
<1> DEFINE y == Rest(text, n)
           safe == Redact(First(text, n))
           g == [f EXCEPT !.pending = y, !.released = @ \o safe]
<1>1. Release(f, text, n) = Result(g, safe)
  BY DEF Release
<1> HIDE DEF y, safe
<1>2. g.pending = y /\ g.released = f.released \o safe
  BY DEF FilterType
<1> HIDE DEF g
<1>3. Result(g, safe).filter = g /\ Result(g, safe).safe = safe
  BY DEF Result
<1> QED
  BY <1>1, <1>2, <1>3 DEF y, safe

\* One more piece, in sequences alone.
LEMMA OnePiece ==
    ASSUME NEW a \in Seq(Chars), NEW p \in Seq(Chars), NEW delta \in Seq(Chars),
           a = <<>> \/ p # <<>>, Ended(a \o p, Len(a)), Plain((a \o p) \o delta),
           NEW n, n = EmitBoundary(p \o delta)
    PROVE  LET F == First(p \o delta, n)
               G == Rest(p \o delta, n)
           IN /\ a \o F \in Seq(Chars) /\ F \in Seq(Chars) /\ G \in Seq(Chars)
              /\ (a \o p) \o delta = (a \o F) \o G
              /\ Redact(a \o F) = Redact(a) \o Redact(F)
              /\ a \o F = <<>> \/ G # <<>>
              /\ Ended((a \o p) \o delta, Len(a \o F))
<1> DEFINE t == p \o delta
           F == First(t, n)
           G == Rest(t, n)
           r == (a \o p) \o delta
           y == a \o F
           L == Len(a)
<1>1. t \in Seq(Chars) /\ Len(t) = Len(p) + Len(delta) /\ Len(p) \in Nat /\ Len(delta) \in Nat
  BY ConcatProperties, LenProperties
<1>2. n \in 0..Len(t) /\ (n >= 1 => n + MinHoldback <= Len(t))
  BY <1>1, EmitIs
<1>3. L \in Nat /\ MinHoldback \in Nat \ {0} /\ (L = 0 => a = <<>>)
  BY LenProperties, TextAssumption, EmptySeq
<1>4. F \in Seq(Chars) /\ Len(F) = n /\ G \in Seq(Chars) /\ Len(G) = Len(t) - n /\ F \o G = t
  <2> HIDE DEF t
  <2>1. F \in Seq(Chars) /\ Len(F) = n
    BY <1>1, <1>2, FirstIs
  <2>2. G \in Seq(Chars) /\ Len(G) = Len(t) - n
    BY <1>1, <1>2, RestIs
  <2>3. F \o G = t
    BY <1>1, <1>2, FirstRest
  <2> QED
    BY <2>1, <2>2, <2>3
<1>5. y \in Seq(Chars) /\ Len(y) = L + n
  <2> HIDE DEF F
  <2> QED
    BY <1>4, ConcatProperties
<1>6. r = a \o t
  BY MaskedAre, Regrouped, Zenon
<1>7. r = y \o G
  <2> HIDE DEF F, G, t
  <2>1. a \in Seq(Symbols) /\ F \in Seq(Symbols) /\ G \in Seq(Symbols)
    BY <1>4, MaskedAre, Zenon
  <2>2. (a \o F) \o G = a \o (F \o G)
    BY <2>1, Regrouped, Zenon
  <2> HIDE DEF r
  <2> QED
    BY <1>4, <1>6, <2>2, Zenon
<1>8. Separate(r) /\ Fitting(r)
  BY PlainIs
<1> HIDE DEF r, t, F, G
<1>9. Separate(t) /\ Fitting(t)
  BY <1>1, <1>6, <1>8, SuffixFits
<1>10. Ended(r, L)
  <2>1. CASE a = <<>>
    <3>1. L = 0
      BY <2>1, EmptySeq
    <3> QED
      BY <3>1 DEF Ended
  <2>2. CASE p # <<>>
    <3> DEFINE x == a \o p
    <3>1. x \in Seq(Chars) /\ Len(x) = L + Len(p)
      BY ConcatProperties
    <3>2. Len(p) # 0
      BY <2>2, EmptySeq
    <3>3. Ended(x, L) /\ r = x \o delta
      BY DEF r
    <3> HIDE DEF x, L
    <3>4. L < Len(x)
      BY <1>1, <1>3, <3>1, <3>2
    <3> QED
      BY <1>3, <3>1, <3>3, <3>4, EndedStays
  <2> QED
    BY <2>1, <2>2
<1>11. ASSUME NEW i \in 1..(L + n), Starter(r, i)
       PROVE  WordEnd(r, i) <= L + n
  <2>1. L + n \in Nat /\ i \in Int /\ n \in Int
    BY <1>1, <1>2, <1>3
  <2>2. CASE i <= L
    <3>1. WordEnd(r, i) <= L
      BY <1>10, <1>11, <2>1, <2>2 DEF Ended
    <3>2. r \in Seq(Chars) /\ i \in 1..Len(r)
      <4>1. Len(y \o G) = Len(y) + Len(G) /\ y \o G \in Seq(Chars)
        <5> HIDE DEF y
        <5> QED
          BY <1>4, <1>5, ConcatProperties
      <4>2. Len(r) = L + Len(t)
        BY <1>1, <1>2, <1>3, <1>4, <1>5, <1>7, <4>1
      <4> QED
        BY <1>1, <1>3, <1>7, <2>1, <2>2, <4>1, <4>2
    <3>3. WordEnd(r, i) \in Int
      BY <1>11, <3>2, StarterEnd
    <3> QED
      BY <1>2, <1>3, <2>1, <3>1, <3>3
  <2>3. CASE i > L
    <3> DEFINE k == i - L
    <3>1. k \in 1..n /\ k \in 1..Len(t) /\ i = L + k
      BY <1>1, <1>2, <1>3, <2>1, <2>3
    <3> HIDE DEF k
    <3>2. Starter(t, k)
      BY <1>1, <1>6, <1>11, <3>1, StarterInParts
    <3>3. WordEnd(t, k) <= n
      BY <1>1, <1>9, <3>1, <3>2, EmitEnds DEF t
    <3>4. IsWord(t, k) /\ WordEnd(t, k) \in Int
      BY <1>1, <3>1, <3>2, StarterIs, StarterEnd
    <3>5. WordEnd(r, i) = L + WordEnd(t, k)
      BY <1>1, <1>6, <3>1, <3>4, WordInRest
    <3> QED
      BY <1>2, <1>3, <2>1, <3>3, <3>4, <3>5
  <2> QED
    BY <1>3, <2>1, <2>2, <2>3
<1>12. Ended(r, Len(y))
  BY <1>5, <1>11 DEF Ended
<1>13. Separate(y) /\ Ended(y, L)
  <2> HIDE DEF y
  <2>1. Separate(y)
    BY <1>4, <1>5, <1>7, <1>8, SeparateFirst
  <2>2. L \in 0..Len(y)
    BY <1>1, <1>2, <1>3, <1>5
  <2>3. Ended(y, L)
    BY <1>4, <1>5, <1>7, <1>10, <2>2, EndedFirst
  <2> QED
    BY <2>1, <2>3
<1>14. Redact(a \o F) = Redact(a) \o Redact(F)
  BY <1>4, <1>13, RedactSplit DEF y
<1>15. y = <<>> \/ G # <<>>
  <2> HIDE DEF y
  <2>1. CASE n >= 1
    <3>1. Len(G) >= 1
      BY <1>1, <1>2, <1>3, <1>4, <2>1
    <3> QED
      BY <3>1, EmptySeq
  <2>2. CASE n = 0
    <3>1. CASE a = <<>>
      <4>1. L = 0
        BY <3>1, EmptySeq DEF L
      <4> QED
        BY <1>5, <2>2, <4>1, EmptySeq
    <3>2. CASE p # <<>>
      <4>1. Len(p) # 0
        BY <3>2, EmptySeq
      <4>2. Len(G) # 0
        BY <1>1, <1>4, <2>2, <4>1
      <4> QED
        BY <4>2, EmptySeq
    <3> QED
      BY <3>1, <3>2
  <2> QED
    BY <1>1, <1>2, <2>1, <2>2
<1> QED
  BY <1>4, <1>5, <1>7, <1>12, <1>14, <1>15 DEF r, t, F, G

LEMMA FeedReads ==
    ASSUME NEW f, FilterType(f), ~f.leaked, NEW delta \in Seq(Chars), NEW r,
           FilterReading(f, r), Plain(r \o delta), ~Feed(f, delta).filter.leaked
    PROVE  FilterReading(Feed(f, delta).filter, r \o delta)
<1> DEFINE p == f.pending
           n == EmitBoundary(p \o delta)
           F == First(p \o delta, n)
           G == Rest(p \o delta, n)
           g == Feed(f, delta).filter
<1>1. PICK a \in Seq(Chars) : /\ r = a \o p /\ f.released = Redact(a)
                              /\ a = <<>> \/ p # <<>>
                              /\ Ended(r, Len(a))
  BY DEF FilterReading
<1>2. p \in Seq(Chars)
  BY DEF FilterType
<1>3. Feed(f, delta) = Release(f, p \o delta, n)
  BY FeedKeeps
<1>4. g.pending = G /\ g.released = f.released \o Redact(F)
  <2> HIDE DEF n
  <2>1. /\ Release(f, p \o delta, n).filter.pending = G
        /\ Release(f, p \o delta, n).filter.released = f.released \o Redact(F)
    BY ReleaseIs
  <2> QED
    BY <1>3, <2>1
<1> HIDE DEF p, g
<1>5. Ended(a \o p, Len(a)) /\ Plain((a \o p) \o delta)
  BY <1>1
<1>6. /\ a \o F \in Seq(Chars) /\ F \in Seq(Chars) /\ G \in Seq(Chars)
      /\ (a \o p) \o delta = (a \o F) \o G
      /\ Redact(a \o F) = Redact(a) \o Redact(F)
      /\ a \o F = <<>> \/ G # <<>>
      /\ Ended((a \o p) \o delta, Len(a \o F))
  BY <1>1, <1>2, <1>5, OnePiece
<1> HIDE DEF F, G, n
<1>7. /\ r \o delta = (a \o F) \o g.pending
      /\ g.released = Redact(a \o F)
      /\ a \o F = <<>> \/ g.pending # <<>>
      /\ Ended(r \o delta, Len(a \o F))
  BY <1>1, <1>4, <1>6
<1>8. FilterReading(g, r \o delta)
  BY <1>6, <1>7 DEF FilterReading
<1> QED
  BY <1>8 DEF g

LEMMA FlushReads ==
    ASSUME NEW f, FilterType(f), Unleaked(f), NEW r, FilterReading(f, r), Separate(r)
    PROVE  /\ Flush(f).filter.pending = <<>> /\ Flush(f).filter.released = Redact(r)
           /\ f.released \o Flush(f).safe = Redact(r)
<1> DEFINE p == f.pending
<1>1. PICK a \in Seq(Chars) : /\ r = a \o p /\ f.released = Redact(a)
                              /\ Ended(r, Len(a))
  BY DEF FilterReading
<1>2. p \in Seq(Chars)
  BY DEF FilterType
<1>3. /\ Flush(f).filter.pending = <<>>
      /\ Flush(f).safe = Redact(p)
      /\ Flush(f).filter.released = f.released \o Flush(f).safe
  BY FlushKeeps
<1> HIDE DEF p
<1>4. Redact(a \o p) = Redact(a) \o Redact(p)
  BY <1>1, <1>2, RedactSplit
<1> QED
  BY <1>1, <1>3, <1>4

-----------------------------------------------------------------------------
(* VaultRestorer restores as the whole text is restored *)

\* Where a text m ends that was let through, and one h begins that was not: not
\* within a placeholder.
Between(m, h) ==
    m # <<>> => /\ m[Len(m)] # "e"
                /\ m[Len(m)] = "[" => h # <<>> /\ h[1] # "e"

LEMMA ConcatIs ==
    ASSUME NEW S, NEW a \in Seq(S), NEW b \in Seq(S)
    PROVE  /\ a \o b \in Seq(S) /\ Len(a \o b) = Len(a) + Len(b)
           /\ Len(a) \in Nat /\ Len(b) \in Nat
           /\ \A j \in 1..(Len(a) + Len(b)) :
                 (a \o b)[j] = IF j <= Len(a) THEN a[j] ELSE b[j - Len(a)]
           /\ Len(a) = 0 <=> a = <<>>
           /\ Len(b) = 0 <=> b = <<>>
BY ConcatProperties, LenProperties, EmptySeq

LEMMA BetweenStays ==
    ASSUME NEW m \in Seq(Masked), NEW h \in Seq(Masked), NEW t \in Seq(Masked), Between(m, h)
    PROVE  Between(m, h \o t)
<1> DEFINE x == h \o t
<1>1. /\ Len(x) = Len(h) + Len(t) /\ Len(h) \in Nat /\ Len(t) \in Nat /\ x \in Seq(Masked)
      /\ \A j \in 1..(Len(h) + Len(t)) : x[j] = IF j <= Len(h) THEN h[j] ELSE t[j - Len(h)]
      /\ (Len(h) = 0 <=> h = <<>>)
  BY ConcatIs
<1> HIDE DEF x
<1>2. x = <<>> => Len(x) = 0
  BY EmptySeq
<1>3. h # <<>> => x # <<>> /\ x[1] = h[1]
  BY <1>1, <1>2
<1> QED
  BY <1>3 DEF Between, x

LEMMA BetweenLoose ==
    ASSUME NEW m \in Seq(Masked), NEW x \in Seq(Masked), Between(m, x), Bound(m \o x)
    PROVE  m # <<>> /\ x # <<>> => m[Len(m)] # "e" /\ x[1] # "e"
<1> DEFINE r == m \o x
           L == Len(m)
<1>1. /\ Len(r) = L + Len(x) /\ L \in Nat /\ Len(x) \in Nat /\ r \in Seq(Masked)
      /\ \A j \in 1..(L + Len(x)) : r[j] = IF j <= L THEN m[j] ELSE x[j - L]
      /\ (L = 0 <=> m = <<>>) /\ (Len(x) = 0 <=> x = <<>>)
  BY ConcatIs
<1>2. SUFFICES ASSUME m # <<>>, x # <<>>, x[1] = "e" PROVE FALSE
  BY DEF Between
<1>3. L >= 1 /\ Len(x) >= 1
  BY <1>1, <1>2
<1> HIDE DEF r, L
<1>4. L + 1 \in 1..Len(r) /\ r[L + 1] = "e" /\ (L + 1) - 1 = L
  BY <1>1, <1>2, <1>3
<1>5. At(r, L) = "["
  BY <1>4 DEF Bound, r
<1>6. L \in 1..Len(r) /\ r[L] = m[L]
  BY <1>1, <1>3
<1>7. m[L] = "["
  BY <1>1, <1>5, <1>6, AtIs
<1> QED
  BY <1>2, <1>7 DEF Between, L

LEMMA BetweenEnd ==
    ASSUME NEW m \in Seq(Masked), NEW x \in Seq(Masked), Between(m, x), Bound(m \o x)
    PROVE  Restore(m \o x) = Restore(m) \o Restore(x)
<1>1. Loose(m, x)
  BY BetweenLoose DEF Loose
<1> QED
  BY <1>1, RestoreSplit

\* The last character that is let through is not the name of a placeholder.
LEMMA BoundaryEnds ==
    ASSUME NEW m \in Seq(Masked), NEW x \in Seq(Masked), Between(m, x), Bound(m \o x),
           Boundary(x) >= 1
    PROVE  /\ x[Boundary(x)] # "e"
           /\ x[Boundary(x)] = "[" => Boundary(x) < Len(x)
           /\ Boundary(x) < Len(x) => x[Boundary(x) + 1] = "["
<1> DEFINE r == m \o x
           L == Len(m)
           b == Boundary(x)
           N == Len(x)
<1>1. /\ Len(r) = L + N /\ L \in Nat /\ N \in Nat /\ r \in Seq(Masked)
      /\ \A j \in 1..(L + N) : r[j] = IF j <= L THEN m[j] ELSE x[j - L]
      /\ (L = 0 <=> m = <<>>) /\ (N = 0 <=> x = <<>>)
  BY ConcatIs
<1>2. /\ b \in 0..N
      /\ \/ b = N /\ \A i \in 1..N : x[i] # "["
         \/ /\ b = N
            /\ \E last \in 1..N :
                  /\ x[last] = "["
                  /\ \A i \in 1..N : x[i] = "[" => i <= last
                  /\ (\E j \in last..N : x[j] \in {"]", Redacted}) \/ N - last + 1 > MaxTokenLen
         \/ b + 1 \in 1..N /\ x[b + 1] = "["
  BY BoundaryIs
<1>3. b \in 1..N
  BY <1>1, <1>2
<1>4. MaxTokenLen \in Nat /\ MaxTokenLen >= 2
  BY TextAssumption
<1>5. Bound(r)
  OBVIOUS
<1>6. x[1] = "e" => m = <<>>
  BY <1>1, <1>3, BetweenLoose
<1> HIDE DEF r, L, b, N
<1>7. \A i \in Int : i \in 1..Len(r) => At(r, i) = r[i]
  BY <1>1, AtIs
<1>8. ASSUME x[b] = "e" PROVE b > 1 /\ x[b - 1] = "[" /\ (b + 1 \in 1..N => x[b + 1] = "]")
  <2>1. L + b \in 1..Len(r) /\ r[L + b] = "e" /\ L + b \in Int
    BY <1>1, <1>3, <1>8
  <2>2. At(r, (L + b) - 1) = "[" /\ At(r, (L + b) + 1) \in {"]", Nothing}
    BY <1>5, <2>1 DEF Bound
  <2>3. b > 1
    <3>1. SUFFICES ASSUME b = 1 PROVE FALSE
      BY <1>1, <1>3
    <3>2. L = 0
      BY <1>1, <1>6, <1>8, <3>1
    <3>3. (L + b) - 1 \notin 1..Len(r)
      BY <1>1, <3>1, <3>2
    <3>4. At(r, (L + b) - 1) = Nothing
      BY <1>1, <3>3, AtIs
    <3> QED
      BY <2>2, <3>4 DEF Nothing
  <2>4. (L + b) - 1 \in 1..Len(r) /\ r[(L + b) - 1] = x[b - 1]
    BY <1>1, <1>3, <2>3
  <2>5. x[b - 1] = "["
    BY <1>7, <2>2, <2>4
  <2>6. ASSUME b + 1 \in 1..N PROVE x[b + 1] = "]"
    <3>1. (L + b) + 1 \in 1..Len(r) /\ r[(L + b) + 1] = x[b + 1]
      BY <1>1, <1>3, <2>6
    <3>2. x[b + 1] \in {"]", Nothing}
      BY <1>7, <2>2, <3>1
    <3>3. x[b + 1] \in Masked
      BY <2>6, ElementOfSeq DEF N
    <3> QED
      BY <3>2, <3>3, SymbolsAre
  <2> QED
    BY <2>3, <2>5, <2>6
<1>9. CASE b = N /\ \A i \in 1..N : x[i] # "["
  <2>1. x[b] # "[" /\ x[b] # "e"
    <3>1. x[b] # "["
      BY <1>3, <1>9
    <3>2. x[b] = "e" => b - 1 \in 1..N /\ x[b - 1] = "["
      BY <1>1, <1>3, <1>8
    <3> QED
      BY <1>9, <3>1, <3>2
  <2> QED
    BY <1>1, <1>9, <2>1 DEF b, N
<1>10. CASE /\ b = N
            /\ \E last \in 1..N :
                  /\ x[last] = "["
                  /\ \A i \in 1..N : x[i] = "[" => i <= last
                  /\ (\E j \in last..N : x[j] \in {"]", Redacted}) \/ N - last + 1 > MaxTokenLen
  <2>1. PICK last \in 1..N :
           /\ x[last] = "["
           /\ \A i \in 1..N : x[i] = "[" => i <= last
           /\ (\E j \in last..N : x[j] \in {"]", Redacted}) \/ N - last + 1 > MaxTokenLen
    BY <1>10
  <2>2. x[b] # "["
    <3>1. SUFFICES ASSUME x[b] = "[" PROVE FALSE
      OBVIOUS
    <3>2. last = N
      BY <1>1, <1>3, <1>10, <2>1, <3>1
    <3>3. N - last + 1 = 1
      BY <1>1, <3>2
    <3>4. PICK j \in last..N : x[j] \in {"]", Redacted}
      BY <1>4, <2>1, <3>3
    <3>5. j = b
      BY <1>1, <1>10, <3>2
    <3> QED
      BY <3>1, <3>4, <3>5 DEF Redacted
  <2>3. x[b] # "e"
    <3>1. SUFFICES ASSUME x[b] = "e" PROVE FALSE
      OBVIOUS
    <3>2. b > 1 /\ x[b - 1] = "["
      BY <1>8, <3>1
    <3>3. last = N - 1
      <4>1. b - 1 \in 1..N /\ last # N
        BY <1>1, <1>10, <2>1, <3>1, <3>2
      <4>2. b - 1 <= last
        BY <2>1, <3>2, <4>1
      <4> QED
        BY <1>1, <1>10, <4>1, <4>2
    <3>4. N - last + 1 = 2
      BY <1>1, <3>3
    <3>5. PICK j \in last..N : x[j] \in {"]", Redacted}
      BY <1>4, <2>1, <3>4
    <3>6. j = b \/ j = b - 1
      BY <1>1, <1>10, <3>3
    <3> QED
      BY <3>1, <3>2, <3>5, <3>6 DEF Redacted
  <2> QED
    BY <1>1, <1>10, <2>2, <2>3 DEF b, N
<1>11. CASE b + 1 \in 1..N /\ x[b + 1] = "["
  <2>1. x[b] # "e"
    BY <1>8, <1>11
  <2>2. b < N
    BY <1>1, <1>3, <1>11
  <2> QED
    BY <1>11, <2>1, <2>2 DEF b, N
<1> QED
  BY <1>2, <1>9, <1>10, <1>11

LEMMA BetweenParts ==
    ASSUME NEW m \in Seq(Masked), NEW x \in Seq(Masked), Between(m, x), Bound(m \o x),
           NEW n, n = Boundary(x)
    PROVE  LET F == First(x, n)
               G == Rest(x, n)
           IN /\ m \o F \in Seq(Masked) /\ G \in Seq(Masked)
              /\ m \o x = (m \o F) \o G
              /\ Restore(m \o F) = Restore(m) \o Restore(F)
              /\ Between(m \o F, G)
<1> DEFINE F == First(x, n)
           G == Rest(x, n)
           y == m \o F
<1>1. n \in 0..Len(x) /\ Len(x) \in Nat
  BY BoundaryIs, LenProperties
<1>2. /\ F \in Seq(Masked) /\ Len(F) = n /\ \A i \in 1..n : F[i] = x[i]
      /\ G \in Seq(Masked) /\ Len(G) = Len(x) - n /\ \A i \in 1..(Len(x) - n) : G[i] = x[n + i]
      /\ F \o G = x
  BY <1>1, FirstIs, RestIs, FirstRest
<1> HIDE DEF F, G
<1>3. /\ y \in Seq(Masked) /\ Len(y) = Len(m) + n /\ Len(m) \in Nat
      /\ \A j \in 1..(Len(m) + n) : y[j] = IF j <= Len(m) THEN m[j] ELSE F[j - Len(m)]
      /\ (Len(m) = 0 <=> m = <<>>) /\ (n = 0 <=> F = <<>>)
  <2>1. /\ y \in Seq(Masked) /\ Len(y) = Len(m) + Len(F) /\ Len(m) \in Nat
        /\ \A j \in 1..(Len(m) + Len(F)) : y[j] = IF j <= Len(m) THEN m[j] ELSE F[j - Len(m)]
        /\ (Len(m) = 0 <=> m = <<>>) /\ (Len(F) = 0 <=> F = <<>>)
    <3>1. F \in Seq(Masked)
      BY <1>2
    <3> QED
      BY <3>1, ConcatProperties, LenProperties, EmptySeq
  <2> HIDE DEF y
  <2>2. Len(F) = n
    BY <1>2
  <2> QED
    BY <2>1, <2>2
<1>4. m \o x = y \o G
  <2>1. m \in Seq(Symbols) /\ F \in Seq(Symbols) /\ G \in Seq(Symbols)
    BY <1>2, MaskedAre, Zenon
  <2>2. (m \o F) \o G = m \o (F \o G)
    BY <2>1, Regrouped, Zenon
  <2> QED
    BY <1>2, <2>2
<1>5. n >= 1 => /\ x[n] # "e"
                /\ x[n] = "[" => n < Len(x)
                /\ n < Len(x) => x[n + 1] = "["
  BY BoundaryEnds
<1>6. m # <<>> /\ x # <<>> => m[Len(m)] # "e" /\ x[1] # "e"
  BY BetweenLoose
<1>7. Loose(m, F)
  <2>1. SUFFICES ASSUME m # <<>>, F # <<>> PROVE m[Len(m)] # "e" /\ F[1] # "e"
    BY DEF Loose
  <2>2. n >= 1
    BY <1>1, <1>3, <2>1
  <2>3. x # <<>>
    BY <1>1, <2>2, EmptySeq
  <2>4. F[1] = x[1]
    BY <1>1, <1>2, <2>2
  <2> QED
    BY <1>6, <2>1, <2>3, <2>4
<1>8. Restore(y) = Restore(m) \o Restore(F)
  BY <1>2, <1>7, RestoreSplit
<1>9. G # <<>> => n < Len(x)
  BY <1>1, <1>2, EmptySeq
<1>10. n < Len(x) => G # <<>> /\ G[1] = x[n + 1]
  BY <1>1, <1>2, EmptySeq
<1> HIDE DEF y
<1>11. Between(y, G)
  <2>1. SUFFICES ASSUME y # <<>>
                 PROVE  y[Len(y)] # "e" /\ (y[Len(y)] = "[" => G # <<>> /\ G[1] # "e")
    BY DEF Between
  <2>2. CASE n >= 1
    <3>1. y[Len(y)] = x[n]
      <4>1. Len(y) \in 1..(Len(m) + n) /\ ~(Len(y) <= Len(m)) /\ Len(y) - Len(m) = n
        BY <1>1, <1>3, <2>2
      <4>2. y[Len(y)] = F[n]
        BY <1>3, <4>1
      <4>3. F[n] = x[n]
        BY <1>1, <1>2, <2>2
      <4> QED
        BY <4>2, <4>3
    <3> QED
      BY <1>1, <1>5, <1>10, <2>2, <3>1
  <2>3. CASE n = 0
    <3>1. Len(y) = Len(m) /\ m # <<>>
      <4>1. Len(y) # 0
        BY <1>3, <2>1, EmptySeq
      <4> QED
        BY <1>3, <2>3, <4>1
    <3>2. y[Len(y)] = m[Len(m)]
      BY <1>3, <2>3, <3>1
    <3>3. m[Len(m)] # "e" /\ (m[Len(m)] = "[" => x # <<>> /\ x[1] # "e")
      BY <3>1 DEF Between
    <3>4. x # <<>> => G # <<>> /\ G[1] = x[1]
      <4>1. x # <<>> => Len(x) # 0
        BY EmptySeq
      <4>2. x # <<>> => n < Len(x)
        BY <1>1, <2>3, <4>1
      <4> QED
        BY <1>10, <2>3, <4>2
    <3> QED
      BY <3>2, <3>3, <3>4
  <2> QED
    BY <1>1, <2>2, <2>3
<1> QED
  BY <1>2, <1>3, <1>4, <1>8, <1>11 DEF F, G, y

\* What was sent is the restoration of what came before the held text, and no
\* placeholder goes on in that.
Restoring(s, h, r) ==
    \E m \in Seq(Masked) : r = m \o h /\ s = Restore(m) /\ Between(m, h)


LEMMA RestoringMore ==
    ASSUME NEW s, NEW h \in Seq(Masked), NEW r, NEW t \in Seq(Masked),
           Restoring(s, h, r), Bound(r \o t)
    PROVE  /\ Restoring(s, h \o t, r \o t)
           /\ Restore(r \o t) = s \o Restore(h \o t)
<1>1. PICK m \in Seq(Masked) : r = m \o h /\ s = Restore(m) /\ Between(m, h)
  BY DEF Restoring
<1>2. r \o t = m \o (h \o t)
  <2>1. m \in Seq(Symbols) /\ h \in Seq(Symbols) /\ t \in Seq(Symbols)
    BY MaskedAre, Zenon
  <2>2. (m \o h) \o t = m \o (h \o t)
    BY <2>1, Regrouped, Zenon
  <2> QED
    BY <1>1, <2>2
<1> DEFINE x == h \o t
<1>3. x \in Seq(Masked) /\ Between(m, x)
  <2>1. x \in Seq(Masked)
    BY ConcatProperties
  <2>2. Between(m, x)
    BY <1>1, BetweenStays
  <2> QED
    BY <2>1, <2>2
<1>4. Bound(m \o x)
  BY <1>2
<1> HIDE DEF x
<1>5. Restore(m \o x) = Restore(m) \o Restore(x)
  BY <1>3, <1>4, BetweenEnd
<1>6. r \o t = m \o x
  BY <1>2 DEF x
<1>7. Restoring(s, x, r \o t)
  BY <1>1, <1>3, <1>6 DEF Restoring
<1> QED
  BY <1>1, <1>5, <1>6, <1>7 DEF x

LEMMA ReadyReads ==
    ASSUME RestorerOK, vault, sent \in Seq(Symbols), NEW text \in Seq(Masked), NEW r,
           Restoring(sent, held, r), Bound(r \o text)
    PROVE  Restoring(sent \o Ready(text), HeldAfter(text), r \o text)
<1> DEFINE x == held \o text
           n == Boundary(x)
           F == First(x, n)
           G == Rest(x, n)
<1>1. held \in Seq(Masked) /\ x \in Seq(Masked)
  BY ReadyIs DEF RestorerOK
<1>2. Ready(text) = Restore(F) /\ HeldAfter(text) = G
  BY DEF Ready, HeldAfter
<1>3. PICK m \in Seq(Masked) : r \o text = m \o x /\ sent = Restore(m) /\ Between(m, x)
  <2>1. Restoring(sent, x, r \o text)
    BY <1>1, RestoringMore
  <2> QED
    BY <2>1 DEF Restoring
<1> HIDE DEF x
<1>4. /\ m \o F \in Seq(Masked) /\ G \in Seq(Masked)
      /\ m \o x = (m \o F) \o G
      /\ Restore(m \o F) = Restore(m) \o Restore(F)
      /\ Between(m \o F, G)
  <2>1. Bound(m \o x)
    BY <1>3
  <2> QED
    BY <1>1, <1>3, <2>1, BetweenParts
<1> HIDE DEF F, G, n
<1> QED
  BY <1>2, <1>3, <1>4 DEF Restoring

LEMMA ReadyWholeReads ==
    ASSUME RestorerOK, vault, sent \in Seq(Symbols), NEW text \in Seq(Masked), NEW r,
           Restoring(sent, held, r), Bound(r \o text)
    PROVE  sent \o ReadyWhole(text) = Restore(r \o text)
<1> DEFINE s == sent \o Ready(text)
           h == HeldAfter(text)
<1>1. s \in Seq(Symbols) /\ h \in Seq(Masked) /\ Ready(text) \in Seq(Symbols)
  BY ReadyIs, ConcatProperties
<1>2. sent \o ReadyWhole(text) = s \o Restore(h)
  BY ReadyWholeIs
<1>3. Restoring(s, h, r \o text)
  BY ReadyReads
<1> HIDE DEF s, h
<1>4. PICK m \in Seq(Masked) : r \o text = m \o h /\ s = Restore(m) /\ Between(m, h)
  BY <1>3 DEF Restoring
<1>5. Restore(m \o h) = Restore(m) \o Restore(h)
  BY <1>1, <1>4, BetweenEnd
<1> QED
  BY <1>2, <1>4, <1>5

-----------------------------------------------------------------------------
(* What is left to show *)

LEMMA MarkedNonempty ==
    ASSUME NEW marks \in Seq(Marks), Len(marks) >= 1, marks[1] # Nothing
    PROVE  Marked(marks) # <<>>
<1>1. Len(marks) \in Nat /\ 1 \in 1..Len(marks)
  BY LenProperties
<1>2. 1 \in Kept(marks)
  BY <1>1, KeptIs
<1>3. Before(marks, 1) \in Nat
  BY <1>2, BeforeBound
<1>4. Before(marks, 1) + 1 \in 1..Len(Marked(marks))
  BY <1>2, <1>3, PickOf
<1>5. Len(Marked(marks)) # 0
  BY <1>3, <1>4
<1> QED
  BY <1>5, EmptySeq

\* A text is not redacted or restored to nothing.
LEMMA RedactNonempty ==
    ASSUME NEW text \in Seq(Chars), Redact(text) = <<>>
    PROVE  text = <<>>
<1> DEFINE marks == RedactMarks(text)
<1>1. SUFFICES ASSUME text # <<>> PROVE FALSE
  OBVIOUS
<1>2. Len(text) \in Nat /\ Len(text) # 0
  BY <1>1, LenProperties, EmptySeq
<1>3. 1 \in 1..Len(text)
  BY <1>2
<1>4. InSecret(text, 1) => IsSecret(text, 1)
  BY <1>3, InSecretIs
<1>5. marks \in Seq(Marks) /\ Len(marks) = Len(text)
      /\ (IsSecret(text, 1) => marks[1] = Redacted)
      /\ (~IsSecret(text, 1) /\ ~InSecret(text, 1) => marks[1] = text[1])
  BY <1>3, RedactMarksAre
<1>6. text[1] \in Chars
  BY <1>3, ElementOfSeq
<1> HIDE DEF marks
<1>7. marks[1] # Nothing
  BY <1>4, <1>5, <1>6 DEF Redacted, Nothing, Chars
<1>8. Marked(marks) # <<>>
  BY <1>2, <1>5, <1>7, MarkedNonempty
<1> QED
  BY <1>8, RedactIs DEF marks

LEMMA RestoreNonempty ==
    ASSUME NEW text \in Seq(Masked), Restore(text) = <<>>
    PROVE  text = <<>>
<1> DEFINE marks == RestoreMarks(text)
<1>1. SUFFICES ASSUME text # <<>> PROVE FALSE
  OBVIOUS
<1>2. Len(text) \in Nat /\ Len(text) # 0
  BY <1>1, LenProperties, EmptySeq
<1>3. 1 \in 1..Len(text)
  BY <1>2
<1>4. InBracketed(text, 1) => Bracketed(text, 1)
  <2>1. ~Bracketed(text, 1 - 1) /\ ~Bracketed(text, 1 - 2)
    BY BracketedIs
  <2> QED
    BY <2>1, InBracketedIs
<1>5. marks \in Seq(Marks) /\ Len(marks) = Len(text)
      /\ marks[1] = IF Bracketed(text, 1) \/ Bare(text, 1) THEN Restored
                    ELSE IF InBracketed(text, 1) THEN Nothing ELSE text[1]
  BY <1>3, RestoreMarksAre
<1>6. text[1] \in Masked
  BY <1>3, ElementOfSeq
<1> HIDE DEF marks
<1>7. marks[1] # Nothing
  <2>1. marks[1] = Restored \/ marks[1] = text[1]
    BY <1>4, <1>5
  <2> QED
    BY <1>6, <2>1, SymbolsAre DEF Restored, Nothing
<1>8. Marked(marks) # <<>>
  BY <1>2, <1>5, <1>7, MarkedNonempty
<1> QED
  BY <1>8, RestoreIs DEF marks

LEMMA JoinedEmpty ==
    ASSUME NEW S, NEW a \in Seq(S), NEW b \in Seq(S)
    PROVE  a \o b = <<>> <=> a = <<>> /\ b = <<>>
<1>1. /\ Len(a \o b) = Len(a) + Len(b) /\ Len(a) \in Nat /\ Len(b) \in Nat /\ a \o b \in Seq(S)
      /\ (Len(a) = 0 <=> a = <<>>) /\ (Len(b) = 0 <=> b = <<>>)
  BY ConcatIs
<1>2. Len(a \o b) = 0 <=> a \o b = <<>>
  <2> DEFINE x == a \o b
  <2>1. x \in Seq(S)
    BY <1>1
  <2> HIDE DEF x
  <2>2. Len(x) = 0 <=> x = <<>>
    BY <2>1, EmptySeq
  <2> QED
    BY <2>2 DEF x
<1> QED
  BY <1>1, <1>2

\* The end of a stream shows something exactly when something was held back.
LEMMA LeftoverIs ==
    ASSUME RestorerOK, NEW text \in Seq(Masked)
    PROVE  ReadyWhole(text) = <<>> <=> held = <<>> /\ text = <<>>
<1> DEFINE x == held \o text
           n == Boundary(x)
           F == First(x, n)
           G == Rest(x, n)
<1>1. /\ ReadyWhole(text) = Ready(text) \o Restore(HeldAfter(text))
      /\ Ready(text) \in Seq(Symbols) /\ HeldAfter(text) \in Seq(Masked)
      /\ Restore(HeldAfter(text)) \in Seq(Symbols)
  BY ReadyIs, RestoreType DEF ReadyWhole
<1>2. ReadyWhole(text) = <<>> <=> Ready(text) = <<>> /\ Restore(HeldAfter(text)) = <<>>
  <2> DEFINE u == Ready(text)
             w == Restore(HeldAfter(text))
  <2>1. u \in Seq(Symbols) /\ w \in Seq(Symbols) /\ ReadyWhole(text) = u \o w
    BY <1>1
  <2> HIDE DEF u, w
  <2>2. u \o w = <<>> <=> u = <<>> /\ w = <<>>
    BY <2>1, JoinedEmpty
  <2> QED
    BY <2>1, <2>2 DEF u, w
<1>3. Restore(HeldAfter(text)) = <<>> <=> HeldAfter(text) = <<>>
  BY <1>1, RestoreNonempty, EmptyStays
<1>4. CASE vault
  <2>1. held \in Seq(Masked) /\ x \in Seq(Masked) /\ n \in 0..Len(x)
    BY ReadyIs DEF RestorerOK
  <2>2. Ready(text) = Restore(F) /\ HeldAfter(text) = G
    BY <1>4 DEF Ready, HeldAfter
  <2>3. x = <<>> <=> held = <<>> /\ text = <<>>
    BY <2>1, JoinedEmpty
  <2> HIDE DEF x, n
  <2>4. F \in Seq(Masked) /\ G \in Seq(Masked) /\ F \o G = x
    BY <2>1, FirstIs, RestIs, FirstRest
  <2> HIDE DEF F, G
  <2>5. Restore(F) = <<>> <=> F = <<>>
    BY <2>4, RestoreNonempty, EmptyStays
  <2>6. x = <<>> <=> F = <<>> /\ G = <<>>
    BY <2>4, JoinedEmpty
  <2> QED
    BY <1>2, <1>3, <2>2, <2>3, <2>5, <2>6
<1>5. CASE ~vault
  <2>1. Ready(text) = text /\ HeldAfter(text) = <<>> /\ held = <<>>
    BY <1>5, ReadyIs
  <2> QED
    BY <1>2, <1>3, <2>1
<1> QED
  BY <1>4, <1>5 DEF RestorerOK

-----------------------------------------------------------------------------
(* What the client has been shown *)

\* The restorer, with or without a mapping, has passed on s and holds h.
Shows(v, s, h, r) == IF v THEN Restoring(s, h, r) ELSE s = r

LEMMA ShowsReady ==
    ASSUME RestorerOK, sent \in Seq(Symbols), NEW text \in Seq(Masked), NEW r,
           Shows(vault, sent, held, r), Bound(r \o text)
    PROVE  Shows(vault, sent \o Ready(text), HeldAfter(text), r \o text)
<1>1. CASE vault
  <2>1. Restoring(sent, held, r)
    BY <1>1 DEF Shows
  <2>2. Restoring(sent \o Ready(text), HeldAfter(text), r \o text)
    BY <1>1, <2>1, ReadyReads
  <2> QED
    BY <1>1, <2>2 DEF Shows
<1>2. CASE ~vault
  <2>1. sent = r
    BY <1>2 DEF Shows
  <2>2. Ready(text) = text
    BY <1>2, ReadyIs
  <2> QED
    BY <1>2, <2>1, <2>2 DEF Shows
<1> QED
  BY <1>1, <1>2

LEMMA ShowsWhole ==
    ASSUME RestorerOK, sent \in Seq(Symbols), NEW text \in Seq(Masked), NEW r,
           Shows(vault, sent, held, r), Bound(r \o text)
    PROVE  sent \o ReadyWhole(text) = IF vault THEN Restore(r \o text) ELSE r \o text
<1>1. CASE vault
  <2>1. Restoring(sent, held, r)
    BY <1>1 DEF Shows
  <2> QED
    BY <1>1, <2>1, ReadyWholeReads
<1>2. CASE ~vault
  <2>1. sent = r
    BY <1>2 DEF Shows
  <2>2. Ready(text) = text /\ HeldAfter(text) = <<>>
    BY <1>2, ReadyIs
  <2>3. ReadyWhole(text) = text \o <<>>
    BY <2>2, EmptyStays DEF ReadyWhole
  <2>4. text \o <<>> = text
    BY ConcatEmptySeq
  <2> QED
    BY <1>2, <2>1, <2>3, <2>4
<1> QED
  BY <1>1, <1>2

\* What is still to come only follows what was released.
LEMMA ReleasedIsPart ==
    ASSUME NEW f, FilterType(f), NEW r, FilterReading(f, r),
           NEW delta \in Seq(Chars), Plain(r \o delta)
    PROVE  /\ \E z \in Seq(Masked) : Redact(r \o delta) = f.released \o z
           /\ Bound(Redact(r \o delta))
<1> DEFINE p == f.pending
<1>1. PICK a \in Seq(Chars) : /\ r = a \o p /\ f.released = Redact(a)
                              /\ a = <<>> \/ p # <<>>
                              /\ Ended(r, Len(a))
  BY DEF FilterReading
<1>2. p \in Seq(Chars)
  BY DEF FilterType
<1> HIDE DEF p
<1>3. p \o delta \in Seq(Chars) /\ r \in Seq(Chars)
  BY <1>1, <1>2, ConcatProperties
<1>4. r \o delta = a \o (p \o delta) /\ r \o delta \in Seq(Chars)
  <2>1. (a \o p) \o delta = a \o (p \o delta)
    BY <1>2, MaskedAre, Regrouped, Zenon
  <2>2. r \o delta \in Seq(Chars)
    BY <1>3, ConcatProperties
  <2> QED
    BY <1>1, <2>1, <2>2
<1>5. Ended(r \o delta, Len(a))
  <2>1. CASE a = <<>>
    <3>1. Len(a) = 0
      BY <2>1, EmptySeq
    <3> QED
      BY <3>1 DEF Ended
  <2>2. CASE p # <<>>
    <3>1. Len(r) = Len(a) + Len(p) /\ Len(a) \in Nat /\ Len(p) \in Nat /\ Len(p) # 0
      BY <1>1, <1>2, <2>2, ConcatProperties, LenProperties, EmptySeq
    <3>2. Len(a) < Len(r)
      BY <3>1
    <3> QED
      BY <1>1, <1>3, <3>1, <3>2, EndedStays
  <2> QED
    BY <1>1, <2>1, <2>2
<1> DEFINE t == p \o delta
<1>6. /\ t \in Seq(Chars) /\ r \o delta = a \o t
      /\ Separate(a \o t) /\ Ended(a \o t, Len(a)) /\ Bound(r \o delta)
  BY <1>3, <1>4, <1>5, PlainIs
<1> HIDE DEF t
<1>7. Redact(a \o t) = Redact(a) \o Redact(t)
  BY <1>6, RedactSplit
<1>8. Redact(t) \in Seq(Masked)
  BY <1>6, RedactType
<1>9. Redact(r \o delta) = f.released \o Redact(t)
  BY <1>1, <1>6, <1>7
<1>10. Bound(Redact(r \o delta))
  BY <1>4, <1>6, BoundRedact
<1> QED
  BY <1>8, <1>9, <1>10

LEMMA ReleasedBound ==
    ASSUME NEW f, FilterType(f), NEW r \in Seq(Chars), FilterReading(f, r), Plain(r)
    PROVE  Bound(f.released)
<1>1. r \o <<>> = r /\ <<>> \in Seq(Chars)
  BY ConcatEmptySeq, EmptySeq
<1>2. Plain(r \o <<>>)
  BY <1>1
<1>3. /\ \E z \in Seq(Masked) : Redact(r \o <<>>) = f.released \o z
      /\ Bound(Redact(r \o <<>>))
  BY <1>1, <1>2, ReleasedIsPart
<1>4. PICK z \in Seq(Masked) : Redact(r \o <<>>) = f.released \o z
  BY <1>3
<1>5. f.released \in Seq(Masked) /\ Bound(f.released \o z)
  BY <1>3, <1>4 DEF FilterType
<1> QED
  BY <1>5, BoundFirst

LEMMA BeginsWith ==
    ASSUME NEW S, NEW s \in Seq(S), NEW u \in Seq(S)
    PROVE  WholeView!IsPrefix(s, s \o u)
<1> DEFINE x == s \o u
           n == Len(s)
<1>1. /\ x \in Seq(S) /\ Len(x) = n + Len(u) /\ n \in Nat /\ Len(u) \in Nat
      /\ \A j \in 1..(n + Len(u)) : x[j] = IF j <= n THEN s[j] ELSE u[j - n]
  BY ConcatIs
<1> HIDE DEF x
<1>2. n \in 0..Len(x) /\ n \in 0..Len(s)
  BY <1>1
<1>3. /\ First(x, n) \in Seq(S) /\ Len(First(x, n)) = n
      /\ \A i \in 1..n : First(x, n)[i] = x[i]
  BY <1>1, <1>2, FirstIs
<1>4. /\ First(s, n) \in Seq(S) /\ Len(First(s, n)) = n
      /\ \A i \in 1..n : First(s, n)[i] = s[i]
  BY <1>2, FirstIs
<1>5. \A i \in 1..n : x[i] = s[i]
  BY <1>1
<1>6. First(s, n) = First(x, n)
  <2> DEFINE y == First(x, n)
             z == First(s, n)
  <2>1. y \in Seq(S) /\ z \in Seq(S) /\ Len(y) = Len(z) /\ \A i \in 1..Len(z) : z[i] = y[i]
    BY <1>3, <1>4, <1>5
  <2> HIDE DEF y, z
  <2>2. z = y
    BY <2>1, SeqEqual
  <2> QED
    BY <2>2 DEF y, z
<1>7. SubSeq(s, 1, Len(s)) = SubSeq(x, 1, Len(s)) /\ Len(s) <= Len(x)
  BY <1>1, <1>6 DEF First
<1> QED
  BY <1>7 DEF WholeView!IsPrefix, x

\* Whatever comes next, the whole answer will begin with what was sent.
LEMMA ShownSoFar ==
    ASSUME NEW f, FilterType(f), NEW r, FilterReading(f, r),
           NEW v \in BOOLEAN, NEW s \in Seq(Symbols), NEW h \in Seq(Masked),
           Shows(v, s, h, f.released),
           NEW delta \in Seq(Chars), Plain(r \o delta)
    PROVE  WholeView!IsPrefix(s, Show(v, r \o delta))
<1>1. /\ \E z \in Seq(Masked) : Redact(r \o delta) = f.released \o z
      /\ Bound(Redact(r \o delta))
  BY ReleasedIsPart
<1>2. PICK z \in Seq(Masked) : Redact(r \o delta) = f.released \o z
  BY <1>1
<1>3. Bound(f.released \o z)
  BY <1>1, <1>2
<1>4. CASE v
  <2>1. Restoring(s, h, f.released)
    BY <1>4 DEF Shows
  <2>2. Restore(f.released \o z) = s \o Restore(h \o z)
    BY <1>3, <2>1, RestoringMore
  <2>3. h \o z \in Seq(Masked)
    BY ConcatProperties
  <2>4. Restore(h \o z) \in Seq(Symbols)
    BY <2>3, RestoreType
  <2>5. Show(v, r \o delta) = s \o Restore(h \o z)
    BY <1>2, <1>4, <2>2 DEF Show
  <2>6. WholeView!IsPrefix(s, s \o Restore(h \o z))
    BY <2>4, BeginsWith
  <2> QED
    BY <2>5, <2>6
<1>5. CASE ~v
  <2>1. Show(v, r \o delta) = s \o z
    BY <1>2, <1>5 DEF Shows, Show
  <2>2. z \in Seq(Symbols)
    BY MaskedAre, Zenon
  <2>3. WholeView!IsPrefix(s, s \o z)
    BY <2>2, BeginsWith
  <2> QED
    BY <2>1, <2>3
<1> QED
  BY <1>4, <1>5

-----------------------------------------------------------------------------
(* Filtering a stream is filtering the whole *)

Completed == stage \in {"finished", "closing", "settled", "abandoned"} /\ ~filter.leaked

AllShown ==
    /\ filter.pending = <<>> /\ filter.released = Redact(received)
    /\ held = <<>> /\ sent = Show(vault, received)

FilteredInv ==
    /\ NoLeakInv
    /\ Plain(received)
    /\ stage = "reading" =>
          FilterReading(filter, received) /\ Shows(vault, sent, held, filter.released)
    /\ Completed => AllShown

LEMMA EmptyPlain == Plain(<<>>)
<1>1. 1..Len(<<>>) = {}
  OBVIOUS
<1> QED
  BY <1>1 DEF Plain

LEMMA InitFiltered ==
    ASSUME Init
    PROVE  FilteredInv
<1>1. /\ received = <<>> /\ held = <<>> /\ sent = <<>> /\ stage = "reading"
      /\ filter.pending = <<>> /\ filter.released = <<>> /\ vault \in BOOLEAN
  BY DEF Init
<1>2. NoLeakInv /\ Plain(received)
  BY <1>1, InitNoLeak, EmptyPlain
<1>3. <<>> \o <<>> = <<>>
  BY EmptyStays, JoinedEmpty
<1>4. FilterReading(filter, received)
  <2>1. Ended(<<>>, Len(<<>>))
    BY EmptyStays DEF Ended
  <2> QED
    BY <1>1, <1>3, <2>1, EmptyStays DEF FilterReading
<1>5. Shows(vault, sent, held, filter.released)
  <2>1. Between(<<>>, <<>>)
    BY DEF Between
  <2>2. Restoring(<<>>, <<>>, <<>>)
    BY <1>3, <2>1, EmptyStays DEF Restoring
  <2> QED
    BY <1>1, <2>2 DEF Shows
<1>6. ~Completed
  BY <1>1 DEF Completed
<1> QED
  BY <1>2, <1>4, <1>5, <1>6 DEF FilteredInv

LEMMA PlainStep ==
    ASSUME PlainOnly, TypeOK, NEW piece \in Seq(Chars), Receive(piece)
    PROVE  received' = received \o piece /\ Plain(received \o piece)
BY ReceiveIs DEF Receive

LEMMA ChunkFiltered ==
    ASSUME PlainOnly, FilteredInv, NEW piece \in Pieces, Chunk(piece)
    PROVE  FilteredInv'
<1> DEFINE fed == Feed(filter, piece)
<1>1. /\ piece \in Seq(Chars) /\ NoLeakInv /\ TypeOK /\ NoLeakInv' /\ Receive(piece)
      /\ FilterType(filter) /\ sent \in Seq(Symbols) /\ RestorerOK
  BY PieceIs, TypesAre, ChunkNoLeak, RestorerIs DEF FilteredInv, NoLeakInv, Chunk
<1>2. /\ ~fed.filter.leaked /\ filter' = fed.filter
      /\ sent' = sent \o Ready(fed.safe) /\ held' = HeldAfter(fed.safe)
      /\ stage = "reading" /\ stage' = "reading" /\ vault' = vault
  BY DEF Chunk, Receive
<1>3. received' = received \o piece /\ Plain(received \o piece)
  BY <1>1, PlainStep
<1>4. ~filter.leaked
  BY <1>1, <1>2, Running
<1>5. FilterReading(filter, received) /\ Shows(vault, sent, held, filter.released)
  BY <1>2 DEF FilteredInv
<1>6. FilterReading(fed.filter, received \o piece)
  BY <1>1, <1>2, <1>3, <1>4, <1>5, FeedReads
<1>7. /\ FilterType(fed.filter) /\ fed.safe \in Seq(Masked)
      /\ fed.filter.released = filter.released \o fed.safe
  BY <1>1, <1>4, FeedKeeps
<1> HIDE DEF fed
<1>8. received \o piece \in Seq(Chars)
  BY <1>1, <1>3, TypesAre
<1>9. Bound(filter.released \o fed.safe)
  <2>1. Bound(fed.filter.released)
    BY <1>3, <1>6, <1>7, <1>8, ReleasedBound
  <2> QED
    BY <1>7, <2>1
<1>10. Shows(vault, sent \o Ready(fed.safe), HeldAfter(fed.safe), filter.released \o fed.safe)
  BY <1>1, <1>5, <1>7, <1>9, ShowsReady
<1>11. FilterReading(filter', received')
  BY <1>2, <1>3, <1>6
<1>12. Shows(vault', sent', held', filter'.released)
  BY <1>2, <1>7, <1>10
<1>13. Plain(received')
  BY <1>3
<1>14. ~Completed'
  BY <1>2 DEF Completed
<1> QED
  BY <1>1, <1>11, <1>12, <1>13, <1>14 DEF FilteredInv

LEMMA StopFiltered ==
    ASSUME PlainOnly, FilteredInv, NEW piece \in Pieces, Stop(piece)
    PROVE  FilteredInv'
<1>1. /\ piece \in Seq(Chars) /\ TypeOK /\ NoLeakInv' /\ Receive(piece)
  BY PieceIs, StopNoLeak DEF FilteredInv, NoLeakInv, Stop
<1>2. filter'.leaked /\ stage' = "stopped"
  BY DEF Stop
<1>3. Plain(received')
  BY <1>1, PlainStep
<1>4. ~Completed'
  BY <1>2 DEF Completed
<1> QED
  BY <1>1, <1>2, <1>3, <1>4 DEF FilteredInv

\* What is flushed with the end of a stream completes the answer.
LEMMA EndShows ==
    ASSUME RestorerOK, sent \in Seq(Symbols), NEW text \in Seq(Masked), NEW r \in Seq(Chars),
           Plain(r), Shows(vault, sent, held, filter.released),
           filter.released \o text = Redact(r)
    PROVE  sent \o ReadyWhole(text) = Show(vault, r)
<1>1. Bound(Redact(r))
  BY PlainIs, BoundRedact
<1>2. Bound(filter.released \o text)
  BY <1>1
<1>3. sent \o ReadyWhole(text) =
         IF vault THEN Restore(filter.released \o text) ELSE filter.released \o text
  BY <1>2, ShowsWhole
<1> QED
  BY <1>3 DEF Show

LEMMA FlushShows ==
    ASSUME FilteredInv, stage = "reading"
    PROVE  /\ Flush(filter).safe \in Seq(Masked)
           /\ Flush(filter).safe = Redact(filter.pending)
           /\ Flush(filter).filter.pending = <<>>
           /\ Flush(filter).filter.released = Redact(received)
           /\ filter.released \o Flush(filter).safe = Redact(received)
           /\ sent \o Leftover = Show(vault, received)
<1>1. NoLeakInv /\ FilterReading(filter, received) /\ Shows(vault, sent, held, filter.released)
      /\ Plain(received)
  BY DEF FilteredInv
<1>2. /\ RestorerOK /\ FilterType(filter) /\ Unleaked(filter)
      /\ sent \in Seq(Symbols) /\ received \in Seq(Chars) /\ Separate(received)
  BY <1>1, RestorerIs, TypesAre, Running, PlainIs DEF NoLeakInv
<1>3. /\ Flush(filter).filter.pending = <<>> /\ Flush(filter).filter.released = Redact(received)
      /\ filter.released \o Flush(filter).safe = Redact(received)
  BY <1>1, <1>2, FlushReads
<1>4. Flush(filter).safe \in Seq(Masked) /\ Flush(filter).safe = Redact(filter.pending)
  BY <1>2, FlushKeeps
<1>5. sent \o ReadyWhole(Flush(filter).safe) = Show(vault, received)
  BY <1>1, <1>2, <1>3, <1>4, EndShows
<1> QED
  BY <1>3, <1>4, <1>5 DEF Leftover

LEMMA LastChunkFiltered ==
    ASSUME PlainOnly, FilteredInv, NEW piece \in Pieces \cup {<<>>}, LastChunk(piece)
    PROVE  FilteredInv'
<1> DEFINE fed     == IF piece = <<>> THEN Result(filter, <<>>) ELSE Feed(filter, piece)
           flushed == Flush(fed.filter)
           text    == fed.safe \o flushed.safe
           r       == received \o piece
<1>1. /\ piece \in Seq(Chars) /\ NoLeakInv /\ TypeOK /\ NoLeakInv' /\ Receive(piece)
      /\ FilterType(filter) /\ sent \in Seq(Symbols) /\ RestorerOK /\ received \in Seq(Chars)
  BY PieceIs, TypesAre, LastChunkNoLeak, RestorerIs DEF FilteredInv, NoLeakInv, LastChunk
<1>2. /\ ~fed.filter.leaked /\ filter' = flushed.filter
      /\ sent' = sent \o ReadyWhole(text) /\ held' = <<>>
      /\ stage = "reading" /\ stage' = "finished" /\ vault' = vault
  BY DEF LastChunk, Receive
<1>3. received' = r /\ Plain(r) /\ r \in Seq(Chars)
  BY <1>1, PlainStep, ConcatProperties
<1>4. ~filter.leaked /\ Unleaked(filter)
  BY <1>1, <1>2, Running
<1>5. FilterReading(filter, received) /\ Shows(vault, sent, held, filter.released)
  BY <1>2 DEF FilteredInv
<1>6. /\ FilterType(fed.filter) /\ Unleaked(fed.filter) /\ fed.safe \in Seq(Masked)
      /\ fed.filter.released = filter.released \o fed.safe
  <2> DEFINE g == fed
  <2>1. g = IF piece = <<>> THEN Result(filter, <<>>) ELSE Feed(filter, piece)
    OBVIOUS
  <2>2. ~g.filter.leaked
    BY <1>2
  <2> HIDE DEF g
  <2>3. /\ FilterType(g.filter) /\ Unleaked(g.filter) /\ g.safe \in Seq(Masked)
        /\ g.filter.released = filter.released \o g.safe
    BY <1>1, <1>4, <2>1, <2>2, LastFed
  <2> QED
    BY <2>3 DEF g
<1>7. FilterReading(fed.filter, r)
  <2>1. CASE piece = <<>>
    <3>1. fed.filter = filter
      BY <2>1 DEF Result
    <3>2. received \o <<>> = received
      BY <1>1, ConcatEmptySeq
    <3> QED
      BY <1>5, <2>1, <3>1, <3>2
  <2>2. CASE piece # <<>>
    <3>1. fed = Feed(filter, piece)
      BY <2>2
    <3>2. ~Feed(filter, piece).filter.leaked
      BY <1>2, <3>1
    <3>3. FilterReading(Feed(filter, piece).filter, r)
      BY <1>1, <1>3, <1>4, <1>5, <3>2, FeedReads
    <3> QED
      BY <3>1, <3>3
  <2> QED
    BY <2>1, <2>2
<1> HIDE DEF fed, r
<1>8. /\ flushed.filter.pending = <<>> /\ flushed.filter.released = Redact(r)
      /\ fed.filter.released \o flushed.safe = Redact(r)
      /\ flushed.safe \in Seq(Masked)
  <2>1. Separate(r)
    BY <1>3, PlainIs
  <2> QED
    BY <1>6, <1>7, <2>1, FlushReads, FlushKeeps
<1> HIDE DEF flushed
<1>9. text \in Seq(Masked)
  BY <1>6, <1>8, ConcatProperties
<1>10. filter.released \o text = Redact(r)
  <2>1. /\ filter.released \in Seq(Symbols)
        /\ fed.safe \in Seq(Symbols) /\ flushed.safe \in Seq(Symbols)
    BY <1>1, <1>6, <1>8, TypesAre, MaskedAre
  <2>2. (filter.released \o fed.safe) \o flushed.safe =
           filter.released \o (fed.safe \o flushed.safe)
    BY <2>1, Regrouped, Zenon
  <2> QED
    BY <1>6, <1>8, <2>2
<1> HIDE DEF text
<1>11. sent \o ReadyWhole(text) = Show(vault, r)
  BY <1>1, <1>3, <1>5, <1>9, <1>10, EndShows
<1>12. AllShown'
  BY <1>2, <1>3, <1>8, <1>11 DEF AllShown, Show
<1>13. Plain(received') /\ stage' # "reading"
  BY <1>2, <1>3
<1> QED
  BY <1>1, <1>12, <1>13 DEF FilteredInv

\* Once the answer is complete nothing is left over.
LEMMA NothingLeft ==
    ASSUME NoLeakInv, filter.pending = <<>>, held = <<>>, stage \in {"finished", "closing"}
    PROVE  Leftover = <<>>
<1>1. RestorerOK /\ FilterType(filter) /\ Unleaked(filter)
  BY RestorerIs, TypesAre, Running DEF NoLeakInv
<1>2. Flush(filter).safe = <<>> /\ <<>> \in Seq(Masked)
  BY <1>1, FlushKeeps, EmptyStays
<1> QED
  BY <1>1, <1>2, LeftoverIs DEF Leftover

LEMMA DrainsFromReading ==
    ASSUME FilteredInv, DrainTail
    PROVE  stage = "reading"
<1>1. SUFFICES ASSUME stage = "finished" PROVE FALSE
  BY DEF DrainTail
<1>2. NoLeakInv /\ ~filter.leaked
  BY <1>1, Running DEF FilteredInv
<1>3. AllShown
  BY <1>1, <1>2 DEF FilteredInv, Completed
<1>4. Leftover = <<>>
  BY <1>1, <1>2, <1>3, NothingLeft DEF AllShown
<1> QED
  BY <1>4 DEF DrainTail

LEMMA DrainTailFiltered ==
    ASSUME FilteredInv, DrainTail
    PROVE  FilteredInv'
<1>1. NoLeakInv' /\ stage = "reading"
  BY DrainTailNoLeak, DrainsFromReading DEF FilteredInv
<1>2. /\ filter' = Flush(filter).filter
      /\ sent' = sent \o Leftover /\ held' = <<>>
      /\ stage' = "closing" /\ received' = received /\ vault' = vault
  BY DEF DrainTail
<1>3. /\ Flush(filter).filter.pending = <<>> /\ Flush(filter).filter.released = Redact(received)
      /\ sent \o Leftover = Show(vault, received)
  BY <1>1, FlushShows
<1>4. AllShown'
  BY <1>2, <1>3 DEF AllShown, Show
<1>5. Plain(received') /\ stage' # "reading"
  BY <1>2 DEF FilteredInv
<1> QED
  BY <1>1, <1>4, <1>5 DEF FilteredInv

\* An answer that ends without a tail was all shown.
LEMMA SettledShown ==
    ASSUME FilteredInv, Settle, ~filter.leaked
    PROVE  AllShown
<1>1. NoLeakInv
  BY DEF FilteredInv
<1>2. CASE stage = "reading"
  <2>1. Leftover = <<>>
    BY <1>2 DEF Settle
  <2>2. /\ Flush(filter).safe \in Seq(Masked) /\ Flush(filter).safe = Redact(filter.pending)
        /\ filter.released \o Flush(filter).safe = Redact(received)
        /\ sent \o Leftover = Show(vault, received)
    BY <1>2, FlushShows
  <2>3. /\ RestorerOK /\ filter.pending \in Seq(Chars) /\ filter.released \in Seq(Masked)
        /\ sent \in Seq(Symbols)
    BY <1>1, RestorerIs, TypesAre DEF NoLeakInv
  <2>4. held = <<>> /\ Flush(filter).safe = <<>>
    BY <2>1, <2>2, <2>3, LeftoverIs DEF Leftover
  <2>5. filter.pending = <<>>
    BY <2>2, <2>3, <2>4, RedactNonempty
  <2>6. filter.released \o <<>> = filter.released /\ sent \o <<>> = sent
    BY <2>3, ConcatEmptySeq
  <2> QED
    BY <2>1, <2>2, <2>4, <2>5, <2>6 DEF AllShown
<1>3. CASE stage \in {"finished", "closing"}
  BY <1>3 DEF FilteredInv, Completed
<1>4. stage # "stopped"
  BY <1>1 DEF NoLeakInv
<1> QED
  BY <1>2, <1>3, <1>4 DEF Settle

LEMMA SettleFiltered ==
    ASSUME FilteredInv, Settle
    PROVE  FilteredInv'
<1>1. NoLeakInv'
  BY SettleNoLeak DEF FilteredInv
<1>2. /\ stage' = "settled"
      /\ received' = received /\ filter' = filter /\ vault' = vault /\ held' = held /\ sent' = sent
  BY DEF Settle
<1>3. ~filter.leaked => AllShown
  BY SettledShown
<1>4. Completed' => AllShown'
  BY <1>2, <1>3 DEF Completed, AllShown, Show
<1>5. Plain(received') /\ stage' # "reading"
  BY <1>2 DEF FilteredInv
<1> QED
  BY <1>1, <1>4, <1>5 DEF FilteredInv

LEMMA BreakFiltered ==
    ASSUME FilteredInv, Break
    PROVE  FilteredInv'
<1>1. NoLeakInv'
  BY BreakNoLeak DEF FilteredInv
<1>2. /\ stage' = IF stage \in {"finished", "closing"} THEN "abandoned" ELSE "broken"
      /\ received' = received /\ filter' = filter /\ vault' = vault /\ held' = held /\ sent' = sent
  BY DEF Break
<1>3. Completed' => Completed
  BY <1>2 DEF Completed
<1>4. Completed' => AllShown'
  BY <1>2, <1>3 DEF FilteredInv, AllShown, Show
<1>5. Plain(received') /\ stage' # "reading"
  BY <1>2 DEF FilteredInv
<1> QED
  BY <1>1, <1>4, <1>5 DEF FilteredInv

LEMMA StutterFiltered ==
    ASSUME FilteredInv, UNCHANGED vars
    PROVE  FilteredInv'
<1>1. NoLeakInv'
  BY StutterNoLeak DEF FilteredInv
<1>2. /\ received' = received /\ filter' = filter /\ vault' = vault /\ held' = held
      /\ sent' = sent /\ stage' = stage
  BY DEF vars
<1>3. stage' = "reading" =>
         FilterReading(filter', received') /\ Shows(vault', sent', held', filter'.released)
  BY <1>2 DEF FilteredInv
<1>4. Completed' => AllShown'
  BY <1>2 DEF FilteredInv, Completed, AllShown, Show
<1>5. Plain(received')
  BY <1>2 DEF FilteredInv
<1> QED
  BY <1>1, <1>3, <1>4, <1>5 DEF FilteredInv

LEMMA NextFiltered ==
    ASSUME PlainOnly, FilteredInv, [Next]_vars
    PROVE  FilteredInv'
<1>1. ASSUME NEW piece \in Pieces, Chunk(piece) PROVE FilteredInv'
  BY <1>1, ChunkFiltered
<1>2. ASSUME NEW piece \in Pieces, Stop(piece) PROVE FilteredInv'
  BY <1>2, StopFiltered
<1>3. ASSUME NEW piece \in Pieces \cup {<<>>}, LastChunk(piece) PROVE FilteredInv'
  BY <1>3, LastChunkFiltered
<1>4. CASE DrainTail
  BY <1>4, DrainTailFiltered
<1>5. CASE Settle
  BY <1>5, SettleFiltered
<1>6. CASE Break
  BY <1>6, BreakFiltered
<1>7. CASE UNCHANGED vars
  BY <1>7, StutterFiltered
<1> QED
  BY <1>1, <1>2, <1>3, <1>4, <1>5, <1>6, <1>7 DEF Next

LEMMA FilteredInvariant ==
    ASSUME PlainOnly
    PROVE  Spec => []FilteredInv
<1>1. Init => FilteredInv
  BY InitFiltered
<1>2. FilteredInv /\ [Next]_vars => FilteredInv'
  BY NextFiltered
<1> QED
  BY <1>1, <1>2, PTL DEF Spec

\* An answer served from the cache is what the caller whose stream was cached
\* was shown, for texts that are Plain and however they were cut.
THEOREM ReplayIsSame ==
    ASSUME PlainOnly
    PROVE  Spec => []ReplayIsTheSame
<1>1. ASSUME FilteredInv, saved # NoText
      PROVE  /\ Restored \notin {saved[i] : i \in 1..Len(saved)}
             /\ sent = IF vault THEN Restore(saved) ELSE saved
  <2>1. NoLeakInv /\ saved = Text(filter) /\ stage = "settled" /\ ~filter.leaked
    BY <1>1 DEF FilteredInv, NoLeakInv
  <2>2. AllShown
    BY <1>1, <2>1 DEF FilteredInv, Completed
  <2>3. received \in Seq(Chars) /\ saved \in Seq(Masked)
    BY <1>1, <2>1, TypesAre DEF NoLeakInv
  <2>4. Redact(received) \o <<>> = Redact(received)
    BY <2>3, RedactType, ConcatEmptySeq
  <2>5. saved = Redact(received)
    BY <2>1, <2>2, <2>4 DEF Text, AllShown
  <2>6. \A i \in 1..Len(saved) : saved[i] # Restored
    <3>1. \A i \in 1..Len(saved) : saved[i] \in Masked
      BY <2>3, ElementOfSeq
    <3>2. Restored \notin Masked
      BY DEF Masked, Chars, Restored, Redacted
    <3> QED
      BY <3>1, <3>2
  <2> QED
    BY <2>2, <2>5, <2>6 DEF AllShown, Show
<1>2. FilteredInv => ReplayIsTheSame
  BY <1>1 DEF ReplayIsTheSame
<1> QED
  BY <1>2, FilteredInvariant, PTL

-----------------------------------------------------------------------------
(* AnswerStream implements WholeAnswer *)

LEMMA SamePrefix ==
    ASSUME NEW S, NEW s \in Seq(S)
    PROVE  WholeView!IsPrefix(s, s)
<1>1. s \o <<>> = s /\ <<>> \in Seq(S)
  BY ConcatEmptySeq, EmptySeq
<1>2. WholeView!IsPrefix(s, s \o <<>>)
  BY <1>1, BeginsWith
<1> QED
  BY <1>1, <1>2

\* What a step of WholeAnswer asks for, in AnswerStream's terms.
LEMMA Generates ==
    ASSUME ~Completed, ~Completed', received' \in Seq(Chars), vault' = vault,
           WholeView!IsPrefix(received, received'), WholeView!IsPrefix(sent, sent'),
           WholeView!IsPrefix(sent', Show(vault, received'))
    PROVE  WholeView!Generate
BY DEF WholeView!Generate, Completed

LEMMA Finishes ==
    ASSUME ~Completed, Completed', received' \in Seq(Chars), vault' = vault,
           WholeView!IsPrefix(received, received'), WholeView!IsPrefix(sent, sent'),
           sent' = Show(vault, received')
    PROVE  WholeView!Finish
BY DEF WholeView!Finish, Completed

LEMMA StaysWhole ==
    ASSUME Completed' <=> Completed, received' = received, vault' = vault, sent' = sent
    PROVE  UNCHANGED WholeView!wholeVars
BY DEF WholeView!wholeVars, Completed

LEMMA ReceivedGrows ==
    ASSUME FilteredInv, NEW piece \in Seq(Chars), received' = received \o piece
    PROVE  received' \in Seq(Chars) /\ WholeView!IsPrefix(received, received')
<1>1. received \in Seq(Chars)
  BY TypesAre DEF FilteredInv, NoLeakInv
<1> QED
  BY <1>1, BeginsWith, ConcatProperties

LEMMA SentGrows ==
    ASSUME FilteredInv, NEW text \in Seq(Symbols), sent' = sent \o text
    PROVE  WholeView!IsPrefix(sent, sent')
<1>1. sent \in Seq(Symbols)
  BY TypesAre DEF FilteredInv, NoLeakInv
<1> QED
  BY <1>1, BeginsWith

\* What has been sent begins what is shown of the text and whatever follows it.
LEMMA IsPart ==
    ASSUME NEW f, FilterType(f), NEW r \in Seq(Chars), FilterReading(f, r),
           NEW v \in BOOLEAN, NEW s \in Seq(Symbols), NEW h \in Seq(Masked),
           Shows(v, s, h, f.released)
    PROVE  /\ \A delta \in Seq(Chars) :
                 Plain(r \o delta) => WholeView!IsPrefix(s, Show(v, r \o delta))
           /\ Plain(r) => WholeView!IsPrefix(s, Show(v, r))
<1>1. ASSUME NEW delta \in Seq(Chars), Plain(r \o delta)
      PROVE  WholeView!IsPrefix(s, Show(v, r \o delta))
  BY <1>1, ShownSoFar
<1>2. r \o <<>> = r /\ <<>> \in Seq(Chars)
  BY ConcatEmptySeq, EmptySeq
<1> QED
  BY <1>1, <1>2

LEMMA TypesAfter ==
    ASSUME TypeOK'
    PROVE  /\ received' \in Seq(Chars) /\ FilterType(filter') /\ vault' \in BOOLEAN
           /\ held' \in Seq(Masked) /\ sent' \in Seq(Symbols)
<1>1. Symbols = Chars \cup {Redacted, Restored} /\ Masked = Chars \cup {Redacted}
  BY DEF Symbols, Masked
<1> QED
  BY <1>1 DEF TypeOK, FilterType

LEMMA ChunkMaps ==
    ASSUME FilteredInv, FilteredInv', NEW piece \in Pieces, Chunk(piece)
    PROVE  WholeView!Generate
<1> DEFINE fed == Feed(filter, piece)
<1>1. piece \in Seq(Chars) /\ NoLeakInv /\ FilterType(filter) /\ RestorerOK
  BY PieceIs, TypesAre, RestorerIs DEF FilteredInv, NoLeakInv
<1>2. /\ sent' = sent \o Ready(fed.safe) /\ received' = received \o piece
      /\ stage = "reading" /\ stage' = "reading" /\ vault' = vault
  BY DEF Chunk, Receive
<1>3. ~filter.leaked
  BY <1>1, <1>2, Running
<1>4. fed.safe \in Seq(Masked)
  BY <1>1, <1>3, FeedKeeps
<1> HIDE DEF fed
<1>5. Ready(fed.safe) \in Seq(Symbols)
  BY <1>1, <1>4, ReadyIs
<1>6. ~Completed /\ ~Completed'
  BY <1>2 DEF Completed
<1>7. received' \in Seq(Chars) /\ WholeView!IsPrefix(received, received')
  BY <1>1, <1>2, ReceivedGrows
<1>8. WholeView!IsPrefix(sent, sent')
  BY <1>2, <1>5, SentGrows
<1>9. /\ received' \in Seq(Chars) /\ FilterType(filter') /\ vault' \in BOOLEAN
      /\ held' \in Seq(Masked) /\ sent' \in Seq(Symbols)
  BY TypesAfter DEF FilteredInv, NoLeakInv
<1>10. /\ FilterReading(filter', received') /\ Shows(vault', sent', held', filter'.released)
       /\ Plain(received')
  BY <1>2 DEF FilteredInv
<1>11. WholeView!IsPrefix(sent', Show(vault', received'))
  BY <1>9, <1>10, IsPart
<1>12. Show(vault', received') = Show(vault, received')
  BY <1>2
<1> QED
  BY <1>2, <1>6, <1>7, <1>8, <1>11, <1>12, Generates

LEMMA StopMaps ==
    ASSUME PlainOnly, FilteredInv, NEW piece \in Pieces, Stop(piece)
    PROVE  WholeView!Generate
<1>1. /\ piece \in Seq(Chars) /\ TypeOK /\ FilterType(filter) /\ vault \in BOOLEAN
      /\ sent \in Seq(Symbols) /\ held \in Seq(Masked) /\ received \in Seq(Chars)
  BY PieceIs, TypesAre DEF FilteredInv, NoLeakInv
<1>2. /\ sent' = sent /\ vault' = vault /\ Receive(piece) /\ filter'.leaked
      /\ stage = "reading" /\ stage' = "stopped"
  BY DEF Stop, Receive
<1>3. received' = received \o piece /\ Plain(received \o piece)
  BY <1>1, <1>2, PlainStep
<1>4. ~Completed /\ ~Completed'
  BY <1>2 DEF Completed
<1>5. received' \in Seq(Chars) /\ WholeView!IsPrefix(received, received')
  BY <1>1, <1>3, ReceivedGrows
<1>6. WholeView!IsPrefix(sent, sent')
  BY <1>1, <1>2, SamePrefix
<1>7. FilterReading(filter, received) /\ Shows(vault, sent, held, filter.released)
  BY <1>2 DEF FilteredInv
<1>8. WholeView!IsPrefix(sent, Show(vault, received \o piece))
  BY <1>1, <1>3, <1>7, IsPart
<1>9. WholeView!IsPrefix(sent', Show(vault, received'))
  BY <1>2, <1>3, <1>8
<1> QED
  BY <1>2, <1>4, <1>5, <1>6, <1>9, Generates

LEMMA LastChunkMaps ==
    ASSUME FilteredInv, FilteredInv', NEW piece \in Pieces \cup {<<>>}, LastChunk(piece)
    PROVE  WholeView!Finish
<1> DEFINE fed  == IF piece = <<>> THEN Result(filter, <<>>) ELSE Feed(filter, piece)
           text == fed.safe \o Flush(fed.filter).safe
<1>1. /\ piece \in Seq(Chars) /\ NoLeakInv /\ NoLeakInv' /\ FilterType(filter)
      /\ RestorerOK /\ sent \in Seq(Symbols)
  BY PieceIs, TypesAre, RestorerIs DEF FilteredInv, NoLeakInv
<1>2. /\ ~fed.filter.leaked /\ sent' = sent \o ReadyWhole(text) /\ received' = received \o piece
      /\ stage = "reading" /\ stage' = "finished" /\ vault' = vault
  BY DEF LastChunk, Receive
<1>3. Unleaked(filter)
  BY <1>1, <1>2, Running
<1>4. FilterType(fed.filter) /\ Unleaked(fed.filter) /\ fed.safe \in Seq(Masked)
  <2> DEFINE g == fed
  <2>1. g = IF piece = <<>> THEN Result(filter, <<>>) ELSE Feed(filter, piece)
    OBVIOUS
  <2>2. ~g.filter.leaked
    BY <1>2
  <2> HIDE DEF g
  <2>3. FilterType(g.filter) /\ Unleaked(g.filter) /\ g.safe \in Seq(Masked)
    BY <1>1, <1>3, <2>1, <2>2, LastFed
  <2> QED
    BY <2>3 DEF g
<1> HIDE DEF fed
<1>5. Flush(fed.filter).safe \in Seq(Masked)
  BY <1>4, FlushKeeps
<1>6. text \in Seq(Masked)
  <2> DEFINE z == Flush(fed.filter).safe
  <2>1. z \in Seq(Masked)
    BY <1>5
  <2> HIDE DEF z
  <2>2. fed.safe \o z \in Seq(Masked)
    BY <1>4, <2>1, ConcatProperties
  <2> QED
    BY <2>2 DEF z
<1> HIDE DEF text
<1>7. ReadyWhole(text) \in Seq(Symbols)
  BY <1>1, <1>6, ReadyWholeIs
<1>8. ~filter'.leaked
  BY <1>1, <1>2 DEF NoLeakInv
<1>9. ~Completed /\ Completed'
  BY <1>2, <1>8 DEF Completed
<1>10. sent' = Show(vault', received')
  BY <1>9 DEF FilteredInv, AllShown
<1>11. received' \in Seq(Chars) /\ WholeView!IsPrefix(received, received')
  BY <1>1, <1>2, ReceivedGrows
<1>12. WholeView!IsPrefix(sent, sent')
  BY <1>2, <1>7, SentGrows
<1>13. Show(vault', received') = Show(vault, received')
  BY <1>2
<1> QED
  BY <1>2, <1>9, <1>10, <1>11, <1>12, <1>13, Finishes

LEMMA DrainTailMaps ==
    ASSUME FilteredInv, FilteredInv', DrainTail
    PROVE  WholeView!Finish
<1>1. NoLeakInv /\ NoLeakInv' /\ RestorerOK /\ sent \in Seq(Symbols) /\ received \in Seq(Chars)
  BY TypesAre, RestorerIs DEF FilteredInv, NoLeakInv
<1>2. stage = "reading"
  BY DrainsFromReading
<1>3. /\ sent' = sent \o Leftover /\ received' = received
      /\ stage' = "closing" /\ vault' = vault
  BY DEF DrainTail
<1>4. Flush(filter).safe \in Seq(Masked)
  BY <1>2, FlushShows
<1>5. Leftover \in Seq(Symbols)
  BY <1>1, <1>4, ReadyWholeIs DEF Leftover
<1>6. ~filter'.leaked
  BY <1>1, <1>3 DEF NoLeakInv
<1>7. ~Completed /\ Completed'
  BY <1>2, <1>3, <1>6 DEF Completed
<1>8. sent' = Show(vault', received')
  BY <1>7 DEF FilteredInv, AllShown
<1>9. received' \in Seq(Chars) /\ WholeView!IsPrefix(received, received')
  BY <1>1, <1>3, SamePrefix
<1>10. WholeView!IsPrefix(sent, sent')
  BY <1>3, <1>5, SentGrows
<1>11. Show(vault', received') = Show(vault, received')
  BY <1>3
<1> QED
  BY <1>3, <1>7, <1>8, <1>9, <1>10, <1>11, Finishes

\* A stream that ends without a tail completes an answer that was all shown.
LEMMA SettleMaps ==
    ASSUME FilteredInv, Settle
    PROVE  WholeView!Finish \/ UNCHANGED WholeView!wholeVars
<1>1. NoLeakInv /\ sent \in Seq(Symbols) /\ received \in Seq(Chars)
  BY TypesAre DEF FilteredInv, NoLeakInv
<1>2. /\ stage' = "settled" /\ received' = received /\ filter' = filter /\ vault' = vault
      /\ sent' = sent
  BY DEF Settle
<1>3. Completed' <=> ~filter.leaked
  BY <1>2 DEF Completed
<1>4. CASE ~filter.leaked /\ stage = "reading"
  <2>1. ~Completed /\ Completed'
    BY <1>3, <1>4 DEF Completed
  <2>2. sent' = Show(vault, received')
    BY <1>2, <1>4, SettledShown DEF AllShown
  <2>3. WholeView!IsPrefix(received, received') /\ WholeView!IsPrefix(sent, sent')
    BY <1>1, <1>2, SamePrefix
  <2>4. received' \in Seq(Chars)
    BY <1>1, <1>2
  <2> QED
    BY <1>2, <2>1, <2>2, <2>3, <2>4, Finishes
<1>5. CASE filter.leaked
  <2>1. Completed' <=> Completed
    BY <1>3, <1>5 DEF Completed
  <2> QED
    BY <1>2, <2>1, StaysWhole
<1>6. CASE ~filter.leaked /\ stage \in {"finished", "closing"}
  <2>1. Completed' <=> Completed
    BY <1>3, <1>6 DEF Completed
  <2> QED
    BY <1>2, <2>1, StaysWhole
<1>7. stage = "stopped" => filter.leaked
  BY <1>1 DEF NoLeakInv
<1> QED
  BY <1>4, <1>5, <1>6, <1>7 DEF Settle

LEMMA BreakMaps ==
    ASSUME FilteredInv, Break
    PROVE  UNCHANGED WholeView!wholeVars
<1>1. /\ stage \in {"reading", "finished", "closing", "stopped"}
      /\ stage' = IF stage \in {"finished", "closing"} THEN "abandoned" ELSE "broken"
      /\ received' = received /\ filter' = filter /\ vault' = vault /\ sent' = sent
  BY DEF Break
<1>2. Completed' <=> Completed
  BY <1>1 DEF Completed
<1> QED
  BY <1>1, <1>2, StaysWhole

LEMMA NextMaps ==
    ASSUME PlainOnly, FilteredInv, FilteredInv', [Next]_vars
    PROVE  [WholeView!Generate \/ WholeView!Finish]_WholeView!wholeVars
<1>1. ASSUME NEW piece \in Pieces, Chunk(piece) PROVE WholeView!Generate
  BY <1>1, ChunkMaps
<1>2. ASSUME NEW piece \in Pieces, Stop(piece) PROVE WholeView!Generate
  BY <1>2, StopMaps
<1>3. ASSUME NEW piece \in Pieces \cup {<<>>}, LastChunk(piece) PROVE WholeView!Finish
  BY <1>3, LastChunkMaps
<1>4. CASE DrainTail
  BY <1>4, DrainTailMaps
<1>5. CASE Settle
  BY <1>5, SettleMaps
<1>6. CASE Break
  BY <1>6, BreakMaps
<1>7. CASE UNCHANGED vars
  <2>1. /\ stage' = stage /\ received' = received /\ filter' = filter /\ vault' = vault
        /\ sent' = sent
    BY <1>7 DEF vars
  <2>2. Completed' <=> Completed
    BY <2>1 DEF Completed
  <2> QED
    BY <2>1, <2>2, StaysWhole
<1> QED
  BY <1>1, <1>2, <1>3, <1>4, <1>5, <1>6, <1>7 DEF Next

\* However the backend cuts a Plain text into pieces, the client's text is at
\* every moment a beginning of what an answer that is not streamed would show,
\* and a stream that is complete has shown it all.
THEOREM StreamImplementsWhole ==
    ASSUME PlainOnly
    PROVE  Spec => ImplementsWholeAnswer
<1>1. Init => WholeView!WholeInit
  BY DEF Init, WholeView!WholeInit
<1>2. FilteredInv /\ FilteredInv' /\ [Next]_vars
         => [WholeView!Generate \/ WholeView!Finish]_WholeView!wholeVars
  BY NextMaps
<1>3. Spec => []FilteredInv
  BY FilteredInvariant
<1> QED
  BY <1>1, <1>2, <1>3, PTL DEF Spec, ImplementsWholeAnswer, WholeView!WholeSpec
=============================================================================
