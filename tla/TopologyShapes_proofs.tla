----------------------- MODULE TopologyShapes_proofs -----------------------
(***************************************************************************)
(* What the drawing editor computes, for any number of cards of any kinds  *)
(* in any places and for any live system: dragging, distributing, the      *)
(* layout, the sides of the wires, the advice, the templates and the       *)
(* import.                                                                 *)
(***************************************************************************)
EXTENDS TopologyShapes, FiniteSetTheorems, TLAPS

-----------------------------------------------------------------------------
(* The ends of finite sets of numbers.                                     *)

\* Among finitely many things there is one with the greatest value.
LEMMA HasTop ==
  ASSUME NEW S, IsFiniteSet(S), S # {}, NEW f \in [S -> Int]
  PROVE  \E g \in S : \A m \in S : f[m] <= f[g]
<1> DEFINE Above(g) == {m \in S : f[m] > f[g]}
           F == {Above(g) : g \in S}
           R == StrictSubsetOrdering(S)
<1>1. IsWellFoundedOn(R, FiniteSubsetsOf(S))
  BY FS_StrictSubsetOrderingWellFounded
<1>2. FiniteSubsetsOf(S) = SUBSET S
  BY FS_FiniteSubsetsOfFinite
<1>3. F \subseteq FiniteSubsetsOf(S) /\ F # {}
  <2>1. F \subseteq SUBSET S
    OBVIOUS
  <2>2. PICK g \in S : TRUE
    OBVIOUS
  <2>3. Above(g) \in F
    OBVIOUS
  <2> HIDE DEF F
  <2>. QED  BY <1>2, <2>1, <2>3
<1>4. PICK U \in F : \A V \in F : ~(<<V, U>> \in R)
  <2> HIDE DEF F, R
  <2>. QED  BY <1>1, <1>3, WFMin
<1> HIDE DEF F
<1>5. PICK g \in S : U = Above(g)
  BY DEF F
<1>6. ASSUME NEW m \in S, f[m] > f[g] PROVE FALSE
  <2>1. Above(m) \in F
    BY DEF F
  <2>2. Above(m) \subseteq U /\ m \in U /\ m \notin Above(m)
    <3>1. ASSUME NEW k \in S, f[k] > f[m] PROVE f[k] > f[g]
      <4>1. f[k] \in Int /\ f[m] \in Int /\ f[g] \in Int
        OBVIOUS
      <4>. QED  BY <4>1, <3>1, <1>6
    <3>2. ~(f[m] > f[m])
      <4>1. f[m] \in Int
        OBVIOUS
      <4>. QED  BY <4>1
    <3>. QED  BY <3>1, <3>2, <1>5, <1>6
  <2>3. <<Above(m), U>> \in R
    BY <2>2, <1>5 DEF StrictSubsetOrdering
  <2>. QED  BY <2>1, <2>3, <1>4
<1>7. \A m \in S : f[m] \in Int /\ f[g] \in Int
  OBVIOUS
<1>. QED  BY <1>6, <1>7

\* A finite set of numbers has a greatest and a least element.
LEMMA HasEnds ==
  ASSUME NEW S \in SUBSET Int, IsFiniteSet(S), S # {}
  PROVE  /\ \E g \in S : \A m \in S : m <= g
         /\ \E g \in S : \A m \in S : g <= m
<1>1. \E g \in S : \A m \in S : m <= g
  <2> DEFINE f == [m \in S |-> m]
  <2>1. f \in [S -> Int] /\ \A m \in S : f[m] = m
    OBVIOUS
  <2> HIDE DEF f
  <2>2. PICK g \in S : \A m \in S : f[m] <= f[g]
    BY <2>1, HasTop
  <2>. QED  BY <2>1, <2>2
<1>2. \E g \in S : \A m \in S : g <= m
  <2> DEFINE f == [m \in S |-> -m]
  <2>1. f \in [S -> Int] /\ \A m \in S : f[m] = -m
    OBVIOUS
  <2> HIDE DEF f
  <2>2. PICK g \in S : \A m \in S : f[m] <= f[g]
    BY <2>1, HasTop
  <2>3. ASSUME NEW m \in S PROVE g <= m
    <3>1. m \in Int /\ g \in Int /\ -m <= -g
      BY <2>1, <2>2
    <3>. QED  BY <3>1
  <2>. QED  BY <2>3
<1>. QED  BY <1>1, <1>2

\* Greatest and Least pick these elements.
LEMMA EndsPicked ==
  ASSUME NEW S \in SUBSET Int, NEW g \in S
  PROVE  /\ (\A m \in S : m <= g) => Greatest(S) = g
         /\ (\A m \in S : g <= m) => Least(S) = g
<1>1. ASSUME NEW h \in S, \A m \in S : m <= g, \A m \in S : m <= h PROVE h = g
  <2>1. h \in Int /\ g \in Int /\ h <= g /\ g <= h
    BY <1>1
  <2>. QED  BY <2>1
<1>2. ASSUME NEW h \in S, \A m \in S : g <= m, \A m \in S : h <= m PROVE h = g
  <2>1. h \in Int /\ g \in Int /\ h <= g /\ g <= h
    BY <1>2
  <2>. QED  BY <2>1
<1>. QED  BY <1>1, <1>2 DEF Greatest, Least

\* What Greatest and Least of a finite set are.
LEMMA EndsOf ==
  ASSUME NEW S \in SUBSET Int, IsFiniteSet(S), S # {}
  PROVE  /\ Greatest(S) \in S /\ \A m \in S : m <= Greatest(S)
         /\ Least(S) \in S /\ \A m \in S : Least(S) <= m
BY HasEnds, EndsPicked

\* The values of a function on a finite set are finitely many.
LEMMA FiniteRange ==
  ASSUME NEW S, IsFiniteSet(S), NEW f, DOMAIN f = S
  PROVE  IsFiniteSet({f[n] : n \in S})
<1> DEFINE T == {f[n] : n \in S}
           g == [n \in S |-> f[n]]
<1>1. g \in Surjection(S, T)
  BY DEF Surjection
<1>. QED  BY <1>1, FS_Surjection
-----------------------------------------------------------------------------
(* Rounding.                                                               *)

\* A product with something greater is greater, and by how much.
LEMMA ProductGrows ==
  ASSUME NEW d \in Nat, NEW p \in Int, NEW q \in Int, p < q
  PROVE  d * p + d <= d * q
<1>1. PICK k \in Nat : q = p + 1 + k
  <2>1. q - p - 1 \in Nat /\ q = p + 1 + (q - p - 1)
    OBVIOUS
  <2>. QED  BY <2>1
<1>2. d * q = d * p + d + d * k
  BY <1>1
<1>3. d * k >= 0
  OBVIOUS
<1>. QED  BY <1>2, <1>3

\* A quotient rounded is nearer to it than any other number.
LEMMA RoundedIs ==
  ASSUME NEW a \in Int, NEW d \in Nat \ {0}
  PROVE  /\ Rounded(a, d) \in Int
         /\ 2 * (d * Rounded(a, d)) <= 2 * a + d
         /\ 2 * a < 2 * (d * Rounded(a, d)) + d
<1> DEFINE q == (2 * a + d) \div (2 * d)
<1>1. 2 * a + d \in Int /\ 2 * d \in Nat \ {0}
  OBVIOUS
<1>2. q \in Int /\ (2 * d) * q <= 2 * a + d /\ 2 * a + d < (2 * d) * q + 2 * d
  <2>1. \A b \in Int, c \in Nat \ {0} :
          b \div c \in Int /\ c * (b \div c) <= b /\ b < c * (b \div c) + c
    OBVIOUS
  <2>. QED  BY <1>1, <2>1
<1>3. (2 * d) * q = 2 * (d * q)
  BY <1>2
<1>. QED  BY <1>2, <1>3 DEF Rounded

\* Rounding keeps what is whole, and the order.
LEMMA RoundedOrder ==
  ASSUME NEW d \in Nat \ {0}
  PROVE  /\ \A k \in Int : Rounded(d * k, d) = k
         /\ \A a, b \in Int : a <= b => Rounded(a, d) <= Rounded(b, d)
<1>1. ASSUME NEW k \in Int PROVE Rounded(d * k, d) = k
  <2> DEFINE q == Rounded(d * k, d)
  <2>1. q \in Int /\ 2 * (d * q) <= 2 * (d * k) + d /\ 2 * (d * k) < 2 * (d * q) + d
    BY RoundedIs
  <2> HIDE DEF q
  <2>2. ~(q < k)
    <3>1. q < k => d * q + d <= d * k
      BY <2>1, ProductGrows
    <3>. QED  BY <2>1, <3>1
  <2>3. ~(k < q)
    <3>1. k < q => d * k + d <= d * q
      BY <2>1, ProductGrows
    <3>. QED  BY <2>1, <3>1
  <2>. QED  BY <2>1, <2>2, <2>3 DEF q
<1>2. ASSUME NEW a \in Int, NEW b \in Int, a <= b PROVE Rounded(a, d) <= Rounded(b, d)
  <2> DEFINE p == Rounded(a, d)
             q == Rounded(b, d)
  <2>1. /\ p \in Int /\ 2 * (d * p) <= 2 * a + d
        /\ q \in Int /\ 2 * b < 2 * (d * q) + d
    BY RoundedIs
  <2> HIDE DEF p, q
  <2>2. ~(q < p)
    <3>1. q < p => d * q + d <= d * p
      BY <2>1, ProductGrows
    <3>. QED  BY <2>1, <3>1, <1>2
  <2>. QED  BY <2>1, <2>2 DEF p, q
<1>. QED  BY <1>1, <1>2

\* A share more is a gap that differs from the share by less than one.
LEMMA RoundedGap ==
  ASSUME NEW d \in Nat \ {0}, NEW a \in Int, NEW w \in Int
  PROVE  Abs(d * (Rounded(a + w, d) - Rounded(a, d)) - w) < d
<1> DEFINE p == Rounded(a, d)
           q == Rounded(a + w, d)
<1>1. /\ p \in Int /\ 2 * (d * p) <= 2 * a + d /\ 2 * a < 2 * (d * p) + d
      /\ q \in Int /\ 2 * (d * q) <= 2 * (a + w) + d /\ 2 * (a + w) < 2 * (d * q) + d
  BY RoundedIs
<1> HIDE DEF p, q
<1>2. d * (q - p) = d * q - d * p
  BY <1>1
<1>3. Abs(d * (q - p) - w) < d
  BY <1>1, <1>2 DEF Abs
<1>. QED  BY <1>3 DEF p, q
-----------------------------------------------------------------------------
(* Distributing.                                                           *)

\* A drawing of finitely many cards.
Drawing == IsFiniteSet(Nodes) /\ Nodes \subseteq Int /\ TypeOK

\* The cards that are picked, and their places, are finitely many numbers.
LEMMA PickedPlaces ==
  ASSUME Drawing
  PROVE  /\ IsFiniteSet(picked) /\ picked \subseteq Int /\ picked \subseteq Nodes
         /\ \A n \in picked : x[n] \in Int
         /\ Cardinality(picked) \in Nat
         /\ picked # {} =>
              /\ Low \in Int /\ High \in Int
              /\ \E n \in picked : x[n] = Low
              /\ \E n \in picked : x[n] = High
              /\ \A n \in picked : Low <= x[n] /\ x[n] <= High
<1>1. /\ IsFiniteSet(picked) /\ picked \subseteq Int /\ picked \subseteq Nodes
      /\ \A n \in picked : x[n] \in Int
  BY FS_Subset DEF Drawing, TypeOK
<1>2. Cardinality(picked) \in Nat
  BY <1>1, FS_CardinalityType
<1> DEFINE P == {x[n] : n \in picked}
           f == [n \in picked |-> x[n]]
<1>3. IsFiniteSet(P)
  <2>1. P = {f[n] : n \in picked} /\ DOMAIN f = picked
    OBVIOUS
  <2> HIDE DEF P, f
  <2>. QED  BY <1>1, <2>1, FiniteRange
<1>4. P \in SUBSET Int
  BY <1>1
<1>5. ASSUME picked # {} PROVE
        /\ High \in P /\ \A m \in P : m <= High
        /\ Low \in P /\ \A m \in P : Low <= m
  <2>1. P # {}
    BY <1>5
  <2>2. High = Greatest(P) /\ Low = Least(P)
    BY DEF High, Low
  <2> HIDE DEF P
  <2>. QED  BY <1>3, <1>4, <2>1, <2>2, EndsOf
<1>. QED  BY <1>1, <1>2, <1>4, <1>5

\* The rank of a card grows from left to right, from 0 to the number of the
\* other cards.
LEMMA RankGrows ==
  ASSUME Drawing, NEW m \in picked, NEW n \in picked
  PROVE  /\ Rank(n) \in Nat /\ Rank(n) <= Cardinality(picked) - 1
         /\ Before(m, n) => Rank(m) < Rank(n)
<1> DEFINE L(k) == {j \in picked : Before(j, k)}
<1>0. /\ IsFiniteSet(picked) /\ Cardinality(picked) \in Nat
      /\ \A k \in picked : k \in Int /\ x[k] \in Int
  BY PickedPlaces
<1>1. \A k \in picked : IsFiniteSet(L(k)) /\ Rank(k) = Cardinality(L(k)) /\ Rank(k) \in Nat
  <2>1. ASSUME NEW k \in picked PROVE IsFiniteSet(L(k))
    BY <1>0, FS_Subset
  <2>. QED  BY <2>1, FS_CardinalityType DEF Rank
<1>2. Rank(n) <= Cardinality(picked) - 1
  <2>1. L(n) \subseteq picked \ {n}
    BY <1>0 DEF Before
  <2>2. IsFiniteSet(picked \ {n}) /\ Cardinality(picked \ {n}) = Cardinality(picked) - 1
    BY <1>0, FS_RemoveElement
  <2> HIDE DEF L
  <2>. QED  BY <1>1, <2>1, <2>2, FS_Subset
<1>3. ASSUME Before(m, n) PROVE Rank(m) < Rank(n)
  <2>1. ASSUME NEW j \in picked, Before(j, m) PROVE Before(j, n)
    <3>1. /\ j \in Int /\ m \in Int /\ n \in Int
          /\ x[j] \in Int /\ x[m] \in Int /\ x[n] \in Int
      BY <1>0
    <3>. QED  BY <1>3, <2>1, <3>1 DEF Before
  <2>2. m \in L(n) /\ m \notin L(m)
    BY <1>0, <1>3 DEF Before
  <2>3. L(m) \subseteq L(n) /\ L(m) # L(n)
    BY <2>1, <2>2
  <2> HIDE DEF L
  <2>4. Cardinality(L(m)) <= Cardinality(L(n)) /\ Cardinality(L(m)) # Cardinality(L(n))
    BY <1>1, <2>3, FS_Subset
  <2>. QED  BY <1>1, <2>4
<1>. QED  BY <1>1, <1>2, <1>3

\* The first rank is at the left end of the span and the last at the right.
LEMMA RankEnds ==
  ASSUME Drawing, picked # {}
  PROVE  /\ \E n \in picked : Rank(n) = 0
         /\ \E n \in picked : Rank(n) = Cardinality(picked) - 1
<1>0. /\ IsFiniteSet(picked) /\ Cardinality(picked) \in Nat
      /\ \A k \in picked : k \in Int /\ x[k] \in Int /\ Low <= x[k] /\ x[k] <= High
      /\ Low \in Int /\ High \in Int
  BY PickedPlaces
<1>1. \E n \in picked : Rank(n) = 0
  <2> DEFINE S == {n \in picked : x[n] = Low}
  <2>1. S \in SUBSET Int /\ IsFiniteSet(S) /\ S # {}
    BY <1>0, PickedPlaces, FS_Subset
  <2>2. Least(S) \in S /\ \A m \in S : Least(S) <= m
    <3> HIDE DEF S
    <3>. QED  BY <2>1, EndsOf
  <2>3. PICK n \in S : \A m \in S : n <= m
    BY <2>2
  <2>4. {j \in picked : Before(j, n)} = {}
    <3>1. ASSUME NEW j \in picked, Before(j, n) PROVE FALSE
      <4>1. /\ j \in Int /\ n \in Int /\ x[j] \in Int /\ x[n] = Low /\ Low <= x[j]
            /\ Low \in Int
        BY <1>0
      <4>2. x[j] = Low /\ j < n
        BY <3>1, <4>1 DEF Before
      <4>. QED  BY <2>3, <4>1, <4>2
    <3>. QED  BY <3>1
  <2>. QED  BY <2>4, FS_EmptySet DEF Rank
<1>2. \E n \in picked : Rank(n) = Cardinality(picked) - 1
  <2> DEFINE S == {n \in picked : x[n] = High}
  <2>1. S \in SUBSET Int /\ IsFiniteSet(S) /\ S # {}
    BY <1>0, PickedPlaces, FS_Subset
  <2>2. Greatest(S) \in S /\ \A m \in S : m <= Greatest(S)
    <3> HIDE DEF S
    <3>. QED  BY <2>1, EndsOf
  <2>3. PICK n \in S : \A m \in S : m <= n
    BY <2>2
  <2>4. {j \in picked : Before(j, n)} = picked \ {n}
    <3>1. ASSUME NEW j \in picked, j # n PROVE Before(j, n)
      <4>1. /\ j \in Int /\ n \in Int /\ x[j] \in Int /\ x[n] = High /\ x[j] <= High
            /\ High \in Int
        BY <1>0
      <4>2. x[j] = High => j <= n
        BY <2>3
      <4>. QED  BY <3>1, <4>1, <4>2 DEF Before
    <3>2. ~Before(n, n)
      BY <1>0 DEF Before
    <3>. QED  BY <3>1, <3>2
  <2>5. Cardinality(picked \ {n}) = Cardinality(picked) - 1
    BY <1>0, FS_RemoveElement
  <2>. QED  BY <2>4, <2>5 DEF Rank
<1>. QED  BY <1>1, <1>2

\* What is spread evenly stays within the span and touches both of its ends,
\* keeps the order, and leaves gaps of an equal share.
LEMMA SpreadEvenly ==
  ASSUME Drawing, Cardinality(picked) >= 3
  PROVE  LET gaps == Cardinality(picked) - 1
         IN /\ \A n \in picked : Spaced(n) \in Int /\ Low <= Spaced(n) /\ Spaced(n) <= High
            /\ \E n \in picked : Spaced(n) = Low
            /\ \E n \in picked : Spaced(n) = High
            /\ \A m, n \in picked : x[m] < x[n] => Spaced(m) <= Spaced(n)
            /\ \A m, n \in picked : Rank(n) = Rank(m) + 1 =>
                 Abs(gaps * (Spaced(n) - Spaced(m)) - (High - Low)) < gaps
<1> DEFINE d == Cardinality(picked) - 1
           w == High - Low
<1>1. /\ picked # {} /\ d \in Nat \ {0} /\ Low \in Int /\ High \in Int /\ Low <= High
      /\ w \in Nat
  <2>1. Cardinality(picked) \in Nat /\ IsFiniteSet(picked)
    BY PickedPlaces
  <2>2. picked # {}
    BY <2>1, FS_EmptySet
  <2>3. PICK n \in picked : x[n] \in Int /\ Low <= x[n] /\ x[n] <= High
    BY <2>2, PickedPlaces
  <2>4. Low \in Int /\ High \in Int
    BY <2>2, PickedPlaces
  <2>. QED  BY <2>1, <2>2, <2>3, <2>4
<1>2. \A n \in picked : Rank(n) \in Nat /\ Rank(n) <= d /\ Spaced(n) = Low + Rounded(Rank(n) * w, d)
  BY RankGrows DEF Spaced
<1> HIDE DEF d, w
<1>3. ASSUME NEW i \in Nat, NEW j \in Nat, i <= j
      PROVE  i * w \in Int /\ j * w \in Int /\ i * w <= j * w
  <2>1. PICK k \in Nat : j = i + k
    <3>1. j - i \in Nat /\ j = i + (j - i)
      BY <1>3
    <3>. QED  BY <3>1
  <2>2. j * w = i * w + k * w /\ k * w \in Nat
    BY <1>1, <2>1
  <2>3. i * w \in Int
    BY <1>1
  <2>. QED  BY <2>2, <2>3
<1>4. \A i, j \in Nat : i <= j => Rounded(i * w, d) <= Rounded(j * w, d)
  BY <1>1, <1>3, RoundedOrder
<1>5. Rounded(0 * w, d) = 0 /\ Rounded(d * w, d) = w
  <2>1. 0 * w = d * 0
    BY <1>1
  <2>. QED  BY <1>1, <2>1, RoundedOrder
<1>6. \A n \in picked : Spaced(n) \in Int /\ Low <= Spaced(n) /\ Spaced(n) <= High
  <2>1. ASSUME NEW n \in picked PROVE Spaced(n) \in Int /\ Low <= Spaced(n) /\ Spaced(n) <= High
    <3>1. Rank(n) * w \in Int
      BY <1>1, <1>2
    <3>2. Rounded(Rank(n) * w, d) \in Int
      BY <3>1, <1>1, RoundedIs
    <3>3. /\ Rounded(0 * w, d) <= Rounded(Rank(n) * w, d)
          /\ Rounded(Rank(n) * w, d) <= Rounded(d * w, d)
      <4>1. 0 \in Nat /\ d \in Nat /\ Rank(n) \in Nat /\ 0 <= Rank(n) /\ Rank(n) <= d
        BY <1>1, <1>2
      <4>. QED  BY <1>4, <4>1
    <3>. QED  BY <1>1, <1>2, <1>5, <3>2, <3>3 DEF w
  <2>. QED  BY <2>1
<1>7. \E n \in picked : Spaced(n) = Low
  <2>1. PICK n \in picked : Rank(n) = 0
    BY <1>1, RankEnds
  <2>. QED  BY <1>1, <1>2, <1>5, <2>1
<1>8. \E n \in picked : Spaced(n) = High
  <2>1. PICK n \in picked : Rank(n) = d
    BY <1>1, RankEnds DEF d
  <2>. QED  BY <1>1, <1>2, <1>5, <2>1 DEF w
<1>9. ASSUME NEW m \in picked, NEW n \in picked, x[m] < x[n] PROVE Spaced(m) <= Spaced(n)
  <2>1. Rank(m) <= Rank(n)
    BY <1>2, <1>9, RankGrows DEF Before
  <2>2. Rounded(Rank(m) * w, d) <= Rounded(Rank(n) * w, d)
    BY <1>2, <1>4, <2>1
  <2>3. Rounded(Rank(m) * w, d) \in Int /\ Rounded(Rank(n) * w, d) \in Int
    <3>1. Rank(m) * w \in Int /\ Rank(n) * w \in Int
      BY <1>1, <1>2
    <3>. QED  BY <3>1, <1>1, RoundedIs
  <2>. QED  BY <1>1, <1>2, <2>2, <2>3
<1>10. ASSUME NEW m \in picked, NEW n \in picked, Rank(n) = Rank(m) + 1
       PROVE  Abs(d * (Spaced(n) - Spaced(m)) - w) < d
  <2> DEFINE a == Rank(m) * w
  <2>1. a \in Int /\ w \in Int /\ Rank(n) * w = a + w
    BY <1>1, <1>2, <1>10
  <2>2. Rounded(a, d) \in Int /\ Rounded(a + w, d) \in Int
    <3>1. a + w \in Int
      BY <2>1
    <3> HIDE DEF a
    <3>. QED  BY <1>1, <2>1, <3>1, RoundedIs
  <2>3. Abs(d * (Rounded(a + w, d) - Rounded(a, d)) - w) < d
    BY <1>1, <2>1, RoundedGap
  <2>4. Spaced(n) - Spaced(m) = Rounded(a + w, d) - Rounded(a, d)
    BY <1>1, <1>2, <2>1, <2>2
  <2>. QED  BY <2>3, <2>4
<1>. QED  BY <1>6, <1>7, <1>8, <1>9, <1>10 DEF d, w
-----------------------------------------------------------------------------
(* Dragging.                                                               *)

\* The hops that the code counts are distances in wires.
LEMMA HopsAreDistances ==
  ASSUME Drawing, NEW i \in Nodes, NEW n \in Nodes, n # i
  PROVE  Distance(i, n) = IF n \in OneHop(i) THEN 1 ELSE IF n \in TwoHops(i) THEN 2 ELSE 3
<1>1. \A m : m # i => (m \in OneHop(i) <=> \E e \in wires : Ends(e) = {i, m})
  <2>1. ASSUME NEW m, m # i, m \in OneHop(i) PROVE \E e \in wires : Ends(e) = {i, m}
    <3>1. PICK e \in wires : i \in Ends(e) /\ m \in Ends(e) \ {i}
      BY <2>1 DEF OneHop
    <3>2. Ends(e) = {i, m}
      BY <2>1, <3>1 DEF Ends
    <3>. QED  BY <3>2
  <2>2. ASSUME NEW m, m # i, NEW e \in wires, Ends(e) = {i, m} PROVE m \in OneHop(i)
    <3>1. e \in {f \in wires : i \in Ends(f)} /\ m \in Ends(e) \ {i}
      BY <2>2
    <3>. QED  BY <3>1 DEF OneHop
  <2>. QED  BY <2>1, <2>2
<1>2. i \notin OneHop(i)
  BY DEF OneHop
<1>3. ASSUME n \notin OneHop(i)
      PROVE  n \in TwoHops(i) <=>
               \E m \in Nodes : /\ \E e \in wires : Ends(e) = {i, m}
                                /\ \E e \in wires : Ends(e) = {m, n}
  <2>1. ASSUME n \in TwoHops(i)
        PROVE  \E m \in Nodes : /\ \E e \in wires : Ends(e) = {i, m}
                                /\ \E e \in wires : Ends(e) = {m, n}
    <3>1. PICK e \in wires : Ends(e) \intersect OneHop(i) # {} /\ n \in Ends(e)
      BY <2>1 DEF TwoHops
    <3>2. PICK m \in Ends(e) : m \in OneHop(i)
      BY <3>1
    <3>3. Ends(e) = {m, n} /\ m # i
      BY <3>1, <3>2, <1>2, <1>3 DEF Ends
    <3>4. m \in Nodes
      BY <3>2 DEF Drawing, TypeOK
    <3>. QED  BY <1>1, <3>2, <3>3, <3>4
  <2>2. ASSUME \E m \in Nodes : /\ \E e \in wires : Ends(e) = {i, m}
                                /\ \E e \in wires : Ends(e) = {m, n}
        PROVE  n \in TwoHops(i)
    <3> PICK m \in Nodes : /\ \E e \in wires : Ends(e) = {i, m}
                          /\ \E e \in wires : Ends(e) = {m, n}
      BY <2>2
    <3>1. m # i
      BY <1>1, <1>3
    <3>2. m \in OneHop(i)
      BY <1>1, <3>1
    <3> PICK e \in wires : Ends(e) = {m, n}
      OBVIOUS
    <3>3. /\ e \in {g \in wires : Ends(g) \intersect OneHop(i) # {} /\ i \notin Ends(g)}
          /\ n \in Ends(e)
      BY <3>1, <3>2
    <3>. QED  BY <3>3, <1>3 DEF TwoHops
  <2>. QED  BY <2>1, <2>2
<1>4. Distance(i, n) =
        IF \E e \in wires : Ends(e) = {i, n} THEN 1
        ELSE IF \E m \in Nodes : /\ \E e \in wires : Ends(e) = {i, m}
                                 /\ \E e \in wires : Ends(e) = {m, n} THEN 2 ELSE 3
  BY DEF Distance
<1>. QED  BY <1>1, <1>3, <1>4

\* A drag moves what it holds and nothing pinned, and pulls by distance.
LEMMA DragMoves ==
  ASSUME Drawing, \A n \in Nodes : x[n] % 50 = 0,
         NEW i \in Nodes, NEW to \in Xs, Drag(i, to)
  PROVE  PinnedStays /\ PullFadesWithDistance /\ DistributedEvenly
<1>1. /\ last'.step = "drag" /\ last'.held = i /\ ~pinned[i]
      /\ DOMAIN pinned = Nodes
      /\ \A n \in Nodes : x[n] \in Int
  BY DEF Drag, Drawing, TypeOK
<1>2. /\ \/ \A n \in Nodes : x'[n] = MovedTogether(i, to - x[i])[n]
         \/ \A n \in Nodes : x'[n] = Pulled(i, to - x[i])[n]
      /\ ~(Cardinality(picked) > 1 /\ i \in picked) =>
           \A n \in Nodes : x'[n] = Pulled(i, to - x[i])[n]
  BY DEF Drag
<1>3. PinnedStays
  BY <1>1, <1>2 DEF PinnedStays, MovedTogether, Pulled
<1>4. ASSUME ~(Cardinality(picked) > 1 /\ i \in picked), NEW n \in Nodes, ~pinned[n]
      PROVE  50 * (x'[n] - x[n]) =
               (CASE Distance(i, n) = 0 -> 50 [] Distance(i, n) = 1 -> 30
                  [] Distance(i, n) = 2 -> 11 [] OTHER -> 0) * (x'[i] - x[i])
  <2> DEFINE dx == to - x[i]
  <2>1. PICK k \in Int : dx = 50 * k
    <3>1. /\ to \in Int /\ x[i] \in Int /\ to % 50 = 0 /\ x[i] % 50 = 0
      BY <1>1, ShapesAssumption
    <3>2. dx \in Int /\ dx = 50 * (dx \div 50)
      BY <3>1
    <3>. QED  BY <3>2
  <2> HIDE DEF dx
  <2>2. /\ x'[i] = x[i] + dx
        /\ n # i => x'[n] = IF n \in OneHop(i) THEN x[n] + (dx * 3) \div 5
                            ELSE IF n \in TwoHops(i) THEN x[n] + (dx * 11) \div 50
                            ELSE x[n]
    BY <1>2, <1>4 DEF Pulled, dx
  <2>3. (dx * 3) \div 5 = 30 * k /\ (dx * 11) \div 50 = 11 * k
    BY <2>1
  <2>4. CASE n = i
    <3>1. Distance(i, n) = 0
      BY <2>4 DEF Distance
    <3>. QED  BY <1>1, <2>1, <2>2, <2>4, <3>1
  <2>5. CASE n # i
    <3>1. Distance(i, n) = IF n \in OneHop(i) THEN 1 ELSE IF n \in TwoHops(i) THEN 2 ELSE 3
      BY <2>5, HopsAreDistances
    <3>2. x[i] \in Int /\ x[n] \in Int
      BY <1>1
    <3>3. CASE n \in OneHop(i)
      BY <2>1, <2>2, <2>3, <2>5, <3>1, <3>2, <3>3
    <3>4. CASE n \notin OneHop(i) /\ n \in TwoHops(i)
      BY <2>1, <2>2, <2>3, <2>5, <3>1, <3>2, <3>4
    <3>5. CASE n \notin OneHop(i) /\ n \notin TwoHops(i)
      BY <2>1, <2>2, <2>3, <2>5, <3>1, <3>2, <3>5
    <3>. QED  BY <3>3, <3>4, <3>5
  <2>. QED  BY <2>4, <2>5
<1>5. PullFadesWithDistance
  BY <1>1, <1>4 DEF PullFadesWithDistance
<1>6. DistributedEvenly
  BY <1>1 DEF DistributedEvenly
<1>. QED  BY <1>3, <1>5, <1>6

\* Distributing does what SpreadEvenly says.
LEMMA DistributeMoves ==
  ASSUME Drawing, Distribute
  PROVE  PinnedStays /\ PullFadesWithDistance /\ DistributedEvenly
<1>1. /\ last'.step = "distribute" /\ Cardinality(picked) >= 3
      /\ \A n \in picked : x'[n] = Spaced(n)
  <2>1. picked \subseteq Nodes
    BY DEF Drawing, TypeOK
  <2>. QED  BY <2>1 DEF Distribute
<1>2. PinnedStays /\ PullFadesWithDistance
  BY <1>1 DEF PinnedStays, PullFadesWithDistance
<1> DEFINE S == {x'[n] : n \in picked}
<1>3. S = {Spaced(n) : n \in picked}
  BY <1>1
<1>4. /\ S \in SUBSET Int /\ Low \in S /\ High \in S
      /\ \A a \in S : Low <= a /\ a <= High
  BY <1>1, <1>3, SpreadEvenly
<1>5. Least(S) = Low /\ Greatest(S) = High
  <2> HIDE DEF S
  <2>. QED  BY <1>4, EndsPicked
<1>6. DistributedEvenly
  BY <1>1, <1>5, SpreadEvenly DEF DistributedEvenly
<1>. QED  BY <1>2, <1>6
-----------------------------------------------------------------------------
(* The automatic layout.                                                   *)

\* Every kind has one of the seven layers.
LEMMA LayerIs == \A k : LayerOf(k) \in 1 .. 7
<1>1. DOMAIN LayerMap = 1 .. 7 /\ Len(LayerMap) = 7
  BY DEF LayerMap
<1>. QED  BY <1>1 DEF LayerOf

LEMMA SevenLayers == IsFiniteSet(1 .. 7)
<1>1. 1 \in Int /\ 7 \in Int
  OBVIOUS
<1>. QED  BY <1>1, FS_Interval

\* A part of a finite set of numbers that is below a greater number is greater.
LEMMA BelowGrows ==
  ASSUME NEW S \in SUBSET Int, IsFiniteSet(S), NEW a \in S, NEW b \in Int, a < b
  PROVE  /\ Cardinality({k \in S : k < a}) \in Nat
         /\ Cardinality({k \in S : k < b}) \in Nat
         /\ Cardinality({k \in S : k < a}) + 1 <= Cardinality({k \in S : k < b})
<1> DEFINE A == {k \in S : k < a}
           B == {k \in S : k < b}
<1>1. IsFiniteSet(A) /\ IsFiniteSet(B)
  BY FS_Subset
<1>2. A \subseteq B /\ a \in B /\ a \notin A
  <2>1. ASSUME NEW k \in S, k < a PROVE k < b
    <3>1. k \in Int /\ a \in Int
      OBVIOUS
    <3>. QED  BY <2>1, <3>1
  <2>2. ~(a < a)
    <3>1. a \in Int
      OBVIOUS
    <3>. QED  BY <3>1
  <2>. QED  BY <2>1, <2>2
<1> HIDE DEF A, B
<1>3. Cardinality(A) \in Nat /\ Cardinality(B) \in Nat
  BY <1>1, FS_CardinalityType
<1>4. Cardinality(A) <= Cardinality(B) /\ Cardinality(A) # Cardinality(B)
  BY <1>1, <1>2, FS_Subset
<1>5. Cardinality(A) + 1 <= Cardinality(B)
  BY <1>3, <1>4
<1>. QED  BY <1>3, <1>5 DEF A, B

\* The widest row has a width.
LEMMA WidestIs ==
  ASSUME NEW kinds, IsFiniteSet(DOMAIN kinds)
  PROVE  Widest(kinds) \in Nat
<1> DEFINE f == [l \in 1 .. 7 |-> Cardinality(Layer(kinds, l))]
           W == {f[l] : l \in 1 .. 7} \union {1}
<1>1. DOMAIN LayerMap = 1 .. 7
  BY DEF LayerMap
<1>2. Widest(kinds) = Greatest(W)
  BY <1>1 DEF Widest
<1>3. \A l \in 1 .. 7 : f[l] \in Nat
  <2>1. \A l : IsFiniteSet(Layer(kinds, l))
    BY FS_Subset DEF Layer
  <2>. QED  BY <2>1, FS_CardinalityType
<1>4. IsFiniteSet({f[l] : l \in 1 .. 7})
  <2>1. DOMAIN f = 1 .. 7
    OBVIOUS
  <2> HIDE DEF f
  <2>. QED  BY <2>1, SevenLayers, FiniteRange
<1>5. IsFiniteSet(W) /\ W \in SUBSET Int /\ W # {} /\ W \subseteq Nat
  <2> HIDE DEF f
  <2>. QED  BY <1>3, <1>4, FS_AddElement
<1> HIDE DEF W
<1>. QED  BY <1>2, <1>5, EndsOf

\* No two cards of a layout overlap, and a card of an earlier layer is above
\* every card of a later one.
LEMMA LayoutSeparates ==
  ASSUME NEW kinds, IsFiniteSet(DOMAIN kinds), DOMAIN kinds \subseteq Int
  PROVE  /\ DOMAIN LaidX(kinds) = DOMAIN kinds /\ DOMAIN LaidY(kinds) = DOMAIN kinds
         /\ \A n \in DOMAIN kinds : LaidX(kinds)[n] \in Int /\ LaidY(kinds)[n] \in Int
         /\ \A m, n \in DOMAIN kinds :
              /\ LayerOf(kinds[m]) < LayerOf(kinds[n]) =>
                   LaidY(kinds)[m] + LayerH <= LaidY(kinds)[n]
              /\ LayerOf(kinds[m]) = LayerOf(kinds[n]) /\ m < n =>
                   LaidX(kinds)[m] + ColW <= LaidX(kinds)[n]
<1> DEFINE N == DOMAIN kinds
           L(n) == LayerOf(kinds[n])
           Row(n) == Layer(kinds, L(n))
           Start(n) == ((Widest(kinds) - Cardinality(Row(n))) * ColW) \div 2
           Col(n) == Cardinality({m \in Row(n) : m < n})
           Used == {LayerOf(kinds[m]) : m \in DOMAIN kinds}
           Line(n) == Cardinality({l \in Used : l < L(n)})
<1>1. \A n \in N : /\ LaidX(kinds)[n] = Start(n) + Col(n) * ColW + (ColW - NW) \div 2
                   /\ LaidY(kinds)[n] = 48 + LayerH * Line(n)
  BY DEF LaidX, LaidY
<1>2. \A n \in N : /\ Row(n) \in SUBSET Int /\ IsFiniteSet(Row(n)) /\ n \in Row(n)
                   /\ L(n) \in Int /\ L(n) \in Used
  <2>1. \A n \in N : IsFiniteSet(Row(n))
    BY FS_Subset DEF Layer
  <2>. QED  BY <2>1, LayerIs DEF Layer
<1>3. Used \in SUBSET Int /\ IsFiniteSet(Used)
  <2>1. Used \in SUBSET (1 .. 7)
    BY LayerIs
  <2> HIDE DEF Used
  <2>2. IsFiniteSet(Used)
    BY <2>1, SevenLayers, FS_Subset
  <2>. QED  BY <2>1, <2>2
<1>4. \A n \in N : Start(n) \in Int /\ Col(n) \in Nat /\ Line(n) \in Nat
  <2>1. \A n \in N : Cardinality(Row(n)) \in Nat
    BY <1>2, FS_CardinalityType
  <2>2. \A n \in N : Col(n) \in Nat
    <3>1. \A n \in N : IsFiniteSet({m \in Row(n) : m < n})
      BY <1>2, FS_Subset
    <3>. QED  BY <3>1, FS_CardinalityType
  <2>3. \A n \in N : Line(n) \in Nat
    <3>1. \A n \in N : IsFiniteSet({l \in Used : l < L(n)})
      BY <1>3, FS_Subset
    <3>. QED  BY <3>1, FS_CardinalityType
  <2>4. Widest(kinds) \in Nat
    BY WidestIs
  <2>5. \A n \in N : Start(n) \in Int
    <3> TAKE n \in N
    <3> DEFINE c == Cardinality(Row(n))
    <3>1. c \in Nat
      BY <2>1
    <3> HIDE DEF c
    <3>2. ((Widest(kinds) - c) * ColW) \div 2 \in Int
      BY <2>4, <3>1 DEF ColW
    <3>. QED  BY <3>2 DEF c
  <2>. QED  BY <2>2, <2>3, <2>5
<1>5. ASSUME NEW m \in N, NEW n \in N, L(m) < L(n) PROVE Line(m) + 1 <= Line(n)
  <2>1. L(m) \in Used /\ L(m) \in Int /\ L(n) \in Int
    BY <1>2
  <2> DEFINE a == L(m)
             b == L(n)
  <2> HIDE DEF Used, a, b
  <2>2. Cardinality({k \in Used : k < a}) + 1 <= Cardinality({k \in Used : k < b})
    BY <1>3, <1>5, <2>1, BelowGrows DEF a, b
  <2>. QED  BY <2>2 DEF a, b
<1>6. ASSUME NEW m \in N, NEW n \in N, L(m) = L(n), m < n
      PROVE  Start(m) = Start(n) /\ Col(m) + 1 <= Col(n)
  <2>1. Row(m) = Row(n)
    BY <1>6
  <2>2. Start(m) = Start(n)
    BY <2>1
  <2> DEFINE S == Row(n)
  <2>3. S \in SUBSET Int /\ IsFiniteSet(S) /\ m \in S /\ n \in Int
    BY <1>2, <2>1
  <2> HIDE DEF S
  <2>4. Cardinality({k \in S : k < m}) + 1 <= Cardinality({k \in S : k < n})
    BY <1>6, <2>3, BelowGrows
  <2>. QED  BY <2>1, <2>2, <2>4 DEF S
<1> HIDE DEF Start, Col, Line, L
<1>7. \A n \in N : LaidX(kinds)[n] \in Int /\ LaidY(kinds)[n] \in Int
  BY <1>1, <1>4 DEF ColW, LayerH, NW
<1>8. ASSUME NEW m \in N, NEW n \in N, L(m) < L(n)
      PROVE  LaidY(kinds)[m] + LayerH <= LaidY(kinds)[n]
  BY <1>1, <1>4, <1>5, <1>8 DEF LayerH
<1>9. ASSUME NEW m \in N, NEW n \in N, L(m) = L(n), m < n
      PROVE  LaidX(kinds)[m] + ColW <= LaidX(kinds)[n]
  <2>1. Start(m) = Start(n) /\ Col(m) + 1 <= Col(n)
    BY <1>6, <1>9
  <2>. QED  BY <1>1, <1>4, <2>1 DEF ColW, NW
<1>10. DOMAIN LaidX(kinds) = N /\ DOMAIN LaidY(kinds) = N
  BY DEF LaidX, LaidY
<1>. QED  BY <1>7, <1>8, <1>9, <1>10 DEF L

\* A drawing that was laid out is laid out.
LEMMA LayoutIsLaidOut ==
  ASSUME Drawing, x = LaidX(kind), y = LaidY(kind)
  PROVE  LaidOut
<1> SUFFICES ASSUME NEW m \in Nodes, NEW n \in Nodes, m # n
             PROVE  /\ Abs(x[m] - x[n]) >= NW \/ Abs(y[m] - y[n]) >= NH
                    /\ LayerOf(kind[m]) < LayerOf(kind[n]) => y[m] + NH <= y[n]
  BY DEF LaidOut
<1>1. /\ IsFiniteSet(DOMAIN kind) /\ DOMAIN kind \subseteq Int
      /\ m \in DOMAIN kind /\ n \in DOMAIN kind /\ m \in Int /\ n \in Int
  BY DEF Drawing, Nodes
<1>2. /\ x[m] \in Int /\ x[n] \in Int /\ y[m] \in Int /\ y[n] \in Int
      /\ LayerOf(kind[m]) < LayerOf(kind[n]) => y[m] + LayerH <= y[n]
      /\ LayerOf(kind[n]) < LayerOf(kind[m]) => y[n] + LayerH <= y[m]
      /\ LayerOf(kind[m]) = LayerOf(kind[n]) /\ m < n => x[m] + ColW <= x[n]
      /\ LayerOf(kind[n]) = LayerOf(kind[m]) /\ n < m => x[n] + ColW <= x[m]
  BY <1>1, LayoutSeparates
<1>3. LayerOf(kind[m]) \in Int /\ LayerOf(kind[n]) \in Int
  BY LayerIs
<1>. QED  BY <1>1, <1>2, <1>3 DEF Abs, NW, NH, ColW, LayerH
-----------------------------------------------------------------------------
(* The sides of the wires.                                                 *)

\* In any places the sides face each other.
LEMMA SidesFace ==
  ASSUME Drawing
  PROVE  PortsFaceEachOther
<1> SUFFICES ASSUME NEW e \in wires,
                    <<x[e.source], y[e.source]>> # <<x[e.target], y[e.target]>>
             PROVE  Port(e.source, e.target) = Opposite[Port(e.target, e.source)]
  BY DEF PortsFaceEachOther
<1> DEFINE i == e.source
           j == e.target
<1>1. i \in Nodes /\ j \in Nodes
  BY DEF Drawing, TypeOK, Ends
<1>2. /\ x[i] \in Int /\ x[j] \in Int /\ y[i] \in Int /\ y[j] \in Int
      /\ x[i] # x[j] \/ y[i] # y[j]
  BY <1>1 DEF Drawing, TypeOK
<1> DEFINE dx == x[j] - x[i]
           dy == y[j] - y[i]
<1>3. /\ dx \in Int /\ dy \in Int /\ x[i] - x[j] = -dx /\ y[i] - y[j] = -dy
      /\ dx # 0 \/ dy # 0
  BY <1>2
<1> HIDE DEF dx, dy
<1>4. Abs(-dx) = Abs(dx) /\ Abs(-dy) = Abs(dy) /\ Abs(dx) \in Nat /\ Abs(dy) \in Nat
      /\ (Abs(dx) = 0 <=> dx = 0) /\ (Abs(dy) = 0 <=> dy = 0)
  BY <1>3 DEF Abs
<1>5. Port(i, j) = IF Abs(dy) * NW >= Abs(dx) * NH
                   THEN (IF dy > 0 THEN "bottom" ELSE "top")
                   ELSE IF dx > 0 THEN "right" ELSE "left"
  BY DEF Port, dx, dy
<1>6. Port(j, i) = IF Abs(dy) * NW >= Abs(dx) * NH
                   THEN (IF -dy > 0 THEN "bottom" ELSE "top")
                   ELSE IF -dx > 0 THEN "right" ELSE "left"
  BY <1>3, <1>4 DEF Port
<1>7. CASE Abs(dy) * NW >= Abs(dx) * NH
  <2>1. dy # 0
    BY <1>3, <1>4, <1>7 DEF NW, NH
  <2>. QED  BY <1>3, <1>5, <1>6, <1>7, <2>1 DEF Opposite
<1>8. CASE ~(Abs(dy) * NW >= Abs(dx) * NH)
  <2>1. dx # 0
    BY <1>3, <1>4, <1>8 DEF NW, NH
  <2>. QED  BY <1>3, <1>5, <1>6, <1>8, <2>1 DEF Opposite
<1>. QED  BY <1>7, <1>8

-----------------------------------------------------------------------------
(* Advice.                                                                 *)

\* The parts of the advice: two that only depend on the kinds, and the others.
Unwalled(kinds) == If(OfKind(kinds, "firewall") = {}, <<"firewall", {}>>)
Equipped(kinds) ==
  If(Cardinality(OfKind(kinds, "firewall")) >= 2, <<"redundant", {}>>)
  \union If(OfKind(kinds, "loganalyzer") # {}, <<"logging", {}>>)
Exposed(kinds, ws) ==
  {<<"exposed", {p[1], p[2]}>> : p \in
     {p \in OfKind(kinds, "internet") \X DOMAIN kinds :
        p[2] \in Nbrs(kinds, ws, p[1]) /\ kinds[p[2]] \in Hosts}}
OpenData(kinds, ws) ==
  {<<"database", {n}>> : n \in
     {n \in OfKind(kinds, "database") \union OfKind(kinds, "mysql") :
        Beside(kinds, ws, n, {"internet"})}}
Through(kinds, ws, t, tag) == {<<tag, Ends(e)>> : e \in InternetWires(kinds, ws, t)}
With(kinds, ws, k, ks, tag) ==
  {<<tag, {n}>> : n \in {n \in OfKind(kinds, k) : Beside(kinds, ws, n, ks)}}
Without(kinds, ws, k, ks, tag) ==
  {<<tag, n>> : n \in {n \in OfKind(kinds, k) : ~Beside(kinds, ws, n, ks)}}
Watched(kinds, ws) ==
  If(OfKind(kinds, "honeypot") # {} /\ \E e \in ws : e.type = "monitor", <<"monitored", {}>>)
Solid(kinds, ws) ==
  If(/\ OfKind(kinds, "firewall") # {} /\ OfKind(kinds, "honeypot") # {}
     /\ OfKind(kinds, "dmz") # {} /\ Critical(kinds, ws) = {}, <<"solid", {}>>)

\* The advice is these parts.
LEMMA PartsOfAdvice ==
  ASSUME NEW kinds, NEW ws
  PROVE  /\ Critical(kinds, ws) =
              Unwalled(kinds) \union Exposed(kinds, ws) \union OpenData(kinds, ws)
              \union Through(kinds, ws, "allow", "allowed")
         /\ Warnings(kinds, ws) =
              Without(kinds, ws, "honeypot", {"firewall", "router", "dmz"}, "unsegmented")
              \union Without(kinds, ws, "dmz", {"firewall", "router"}, "unguarded")
              \union {<<"isolated", n>> : n \in Isolated(kinds, ws)}
         /\ Good(kinds, ws) =
              Equipped(kinds)
              \union With(kinds, ws, "honeypot", {"firewall", "router", "dmz"}, "segmented")
              \union With(kinds, ws, "dmz", {"firewall", "router"}, "guarded")
              \union Through(kinds, ws, "deny", "denied")
              \union Watched(kinds, ws) \union Solid(kinds, ws)
BY DEF Critical, Warnings, Good, Unwalled, Exposed, OpenData, Through, Equipped, With, Without,
       Watched, Solid

\* The advice depends on which cards are joined and by which types of wire.
LEMMA AdviceByEnds ==
  ASSUME NEW kinds, NEW ws, NEW vs,
         \A e \in ws : \E f \in vs : Ends(f) = Ends(e) /\ f.type = e.type,
         \A f \in vs : \E e \in ws : Ends(f) = Ends(e) /\ f.type = e.type
  PROVE  /\ Critical(kinds, ws) = Critical(kinds, vs)
         /\ Warnings(kinds, ws) = Warnings(kinds, vs)
         /\ Good(kinds, ws) = Good(kinds, vs)
<1>1. \A i : Nbrs(kinds, ws, i) = Nbrs(kinds, vs, i)
  BY DEF Nbrs
<1>2. \A n, ks : Beside(kinds, ws, n, ks) <=> Beside(kinds, vs, n, ks)
  BY <1>1 DEF Beside
<1>3. Isolated(kinds, ws) = Isolated(kinds, vs)
  BY DEF Isolated
<1>4. \A t, tag : Through(kinds, ws, t, tag) = Through(kinds, vs, t, tag)
  BY DEF InternetWires, Through
<1>5. /\ \A k, ks, tag : With(kinds, ws, k, ks, tag) = With(kinds, vs, k, ks, tag)
      /\ \A k, ks, tag : Without(kinds, ws, k, ks, tag) = Without(kinds, vs, k, ks, tag)
  BY <1>2 DEF With, Without
<1>6. Watched(kinds, ws) = Watched(kinds, vs)
  <2>1. (\E e \in ws : e.type = "monitor") <=> (\E e \in vs : e.type = "monitor")
    OBVIOUS
  <2>. QED  BY <2>1 DEF Watched, If
<1>7. Exposed(kinds, ws) = Exposed(kinds, vs) /\ OpenData(kinds, ws) = OpenData(kinds, vs)
  BY <1>1, <1>2 DEF Exposed, OpenData
<1>8. Critical(kinds, ws) = Critical(kinds, vs)
  BY <1>4, <1>7, PartsOfAdvice
<1>9. Warnings(kinds, ws) = Warnings(kinds, vs)
  BY <1>3, <1>5, PartsOfAdvice
<1>10. Solid(kinds, ws) = Solid(kinds, vs)
  BY <1>8 DEF Solid
<1>11. Good(kinds, ws) = Good(kinds, vs)
  <2>1. \A w : Good(kinds, w) =
          Equipped(kinds)
          \union With(kinds, w, "honeypot", {"firewall", "router", "dmz"}, "segmented")
          \union With(kinds, w, "dmz", {"firewall", "router"}, "guarded")
          \union Through(kinds, w, "deny", "denied")
          \union Watched(kinds, w) \union Solid(kinds, w)
    BY PartsOfAdvice
  <2>. QED  BY <1>4, <1>5, <1>6, <1>10, <2>1
<1>. QED  BY <1>8, <1>9, <1>11

\* Turning the wires leaves the ends and the types.
LEMMA TurningKeepsAdvice == AdviceIgnoresDirection
<1>1. \A e : /\ Ends(Wire(e.target, e.source, e.type)) = Ends(e)
             /\ Wire(e.target, e.source, e.type).type = e.type
  BY DEF Ends, Wire
<1>2. \A e \in wires : \E f \in Turned(wires) : Ends(f) = Ends(e) /\ f.type = e.type
  BY <1>1 DEF Turned
<1>3. \A f \in Turned(wires) : \E e \in wires : Ends(f) = Ends(e) /\ f.type = e.type
  BY <1>1 DEF Turned
<1>. QED  BY <1>2, <1>3, AdviceByEnds DEF AdviceIgnoresDirection
\* A score is kept between 0 and 100.
LEMMA ScoreIsKept ==
  ASSUME NEW v \in Int
  PROVE  /\ Greatest({0, Least({100, v})}) \in 0 .. 100
         /\ v >= 100 => Greatest({0, Least({100, v})}) = 100
         /\ v <= 0 => Greatest({0, Least({100, v})}) = 0
         /\ v \in 0 .. 100 => Greatest({0, Least({100, v})}) = v
<1>1. Least({100, v}) = IF v <= 100 THEN v ELSE 100
  <2>1. CASE v <= 100
    BY <2>1, EndsPicked
  <2>2. CASE ~(v <= 100)
    BY <2>2, EndsPicked
  <2>. QED  BY <2>1, <2>2
<1> DEFINE l == Least({100, v})
<1>2. l \in Int
  BY <1>1
<1> HIDE DEF l
<1>3. Greatest({0, l}) = IF l <= 0 THEN 0 ELSE l
  <2>1. CASE l <= 0
    BY <1>2, <2>1, EndsPicked
  <2>2. CASE ~(l <= 0)
    BY <1>2, <2>2, EndsPicked
  <2>. QED  BY <2>1, <2>2
<1>. QED  BY <1>1, <1>2, <1>3 DEF l

\* There are finitely many findings about finitely many cards.
Tags == {"firewall", "exposed", "database", "allowed"}
        \union {"unsegmented", "unguarded", "isolated"}
        \union {"redundant", "segmented", "guarded", "logging"}
        \union {"denied", "monitored", "solid"}

LEMMA FindingsFinite ==
  ASSUME NEW kinds, IsFiniteSet(DOMAIN kinds), NEW ws,
         \A e \in ws : Ends(e) \subseteq DOMAIN kinds
  PROVE  /\ IsFiniteSet(Critical(kinds, ws)) /\ Cardinality(Critical(kinds, ws)) \in Nat
         /\ IsFiniteSet(Warnings(kinds, ws)) /\ Cardinality(Warnings(kinds, ws)) \in Nat
         /\ IsFiniteSet(Good(kinds, ws)) /\ Cardinality(Good(kinds, ws)) \in Nat
<1>1. \A a, b, c, d : IsFiniteSet({a, b, c, d}) /\ IsFiniteSet({a, b, c})
  <2> SUFFICES ASSUME NEW a, NEW b, NEW c, NEW d
               PROVE  IsFiniteSet({a, b, c, d}) /\ IsFiniteSet({a, b, c})
    OBVIOUS
  <2>1. IsFiniteSet({a})
    BY FS_Singleton
  <2>2. IsFiniteSet({a} \union {b})
    BY <2>1, FS_AddElement
  <2>3. IsFiniteSet(({a} \union {b}) \union {c})
    BY <2>2, FS_AddElement
  <2>4. IsFiniteSet((({a} \union {b}) \union {c}) \union {d})
    BY <2>3, FS_AddElement
  <2>5. {a, b, c} = ({a} \union {b}) \union {c}
    OBVIOUS
  <2>6. {a, b, c, d} = (({a} \union {b}) \union {c}) \union {d}
    OBVIOUS
  <2>. QED  BY <2>3, <2>4, <2>5, <2>6
<1>2. IsFiniteSet(Tags)
  <2> DEFINE A == {"firewall", "exposed", "database", "allowed"}
             B == {"unsegmented", "unguarded", "isolated"}
             C == {"redundant", "segmented", "guarded", "logging"}
             D == {"denied", "monitored", "solid"}
  <2>1. IsFiniteSet(A) /\ IsFiniteSet(B) /\ IsFiniteSet(C) /\ IsFiniteSet(D)
    BY <1>1
  <2>2. Tags = ((A \union B) \union C) \union D
    BY DEF Tags
  <2> HIDE DEF A, B, C, D
  <2>3. IsFiniteSet(A \union B)
    BY <2>1, FS_Union
  <2>4. IsFiniteSet((A \union B) \union C)
    BY <2>1, <2>3, FS_Union
  <2>5. IsFiniteSet(((A \union B) \union C) \union D)
    BY <2>1, <2>4, FS_Union
  <2>. QED  BY <2>2, <2>5
<1> DEFINE About == (SUBSET DOMAIN kinds) \union DOMAIN kinds
           Findings == Tags \X About
<1>3. IsFiniteSet(Findings)
  <2>1. IsFiniteSet(About)
    BY FS_SUBSET, FS_Union
  <2> HIDE DEF About
  <2>. QED  BY <1>2, <2>1, FS_Product
<1>4. /\ \A t \in Tags : \A A \in SUBSET DOMAIN kinds : <<t, A>> \in Findings
      /\ \A t \in Tags : \A n \in DOMAIN kinds : <<t, n>> \in Findings
  OBVIOUS
<1>5. /\ \A k : OfKind(kinds, k) \subseteq DOMAIN kinds
      /\ \A t : InternetWires(kinds, ws, t) \subseteq ws
      /\ {} \in SUBSET DOMAIN kinds
      /\ Isolated(kinds, ws) \subseteq DOMAIN kinds
  BY DEF OfKind, InternetWires, Isolated
<1> HIDE DEF Findings
<1>6. Critical(kinds, ws) \subseteq Findings
  <2>1. Unwalled(kinds) \subseteq Findings
    BY <1>4, <1>5 DEF Unwalled, If, Tags
  <2>2. Exposed(kinds, ws) \subseteq Findings /\ OpenData(kinds, ws) \subseteq Findings
    BY <1>4, <1>5 DEF Exposed, OpenData, Tags
  <2>3. Through(kinds, ws, "allow", "allowed") \subseteq Findings
    BY <1>4, <1>5 DEF Through, Tags
  <2>. QED  BY <2>1, <2>2, <2>3, PartsOfAdvice
<1>7. Warnings(kinds, ws) \subseteq Findings
  <2>1. \A k, ks, t : t \in Tags => Without(kinds, ws, k, ks, t) \subseteq Findings
    BY <1>4, <1>5 DEF Without
  <2>2. {<<"isolated", n>> : n \in Isolated(kinds, ws)} \subseteq Findings
    BY <1>4, <1>5 DEF Tags
  <2>3. "unsegmented" \in Tags /\ "unguarded" \in Tags
    BY DEF Tags
  <2>. QED  BY <2>1, <2>2, <2>3, PartsOfAdvice
<1>8. Good(kinds, ws) \subseteq Findings
  <2>1. \A k, ks, t : t \in Tags => With(kinds, ws, k, ks, t) \subseteq Findings
    BY <1>4, <1>5 DEF With
  <2>2. Through(kinds, ws, "deny", "denied") \subseteq Findings
    BY <1>4, <1>5 DEF Through, Tags
  <2>3. {"redundant", "segmented", "guarded", "logging", "monitored", "solid"} \subseteq Tags
    BY DEF Tags
  <2>4. Watched(kinds, ws) \subseteq Findings /\ Solid(kinds, ws) \subseteq Findings
    BY <1>4, <1>5, <2>3 DEF If, Watched, Solid
  <2>5. Equipped(kinds) \subseteq Findings
    BY <1>4, <1>5, <2>3 DEF Equipped, If
  <2>. QED  BY <2>1, <2>2, <2>3, <2>4, <2>5, PartsOfAdvice
<1>. QED  BY <1>3, <1>6, <1>7, <1>8, FS_Subset, FS_CardinalityType
\* What a wire from a firewall to an isolated card changes in the advice: an
\* isolated card less, and whatever good comes with it.
LEMMA WiringAdvice ==
  ASSUME NEW kinds, NEW ws, \A e \in ws : Ends(e) \subseteq DOMAIN kinds,
         NEW n \in Isolated(kinds, ws), NEW f \in OfKind(kinds, "firewall"), n # f
  PROVE  LET vs == ws \union {Wire(f, n, "link")}
         IN /\ Critical(kinds, vs) = Critical(kinds, ws)
            /\ Warnings(kinds, vs) \subseteq Warnings(kinds, ws)
            /\ <<"isolated", n>> \in Warnings(kinds, ws) \ Warnings(kinds, vs)
            /\ Good(kinds, ws) \subseteq Good(kinds, vs)
<1> DEFINE new == Wire(f, n, "link")
           vs == ws \union {new}
<1>1. Ends(new) = {f, n} /\ new.type = "link" /\ kinds[f] = "firewall"
  BY DEF Ends, Wire, OfKind
<1>2. /\ n \in DOMAIN kinds /\ f \in DOMAIN kinds /\ \A e \in ws : n \notin Ends(e)
  BY DEF Isolated, OfKind
<1> HIDE DEF new
<1>3. \A i, m : m \in Nbrs(kinds, vs, i) <=>
                  m \in Nbrs(kinds, ws, i) \/ (m = n /\ i = f) \/ (m = f /\ i = n)
  <2> SUFFICES ASSUME NEW i, NEW m
               PROVE  m \in Nbrs(kinds, vs, i) <=>
                        m \in Nbrs(kinds, ws, i) \/ (m = n /\ i = f) \/ (m = f /\ i = n)
    OBVIOUS
  <2>1. m \in Nbrs(kinds, vs, i) <=>
          m \in Nbrs(kinds, ws, i) \/ (m \in DOMAIN kinds /\ m # i /\ Ends(new) = {i, m})
    BY DEF Nbrs
  <2>2. m \in DOMAIN kinds /\ m # i /\ Ends(new) = {i, m} <=>
          (m = n /\ i = f) \/ (m = f /\ i = n)
    BY <1>1, <1>2
  <2>. QED  BY <2>1, <2>2
<1>4. \A k, ks : Beside(kinds, ws, k, ks) => Beside(kinds, vs, k, ks)
  BY <1>3 DEF Beside
<1>5. \A k : kinds[k] # "firewall" /\ Beside(kinds, vs, k, {"internet"}) =>
               Beside(kinds, ws, k, {"internet"})
  BY <1>1, <1>3 DEF Beside
<1>6. \A t : t # "link" => InternetWires(kinds, vs, t) = InternetWires(kinds, ws, t)
  BY <1>1 DEF InternetWires
<1>7. Critical(kinds, vs) = Critical(kinds, ws)
  <2>1. Exposed(kinds, vs) = Exposed(kinds, ws)
    <3>1. \A i \in OfKind(kinds, "internet"), m \in DOMAIN kinds :
            (m \in Nbrs(kinds, vs, i) /\ kinds[m] \in Hosts) <=>
            (m \in Nbrs(kinds, ws, i) /\ kinds[m] \in Hosts)
      BY <1>1, <1>3 DEF OfKind, Hosts
    <3>. QED  BY <3>1 DEF Exposed
  <2>2. OpenData(kinds, vs) = OpenData(kinds, ws)
    <3>1. \A k \in OfKind(kinds, "database") \union OfKind(kinds, "mysql") :
            Beside(kinds, vs, k, {"internet"}) <=> Beside(kinds, ws, k, {"internet"})
      BY <1>4, <1>5 DEF OfKind
    <3>. QED  BY <3>1 DEF OpenData
  <2>3. Through(kinds, vs, "allow", "allowed") = Through(kinds, ws, "allow", "allowed")
    BY <1>6 DEF Through
  <2> HIDE DEF vs
  <2>. QED  BY <2>1, <2>2, <2>3, PartsOfAdvice
<1>8. n \notin Isolated(kinds, vs) /\ Isolated(kinds, vs) \subseteq Isolated(kinds, ws)
  BY <1>1 DEF Isolated
<1>9. Warnings(kinds, vs) \subseteq Warnings(kinds, ws)
  <2>1. \A k, ks, tag : Without(kinds, vs, k, ks, tag) \subseteq Without(kinds, ws, k, ks, tag)
    BY <1>4 DEF Without
  <2>2. {<<"isolated", m>> : m \in Isolated(kinds, vs)}
          \subseteq {<<"isolated", m>> : m \in Isolated(kinds, ws)}
    BY <1>8
  <2> HIDE DEF vs
  <2>. QED  BY <2>1, <2>2, PartsOfAdvice
<1>10. <<"isolated", n>> \in Warnings(kinds, ws)
  BY PartsOfAdvice
<1>11. <<"isolated", n>> \notin Warnings(kinds, vs)
  <2>1. \A k, ks, tag : tag # "isolated" => <<"isolated", n>> \notin Without(kinds, vs, k, ks, tag)
    BY DEF Without
  <2>2. <<"isolated", n>> \notin {<<"isolated", m>> : m \in Isolated(kinds, vs)}
    BY <1>8
  <2> HIDE DEF vs
  <2>. QED  BY <2>1, <2>2, PartsOfAdvice
<1>12. Good(kinds, ws) \subseteq Good(kinds, vs)
  <2>1. \A k, ks, tag : With(kinds, ws, k, ks, tag) \subseteq With(kinds, vs, k, ks, tag)
    BY <1>4 DEF With
  <2>2. Through(kinds, ws, "deny", "denied") = Through(kinds, vs, "deny", "denied")
    BY <1>6 DEF Through
  <2>3. Watched(kinds, ws) \subseteq Watched(kinds, vs)
    BY DEF Watched, If
  <2>4. Solid(kinds, ws) = Solid(kinds, vs)
    BY <1>7 DEF Solid
  <2>5. \A w : Good(kinds, w) =
          Equipped(kinds)
          \union With(kinds, w, "honeypot", {"firewall", "router", "dmz"}, "segmented")
          \union With(kinds, w, "dmz", {"firewall", "router"}, "guarded")
          \union Through(kinds, w, "deny", "denied")
          \union Watched(kinds, w) \union Solid(kinds, w)
    BY PartsOfAdvice
  <2> HIDE DEF vs
  <2>. QED  BY <2>1, <2>2, <2>3, <2>4, <2>5
<1>. QED  BY <1>7, <1>9, <1>10, <1>11, <1>12 DEF new

\* So it raises the score, unless the score is at an end of the scale.
LEMMA WiringHelps ==
  ASSUME Drawing
  PROVE  WiringToFirewallHelps
<1> SUFFICES ASSUME NEW n \in Isolated(kind, wires), NEW f \in OfKind(kind, "firewall"), n # f
             PROVE  LET better == ComputeScore(kind, wires \union {Wire(f, n, "link")})
                    IN \/ better > ComputeScore(kind, wires)
                       \/ better = 100
                       \/ better = 0
  BY DEF WiringToFirewallHelps
<1> DEFINE vs == wires \union {Wire(f, n, "link")}
<1>1. /\ IsFiniteSet(DOMAIN kind) /\ n \in DOMAIN kind /\ f \in DOMAIN kind
      /\ \A e \in wires : Ends(e) \subseteq DOMAIN kind
      /\ \A e \in vs : Ends(e) \subseteq DOMAIN kind
  BY DEF Drawing, TypeOK, Nodes, Isolated, OfKind, Wire, Ends
<1>2. /\ Critical(kind, vs) = Critical(kind, wires)
      /\ Warnings(kind, vs) \subseteq Warnings(kind, wires)
      /\ Warnings(kind, vs) # Warnings(kind, wires)
      /\ Good(kind, wires) \subseteq Good(kind, vs)
  BY <1>1, WiringAdvice
<1> HIDE DEF vs
<1>3. /\ IsFiniteSet(Critical(kind, wires)) /\ Cardinality(Critical(kind, wires)) \in Nat
      /\ IsFiniteSet(Warnings(kind, wires)) /\ Cardinality(Warnings(kind, wires)) \in Nat
      /\ IsFiniteSet(Good(kind, wires)) /\ Cardinality(Good(kind, wires)) \in Nat
  BY <1>1, FindingsFinite
<1>4. /\ IsFiniteSet(Critical(kind, vs)) /\ Cardinality(Critical(kind, vs)) \in Nat
      /\ IsFiniteSet(Warnings(kind, vs)) /\ Cardinality(Warnings(kind, vs)) \in Nat
      /\ IsFiniteSet(Good(kind, vs)) /\ Cardinality(Good(kind, vs)) \in Nat
  BY <1>1, FindingsFinite
<1>5. /\ Cardinality(Warnings(kind, vs)) <= Cardinality(Warnings(kind, wires))
      /\ Cardinality(Warnings(kind, vs)) # Cardinality(Warnings(kind, wires))
  BY <1>2, <1>3, FS_Subset
<1>6. Cardinality(Good(kind, wires)) <= Cardinality(Good(kind, vs))
  BY <1>2, <1>4, FS_Subset
<1> DEFINE Sum(w) == 80 - 25 * Cardinality(Critical(kind, w))
                       - 10 * Cardinality(Warnings(kind, w))
                       + 6 * Cardinality(Good(kind, w))
<1>7. Sum(wires) \in Int /\ Sum(vs) \in Int /\ Sum(wires) < Sum(vs)
  BY <1>2, <1>3, <1>4, <1>5, <1>6
<1>8. kind # <<>>
  BY <1>1
<1>9. /\ ComputeScore(kind, wires) = Greatest({0, Least({100, Sum(wires)})})
      /\ ComputeScore(kind, vs) = Greatest({0, Least({100, Sum(vs)})})
  BY <1>8 DEF ComputeScore
<1> DEFINE a == Sum(wires)
           b == Sum(vs)
           s == Greatest({0, Least({100, a})})
           t == Greatest({0, Least({100, b})})
<1>10. a \in Int /\ b \in Int /\ a < b /\ ComputeScore(kind, wires) = s /\ ComputeScore(kind, vs) = t
  BY <1>7, <1>9
<1> HIDE DEF a, b, Sum
<1>11. /\ s \in 0 .. 100 /\ (a >= 100 => s = 100) /\ (a <= 0 => s = 0) /\ (a \in 0 .. 100 => s = a)
       /\ t \in 0 .. 100 /\ (b >= 100 => t = 100) /\ (b <= 0 => t = 0) /\ (b \in 0 .. 100 => t = b)
  BY <1>10, ScoreIsKept
<1> HIDE DEF s, t
<1>12. t > s \/ t = 100 \/ t = 0
  BY <1>10, <1>11
<1>. QED  BY <1>10, <1>12 DEF vs
-----------------------------------------------------------------------------
(* The import.                                                             *)

\* What is live is a list of hosts with so many pots each.
LEMMA LiveIs ==
  ASSUME NEW live \in Live
  PROVE  /\ \E h \in 0 .. MaxHosts : DOMAIN live.host = 1 .. h
         /\ \A i \in DOMAIN live.host : i \in Nat /\ 1 <= i /\ live.host[i].pots \in 0 .. MaxPots
         /\ live.strays \in BOOLEAN
<1> DEFINE Machine == [pots : 0 .. MaxPots, la : BOOLEAN, windows : BOOLEAN]
<1>1. PICK h \in 0 .. MaxHosts : live.host \in [1 .. h -> Machine]
  BY DEF Live
<1>2. DOMAIN live.host = 1 .. h
  BY <1>1
<1>3. \A i \in 1 .. h : live.host[i] \in Machine
  BY <1>1
<1>4. \A i \in 1 .. h : i \in Nat /\ 1 <= i
  BY ShapesAssumption
<1>5. live.strays \in BOOLEAN
  BY DEF Live
<1>. QED  BY <1>2, <1>3, <1>4, <1>5

\* The numbers of a host, its analyser and its pots follow those of the chain.
LEMMA NumbersAre ==
  ASSUME NEW i \in Nat, 1 <= i
  PROVE  /\ HostNode(i) \in Nat /\ HostNode(i) >= 5
         /\ LaNode(i) = HostNode(i) + 1
         /\ \A p \in Nat : PotNode(i, p) = HostNode(i) + 1 + p
         /\ \A h \in Nat : i <= h => HostNode(i) <= HostNode(h) /\ HostNode(h) \in Nat
<1>1. MaxPots \in Nat /\ Block \in Nat /\ Block >= 5
  BY ShapesAssumption DEF Block
<1>2. \A j \in Nat : HostNode(j) = Block * j /\ HostNode(j) \in Nat
  BY <1>1 DEF HostNode
<1>3. ASSUME NEW j \in Nat, NEW k \in Nat, j < k PROVE HostNode(j) + Block <= HostNode(k)
  BY <1>1, <1>2, <1>3, ProductGrows
<1>4. HostNode(i) >= 5
  <2>1. 0 < i /\ HostNode(0) \in Nat /\ HostNode(0) + Block <= HostNode(i)
    <3>1. 0 \in Nat /\ 0 < i
      OBVIOUS
    <3>. QED  BY <1>2, <1>3, <3>1
  <2>. QED  BY <1>1, <1>2, <2>1
<1>5. ASSUME NEW h \in Nat, i <= h PROVE HostNode(i) <= HostNode(h)
  <2>1. CASE i = h
    BY <1>2, <2>1
  <2>2. CASE i # h
    <3>1. HostNode(i) + Block <= HostNode(h)
      BY <1>3, <1>5, <2>2
    <3>. QED  BY <1>1, <1>2, <3>1
  <2>. QED  BY <2>1, <2>2
<1>6. LaNode(i) = HostNode(i) + 1 /\ \A p \in Nat : PotNode(i, p) = HostNode(i) + 1 + p
  BY DEF LaNode, PotNode, HostNode
<1>. QED  BY <1>2, <1>4, <1>5, <1>6

\* The cards of an import.
LEMMA ImportedCards ==
  ASSUME NEW live \in Live
  PROVE  DOMAIN ImportedKinds(live) =
           {Inet, Fw, Router} \union (IF HasDeps(live) THEN {Dmz} ELSE {})
           \union {HostNode(i) : i \in DOMAIN live.host}
           \union {LaNode(i) : i \in {i \in DOMAIN live.host : HasLa(live, i)}}
           \union UNION {{PotNode(i, p) : p \in 1 .. live.host[i].pots} : i \in DOMAIN live.host}
BY DEF ImportedKinds

\* There are finitely many.
LEMMA ImportedFinite ==
  ASSUME NEW live \in Live
  PROVE  IsFiniteSet(DOMAIN ImportedKinds(live)) /\ DOMAIN ImportedKinds(live) \subseteq Int
<1> DEFINE N == DOMAIN ImportedKinds(live)
<1>1. PICK h \in 0 .. MaxHosts : DOMAIN live.host = 1 .. h
  BY LiveIs
<1>2. MaxPots \in Nat /\ h \in Nat
  BY ShapesAssumption
<1>3. HostNode(h) \in Nat
  BY <1>2, ShapesAssumption DEF HostNode, Block
<1> DEFINE top == HostNode(h) + MaxPots + 5
<1>4. top \in Nat
  BY <1>2, <1>3
<1>5. ASSUME NEW i \in DOMAIN live.host
      PROVE  /\ HostNode(i) \in 1 .. top /\ LaNode(i) \in 1 .. top
             /\ \A p \in 1 .. live.host[i].pots : PotNode(i, p) \in 1 .. top
  <2>1. i \in Nat /\ 1 <= i /\ i <= h /\ live.host[i].pots \in 0 .. MaxPots
    BY <1>1, <1>2, LiveIs
  <2>2. /\ HostNode(i) \in Nat /\ 5 <= HostNode(i) /\ HostNode(i) <= HostNode(h)
        /\ LaNode(i) = HostNode(i) + 1
        /\ \A p \in Nat : PotNode(i, p) = HostNode(i) + 1 + p
    BY <1>2, <2>1, NumbersAre
  <2>3. \A p \in 1 .. live.host[i].pots : p \in Nat /\ 1 <= p /\ p <= MaxPots
    BY <1>2, <2>1
  <2>. QED  BY <1>2, <1>3, <2>2, <2>3
<1>6. {Inet, Fw, Router, Dmz} \subseteq 1 .. top
  BY <1>2, <1>3 DEF Inet, Fw, Router, Dmz
<1> HIDE DEF top
<1>7. N \in SUBSET (1 .. top)
  <2>1. /\ {HostNode(i) : i \in DOMAIN live.host} \subseteq 1 .. top
        /\ {LaNode(i) : i \in {i \in DOMAIN live.host : HasLa(live, i)}} \subseteq 1 .. top
    BY <1>5
  <2>2. UNION {{PotNode(i, p) : p \in 1 .. live.host[i].pots} : i \in DOMAIN live.host}
          \subseteq 1 .. top
    BY <1>5
  <2>3. {Inet, Fw, Router} \union (IF HasDeps(live) THEN {Dmz} ELSE {}) \subseteq 1 .. top
    BY <1>6
  <2>. QED  BY <2>1, <2>2, <2>3, ImportedCards
<1>8. IsFiniteSet(1 .. top)
  <2>1. 1 \in Int /\ top \in Int
    BY <1>4
  <2>. QED  BY <2>1, FS_Interval
<1> HIDE DEF N
<1>9. IsFiniteSet(N)
  BY <1>7, <1>8, FS_Subset
<1>10. N \subseteq Int
  BY <1>4, <1>7
<1>. QED  BY <1>9, <1>10 DEF N

\* Every wire that is made leads from an older card to a younger one, and so
\* none of them is dropped.
LEMMA ImportedWiresAre ==
  ASSUME NEW live \in Live
  PROVE  /\ Wire(Inet, Fw, "link") \in ImportedWires(live)
         /\ Wire(Fw, Router, "link") \in ImportedWires(live)
         /\ HasDeps(live) => Wire(Router, Dmz, "link") \in ImportedWires(live)
         /\ \A i \in DOMAIN live.host :
              /\ Wire(Router, HostNode(i), "link") \in ImportedWires(live)
              /\ HasLa(live, i) => Wire(HostNode(i), LaNode(i), "link") \in ImportedWires(live)
              /\ \A p \in 1 .. live.host[i].pots :
                   IF HasLa(live, i)
                   THEN Wire(LaNode(i), PotNode(i, p), "link") \in ImportedWires(live)
                   ELSE Wire(HostNode(i), PotNode(i, p), "link") \in ImportedWires(live)
<1> DEFINE W == {Wire(Inet, Fw, "link"), Wire(Fw, Router, "link")}
                \union ZoneWires(live)
                \union {Wire(Router, HostNode(i), "link") : i \in DOMAIN live.host}
                \union {Wire(HostNode(i), LaNode(i), "link") :
                          i \in {i \in DOMAIN live.host : HasLa(live, i)}}
                \union UNION {PotWires(live, i) : i \in DOMAIN live.host}
<1>1. ImportedWires(live) = Unique(W)
  BY DEF ImportedWires
<1>2. \A a, b \in Int : a < b /\ Wire(a, b, "link") \in W => Wire(a, b, "link") \in Unique(W)
  BY DEF Unique, Wire
<1>3. ASSUME NEW i \in DOMAIN live.host, NEW p \in 1 .. live.host[i].pots
      PROVE  IF HasLa(live, i) THEN Wire(LaNode(i), PotNode(i, p), "link") \in W
             ELSE Wire(HostNode(i), PotNode(i, p), "link") \in W
  <2>1. IF HasLa(live, i) THEN Wire(LaNode(i), PotNode(i, p), "link") \in PotWires(live, i)
        ELSE Wire(HostNode(i), PotNode(i, p), "link") \in PotWires(live, i)
    BY DEF PotWires
  <2>. QED  BY <2>1
<1>4. /\ Wire(Inet, Fw, "link") \in W /\ Wire(Fw, Router, "link") \in W
      /\ HasDeps(live) => Wire(Router, Dmz, "link") \in W
      /\ \A i \in DOMAIN live.host :
           /\ Wire(Router, HostNode(i), "link") \in W
           /\ HasLa(live, i) => Wire(HostNode(i), LaNode(i), "link") \in W
  BY DEF ZoneWires
<1>5. \A i \in DOMAIN live.host :
        /\ HostNode(i) \in Int /\ LaNode(i) \in Int /\ Router < HostNode(i)
        /\ HostNode(i) < LaNode(i)
        /\ \A p \in 1 .. live.host[i].pots :
             /\ PotNode(i, p) \in Int /\ LaNode(i) < PotNode(i, p)
             /\ HostNode(i) < PotNode(i, p)
  <2> TAKE i \in DOMAIN live.host
  <2>1. i \in Nat /\ 1 <= i /\ live.host[i].pots \in 0 .. MaxPots /\ MaxPots \in Nat
    BY LiveIs, ShapesAssumption
  <2>2. /\ HostNode(i) \in Nat /\ 5 <= HostNode(i) /\ LaNode(i) = HostNode(i) + 1
        /\ \A p \in Nat : PotNode(i, p) = HostNode(i) + 1 + p
    BY <2>1, NumbersAre
  <2>3. \A p \in 1 .. live.host[i].pots : p \in Nat /\ 1 <= p
    BY <2>1
  <2>. QED  BY <2>2, <2>3 DEF Router
<1>6. Inet < Fw /\ Fw < Router /\ Router < Dmz /\ {Inet, Fw, Router, Dmz} \subseteq Int
  BY DEF Inet, Fw, Router, Dmz
<1> HIDE DEF W
<1>. QED  BY <1>1, <1>2, <1>3, <1>4, <1>5, <1>6

\* Whatever is wired to what was reached is reached.
LEMMA HopReaches ==
  ASSUME NEW S, NEW a \in S, NEW b \in Nodes, NEW t, a # b, Wire(a, b, t) \in wires
  PROVE  b \in ReachedFrom(S)
<1>1. Ends(Wire(a, b, t)) = {a, b}
  BY DEF Ends, Wire
<1>2. b \in Nbrs(kind, wires, a)
  BY <1>1 DEF Nbrs, Nodes
<1>. QED  BY <1>2 DEF ReachedFrom

LEMMA ReachKeeps ==
  ASSUME NEW S, S \subseteq Nodes
  PROVE  S \subseteq ReachedFrom(S) /\ ReachedFrom(S) \subseteq Nodes
BY DEF ReachedFrom, Nbrs, Nodes

\* An import is one network.
LEMMA ImportHangsTogether ==
  ASSUME NEW live \in Live, kind = ImportedKinds(live), wires = ImportedWires(live)
  PROVE  ImportIsOneNetwork
<1> DEFINE R1 == ReachedFrom({Inet})
           R2 == ReachedFrom(R1)
           R3 == ReachedFrom(R2)
           R4 == ReachedFrom(R3)
           R5 == ReachedFrom(R4)
<1>1. Nodes = {Inet, Fw, Router} \union (IF HasDeps(live) THEN {Dmz} ELSE {})
           \union {HostNode(i) : i \in DOMAIN live.host}
           \union {LaNode(i) : i \in {i \in DOMAIN live.host : HasLa(live, i)}}
           \union UNION {{PotNode(i, p) : p \in 1 .. live.host[i].pots} : i \in DOMAIN live.host}
  BY ImportedCards DEF Nodes
<1>2. /\ {Inet} \subseteq R1 /\ R1 \subseteq R2 /\ R2 \subseteq R3 /\ R3 \subseteq R4 /\ R4 \subseteq R5
      /\ R5 \subseteq Nodes
  <2>1. {Inet} \subseteq Nodes
    BY <1>1
  <2>2. {Inet} \subseteq R1 /\ R1 \subseteq Nodes
    BY <2>1, ReachKeeps
  <2> HIDE DEF R1
  <2>3. R1 \subseteq R2 /\ R2 \subseteq Nodes
    BY <2>2, ReachKeeps
  <2> HIDE DEF R2
  <2>4. R2 \subseteq R3 /\ R3 \subseteq Nodes
    BY <2>3, ReachKeeps
  <2> HIDE DEF R3
  <2>5. R3 \subseteq R4 /\ R4 \subseteq Nodes
    BY <2>4, ReachKeeps
  <2> HIDE DEF R4
  <2>6. R4 \subseteq R5 /\ R5 \subseteq Nodes
    BY <2>5, ReachKeeps
  <2>. QED  BY <2>2, <2>3, <2>4, <2>5, <2>6
<1>3. \A i \in DOMAIN live.host :
        /\ HostNode(i) \in Nat /\ HostNode(i) >= 5 /\ LaNode(i) = HostNode(i) + 1
        /\ \A p \in 1 .. live.host[i].pots : p \in Nat /\ 1 <= p /\ PotNode(i, p) = HostNode(i) + 1 + p
  <2> TAKE i \in DOMAIN live.host
  <2>1. i \in Nat /\ 1 <= i /\ live.host[i].pots \in 0 .. MaxPots /\ MaxPots \in Nat
    BY LiveIs, ShapesAssumption
  <2>2. \A p \in 1 .. live.host[i].pots : p \in Nat /\ 1 <= p
    BY <2>1
  <2>. QED  BY <2>1, <2>2, NumbersAre
<1>4. Fw \in R1
  <2>1. Inet # Fw /\ Fw \in Nodes /\ Wire(Inet, Fw, "link") \in wires /\ Inet \in {Inet}
    BY <1>1, ImportedWiresAre DEF Inet, Fw
  <2>. QED  BY <2>1, HopReaches
<1>5. Router \in R2
  <2>1. Fw # Router /\ Router \in Nodes /\ Wire(Fw, Router, "link") \in wires
    BY <1>1, ImportedWiresAre DEF Fw, Router
  <2> HIDE DEF R1
  <2>. QED  BY <1>4, <2>1, HopReaches
<1>6. HasDeps(live) => Dmz \in R3
  <2>1. HasDeps(live) => Dmz \in Nodes /\ Wire(Router, Dmz, "link") \in wires
    BY <1>1, ImportedWiresAre
  <2>2. Router # Dmz
    BY DEF Router, Dmz
  <2> HIDE DEF R2
  <2>. QED  BY <1>5, <2>1, <2>2, HopReaches
<1>7. ASSUME NEW i \in DOMAIN live.host PROVE HostNode(i) \in R3
  <2>1. HostNode(i) \in Nodes /\ Wire(Router, HostNode(i), "link") \in wires
    BY <1>1, ImportedWiresAre
  <2>2. Router # HostNode(i)
    BY <1>3 DEF Router
  <2> HIDE DEF R2
  <2>. QED  BY <1>5, <2>1, <2>2, HopReaches
<1>8. ASSUME NEW i \in DOMAIN live.host, HasLa(live, i) PROVE LaNode(i) \in R4
  <2>1. LaNode(i) \in Nodes /\ Wire(HostNode(i), LaNode(i), "link") \in wires
    BY <1>1, <1>8, ImportedWiresAre
  <2>2. LaNode(i) # HostNode(i)
    BY <1>3
  <2> HIDE DEF R3
  <2>. QED  BY <1>7, <2>1, <2>2, HopReaches
<1>9. ASSUME NEW i \in DOMAIN live.host, NEW p \in 1 .. live.host[i].pots
      PROVE  PotNode(i, p) \in R5
  <2>1. PotNode(i, p) \in Nodes
    BY <1>1
  <2>2. PotNode(i, p) # HostNode(i) /\ PotNode(i, p) # LaNode(i)
    BY <1>3
  <2>3. CASE HasLa(live, i)
    <3>1. Wire(LaNode(i), PotNode(i, p), "link") \in wires
      BY <2>3, ImportedWiresAre
    <3> HIDE DEF R4
    <3>. QED  BY <1>8, <2>1, <2>2, <2>3, <3>1, HopReaches
  <2>4. CASE ~HasLa(live, i)
    <3>1. Wire(HostNode(i), PotNode(i, p), "link") \in wires
      BY <2>4, ImportedWiresAre
    <3>2. HostNode(i) \in R4
      BY <1>2, <1>7
    <3> HIDE DEF R4
    <3>. QED  BY <2>1, <2>2, <3>1, <3>2, HopReaches
  <2>. QED  BY <2>3, <2>4
<1> HIDE DEF R1, R2, R3, R4, R5
<1>10. Nodes \subseteq R5
  <2>1. {Inet, Fw, Router} \subseteq R5
    BY <1>2, <1>4, <1>5
  <2>2. HasDeps(live) => Dmz \in R5
    BY <1>2, <1>6
  <2>3. \A i \in DOMAIN live.host : HostNode(i) \in R5
    BY <1>2, <1>7
  <2>4. \A i \in DOMAIN live.host : HasLa(live, i) => LaNode(i) \in R5
    BY <1>2, <1>8
  <2>5. \A i \in DOMAIN live.host : \A p \in 1 .. live.host[i].pots : PotNode(i, p) \in R5
    BY <1>9
  <2>. QED  BY <1>1, <2>1, <2>2, <2>3, <2>4, <2>5
<1>. QED  BY <1>2, <1>10 DEF ImportIsOneNetwork, R1, R2, R3, R4, R5
\* The wires of an import join its cards.
LEMMA ImportedEnds ==
  ASSUME NEW live \in Live, NEW e \in ImportedWires(live)
  PROVE  Ends(e) \subseteq DOMAIN ImportedKinds(live)
<1> DEFINE N == DOMAIN ImportedKinds(live)
<1>1. /\ {Inet, Fw, Router} \subseteq N /\ (HasDeps(live) => Dmz \in N)
      /\ \A i \in DOMAIN live.host :
           /\ HostNode(i) \in N
           /\ HasLa(live, i) => LaNode(i) \in N
           /\ \A p \in 1 .. live.host[i].pots : PotNode(i, p) \in N
  <2>1. {Inet, Fw, Router} \subseteq N /\ (HasDeps(live) => Dmz \in N)
    BY ImportedCards
  <2>2. \A i \in DOMAIN live.host : HostNode(i) \in N /\ (HasLa(live, i) => LaNode(i) \in N)
    BY ImportedCards
  <2>3. ASSUME NEW i \in DOMAIN live.host, NEW p \in 1 .. live.host[i].pots
        PROVE  PotNode(i, p) \in N
    <3> DEFINE P == UNION {{PotNode(j, q) : q \in 1 .. live.host[j].pots} :
                             j \in DOMAIN live.host}
    <3>1. PotNode(i, p) \in P
      OBVIOUS
    <3>2. P \subseteq N
      <4> HIDE DEF N
      <4>. QED  BY ImportedCards DEF N
    <3>. QED  BY <3>1, <3>2
  <2>. QED  BY <2>1, <2>2, <2>3
<1>2. \A a, b, t : Ends(Wire(a, b, t)) = {a, b}
  BY DEF Ends, Wire
<1>3. ASSUME NEW i \in DOMAIN live.host, NEW p \in 1 .. live.host[i].pots PROVE HasDeps(live)
  <2>1. live.host[i].pots \in 0 .. MaxPots /\ MaxPots \in Nat
    BY LiveIs, ShapesAssumption
  <2>2. live.host[i].pots > 0
    BY <2>1
  <2>. QED  BY <2>2 DEF HasDeps
<1> HIDE DEF N
<1>4. CASE e \in {Wire(Inet, Fw, "link"), Wire(Fw, Router, "link")}
  BY <1>1, <1>2, <1>4 DEF N
<1>5. CASE e \in ZoneWires(live)
  BY <1>1, <1>2, <1>5 DEF ZoneWires, N
<1>6. CASE e \in {Wire(Router, HostNode(i), "link") : i \in DOMAIN live.host}
  BY <1>1, <1>2, <1>6 DEF N
<1>7. CASE e \in {Wire(HostNode(i), LaNode(i), "link") :
                    i \in {i \in DOMAIN live.host : HasLa(live, i)}}
  BY <1>1, <1>2, <1>7 DEF N
<1>8. CASE e \in UNION {PotWires(live, i) : i \in DOMAIN live.host}
  <2>1. PICK i \in DOMAIN live.host : e \in PotWires(live, i)
    BY <1>8
  <2>2. PICK p \in 1 .. live.host[i].pots :
          e \in IF HasLa(live, i) THEN {Wire(LaNode(i), PotNode(i, p), "link")}
                ELSE {Wire(Dmz, PotNode(i, p), "link"), Wire(HostNode(i), PotNode(i, p), "link")}
    BY <2>1 DEF PotWires
  <2>3. Dmz \in N
    BY <1>1, <1>3
  <2>. QED  BY <1>1, <1>2, <2>2, <2>3 DEF N
<1>. QED  BY <1>4, <1>5, <1>6, <1>7, <1>8 DEF ImportedWires, Unique
-----------------------------------------------------------------------------
(* The templates.                                                          *)

\* When there is nothing to warn of: a firewall, the Internet wired to firewalls
\* only, honeypots and zones beside what guards them, and no card alone.
LEMMA SoundWhen ==
  ASSUME NEW kinds, NEW ws,
         \E n \in DOMAIN kinds : kinds[n] = "firewall",
         \A e \in ws : (\E i \in Ends(e) : kinds[i] = "internet") =>
                         \A m \in Ends(e) : kinds[m] \in {"internet", "firewall"},
         \A n \in DOMAIN kinds : \E e \in ws : n \in Ends(e),
         \A n \in DOMAIN kinds : kinds[n] = "honeypot" =>
           \E m \in DOMAIN kinds : /\ m # n /\ kinds[m] \in {"firewall", "router", "dmz"}
                                   /\ \E e \in ws : Ends(e) = {n, m},
         \A n \in DOMAIN kinds : kinds[n] = "dmz" =>
           \E m \in DOMAIN kinds : /\ m # n /\ kinds[m] \in {"firewall", "router"}
                                   /\ \E e \in ws : Ends(e) = {n, m}
  PROVE  Critical(kinds, ws) = {} /\ Warnings(kinds, ws) = {}
<1>1. Unwalled(kinds) = {}
  BY DEF Unwalled, If, OfKind
<1>2. Exposed(kinds, ws) = {}
  BY DEF Exposed, OfKind, Nbrs, Hosts
<1>3. OpenData(kinds, ws) = {}
  BY DEF OpenData, OfKind, Beside, Nbrs
<1>4. Through(kinds, ws, "allow", "allowed") = {}
  BY DEF Through, InternetWires, Internal
<1>5. Without(kinds, ws, "honeypot", {"firewall", "router", "dmz"}, "unsegmented") = {}
  <2>1. ASSUME NEW n \in OfKind(kinds, "honeypot")
        PROVE  Beside(kinds, ws, n, {"firewall", "router", "dmz"})
    <3>1. n \in DOMAIN kinds /\ kinds[n] = "honeypot"
      BY DEF OfKind
    <3>2. PICK m \in DOMAIN kinds : /\ m # n /\ kinds[m] \in {"firewall", "router", "dmz"}
                                   /\ \E e \in ws : Ends(e) = {n, m}
      BY <3>1
    <3>. QED  BY <3>2 DEF Beside, Nbrs
  <2>. QED  BY <2>1 DEF Without
<1>6. Without(kinds, ws, "dmz", {"firewall", "router"}, "unguarded") = {}
  <2>1. ASSUME NEW n \in OfKind(kinds, "dmz")
        PROVE  Beside(kinds, ws, n, {"firewall", "router"})
    <3>1. n \in DOMAIN kinds /\ kinds[n] = "dmz"
      BY DEF OfKind
    <3>2. PICK m \in DOMAIN kinds : /\ m # n /\ kinds[m] \in {"firewall", "router"}
                                   /\ \E e \in ws : Ends(e) = {n, m}
      BY <3>1
    <3>. QED  BY <3>2 DEF Beside, Nbrs
  <2>. QED  BY <2>1 DEF Without
<1>7. {<<"isolated", n>> : n \in Isolated(kinds, ws)} = {}
  BY DEF Isolated
<1>8. Critical(kinds, ws) = {}
  BY <1>1, <1>2, <1>3, <1>4, PartsOfAdvice
<1>9. Warnings(kinds, ws) = {}
  BY <1>5, <1>6, <1>7, PartsOfAdvice
<1>. QED  BY <1>8, <1>9

\* So it is in each of the templates.
LEMMA TemplateIsSound ==
  ASSUME NEW t \in Templates
  PROVE  /\ IsFiniteSet(DOMAIN t.kinds) /\ DOMAIN t.kinds \subseteq Int
         /\ \A e \in t.links : Ends(e) \subseteq DOMAIN t.kinds
         /\ Critical(t.kinds, t.links) = {} /\ Warnings(t.kinds, t.links) = {}
<1>1. \A a, b, s : Ends(Wire(a, b, s)) = {a, b}
  BY DEF Ends, Wire
<1>2. IsFiniteSet(1 .. 5) /\ IsFiniteSet(1 .. 7)
  <2>1. 1 \in Int /\ 5 \in Int
    OBVIOUS
  <2>. QED  BY <2>1, SevenLayers, FS_Interval
<1>3. CASE t = [kinds |-> <<"internet", "firewall", "dmz", "honeypot", "switch", "linux", "database">>,
                links |-> {Wire(1, 2, "deny"), Wire(2, 3, "allow"), Wire(3, 4, "monitor"),
                           Wire(2, 5, "link"), Wire(5, 6, "link"), Wire(6, 7, "trust")}]
  <2> DEFINE k == t.kinds
             w == t.links
  <2>1. /\ DOMAIN k = 1 .. 7
        /\ k[1] = "internet" /\ k[2] = "firewall" /\ k[3] = "dmz" /\ k[4] = "honeypot"
        /\ k[5] = "switch" /\ k[6] = "linux" /\ k[7] = "database"
    BY <1>3
  <2>2. w = {Wire(1, 2, "deny"), Wire(2, 3, "allow"), Wire(3, 4, "monitor"),
             Wire(2, 5, "link"), Wire(5, 6, "link"), Wire(6, 7, "trust")}
    BY <1>3
  <2> HIDE DEF k, w
  <2>3. \A e \in w : Ends(e) \subseteq 1 .. 7
    BY <1>1, <2>2
  <2>4. \A e \in w : (\E i \in Ends(e) : k[i] = "internet") =>
                       \A m \in Ends(e) : k[m] \in {"internet", "firewall"}
    BY <1>1, <2>1, <2>2
  <2>5. \A n \in 1 .. 7 : \E e \in w : n \in Ends(e)
    BY <1>1, <2>2
  <2>6. \A n \in 1 .. 7 : k[n] = "honeypot" => n = 4
    BY <2>1
  <2>7. \A n \in 1 .. 7 : k[n] = "dmz" => n = 3
    BY <2>1
  <2>8. (\E e \in w : Ends(e) = {4, 3}) /\ (\E e \in w : Ends(e) = {3, 2})
    BY <1>1, <2>2
  <2>9. Critical(k, w) = {} /\ Warnings(k, w) = {}
    BY <2>1, <2>4, <2>5, <2>6, <2>7, <2>8, SoundWhen
  <2>. QED  BY <1>2, <2>1, <2>3, <2>9 DEF k, w
<1>4. CASE t = [kinds |-> <<"internet", "firewall", "router", "firewall", "linux", "honeypot",
                            "loganalyzer">>,
                links |-> {Wire(1, 2, "deny"), Wire(2, 3, "link"), Wire(3, 4, "link"),
                           Wire(4, 5, "allow"), Wire(4, 6, "monitor"), Wire(6, 7, "monitor"),
                           Wire(5, 7, "monitor")}]
  <2> DEFINE k == t.kinds
             w == t.links
  <2>1. /\ DOMAIN k = 1 .. 7
        /\ k[1] = "internet" /\ k[2] = "firewall" /\ k[3] = "router" /\ k[4] = "firewall"
        /\ k[5] = "linux" /\ k[6] = "honeypot" /\ k[7] = "loganalyzer"
    BY <1>4
  <2>2. w = {Wire(1, 2, "deny"), Wire(2, 3, "link"), Wire(3, 4, "link"), Wire(4, 5, "allow"),
             Wire(4, 6, "monitor"), Wire(6, 7, "monitor"), Wire(5, 7, "monitor")}
    BY <1>4
  <2> HIDE DEF k, w
  <2>3. \A e \in w : Ends(e) \subseteq 1 .. 7
    BY <1>1, <2>2
  <2>4. \A e \in w : (\E i \in Ends(e) : k[i] = "internet") =>
                       \A m \in Ends(e) : k[m] \in {"internet", "firewall"}
    BY <1>1, <2>1, <2>2
  <2>5. \A n \in 1 .. 7 : \E e \in w : n \in Ends(e)
    BY <1>1, <2>2
  <2>6. \A n \in 1 .. 7 : k[n] = "honeypot" => n = 6
    BY <2>1
  <2>7. \A n \in 1 .. 7 : k[n] # "dmz"
    BY <2>1
  <2>8. \E e \in w : Ends(e) = {6, 4}
    BY <1>1, <2>2
  <2>9. Critical(k, w) = {} /\ Warnings(k, w) = {}
    BY <2>1, <2>4, <2>5, <2>6, <2>7, <2>8, SoundWhen
  <2>. QED  BY <1>2, <2>1, <2>3, <2>9 DEF k, w
<1>5. CASE t = [kinds |-> <<"internet", "firewall", "server", "linux", "mysql">>,
                links |-> {Wire(1, 2, "deny"), Wire(2, 3, "allow"), Wire(3, 4, "trust"),
                           Wire(4, 5, "trust")}]
  <2> DEFINE k == t.kinds
             w == t.links
  <2>1. /\ DOMAIN k = 1 .. 5
        /\ k[1] = "internet" /\ k[2] = "firewall" /\ k[3] = "server" /\ k[4] = "linux"
        /\ k[5] = "mysql"
    BY <1>5
  <2>2. w = {Wire(1, 2, "deny"), Wire(2, 3, "allow"), Wire(3, 4, "trust"), Wire(4, 5, "trust")}
    BY <1>5
  <2> HIDE DEF k, w
  <2>3. \A e \in w : Ends(e) \subseteq 1 .. 5
    BY <1>1, <2>2
  <2>4. \A e \in w : (\E i \in Ends(e) : k[i] = "internet") =>
                       \A m \in Ends(e) : k[m] \in {"internet", "firewall"}
    BY <1>1, <2>1, <2>2
  <2>5. \A n \in 1 .. 5 : \E e \in w : n \in Ends(e)
    BY <1>1, <2>2
  <2>6. \A n \in 1 .. 5 : k[n] # "honeypot" /\ k[n] # "dmz"
    BY <2>1
  <2>7. Critical(k, w) = {} /\ Warnings(k, w) = {}
    BY <2>1, <2>4, <2>5, <2>6, SoundWhen
  <2>. QED  BY <1>2, <2>1, <2>3, <2>7 DEF k, w
<1>6. CASE t = [kinds |-> <<"internet", "firewall", "dmz", "honeypot", "honeypot", "honeypot",
                            "loganalyzer">>,
                links |-> {Wire(1, 2, "deny"), Wire(2, 3, "allow"), Wire(3, 4, "monitor"),
                           Wire(3, 5, "monitor"), Wire(3, 6, "monitor"), Wire(4, 7, "monitor"),
                           Wire(5, 7, "monitor"), Wire(6, 7, "monitor")}]
  <2> DEFINE k == t.kinds
             w == t.links
  <2>1. /\ DOMAIN k = 1 .. 7
        /\ k[1] = "internet" /\ k[2] = "firewall" /\ k[3] = "dmz" /\ k[4] = "honeypot"
        /\ k[5] = "honeypot" /\ k[6] = "honeypot" /\ k[7] = "loganalyzer"
    BY <1>6
  <2>2. w = {Wire(1, 2, "deny"), Wire(2, 3, "allow"), Wire(3, 4, "monitor"),
             Wire(3, 5, "monitor"), Wire(3, 6, "monitor"), Wire(4, 7, "monitor"),
             Wire(5, 7, "monitor"), Wire(6, 7, "monitor")}
    BY <1>6
  <2> HIDE DEF k, w
  <2>3. \A e \in w : Ends(e) \subseteq 1 .. 7
    BY <1>1, <2>2
  <2>4. \A e \in w : (\E i \in Ends(e) : k[i] = "internet") =>
                       \A m \in Ends(e) : k[m] \in {"internet", "firewall"}
    BY <1>1, <2>1, <2>2
  <2>5. \A n \in 1 .. 7 : \E e \in w : n \in Ends(e)
    BY <1>1, <2>2
  <2>6. \A n \in 1 .. 7 : k[n] = "honeypot" => n \in 4 .. 6
    BY <2>1
  <2>7. \A n \in 1 .. 7 : k[n] = "dmz" => n = 3
    BY <2>1
  <2>8. (\A n \in 4 .. 6 : \E e \in w : Ends(e) = {n, 3}) /\ (\E e \in w : Ends(e) = {3, 2})
    BY <1>1, <2>2
  <2>9. Critical(k, w) = {} /\ Warnings(k, w) = {}
    BY <2>1, <2>4, <2>5, <2>6, <2>7, <2>8, SoundWhen
  <2>. QED  BY <1>2, <2>1, <2>3, <2>9 DEF k, w
<1>. QED  BY <1>3, <1>4, <1>5, <1>6 DEF Templates
-----------------------------------------------------------------------------
(* The drawings there are.                                                 *)

\* A drawing is well made; nothing that could be dragged is off the grid; and
\* what was laid out, loaded or imported is as the code builds it.
ShapesInv ==
  /\ Drawing
  /\ last.step = "none" => \A n \in Nodes : x[n] % 50 = 0
  /\ last.step \in {"layout", "template", "import"} => x = LaidX(kind) /\ y = LaidY(kind)
  /\ last.step = "template" => \E t \in Templates : kind = t.kinds /\ wires = t.links
  /\ last.step = "import" =>
       \E live \in Live : kind = ImportedKinds(live) /\ wires = ImportedWires(live)

LEMMA ShapesInit == Init => ShapesInv
<1> SUFFICES ASSUME Init PROVE ShapesInv
  OBVIOUS
<1>1. last.step = "none"
  BY DEF Init
<1>2. ASSUME kind \in [1 .. Cards -> Kinds \union {"linux"}],
             x \in [1 .. Cards -> Xs \union {0}], y = [n \in 1 .. Cards |-> 0],
             pinned \in [1 .. Cards -> BOOLEAN], picked \in SUBSET (1 .. Cards),
             \A e \in wires : Ends(e) \subseteq 1 .. Cards
      PROVE  ShapesInv
  <2>1. Nodes = 1 .. Cards /\ 1 \in Int /\ Cards \in Int
    BY <1>2, ShapesAssumption DEF Nodes
  <2>2. IsFiniteSet(Nodes) /\ Nodes \subseteq Int
    BY <2>1, FS_Interval
  <2>3. \A n \in Nodes : x[n] \in Int /\ x[n] % 50 = 0
    <3>1. \A a \in Xs \union {0} : a \in Int /\ a % 50 = 0
      BY ShapesAssumption
    <3>2. \A n \in Nodes : x[n] \in Xs \union {0}
      BY <1>2, <2>1
    <3>. QED  BY <3>1, <3>2
  <2>4. TypeOK
    BY <1>2, <2>1, <2>3 DEF TypeOK
  <2>. QED  BY <1>1, <2>2, <2>3, <2>4 DEF ShapesInv, Drawing
<1>3. \A p \in Pairs : \A t : /\ Ends(Wire(p[1], p[2], t)) \subseteq 1 .. Cards
                              /\ Ends(Wire(p[2], p[1], t)) \subseteq 1 .. Cards
  BY DEF Pairs, Ends, Wire
<1>4. CASE Placed
  <2>1. kind \in [1 .. Cards -> Kinds \union {"linux"}] /\ x \in [1 .. Cards -> Xs \union {0}]
    BY <1>4 DEF Placed
  <2>2. \A e \in wires : Ends(e) \subseteq 1 .. Cards
    <3>1. PICK S \in SUBSET Pairs : wires = {Wire(p[1], p[2], "link") : p \in S}
      BY <1>4 DEF Placed
    <3>. QED  BY <1>3, <3>1
  <2>. QED  BY <1>2, <1>4, <2>1, <2>2 DEF Placed
<1>5. CASE Designed
  <2>1. /\ kind \in [1 .. Cards -> Kinds \union {"linux"}] /\ x \in [1 .. Cards -> Xs \union {0}]
        /\ y = [n \in 1 .. Cards |-> 0] /\ pinned \in [1 .. Cards -> BOOLEAN]
        /\ picked \in SUBSET (1 .. Cards)
    BY <1>5 DEF Designed
  <2>2. \A e \in wires : Ends(e) \subseteq 1 .. Cards
    <3>1. PICK S \in [Pairs -> {"none", "link", "back", "allow", "deny"}] :
            wires = {IF S[p] = "back" THEN Wire(p[2], p[1], "monitor")
                     ELSE Wire(p[1], p[2], S[p]) : p \in {p \in Pairs : S[p] # "none"}}
      BY <1>5 DEF Designed
    <3>. QED  BY <1>3, <3>1
  <2>. QED  BY <1>2, <2>1, <2>2
<1>6. CASE Blank
  <2>1. Nodes = {}
    BY <1>6 DEF Blank, Nodes
  <2>2. DOMAIN x = {} /\ DOMAIN y = {} /\ DOMAIN pinned = {} /\ wires = {} /\ picked = {}
    BY <1>6 DEF Blank
  <2>. QED  BY <1>1, <2>1, <2>2, FS_EmptySet DEF ShapesInv, Drawing, TypeOK
<1>. QED  BY <1>4, <1>5, <1>6 DEF Init

\* What is built at once is a drawing that is laid out.
LEMMA ReplaceDraws ==
  ASSUME NEW kinds, NEW ws, NEW step, Replace(kinds, ws, step),
         IsFiniteSet(DOMAIN kinds), DOMAIN kinds \subseteq Int,
         \A e \in ws : Ends(e) \subseteq DOMAIN kinds
  PROVE  /\ Drawing' /\ x' = LaidX(kind') /\ y' = LaidY(kind')
         /\ kind' = kinds /\ wires' = ws /\ last'.step = step
<1>1. /\ kind' = kinds /\ wires' = ws /\ x' = LaidX(kinds) /\ y' = LaidY(kinds)
      /\ pinned' = [n \in DOMAIN kinds |-> FALSE] /\ picked' = {} /\ last'.step = step
  BY DEF Replace
<1>2. Nodes' = DOMAIN kinds
  BY <1>1 DEF Nodes
<1>3. /\ DOMAIN LaidX(kinds) = DOMAIN kinds /\ DOMAIN LaidY(kinds) = DOMAIN kinds
      /\ \A n \in DOMAIN kinds : LaidX(kinds)[n] \in Int /\ LaidY(kinds)[n] \in Int
  BY LayoutSeparates
<1>4. TypeOK'
  BY <1>1, <1>2, <1>3 DEF TypeOK, Ends
<1>. QED  BY <1>1, <1>2, <1>4 DEF Drawing

\* A step that only moves cards, to whole places, leaves a drawing.
LEMMA MovingDraws ==
  ASSUME Drawing, UNCHANGED <<kind, pinned, wires, picked>>,
         DOMAIN x' = Nodes, DOMAIN y' = Nodes,
         \A n \in Nodes : x'[n] \in Int /\ y'[n] \in Int
  PROVE  Drawing'
<1>1. Nodes' = Nodes
  BY DEF Nodes
<1>. QED  BY <1>1 DEF Drawing, TypeOK, Ends

\* No step makes anything else, and each does what the hand expects.
LEMMA ShapesStep ==
  ASSUME ShapesInv, Next
  PROVE  ShapesInv' /\ PinnedStays /\ PullFadesWithDistance /\ DistributedEvenly
<1>1. /\ Drawing /\ \A n \in Nodes : x[n] % 50 = 0
      /\ DOMAIN x = Nodes /\ DOMAIN y = Nodes /\ picked \subseteq Nodes
      /\ \A n \in Nodes : x[n] \in Int /\ y[n] \in Int
  BY DEF Next, ShapesInv, Drawing, TypeOK
<1>2. ASSUME NEW i \in Nodes, NEW to \in Xs, Drag(i, to)
      PROVE  ShapesInv' /\ PinnedStays /\ PullFadesWithDistance /\ DistributedEvenly
  <2>1. PinnedStays /\ PullFadesWithDistance /\ DistributedEvenly
    BY <1>1, <1>2, DragMoves
  <2>2. /\ UNCHANGED <<kind, y, pinned, wires, picked>> /\ last'.step = "drag"
        /\ x' = IF Cardinality(picked) > 1 /\ i \in picked
                THEN MovedTogether(i, to - x[i]) ELSE Pulled(i, to - x[i])
    BY <1>2 DEF Drag
  <2> DEFINE dx == to - x[i]
  <2>3. dx \in Int /\ (dx * 3) \div 5 \in Int /\ (dx * 11) \div 50 \in Int
    BY <1>1, ShapesAssumption
  <2> HIDE DEF dx
  <2>4. /\ DOMAIN MovedTogether(i, dx) = Nodes /\ \A n \in Nodes : MovedTogether(i, dx)[n] \in Int
        /\ DOMAIN Pulled(i, dx) = Nodes /\ \A n \in Nodes : Pulled(i, dx)[n] \in Int
    BY <1>1, <2>3 DEF MovedTogether, Pulled
  <2>5. DOMAIN x' = Nodes /\ \A n \in Nodes : x'[n] \in Int
    BY <2>2, <2>4 DEF dx
  <2>6. Drawing'
    BY <1>1, <2>2, <2>5, MovingDraws
  <2>. QED  BY <2>1, <2>2, <2>6 DEF ShapesInv
<1>3. ASSUME NEW mode \in {"left", "hcenter", "right"}, Align(mode)
      PROVE  ShapesInv' /\ PinnedStays /\ PullFadesWithDistance /\ DistributedEvenly
  <2>1. /\ UNCHANGED <<kind, y, pinned, wires, picked>> /\ last'.step = "align"
        /\ Cardinality(picked) >= 2
    BY <1>3 DEF Align
  <2>2. PinnedStays /\ PullFadesWithDistance /\ DistributedEvenly
    BY <2>1 DEF PinnedStays, PullFadesWithDistance, DistributedEvenly
  <2>3. picked # {}
    BY <2>1, FS_EmptySet
  <2>4. Low \in Int /\ High \in Int
    BY <1>1, <2>3, PickedPlaces
  <2>5. /\ (High + NW) - NW \in Int
        /\ (Low + High + NW) \div 2 - NW \div 2 \in Int
    BY <2>4 DEF NW
  <2>6. DOMAIN x' = Nodes /\ \A n \in Nodes : x'[n] \in Int
    BY <1>1, <1>3, <2>4, <2>5 DEF Align
  <2>7. Drawing'
    BY <1>1, <2>1, <2>6, MovingDraws
  <2>. QED  BY <2>1, <2>2, <2>7 DEF ShapesInv
<1>4. ASSUME Distribute
      PROVE  ShapesInv' /\ PinnedStays /\ PullFadesWithDistance /\ DistributedEvenly
  <2>1. PinnedStays /\ PullFadesWithDistance /\ DistributedEvenly
    BY <1>1, <1>4, DistributeMoves
  <2>2. /\ UNCHANGED <<kind, y, pinned, wires, picked>> /\ last'.step = "distribute"
        /\ x' = [n \in Nodes |-> IF n \in picked THEN Spaced(n) ELSE x[n]]
        /\ Cardinality(picked) >= 3
    BY <1>4 DEF Distribute
  <2>3. \A n \in picked : Spaced(n) \in Int
    BY <1>1, <2>2, SpreadEvenly
  <2>4. DOMAIN x' = Nodes /\ \A n \in Nodes : x'[n] \in Int
    BY <1>1, <2>2, <2>3
  <2>5. Drawing'
    BY <1>1, <2>2, <2>4, MovingDraws
  <2>. QED  BY <2>1, <2>2, <2>5 DEF ShapesInv
<1>5. ASSUME AutoLayout
      PROVE  ShapesInv' /\ PinnedStays /\ PullFadesWithDistance /\ DistributedEvenly
  <2>1. /\ UNCHANGED <<kind, pinned, wires, picked>> /\ last'.step = "layout"
        /\ x' = LaidX(kind) /\ y' = LaidY(kind)
    BY <1>5 DEF AutoLayout
  <2>2. PinnedStays /\ PullFadesWithDistance /\ DistributedEvenly
    BY <2>1 DEF PinnedStays, PullFadesWithDistance, DistributedEvenly
  <2>3. IsFiniteSet(DOMAIN kind) /\ DOMAIN kind \subseteq Int /\ Nodes = DOMAIN kind
    BY <1>1 DEF Drawing, Nodes
  <2>4. /\ DOMAIN x' = Nodes /\ DOMAIN y' = Nodes
        /\ \A n \in Nodes : x'[n] \in Int /\ y'[n] \in Int
    BY <2>1, <2>3, LayoutSeparates
  <2>5. Drawing'
    BY <1>1, <2>1, <2>4, MovingDraws
  <2>6. x' = LaidX(kind') /\ y' = LaidY(kind')
    BY <2>1
  <2>. QED  BY <2>1, <2>2, <2>5, <2>6 DEF ShapesInv
<1>6. ASSUME LoadTemplate
      PROVE  ShapesInv' /\ PinnedStays /\ PullFadesWithDistance /\ DistributedEvenly
  <2>1. PICK t \in Templates : Replace(t.kinds, t.links, "template")
    BY <1>6 DEF LoadTemplate
  <2>2. /\ Drawing' /\ x' = LaidX(kind') /\ y' = LaidY(kind')
        /\ kind' = t.kinds /\ wires' = t.links /\ last'.step = "template"
    BY <2>1, TemplateIsSound, ReplaceDraws
  <2>3. PinnedStays /\ PullFadesWithDistance /\ DistributedEvenly
    BY <2>2 DEF PinnedStays, PullFadesWithDistance, DistributedEvenly
  <2>. QED  BY <2>2, <2>3 DEF ShapesInv
<1>7. ASSUME ImportLive
      PROVE  ShapesInv' /\ PinnedStays /\ PullFadesWithDistance /\ DistributedEvenly
  <2>1. PICK live \in Live : Replace(ImportedKinds(live), ImportedWires(live), "import")
    BY <1>7 DEF ImportLive
  <2>2. /\ Drawing' /\ x' = LaidX(kind') /\ y' = LaidY(kind')
        /\ kind' = ImportedKinds(live) /\ wires' = ImportedWires(live) /\ last'.step = "import"
    BY <2>1, ImportedFinite, ImportedEnds, ReplaceDraws
  <2>3. PinnedStays /\ PullFadesWithDistance /\ DistributedEvenly
    BY <2>2 DEF PinnedStays, PullFadesWithDistance, DistributedEvenly
  <2>. QED  BY <2>2, <2>3 DEF ShapesInv
<1>. QED  BY <1>2, <1>3, <1>4, <1>5, <1>6, <1>7 DEF Next

LEMMA ShapesInvariant == Spec => []ShapesInv
<1>1. ShapesInv /\ UNCHANGED vars => ShapesInv'
  BY DEF vars, ShapesInv, Drawing, TypeOK, Nodes, Ends
<1>2. ShapesInv /\ [Next]_vars => ShapesInv'
  BY <1>1, ShapesStep
<1>. QED  BY ShapesInit, <1>2, PTL DEF Spec

\* Whatever the drawing, its layout keeps cards apart and layers in order, its
\* wires enter by the sides that face each other, the advice does not depend on
\* the direction of a wire and is improved by wiring what is alone to a
\* firewall; and the starter templates follow that advice.
THEOREM DrawingsAreRight == Spec => []DrawnRight
<1>1. ShapesInv => DrawnRight
  <2> SUFFICES ASSUME ShapesInv PROVE DrawnRight
    OBVIOUS
  <2>1. Drawing
    BY DEF ShapesInv
  <2>2. TypeOK
    BY <2>1 DEF Drawing
  <2>3. LaidOut
    <3>1. CASE last.step \in {"layout", "template", "import"}
      BY <2>1, <3>1, LayoutIsLaidOut DEF ShapesInv
    <3>2. CASE last.step \notin {"layout", "template", "import"}
      BY <3>2 DEF LaidOut
    <3>. QED  BY <3>1, <3>2
  <2>4. TemplatesAreSound
    <3> SUFFICES ASSUME last.step = "template"
                 PROVE  Critical(kind, wires) = {} /\ Warnings(kind, wires) = {}
      BY DEF TemplatesAreSound
    <3>1. PICK t \in Templates : kind = t.kinds /\ wires = t.links
      BY DEF ShapesInv
    <3>. QED  BY <3>1, TemplateIsSound
  <2>. QED  BY <2>1, <2>2, <2>3, <2>4, SidesFace, TurningKeepsAdvice, WiringHelps DEF DrawnRight
<1>. QED  BY <1>1, ShapesInvariant, PTL

\* Whatever hosts, analysers, honeypots and strays there are, the imported
\* drawing is one network around the Internet card.
THEOREM ImportsHangTogether == Spec => []ImportIsOneNetwork
<1>1. ShapesInv => ImportIsOneNetwork
  <2> SUFFICES ASSUME ShapesInv PROVE ImportIsOneNetwork
    OBVIOUS
  <2>1. CASE last.step = "import"
    <3>1. PICK live \in Live : kind = ImportedKinds(live) /\ wires = ImportedWires(live)
      BY <2>1 DEF ShapesInv
    <3>. QED  BY <3>1, ImportHangsTogether
  <2>2. CASE last.step # "import"
    BY <2>2 DEF ImportIsOneNetwork
  <2>. QED  BY <2>1, <2>2
<1>. QED  BY <1>1, ShapesInvariant, PTL

\* However many cards there are and however they are wired, pinned and picked,
\* a drag leaves what is pinned and pulls by distance, and distributing is even.
THEOREM HandMovesAsExpected == Spec => MovesAsExpected
<1>1. ShapesInv /\ [Next]_vars => [PinnedStays /\ PullFadesWithDistance /\ DistributedEvenly]_vars
  BY ShapesStep
<1>. QED  BY <1>1, ShapesInvariant, PTL DEF Spec, MovesAsExpected
=============================================================================
