------------------------------ MODULE Collections ------------------------------
(***************************************************************************)
(* Lemmas about finite sets of things that are ordered, summed or listed,  *)
(* which the proofs of several modules need.  Those of the library take    *)
(* operators as parameters; these speak of functions and relations, and    *)
(* replace induction by the smallest counterexample.                       *)
(***************************************************************************)
EXTENDS Integers, SequencesExt, FiniteSetTheorems, NaturalsInduction,
        WellFoundedInduction, TLAPS

\* Among subsets of a finite set there is one without any smaller ones.
LEMMA SmallestExists ==
    ASSUME NEW S, IsFiniteSet(S), NEW Bad, Bad \subseteq SUBSET S, Bad # {}
    PROVE  \E T \in Bad : \A U \in Bad : U \subseteq T => U = T
  <1>1. Bad \subseteq FiniteSubsetsOf(S)
    BY FS_Subset DEF FiniteSubsetsOf
  <1>2. PICK T \in Bad : \A U \in Bad : ~(<<U, T>> \in StrictSubsetOrdering(S))
    BY <1>1, FS_StrictSubsetOrderingWellFounded, WFMin
  <1>3. ASSUME NEW U \in Bad, U \subseteq T, U # T PROVE FALSE
    <2>1. <<U, T>> \in StrictSubsetOrdering(S)
      BY <1>3 DEF StrictSubsetOrdering
    <2> QED
      BY <1>2, <2>1
  <1> QED
    BY <1>3

\* The image of a finite set is finite.
LEMMA ImageIsFinite ==
    ASSUME NEW S, IsFiniteSet(S), NEW f
    PROVE  IsFiniteSet({f[x] : x \in S})
  <1> DEFINE T == {f[x] : x \in S}
             g == [x \in S |-> f[x]]
  <1>1. g \in Surjection(S, T)
    BY DEF Surjection
  <1> HIDE DEF T, g
  <1>2. IsFiniteSet(T)
    BY <1>1, FS_Surjection
  <1> QED
    BY <1>2 DEF T

-------------------------------------------------------------------------------
\* Orders

\* A finite set in a total order has a first element: a smallest set without
\* one would have one when an element is taken from it.
LEMMA FirstExists ==
    ASSUME NEW S, IsFiniteSet(S), S # {}, NEW R,
           \A x, y \in S : <<x, y>> \in R \/ <<y, x>> \in R,
           \A x, y, z \in S : <<x, y>> \in R /\ <<y, z>> \in R => <<x, z>> \in R
    PROVE  \E m \in S : \A y \in S : <<m, y>> \in R
  <1> DEFINE Bad == {T \in SUBSET S : T # {} /\ \A m \in T : \E y \in T : <<m, y>> \notin R}
  <1>1. SUFFICES ASSUME Bad # {} PROVE FALSE
    BY <1>1
  <1>2. PICK T \in Bad : \A U \in Bad : U \subseteq T => U = T
    <2>1. Bad \subseteq SUBSET S
      OBVIOUS
    <2> HIDE DEF Bad
    <2> QED
      BY <1>1, <2>1, SmallestExists
  <1>3. T \subseteq S /\ T # {}
    BY <1>2
  <1>4. PICK x \in T : TRUE
    BY <1>3
  <1> DEFINE U == T \ {x}
  <1>5. U \subseteq S
    BY <1>3
  <1>7. U \notin Bad
    <2>1. U \subseteq T /\ U # T
      BY <1>4
    <2> HIDE DEF Bad, U
    <2> QED
      BY <1>2, <2>1
  <1>8. \A m \in T : \E y \in T : <<m, y>> \notin R
    BY <1>2
  <1>9. <<x, x>> \in R
    BY <1>3
  <1>10. CASE U = {}
    <2>1. T = {x}
      BY <1>4, <1>10
    <2>2. QED
      BY <1>8, <1>9, <2>1
  <1>11. CASE U # {}
    <2>1. PICK m \in U : \A y \in U : <<m, y>> \in R
      BY <1>5, <1>7, <1>11
    <2>2. m \in S /\ x \in S /\ m \in T
      BY <1>3, <1>5
    <2>3. CASE <<x, m>> \in R
      <3>1. \A y \in T : <<x, y>> \in R
        BY <1>3, <1>9, <2>1, <2>2, <2>3
      <3>2. QED
        BY <1>8, <3>1
    <2>4. CASE <<m, x>> \in R
      <3>1. \A y \in T : <<m, y>> \in R
        BY <2>1, <2>4
      <3>2. QED
        BY <1>8, <2>2, <3>1
    <2>5. QED
      BY <2>2, <2>3, <2>4
  <1>12. QED
    BY <1>10, <1>11

\* What Max returns.
LEMMA MaxFacts ==
    ASSUME NEW S \in SUBSET Int, IsFiniteSet(S), S # {}
    PROVE  Max(S) \in S /\ \A y \in S : Max(S) >= y
  <1> DEFINE R == {p \in Int \X Int : p[1] >= p[2]}
  <1>1. \A x, y \in Int : <<x, y>> \in R <=> x >= y
    OBVIOUS
  <1> HIDE DEF R
  <1>2. ASSUME NEW x \in S, NEW y \in S PROVE <<x, y>> \in R \/ <<y, x>> \in R
    <2>1. x \in Int /\ y \in Int
      OBVIOUS
    <2>2. QED
      BY <1>1, <2>1
  <1>3. ASSUME NEW x \in S, NEW y \in S, NEW z \in S, <<x, y>> \in R, <<y, z>> \in R
        PROVE  <<x, z>> \in R
    <2>1. x \in Int /\ y \in Int /\ z \in Int
      OBVIOUS
    <2>2. QED
      BY <1>1, <1>3, <2>1
  <1>4. PICK m \in S : \A y \in S : <<m, y>> \in R
    BY <1>2, <1>3, FirstExists
  <1>5. \A y \in S : m >= y
    BY <1>1, <1>4
  <1>6. QED
    BY <1>5 DEF Max

\* What Min returns.
LEMMA MinFacts ==
    ASSUME NEW S \in SUBSET Int, IsFiniteSet(S), S # {}
    PROVE  Min(S) \in S
  <1> DEFINE R == {p \in Int \X Int : p[1] <= p[2]}
  <1>1. \A x, y \in Int : <<x, y>> \in R <=> x <= y
    OBVIOUS
  <1> HIDE DEF R
  <1>2. ASSUME NEW x \in S, NEW y \in S PROVE <<x, y>> \in R \/ <<y, x>> \in R
    <2>1. x \in Int /\ y \in Int
      OBVIOUS
    <2>2. QED
      BY <1>1, <2>1
  <1>3. ASSUME NEW x \in S, NEW y \in S, NEW z \in S, <<x, y>> \in R, <<y, z>> \in R
        PROVE  <<x, z>> \in R
    <2>1. x \in Int /\ y \in Int /\ z \in Int
      OBVIOUS
    <2>2. QED
      BY <1>1, <1>3, <2>1
  <1>4. PICK m \in S : \A y \in S : <<m, y>> \in R
    BY <1>2, <1>3, FirstExists
  <1>5. \A y \in S : m <= y
    BY <1>1, <1>4
  <1>6. QED
    BY <1>5 DEF Min

\* The same of numbers from 0 up, finitely many or not.
LEMMA LeastFacts ==
    ASSUME NEW S \in SUBSET Nat, S # {}
    PROVE  Min(S) \in S
  <1>1. PICK m \in S : \A y \in S : <<y, m>> \notin OpToRel(<, Nat)
    BY NatLessThanWellFounded, WFMin
  <1>2. \A y \in S : ~ (y < m)
    BY <1>1, Zenon DEF OpToRel
  <1>3. \A y \in S : m <= y
    BY <1>2
  <1> QED
    BY <1>3 DEF Min

-------------------------------------------------------------------------------
\* Listings

\* What is finite can be listed in the order of a key that tells it apart.
LEMMA ListingExists ==
    ASSUME NEW S, IsFiniteSet(S), NEW K, \A x \in S : K[x] \in Int,
           \A x, y \in S : K[x] = K[y] => x = y
    PROVE  \E list \in SetToSeqs(S) :
              \A i, j \in DOMAIN list : i < j => K[list[i]] < K[list[j]]
  <1> DEFINE Sorted(list) == \A i, j \in DOMAIN list : i < j => K[list[i]] < K[list[j]]
             Bad == {T \in SUBSET S : ~ \E list \in SetToSeqs(T) : Sorted(list)}
  <1>1. SUFFICES ASSUME Bad # {} PROVE FALSE
    BY <1>1
  <1>2. PICK T \in Bad : \A U \in Bad : U \subseteq T => U = T
    <2>1. Bad \subseteq SUBSET S
      OBVIOUS
    <2> HIDE DEF Bad
    <2> QED
      BY <1>1, <2>1, SmallestExists
  <1>3. IsFiniteSet(T) /\ T \in SUBSET S
    BY <1>2, FS_Subset
  <1>4. T # {}
    <2>1. SUFFICES ASSUME T = {} PROVE \E list \in SetToSeqs(T) : Sorted(list)
      BY <1>2
    <2>2. Cardinality({}) = 0 /\ 1..0 = {}
      BY FS_EmptySet
    <2>3. [i \in {} |-> {}] \in SetToSeqs({})
      BY <2>2 DEF SetToSeqs
    <2> QED
      BY <2>1, <2>3
  <1>5. PICK m \in T : \A y \in T : K[m] >= K[y]
    <2> DEFINE R == {p \in S \X S : K[p[1]] >= K[p[2]]}
    <2>1. \A x, y \in S : <<x, y>> \in R <=> K[x] >= K[y]
      OBVIOUS
    <2> HIDE DEF R
    <2>2. ASSUME NEW x \in T, NEW y \in T PROVE <<x, y>> \in R \/ <<y, x>> \in R
      <3>1. x \in S /\ y \in S /\ K[x] \in Int /\ K[y] \in Int
        BY <1>3
      <3> QED
        BY <2>1, <3>1
    <2>3. \A x, y, z \in T : <<x, y>> \in R /\ <<y, z>> \in R => <<x, z>> \in R
      BY <1>3, <2>1
    <2>4. PICK m \in T : \A y \in T : <<m, y>> \in R
      BY <1>3, <1>4, <2>2, <2>3, FirstExists
    <2> QED
      BY <1>3, <2>1, <2>4
  <1> DEFINE U == T \ {m}
             n == Cardinality(U)
  <1>6. IsFiniteSet(U) /\ n \in Nat /\ Cardinality(T) = n + 1
    <2>1. IsFiniteSet(U) /\ Cardinality(T) \in Nat /\ n = Cardinality(T) - 1
      BY <1>3, FS_RemoveElement, FS_CardinalityType
    <2>2. n \in Nat
      BY <2>1, FS_CardinalityType
    <2> QED
      BY <2>1, <2>2
  <1>7. PICK list \in SetToSeqs(U) : Sorted(list)
    BY <1>2, <1>3, <1>5
  <1> HIDE DEF U, n
  <1>8. /\ list \in [1..n -> U]
        /\ \A i, j \in 1..n : i # j => list[i] # list[j]
        /\ \A i, j \in 1..n : i < j => K[list[i]] < K[list[j]]
    BY <1>7 DEF SetToSeqs, n
  <1> DEFINE more == [i \in 1..n + 1 |-> IF i = n + 1 THEN m ELSE list[i]]
  <1>9. \A i \in 1..n : list[i] \in T /\ list[i] # m
    BY <1>8 DEF U
  <1>10. \A i \in 1..n + 1 : more[i] = (IF i = n + 1 THEN m ELSE list[i]) /\ (i # n + 1 => i \in 1..n)
    BY <1>6
  <1>11. more \in [1..n + 1 -> T] /\ DOMAIN more = 1..n + 1
    BY <1>5, <1>9, <1>10
  <1> HIDE DEF more
  <1>12. \A i, j \in 1..n + 1 : i # j => more[i] # more[j]
    BY <1>8, <1>9, <1>10
  <1>13. ASSUME NEW i \in 1..n + 1, NEW j \in 1..n + 1, i < j
         PROVE  K[more[i]] < K[more[j]]
    <2>1. i \in 1..n /\ more[i] = list[i]
      BY <1>6, <1>10, <1>13
    <2>2. CASE j # n + 1
      BY <1>8, <1>10, <1>13, <2>1, <2>2
    <2>3. CASE j = n + 1
      <3>1. more[j] = m /\ list[i] \in T /\ list[i] # m
        BY <1>9, <1>10, <2>1, <2>3
      <3>2. K[m] \in Int /\ K[list[i]] \in Int /\ K[m] >= K[list[i]] /\ K[m] # K[list[i]]
        BY <1>3, <1>5, <3>1
      <3> QED
        BY <2>1, <3>1, <3>2
    <2> QED
      BY <2>2, <2>3
  <1>14. more \in SetToSeqs(T) /\ Sorted(more)
    BY <1>6, <1>11, <1>12, <1>13 DEF SetToSeqs
  <1> QED
    BY <1>2, <1>14

\* A listing lists all of the set, and is a sequence.
LEMMA ListingFacts ==
    ASSUME NEW S, IsFiniteSet(S), NEW list \in SetToSeqs(S)
    PROVE  /\ list \in Seq(S) /\ Len(list) = Cardinality(S) /\ DOMAIN list = 1..Len(list)
           /\ \A i \in 1..Len(list) : list[i] \in S
  <1>1. Cardinality(S) \in Nat /\ list \in [1..Cardinality(S) -> S]
    BY FS_CardinalityType DEF SetToSeqs
  <1> QED
    BY <1>1

\* How many numbers there are up to k.
LEMMA UpToFacts == \A k \in Nat : IsFiniteSet(1..k) /\ Cardinality(1..k) = k
  BY FS_Interval

Ascending(f, m) == \A i, j \in 1..m : i <= j => f[i] <= f[j]

\* g is f rearranged by p, which takes no place twice.
Rearranged(g, f, p, m) ==
    /\ \A i, j \in 1..m : p[i] = p[j] => i = j
    /\ \A i \in 1..m : g[i] = f[p[i]]

\* No rearrangement of an ascending sequence that is itself ascending is ever
\* below it: too many of its elements would be.
LEMMA NotBelow ==
    ASSUME NEW m \in Nat, NEW f \in [1..m -> Int], NEW g \in [1..m -> Int],
           NEW p \in [1..m -> 1..m], Rearranged(g, f, p, m), Ascending(f, m), Ascending(g, m)
    PROVE  \A i \in 1..m : g[i] >= f[i]
  <1> SUFFICES ASSUME NEW j \in 1..m, g[j] < f[j] PROVE FALSE
    OBVIOUS
  <1>1. /\ \A i \in 1..m : f[i] \in Int /\ g[i] \in Int /\ p[i] \in 1..m
        /\ \A i, k \in 1..m : i <= k => f[i] <= f[k]
        /\ \A i, k \in 1..m : i <= k => g[i] <= g[k]
    BY DEF Ascending
  <1>2. j \in Nat /\ j - 1 \in Nat /\ \A i \in 1..j : i \in 1..m
    OBVIOUS
  <1>3. ASSUME NEW i \in 1..j PROVE p[i] \in 1..(j-1)
    <2>1. i \in 1..m /\ i <= j /\ p[i] \in 1..m /\ g[i] = f[p[i]]
      BY <1>2 DEF Rearranged
    <2>2. g[i] <= g[j] /\ (p[i] >= j => f[j] <= f[p[i]])
      BY <1>1, <2>1
    <2>3. ~ (p[i] >= j)
      BY <1>1, <2>1, <2>2
    <2> QED
      BY <2>1, <2>3
  <1> DEFINE h == [i \in 1..j |-> p[i]]
  <1>4. h \in [1..j -> 1..(j-1)] /\ \A i, k \in 1..j : h[i] = h[k] => i = k
    BY <1>2, <1>3 DEF Rearranged
  <1> HIDE DEF h
  <1>5. h \in Injection(1..j, 1..(j-1))
    BY <1>4 DEF Injection, IsInjective
  <1>6. IsFiniteSet(1..(j-1)) /\ Cardinality(1..j) = j /\ Cardinality(1..(j-1)) = j - 1
    BY <1>2, UpToFacts
  <1>7. Cardinality(1..j) <= Cardinality(1..(j-1))
    BY <1>5, <1>6, FS_Injection
  <1> QED
    BY <1>2, <1>6, <1>7

\* There is one way to put numbers in ascending order.
LEMMA OneAscendingOrder ==
    ASSUME NEW m \in Nat, NEW f \in [1..m -> Int], NEW g \in [1..m -> Int],
           NEW p \in [1..m -> 1..m], NEW q \in [1..m -> 1..m],
           \A i \in 1..m : p[q[i]] = i /\ q[p[i]] = i /\ g[i] = f[p[i]],
           Ascending(f, m), Ascending(g, m)
    PROVE  g = f
  <1>1. Rearranged(g, f, p, m) /\ Rearranged(f, g, q, m)
    BY DEF Rearranged
  <1>2. \A i \in 1..m : g[i] >= f[i]
    BY <1>1, NotBelow
  <1>3. \A i \in 1..m : f[i] >= g[i]
    BY <1>1, NotBelow
  <1>4. \A i \in 1..m : f[i] \in Int /\ g[i] \in Int
    OBVIOUS
  <1>5. \A i \in 1..m : g[i] = f[i]
    BY <1>2, <1>3, <1>4
  <1> QED
    BY <1>5

\* A listing of a finite set lists it all.
LEMMA ListingIsOnto ==
    ASSUME NEW S, IsFiniteSet(S), NEW list \in SetToSeqs(S)
    PROVE  \A x \in S : \E i \in 1..Cardinality(S) : list[i] = x
  <1> DEFINE m == Cardinality(S)
  <1>1. m \in Nat
    BY FS_CardinalityType
  <1>2. list \in [1..m -> S] /\ \A i, j \in 1..m : i # j => list[i] # list[j]
    BY DEF SetToSeqs
  <1>3. list \in Injection(1..m, S)
    BY <1>2 DEF Injection, IsInjective
  <1>4. Cardinality(1..m) = m
    BY <1>1, UpToFacts
  <1>5. list \in Surjection(1..m, S)
    BY <1>3, <1>4, FS_Injection
  <1> QED
    BY <1>5 DEF Surjection

\* A listing puts a key of what it lists in ascending order.
KeysAscend(K, list, m) == \A i, j \in 1..m : i <= j => K[list[i]] <= K[list[j]]

\* Listings of a set that put a key of its elements in ascending order list the
\* same keys.
LEMMA SortedKeysAreOne ==
    ASSUME NEW S, IsFiniteSet(S), NEW K, \A x \in S : K[x] \in Int,
           NEW a \in SetToSeqs(S), NEW b \in SetToSeqs(S),
           KeysAscend(K, a, Cardinality(S)), KeysAscend(K, b, Cardinality(S))
    PROVE  \A i \in 1..Cardinality(S) : K[a[i]] = K[b[i]]
  <1> DEFINE m == Cardinality(S)
             f == [i \in 1..m |-> K[a[i]]]
             g == [i \in 1..m |-> K[b[i]]]
  <1>1. /\ m \in Nat /\ a \in [1..m -> S] /\ b \in [1..m -> S]
        /\ \A i, j \in 1..m : (a[i] = a[j] => i = j) /\ (b[i] = b[j] => i = j)
    BY FS_CardinalityType DEF SetToSeqs
  <1>2. /\ \A x \in S : \E i \in 1..m : a[i] = x
        /\ \A x \in S : \E i \in 1..m : b[i] = x
    BY ListingIsOnto
  <1>3. f \in [1..m -> Int] /\ g \in [1..m -> Int] /\ Ascending(f, m) /\ Ascending(g, m)
    BY <1>1 DEF Ascending, KeysAscend
  <1>4. (\A i \in 1..m : f[i] = K[a[i]]) /\ (\A i \in 1..m : g[i] = K[b[i]])
    OBVIOUS
  <1> HIDE DEF m, f, g
  <1>5. \E p \in [1..m -> 1..m] : \A i \in 1..m : a[p[i]] = b[i]
    <2> DEFINE r == [i \in 1..m |-> CHOOSE j \in 1..m : a[j] = b[i]]
    <2>1. \A i \in 1..m : r[i] \in 1..m /\ a[r[i]] = b[i]
      BY <1>1, <1>2
    <2> WITNESS r \in [1..m -> 1..m]
    <2> QED
      BY <2>1
  <1>6. \E q \in [1..m -> 1..m] : \A i \in 1..m : b[q[i]] = a[i]
    <2> DEFINE r == [i \in 1..m |-> CHOOSE j \in 1..m : b[j] = a[i]]
    <2>1. \A i \in 1..m : r[i] \in 1..m /\ b[r[i]] = a[i]
      BY <1>1, <1>2
    <2> WITNESS r \in [1..m -> 1..m]
    <2> QED
      BY <2>1
  <1>7. PICK p \in [1..m -> 1..m] : \A i \in 1..m : a[p[i]] = b[i]
    BY <1>5
  <1>8. PICK q \in [1..m -> 1..m] : \A i \in 1..m : b[q[i]] = a[i]
    BY <1>6
  <1>9. ASSUME NEW i \in 1..m PROVE p[q[i]] = i /\ q[p[i]] = i /\ g[i] = f[p[i]]
    <2>1. p[i] \in 1..m /\ q[i] \in 1..m /\ p[q[i]] \in 1..m /\ q[p[i]] \in 1..m
      OBVIOUS
    <2>2. a[p[q[i]]] = a[i] /\ b[q[p[i]]] = b[i] /\ a[p[i]] = b[i]
      BY <1>7, <1>8, <2>1
    <2>3. p[q[i]] = i
      BY <1>1, <2>1, <2>2
    <2>4. q[p[i]] = i
      BY <1>1, <2>1, <2>2
    <2>5. g[i] = K[b[i]] /\ f[p[i]] = K[a[p[i]]]
      BY <1>4, <2>1
    <2> QED
      BY <2>2, <2>3, <2>4, <2>5
  <1>10. g = f
    <2>1. \A i \in 1..m : p[q[i]] = i /\ q[p[i]] = i /\ g[i] = f[p[i]]
      BY <1>9
    <2>2. m \in Nat
      BY <1>1
    <2> QED
      BY <1>3, <2>1, <2>2, OneAscendingOrder
  <1> QED
    BY <1>4, <1>10 DEF m

-------------------------------------------------------------------------------
\* Sums: what MapThenSumSet computes, for a function P

Chosen(T) == CHOOSE x \in T : TRUE

Adds(g, T, P) ==
    g = [s \in SUBSET T |-> IF s = {} THEN 0 ELSE P[Chosen(s)] + g[s \ {Chosen(s)}]]

Total(P, T) == (CHOOSE g : Adds(g, T, P))[T]

\* A partial sum is the same in every set that contains its elements.
LEMMA AddsAgree ==
    ASSUME NEW T, IsFiniteSet(T), NEW U \in SUBSET T, NEW P, NEW g, NEW h,
           Adds(g, T, P), Adds(h, U, P)
    PROVE  \A s \in SUBSET U : g[s] = h[s]
  <1> DEFINE Bad == {s \in SUBSET U : g[s] # h[s]}
  <1>1. SUFFICES ASSUME Bad # {} PROVE FALSE
    OBVIOUS
  <1>2. PICK s \in Bad : \A u \in Bad : u \subseteq s => u = s
    <2>1. Bad \subseteq SUBSET T
      OBVIOUS
    <2> HIDE DEF Bad
    <2> QED
      BY <1>1, <2>1, SmallestExists
  <1>3. s \in SUBSET U /\ s \in SUBSET T /\ g[s] # h[s]
    BY <1>2
  <1>4. /\ g[s] = IF s = {} THEN 0 ELSE P[Chosen(s)] + g[s \ {Chosen(s)}]
        /\ h[s] = IF s = {} THEN 0 ELSE P[Chosen(s)] + h[s \ {Chosen(s)}]
    BY <1>3 DEF Adds
  <1>5. s # {} => Chosen(s) \in s
    BY DEF Chosen
  <1>6. s # {} => g[s \ {Chosen(s)}] = h[s \ {Chosen(s)}]
    BY <1>2, <1>3, <1>5
  <1> QED
    BY <1>3, <1>4, <1>6

\* There is such a function.
LEMMA AddsExists ==
    ASSUME NEW S, IsFiniteSet(S), NEW P
    PROVE  \E g : Adds(g, S, P)
  <1> DEFINE Bad == {s \in SUBSET S : ~ \E g : Adds(g, s, P)}
  <1>1. SUFFICES ASSUME Bad # {} PROVE FALSE
    OBVIOUS
  <1>2. PICK T \in Bad : \A u \in Bad : u \subseteq T => u = T
    <2>1. Bad \subseteq SUBSET S
      OBVIOUS
    <2> HIDE DEF Bad
    <2> QED
      BY <1>1, <2>1, SmallestExists
  <1> DEFINE G(u) == CHOOSE g : Adds(g, u, P)
             Rest(u) == u \ {Chosen(u)}
             h == [u \in SUBSET T |->
                     IF u = {} THEN 0 ELSE P[Chosen(u)] + G(Rest(u))[Rest(u)]]
  <1>3. \A u \in SUBSET T : u # T => Adds(G(u), u, P)
    BY <1>2
  <1>4. \A u \in SUBSET T : u # {} => Rest(u) \in SUBSET T /\ Rest(u) # T /\ Rest(u) \subseteq u
    BY DEF Chosen
  <1>5. ASSUME NEW u \in SUBSET T, u # {} PROVE h[Rest(u)] = G(Rest(u))[Rest(u)]
    <2> DEFINE v == Rest(u)
    <2>1. v \in SUBSET T /\ v # T
      BY <1>4, <1>5
    <2>2. G(v)[v] = IF v = {} THEN 0 ELSE P[Chosen(v)] + G(v)[Rest(v)]
      <3>1. Adds(G(v), v, P)
        BY <1>3, <2>1
      <3> QED
        BY <3>1 DEF Adds
    <2>3. v # {} => G(v)[Rest(v)] = G(Rest(v))[Rest(v)]
      <3>1. IsFiniteSet(v)
        BY <2>1, FS_Subset, <1>2
      <3>2. ASSUME v # {} PROVE Rest(v) \in SUBSET v /\ Adds(G(Rest(v)), Rest(v), P) /\ Adds(G(v), v, P)
        BY <1>3, <1>4, <2>1, <3>2
      <3> HIDE DEF v, G, Rest
      <3> QED
        BY <3>1, <3>2, AddsAgree
    <2>4. h[v] = IF v = {} THEN 0 ELSE P[Chosen(v)] + G(Rest(v))[Rest(v)]
      BY <2>1
    <2> QED
      BY <2>2, <2>3, <2>4
  <1>6. Adds(h, T, P)
    <2>1. h = [u \in SUBSET T |-> IF u = {} THEN 0 ELSE P[Chosen(u)] + h[Rest(u)]]
      <3>1. \A u \in SUBSET T : u # {} => h[Rest(u)] = G(Rest(u))[Rest(u)]
        BY <1>5
      <3> DEFINE f == [u \in SUBSET T |-> IF u = {} THEN 0 ELSE P[Chosen(u)] + h[Rest(u)]]
      <3>2. \A u \in SUBSET T : h[u] = f[u]
        <4> HIDE DEF G, Rest
        <4> QED
          BY <3>1
      <3>3. h = [u \in SUBSET T |-> h[u]] /\ f = [u \in SUBSET T |-> f[u]]
        OBVIOUS
      <3> HIDE DEF h, f
      <3>4. h = f
        BY <3>2, <3>3
      <3> QED
        BY <3>4 DEF f
    <2> QED
      BY <2>1 DEF Adds
  <1> QED
    BY <1>2, <1>6

\* Nothing adds up to nothing, and of anything else the chosen element is added last.
LEMMA TotalUnfolds ==
    ASSUME NEW T, IsFiniteSet(T), NEW P
    PROVE  Total(P, T) = IF T = {} THEN 0 ELSE P[Chosen(T)] + Total(P, T \ {Chosen(T)})
  <1> DEFINE G(u) == CHOOSE g : Adds(g, u, P)
             rest == T \ {Chosen(T)}
  <1>1. IsFiniteSet(rest) /\ rest \in SUBSET T
    BY FS_RemoveElement
  <1>2. Adds(G(T), T, P) /\ Adds(G(rest), rest, P)
    <2> HIDE DEF rest
    <2>1. \E g : Adds(g, T, P)
      BY AddsExists
    <2>2. \E g : Adds(g, rest, P)
      BY <1>1, AddsExists
    <2>3. Adds(G(T), T, P)
      BY <2>1, Zenon
    <2>4. Adds(G(rest), rest, P)
      BY <2>2, Zenon
    <2> QED
      BY <2>3, <2>4
  <1> HIDE DEF G, rest
  <1>3. G(T)[rest] = G(rest)[rest]
    BY <1>1, <1>2, AddsAgree
  <1>4. G(T)[T] = IF T = {} THEN 0 ELSE P[Chosen(T)] + G(T)[rest]
    BY <1>2 DEF Adds, rest
  <1> QED
    BY <1>3, <1>4 DEF Total, G, rest

LEMMA TotalOfNothing == \A P : Total(P, {}) = 0
  BY TotalUnfolds, FS_EmptySet

\* A sum of numbers is a number.
LEMMA TotalType ==
    ASSUME NEW S, IsFiniteSet(S), NEW P, \A x \in S : P[x] \in Nat
    PROVE  Total(P, S) \in Nat
  <1> DEFINE Bad == {s \in SUBSET S : Total(P, s) \notin Nat}
  <1>1. SUFFICES ASSUME Bad # {} PROVE FALSE
    OBVIOUS
  <1>2. PICK T \in Bad : \A u \in Bad : u \subseteq T => u = T
    <2>1. Bad \subseteq SUBSET S
      OBVIOUS
    <2> HIDE DEF Bad
    <2> QED
      BY <1>1, <2>1, SmallestExists
  <1>3. T \in SUBSET S /\ IsFiniteSet(T) /\ Total(P, T) \notin Nat
    BY <1>2, FS_Subset
  <1>4. T # {} => Chosen(T) \in T
    BY DEF Chosen
  <1>5. T # {} => Total(P, T \ {Chosen(T)}) \in Nat
    BY <1>2, <1>3, <1>4
  <1>6. T # {} => P[Chosen(T)] \in Nat
    BY <1>3, <1>4
  <1>7. Total(P, T) = IF T = {} THEN 0 ELSE P[Chosen(T)] + Total(P, T \ {Chosen(T)})
    BY <1>3, TotalUnfolds
  <1> HIDE DEF Bad
  <1> QED
    BY <1>3, <1>5, <1>6, <1>7

\* The order does not matter: any element may be the one added last.
LEMMA TotalTakes ==
    ASSUME NEW S, IsFiniteSet(S), NEW P, \A x \in S : P[x] \in Nat, NEW x \in S
    PROVE  Total(P, S) = P[x] + Total(P, S \ {x})
  <1> DEFINE Bad == {s \in SUBSET S : \E y \in s : Total(P, s) # P[y] + Total(P, s \ {y})}
  <1>1. SUFFICES ASSUME Bad # {} PROVE FALSE
    BY <1>1
  <1>2. PICK T \in Bad : \A u \in Bad : u \subseteq T => u = T
    <2>1. Bad \subseteq SUBSET S
      OBVIOUS
    <2> HIDE DEF Bad
    <2> QED
      BY <1>1, <2>1, SmallestExists
  <1>3. PICK y \in T : Total(P, T) # P[y] + Total(P, T \ {y})
    BY <1>2
  <1> DEFINE c == Chosen(T)
             Ty == T \ {y}
             Tc == T \ {c}
             Tcy == Tc \ {y}
  <1>4. c \in T
    BY <1>3 DEF Chosen
  <1>5. /\ T \in SUBSET S /\ IsFiniteSet(T) /\ IsFiniteSet(Ty)
        /\ IsFiniteSet(Tc) /\ IsFiniteSet(Tcy)
    BY <1>2, FS_Subset, FS_RemoveElement
  <1>6. /\ Total(P, Ty) \in Nat /\ Total(P, Tcy) \in Nat /\ Total(P, Tc) \in Nat
        /\ P[y] \in Nat /\ P[c] \in Nat
    BY <1>4, <1>5, TotalType
  <1>7. Total(P, T) = P[c] + Total(P, Tc)
    BY <1>3, <1>5, TotalUnfolds
  <1>8. CASE y = c
    BY <1>3, <1>7, <1>8
  <1>9. CASE y # c
    <2>1. Tc \notin Bad /\ Ty \notin Bad /\ y \in Tc /\ c \in Ty
      BY <1>2, <1>3, <1>4, <1>9
    <2>2. Total(P, Tc) = P[y] + Total(P, Tcy)
      BY <1>5, <2>1
    <2>3. Total(P, Ty) = P[c] + Total(P, Ty \ {c})
      BY <1>5, <2>1
    <2>4. Ty \ {c} = Tcy
      OBVIOUS
    <2> HIDE DEF c, Ty, Tc, Tcy
    <2>5. Total(P, T) = P[y] + Total(P, Ty)
      BY <1>6, <1>7, <2>2, <2>3, <2>4
    <2> QED
      BY <1>3, <2>5 DEF Ty
  <1> QED
    BY <1>8, <1>9

\* One more element adds its value.
LEMMA TotalOfOneMore ==
    ASSUME NEW S, IsFiniteSet(S), NEW P, \A x \in S : P[x] \in Nat,
           NEW y, y \notin S, P[y] \in Nat
    PROVE  Total(P, S \cup {y}) = Total(P, S) + P[y]
  <1> DEFINE T == S \cup {y}
  <1>1. IsFiniteSet(T) /\ y \in T /\ T \ {y} = S /\ \A x \in T : P[x] \in Nat
    BY FS_AddElement
  <1> HIDE DEF T
  <1>2. Total(P, T) = P[y] + Total(P, S)
    BY <1>1, TotalTakes
  <1> QED
    BY <1>2, TotalType DEF T
\* More elements add up to no less.
LEMMA TotalGrows ==
    ASSUME NEW S, IsFiniteSet(S), NEW P, \A x \in S : P[x] \in Nat, NEW U \in SUBSET S
    PROVE  Total(P, U) <= Total(P, S)
  <1> DEFINE Bad == {s \in SUBSET S : U \subseteq s /\ ~ (Total(P, U) <= Total(P, s))}
  <1>1. SUFFICES ASSUME Bad # {} PROVE FALSE
    <2>1. S \notin Bad
      BY <1>1
    <2> QED
      BY <2>1
  <1>2. PICK T \in Bad : \A s \in Bad : s \subseteq T => s = T
    <2>1. Bad \subseteq SUBSET S
      OBVIOUS
    <2> HIDE DEF Bad
    <2> QED
      BY <1>1, <2>1, SmallestExists
  <1>3. T \in SUBSET S /\ U \subseteq T /\ ~ (Total(P, U) <= Total(P, T))
    BY <1>2
  <1>4. IsFiniteSet(T) /\ IsFiniteSet(U) /\ Total(P, U) \in Nat
    BY <1>3, FS_Subset, TotalType
  <1>5. PICK y \in T : y \notin U
    BY <1>3, <1>4
  <1> DEFINE Ty == T \ {y}
  <1>6. Ty \in SUBSET S /\ U \subseteq Ty /\ Ty \notin Bad
    BY <1>2, <1>3, <1>5
  <1>7. Total(P, U) <= Total(P, Ty)
    BY <1>6
  <1>8. IsFiniteSet(Ty) /\ \A x \in T : P[x] \in Nat
    BY <1>3, <1>4, FS_RemoveElement
  <1> HIDE DEF Bad
  <1>9. Total(P, Ty) \in Nat /\ P[y] \in Nat
    BY <1>8, TotalType
  <1>10. Total(P, T) = P[y] + Total(P, Ty)
    BY <1>4, <1>8, TotalTakes
  <1> QED
    BY <1>3, <1>4, <1>7, <1>9, <1>10
===============================================================================
