---------------------------- MODULE FinalityProofs ----------------------------
(***************************************************************************)
(* Proofs about Finality, for any cycle, number of pairs and names a day.  *)
(* The invariant counts the samples a run has taken when all committed,    *)
(* says that a locked one was sent right after a commit, and that the name *)
(* a run will write to is one nothing was written to.                      *)
(*                                                                         *)
(* What a median is of is a set of samples, in any order that sorts their  *)
(* finality times.  The locked ones are all a cycle long, so that any      *)
(* order does, and their median is the cycle.                              *)
(*                                                                         *)
(* A second invariant, on top of the first, says what the samples are      *)
(* while all committed: an issue and a redeem in turn, the issues after    *)
(* the first at the midpoints of the parts of the cycle.  There is one     *)
(* ascending order of their times, and in it the k-th and the k-th from    *)
(* the end are as far from the half cycle, to a rounding.                  *)
(***************************************************************************)
EXTENDS Finality, Collections

Samples ==
    [run : Nat, action : {"issue", "redeem"}, phase : {"unknown", "free", "locked"},
     stagger_ms : Nat, outcome : Failures \cup {"commit"}, finality_ms : Nat]

TypesOK ==
    /\ DOMAIN measurements = 1..MaxNames
    /\ pc \in {"idle", "issue", "redeem", "report", "done"}
    /\ n \in Nat /\ run \in Nat /\ out \in 0..MaxNames
    /\ samples \in Seq(Samples) /\ clock \in 0..Cycle - 1

\* A locked sample was sent right after a commit, and the next one will be.
LockedIsACycle ==
    /\ pc = "redeem" => clock = 0
    /\ \A i \in 1..Len(samples) :
          Committed(samples[i]) /\ samples[i].phase = "locked" => samples[i].finality_ms = Cycle

\* Where a run is, and how many samples it has if none of them failed.
AllCommitted == \A i \in 1..Len(samples) : Committed(samples[i])

Tally ==
    /\ pc \in {"issue", "redeem"} => run \in 1..n
    /\ pc = "report" => run = n + 1
    /\ pc \in {"issue", "redeem", "report"} /\ AllCommitted =>
          Len(samples) = 2 * (run - 1) + (IF pc = "redeem" THEN 1 ELSE 0)

Free(name) == measurements[name] = NoRecord

\* The name to write to is one nothing is written to, if there is any.
NameIsFree ==
    pc \in {"issue", "redeem", "report"} =>
        /\ out \in 1..MaxNames
        /\ Free(out) \/ \A name \in 1..MaxNames : ~ Free(name)

IInv ==
    /\ TypesOK
    /\ LockedIsACycle
    /\ Tally
    /\ NameIsFree
    /\ VerdictIsEarned
    /\ CycleIsTheCycle

-------------------------------------------------------------------------------
\* Names, counts and medians

\* The name a run is given.
LEMMA NameFacts ==
    /\ finality_out_path \in 1..MaxNames
    /\ Free(finality_out_path) \/ \A name \in 1..MaxNames : ~ Free(name)
  <1> DEFINE free == {name \in 1..MaxNames : Free(name)}
  <1>1. MaxNames \in Nat /\ MaxNames >= 1
    BY BoundsAreNumbers
  <1>2. free \in SUBSET Nat /\ (free # {} => Min(free) \in free)
    <2>1. free \in SUBSET Nat
      BY <1>1
    <2> HIDE DEF free
    <2> QED
      BY <2>1, LeastFacts
  <1>3. finality_out_path = IF free = {} THEN 1 ELSE Min(free)
    BY DEF finality_out_path, Free
  <1>4. \A name : name \in free <=> name \in 1..MaxNames /\ Free(name)
    OBVIOUS
  <1> HIDE DEF free
  <1> QED
    BY <1>1, <1>2, <1>3, <1>4

\* How many samples committed: none, some or all.
LEMMA CommittedFacts ==
    ASSUME TypesOK
    PROVE  /\ Len(samples) \in Nat /\ n_committed \in 0..Len(samples)
           /\ n_committed = 0 => \A i \in 1..Len(samples) : ~ Committed(samples[i])
           /\ n_committed = Len(samples) => AllCommitted
  <1> DEFINE all == 1..Len(samples)
             committed == Committing(all)
  <1>1. Len(samples) \in Nat
    BY DEF TypesOK
  <1>2. IsFiniteSet(all) /\ Cardinality(all) = Len(samples)
    BY <1>1, UpToFacts
  <1>3. committed \in SUBSET all /\ n_committed = Cardinality(committed)
    BY DEF Committing, n_committed
  <1>4. \A i : i \in committed <=> i \in all /\ Committed(samples[i])
    BY DEF Committing
  <1>5. AllCommitted <=> \A i \in all : Committed(samples[i])
    BY DEF AllCommitted
  <1> HIDE DEF committed
  <1>6. /\ IsFiniteSet(committed) /\ Cardinality(committed) \in Nat
        /\ Cardinality(committed) <= Cardinality(all)
        /\ Cardinality(committed) = Cardinality(all) => committed = all
        /\ Cardinality(committed) = 0 => committed = {}
    <2> HIDE DEF all
    <2> QED
      BY <1>2, <1>3, FS_Subset, FS_CardinalityType, FS_EmptySet
  <1>7. n_committed = 0 => \A i \in all : ~ Committed(samples[i])
    BY <1>3, <1>4, <1>6
  <1>8. n_committed = Len(samples) => AllCommitted
    BY <1>2, <1>3, <1>4, <1>5, <1>6
  <1> QED
    BY <1>1, <1>2, <1>3, <1>6, <1>7, <1>8

\* The median of times that are all the same is that time.
LEMMA MedianOfEqual ==
    ASSUME NEW m \in Nat \ {0}, NEW c \in Nat, NEW times,
           times \in Seq(Nat), Len(times) = m, \A k \in 1..m : times[k] = c
    PROVE  median_u64(times) = c
  <1> DEFINE mid == m \div 2
  <1>1. mid \in Nat /\ mid + 1 \in 1..m /\ (m % 2 # 1 => mid \in 1..m)
    OBVIOUS
  <1>2. (c + c) \div 2 = c
    OBVIOUS
  <1>3. median_u64(times) =
            IF m % 2 = 1 THEN times[mid + 1] ELSE (times[mid] + times[mid + 1]) \div 2
    BY DEF median_u64
  <1> HIDE DEF mid
  <1>4. times[mid + 1] = c /\ (m % 2 # 1 => times[mid] = c)
    BY <1>1
  <1> QED
    BY <1>2, <1>3, <1>4

\* The median of samples that all took as long is as long.
LEMMA MedianFacts ==
    ASSUME TypesOK, NEW of \in SUBSET (1..Len(samples)), NEW c \in Nat,
           \A i \in of : samples[i].finality_ms = c
    PROVE  MedianOf(of) \subseteq {c}
  <1> SUFFICES ASSUME of # {} PROVE median_u64(Finals(of)) = c
    BY DEF MedianOf
  <1> DEFINE m == Cardinality(of)
             TimesOf(list) == [k \in 1..m |-> samples[list[k]].finality_ms]
             Sorted(times) == \A j, k \in 1..m : j < k => times[j] <= times[k]
  <1>1. Len(samples) \in Nat
    BY DEF TypesOK
  <1>2. IsFiniteSet(of) /\ m \in Nat \ {0}
    <2>1. IsFiniteSet(1..Len(samples))
      BY <1>1, FS_Interval
    <2> QED
      BY <2>1, FS_Subset, FS_CardinalityType, FS_EmptySet
  <1>3. \E list : list \in SetToSeqs(of)
    <2> DEFINE K == [i \in of |-> i]
    <2>1. (\A i \in of : K[i] \in Int) /\ (\A i, j \in of : K[i] = K[j] => i = j)
      BY <1>1
    <2> HIDE DEF K
    <2> QED
      BY <1>2, <2>1, ListingExists
  <1>4. \A list \in SetToSeqs(of) : \A k \in 1..m : TimesOf(list)[k] = c
    <2> SUFFICES ASSUME NEW list \in SetToSeqs(of), NEW k \in 1..m PROVE TimesOf(list)[k] = c
      OBVIOUS
    <2>1. list[k] \in of
      BY <1>2, ListingFacts
    <2> QED
      BY <2>1
  <1>5. \A list \in SetToSeqs(of) : Sorted(TimesOf(list))
    <2> SUFFICES ASSUME NEW list \in SetToSeqs(of), NEW j \in 1..m, NEW k \in 1..m
                 PROVE  TimesOf(list)[j] <= TimesOf(list)[k]
      OBVIOUS
    <2>1. TimesOf(list)[j] = c /\ TimesOf(list)[k] = c
      BY <1>4
    <2> HIDE DEF TimesOf
    <2> QED
      BY <2>1
  <1>6. Finals(of) = CHOOSE times \in {TimesOf(list) : list \in SetToSeqs(of)} : Sorted(times)
    BY DEF Finals
  <1>7. PICK list \in SetToSeqs(of) : Finals(of) = TimesOf(list)
    <2> HIDE DEF TimesOf, Sorted
    <2>1. \E times \in {TimesOf(list) : list \in SetToSeqs(of)} : Sorted(times)
      BY <1>3, <1>5
    <2>2. Finals(of) \in {TimesOf(list) : list \in SetToSeqs(of)}
      BY <1>6, <2>1, Zenon
    <2> QED
      BY <2>2
  <1>8. \A k \in 1..m : Finals(of)[k] = c
    BY <1>4, <1>7
  <1>9. Finals(of) \in Seq(Nat) /\ Len(Finals(of)) = m
    <2>1. Finals(of) = [k \in 1..m |-> Finals(of)[k]]
      BY <1>7
    <2> HIDE DEF m
    <2> QED
      BY <1>2, <1>8, <2>1
  <1> HIDE DEF m
  <1> QED
    BY <1>2, <1>8, <1>9, MedianOfEqual

\* The cycle a run has measured, if it has measured one.
LEMMA HintFacts ==
    ASSUME TypesOK, LockedIsACycle
    PROVE  /\ cycle_hint \subseteq {Cycle}
           /\ n_committed = 0 => cycle_hint = {} /\ summarise("free").median = {}
  <1>1. \A phase : /\ Committing(OfPhase(phase)) \in SUBSET (1..Len(samples))
                   /\ \A i \in Committing(OfPhase(phase)) :
                         Committed(samples[i]) /\ samples[i].phase = phase
                   /\ summarise(phase).median = MedianOf(Committing(OfPhase(phase)))
    BY DEF Committing, OfPhase, summarise
  <1>2. \A i \in Committing(OfPhase("locked")) : samples[i].finality_ms = Cycle
    BY <1>1 DEF LockedIsACycle
  <1>3. cycle_hint \subseteq {Cycle}
    BY <1>1, <1>2, MedianFacts, CycleIsPositive DEF cycle_hint
  <1>4. ASSUME n_committed = 0, NEW phase PROVE summarise(phase).median = {}
    <2>1. Committing(OfPhase(phase)) = {}
      BY <1>1, <1>4, CommittedFacts
    <2> QED
      BY <1>1, <2>1 DEF MedianOf
  <1> QED
    BY <1>3, <1>4 DEF cycle_hint

-------------------------------------------------------------------------------
\* The sweep: its midpoints, and what their median is

\* A product grows with its factors.
LEMMA ProductsGrow ==
    ASSUME NEW a \in Nat, NEW b \in Nat, NEW c \in Nat, a <= b
    PROVE  a * c <= b * c
  <1>1. PICK d \in Nat : b = a + d
    <2>1. b - a \in Nat /\ b = a + (b - a)
      OBVIOUS
    <2> QED
      BY <2>1
  <1>2. b * c = a * c + d * c
    BY <1>1
  <1>3. d * c \in Nat /\ a * c \in Nat
    OBVIOUS
  <1> QED
    BY <1>2, <1>3

\* What a quotient is.
LEMMA QuotientFacts ==
    ASSUME NEW x \in Nat, NEW b \in Nat \ {0}
    PROVE  x \div b \in Nat /\ (x \div b) * b <= x /\ x < (x \div b) * b + b
  OBVIOUS

\* And that nothing else is.
LEMMA QuotientIs ==
    ASSUME NEW x \in Nat, NEW b \in Nat \ {0}, NEW q \in Nat, q * b <= x, x < q * b + b
    PROVE  x \div b = q
  <1> DEFINE r == x \div b
  <1>1. r \in Nat /\ r * b <= x /\ x < r * b + b
    BY QuotientFacts
  <1> HIDE DEF r
  <1>2. r * b \in Nat /\ q * b \in Nat
    BY <1>1
  <1>3. ASSUME r + 1 <= q PROVE FALSE
    <2>1. (r + 1) * b <= q * b
      BY <1>1, <1>3, ProductsGrow
    <2>2. (r + 1) * b = r * b + b
      BY <1>1
    <2> QED
      BY <1>1, <1>2, <2>1, <2>2
  <1>4. ASSUME q + 1 <= r PROVE FALSE
    <2>1. (q + 1) * b <= r * b
      BY <1>1, <1>4, ProductsGrow
    <2>2. (q + 1) * b = q * b + b
      OBVIOUS
    <2> QED
      BY <1>1, <1>2, <2>1, <2>2
  <1>5. r = q
    BY <1>1, <1>3, <1>4
  <1> QED
    BY <1>5 DEF r

\* The stagger of the issue after the k-th pair: the midpoint of part k.
Midpoint(k) == (Cycle * (2 * k - 1)) \div (2 * (n - 1))

\* The midpoints lie in the cycle, in order, and each one mirrors another.
LEMMA MidpointFacts ==
    ASSUME n \in Nat, n > 1
    PROVE  /\ \A k \in 1..(n-1) : Midpoint(k) \in Nat /\ Midpoint(k) < Cycle
           /\ \A j, k \in 1..(n-1) : j <= k => Midpoint(j) <= Midpoint(k)
           /\ \A k \in 1..(n-1) : Midpoint(k) + Midpoint(n - k) \in {Cycle - 1, Cycle}
  <1> DEFINE b == 2 * (n - 1)
             x(k) == Cycle * (2 * k - 1)
  <1>1. Cycle \in Nat \ {0} /\ b \in Nat \ {0}
    BY CycleIsPositive
  <1>2. ASSUME NEW k \in 1..(n-1)
        PROVE  /\ 2 * k - 1 \in Nat /\ x(k) \in Nat
               /\ Midpoint(k) = x(k) \div b
               /\ x(k) + Cycle <= Cycle * b /\ x(k) + x(n - k) = Cycle * b
    <2>1. 2 * k - 1 \in Nat /\ (2 * k - 1) + 1 <= b
      OBVIOUS
    <2>2. x(k) \in Nat
      BY <1>1, <2>1
    <2>3. ((2 * k - 1) + 1) * Cycle <= b * Cycle
      BY <1>1, <2>1, ProductsGrow
    <2>4. x(k) + Cycle = ((2 * k - 1) + 1) * Cycle
      BY <1>1, <2>1
    <2>5. x(k) + x(n - k) = Cycle * b
      BY <1>1
    <2> QED
      BY <1>1, <2>1, <2>2, <2>3, <2>4, <2>5 DEF Midpoint
  <1>3. ASSUME NEW j \in 1..(n-1), NEW k \in 1..(n-1), j <= k PROVE x(j) <= x(k)
    <2>1. 2 * j - 1 \in Nat /\ 2 * k - 1 \in Nat /\ 2 * j - 1 <= 2 * k - 1
      BY <1>3
    <2>2. (2 * j - 1) * Cycle <= (2 * k - 1) * Cycle
      BY <1>1, <2>1, ProductsGrow
    <2> QED
      BY <1>1, <2>1, <2>2
  <1> HIDE DEF b, x
  <1>4. ASSUME NEW k \in 1..(n-1)
        PROVE  /\ Midpoint(k) \in Nat
               /\ Midpoint(k) * b \in Nat /\ Midpoint(k) * b <= x(k) /\ x(k) < Midpoint(k) * b + b
    <2> DEFINE z == x(k)
               q == Midpoint(k)
    <2>1. z \in Nat /\ q = z \div b
      BY <1>2
    <2> HIDE DEF z, q
    <2>2. q \in Nat /\ q * b <= z /\ z < q * b + b
      BY <1>1, <2>1, QuotientFacts
    <2>3. q * b \in Nat
      BY <1>1, <2>2
    <2> QED
      BY <2>2, <2>3 DEF z, q
  <1>5. ASSUME NEW k \in 1..(n-1), Midpoint(k) >= Cycle PROVE FALSE
    <2>1. Cycle * b <= Midpoint(k) * b
      BY <1>1, <1>4, <1>5, ProductsGrow
    <2>2. Cycle * b \in Nat
      BY <1>1
    <2> QED
      BY <1>1, <1>2, <1>4, <2>1, <2>2
  <1>6. ASSUME NEW j \in 1..(n-1), NEW k \in 1..(n-1), j <= k PROVE Midpoint(j) <= Midpoint(k)
    <2> SUFFICES ASSUME Midpoint(k) + 1 <= Midpoint(j) PROVE FALSE
      BY <1>4
    <2>1. (Midpoint(k) + 1) * b <= Midpoint(j) * b
      <3>1. Midpoint(k) + 1 \in Nat /\ Midpoint(j) \in Nat /\ b \in Nat
        BY <1>1, <1>4
      <3> QED
        BY <3>1, ProductsGrow
    <2>2. (Midpoint(k) + 1) * b = Midpoint(k) * b + b
      BY <1>1, <1>4
    <2>3. x(j) <= x(k) /\ x(j) \in Nat /\ x(k) \in Nat
      BY <1>2, <1>3, <1>6
    <2>4. Midpoint(j) * b <= x(j) /\ x(k) < Midpoint(k) * b + b
      BY <1>4
    <2>5. Midpoint(j) * b \in Nat /\ Midpoint(k) * b \in Nat /\ b \in Nat
      BY <1>1, <1>4
    <2> QED
      BY <2>1, <2>2, <2>3, <2>4, <2>5
  <1>7. ASSUME NEW k \in 1..(n-1) PROVE Midpoint(k) + Midpoint(n - k) \in {Cycle - 1, Cycle}
    <2> DEFINE q == Midpoint(k)
               y == x(n - k)
    <2>1. n - k \in 1..(n-1)
      OBVIOUS
    <2>2. y \in Nat /\ Midpoint(n - k) = y \div b /\ x(k) \in Nat /\ x(k) + y = Cycle * b
      BY <1>2, <2>1
    <2>3. q \in Nat /\ q < Cycle /\ q * b \in Nat /\ q * b <= x(k) /\ x(k) < q * b + b
      BY <1>1, <1>4, <1>5
    <2> HIDE DEF q, y
    <2>4. (Cycle - q) * b = Cycle * b - q * b /\ (Cycle - q - 1) * b = Cycle * b - q * b - b
      BY <1>1, <2>3
    <2>5. Cycle - q \in Nat /\ Cycle - q - 1 \in Nat /\ Cycle * b \in Nat
      BY <1>1, <2>3
    <2>6. CASE x(k) = q * b
      <3>1. (Cycle - q) * b <= y /\ y < (Cycle - q) * b + b
        BY <1>1, <2>2, <2>3, <2>4, <2>5, <2>6
      <3>2. Midpoint(n - k) = Cycle - q
        BY <1>1, <2>2, <2>5, <3>1, QuotientIs
      <3> QED
        BY <1>1, <2>3, <3>2 DEF q
    <2>7. CASE x(k) # q * b
      <3>1. (Cycle - q - 1) * b <= y /\ y < (Cycle - q - 1) * b + b
        BY <1>1, <2>2, <2>3, <2>4, <2>5, <2>7
      <3>2. Midpoint(n - k) = Cycle - q - 1
        BY <1>1, <2>2, <2>5, <3>1, QuotientIs
      <3> QED
        BY <1>1, <2>3, <3>2 DEF q
    <2> QED
      BY <2>6, <2>7
  <1> QED
    BY <1>1, <1>4, <1>5, <1>6, <1>7

\* The samples of a whole sweep, and the time of each: the later its offset,
\* the less was left of the cycle.
Sweeps(of) ==
    /\ n \in Nat /\ n > 1
    /\ of = {2 * k + 1 : k \in 1..(n-1)}
    /\ \A k \in 1..(n-1) : samples[2 * k + 1].finality_ms = Cycle - Midpoint(k)

\* The times of a sweep, in order, are its offsets backwards.
LEMMA SweepInOrder ==
    ASSUME NEW of, Sweeps(of)
    PROVE  /\ of # {} /\ Finals(of) \in Seq(Nat) /\ Len(Finals(of)) = n - 1
           /\ \A i \in 1..(n-1) : Finals(of)[i] = Cycle - Midpoint(n - i)
  <1> DEFINE m == n - 1
             K == [x \in of |-> samples[x].finality_ms]
             TimesOf(list) == [k \in 1..Cardinality(of) |-> samples[list[k]].finality_ms]
             Sorted(times) == \A j, k \in 1..Cardinality(of) : j < k => times[j] <= times[k]
  <1>1. /\ n \in Nat /\ n > 1 /\ m \in Nat \ {0} /\ Cycle \in Nat
        /\ \A k \in 1..m : n - k \in 1..m
    BY CycleIsPositive DEF Sweeps
  <1>2. /\ \A k \in 1..m : Midpoint(k) \in Nat /\ Midpoint(k) < Cycle
        /\ \A j, k \in 1..m : j <= k => Midpoint(j) <= Midpoint(k)
    BY <1>1, MidpointFacts
  <1>3. /\ \A k \in 1..m : 2 * k + 1 \in of /\ K[2 * k + 1] = Cycle - Midpoint(k)
        /\ \A x \in of : \E k \in 1..m : x = 2 * k + 1
    BY DEF Sweeps
  <1> HIDE DEF K
  <1>4. ASSUME NEW x \in of PROVE x \in Int /\ K[x] \in Nat
    <2>1. PICK k \in 1..m : x = 2 * k + 1
      BY <1>3
    <2>2. k \in Nat /\ Midpoint(k) \in Nat /\ Midpoint(k) < Cycle /\ K[x] = Cycle - Midpoint(k)
      BY <1>1, <1>2, <1>3, <2>1
    <2> QED
      BY <1>1, <2>1, <2>2
  <1>5. \E up :
            /\ up \in [1..m -> of]
            /\ \A i \in 1..m : up[i] = 2 * (n - i) + 1
            /\ up \in Bijection(1..m, of)
    <2> DEFINE up == [i \in 1..m |-> 2 * (n - i) + 1]
    <2>1. \A i \in 1..m : up[i] \in of
      BY <1>1, <1>3
    <2>2. \A i, j \in 1..m : up[i] = up[j] => i = j
      BY <1>1
    <2>3. \A x \in of : \E i \in 1..m : up[i] = x
      <3> SUFFICES ASSUME NEW x \in of PROVE \E i \in 1..m : up[i] = x
        OBVIOUS
      <3>1. PICK k \in 1..m : x = 2 * k + 1
        BY <1>3
      <3>2. n - k \in 1..m /\ up[n - k] = x
        BY <1>1, <3>1
      <3> QED
        BY <3>2
    <2>4. up \in [1..m -> of] /\ \A i \in 1..m : up[i] = 2 * (n - i) + 1
      BY <2>1
    <2> HIDE DEF up
    <2>5. up \in Bijection(1..m, of)
      BY <2>2, <2>3, <2>4 DEF Bijection, Injection, Surjection, IsInjective
    <2> QED
      BY <2>4, <2>5
  <1>6. PICK up :
            /\ up \in [1..m -> of]
            /\ \A i \in 1..m : up[i] = 2 * (n - i) + 1
            /\ up \in Bijection(1..m, of)
    BY <1>5
  <1> HIDE DEF m
  <1>7. IsFiniteSet(of) /\ Cardinality(of) = m
    <2>1. IsFiniteSet(1..m) /\ Cardinality(1..m) = m
      BY <1>1, UpToFacts
    <2> QED
      BY <1>6, <2>1, FS_Bijection DEF ExistsBijection
  <1>8. up \in SetToSeqs(of)
    BY <1>6, <1>7 DEF SetToSeqs, Bijection, Injection, IsInjective
  <1>9. \A i \in 1..m : K[up[i]] = Cycle - Midpoint(n - i) /\ samples[up[i]].finality_ms = K[up[i]]
    BY <1>1, <1>3, <1>6 DEF K
  <1>10. \A i, j \in 1..m : i <= j => K[up[i]] <= K[up[j]]
    <2> SUFFICES ASSUME NEW i \in 1..m, NEW j \in 1..m, i <= j PROVE K[up[i]] <= K[up[j]]
      OBVIOUS
    <2>1. n - i \in 1..m /\ n - j \in 1..m /\ n - j <= n - i
      BY <1>1 DEF m
    <2>2. Midpoint(n - j) <= Midpoint(n - i) /\ Midpoint(n - j) \in Nat /\ Midpoint(n - i) \in Nat
      BY <1>2, <2>1
    <2> QED
      BY <1>1, <1>9, <2>2
  <1>11. Finals(of) = CHOOSE times \in {TimesOf(list) : list \in SetToSeqs(of)} : Sorted(times)
    BY DEF Finals
  <1>12. \A i \in 1..m : TimesOf(up)[i] = K[up[i]]
    BY <1>7, <1>9
  <1>13. Sorted(TimesOf(up))
    <2> SUFFICES ASSUME NEW i \in 1..m, NEW j \in 1..m, i < j
                 PROVE  TimesOf(up)[i] <= TimesOf(up)[j]
      BY <1>7
    <2>1. i <= j
      BY <1>1
    <2> HIDE DEF TimesOf
    <2> QED
      BY <1>10, <1>12, <2>1
  <1>14. PICK list \in SetToSeqs(of) : Finals(of) = TimesOf(list) /\ Sorted(TimesOf(list))
    <2> HIDE DEF TimesOf, Sorted
    <2>1. \E times \in {TimesOf(list) : list \in SetToSeqs(of)} : Sorted(times)
      BY <1>8, <1>13
    <2>2. Finals(of) \in {TimesOf(list) : list \in SetToSeqs(of)} /\ Sorted(Finals(of))
      BY <1>11, <2>1, Zenon
    <2> QED
      BY <2>2
  <1>15. \A i \in 1..m : list[i] \in of
    BY <1>7, ListingFacts
  <1>16. \A i \in 1..m : Finals(of)[i] = K[list[i]]
    BY <1>7, <1>14, <1>15 DEF K
  <1>17. KeysAscend(K, list, Cardinality(of))
    <2>1. \A i, j \in 1..m : i < j => Finals(of)[i] <= Finals(of)[j]
      <3> HIDE DEF TimesOf
      <3> QED
        BY <1>7, <1>14
    <2>2. ASSUME NEW i \in 1..m, NEW j \in 1..m, i <= j PROVE K[list[i]] <= K[list[j]]
      <3> HIDE DEF TimesOf, Sorted
      <3>1. CASE i = j
        <4>1. K[list[i]] \in Nat
          BY <1>4, <1>15
        <4> QED
          BY <3>1, <4>1
      <3>2. CASE i # j
        <4>1. i < j
          BY <1>1, <2>2, <3>2
        <4> QED
          BY <1>16, <2>1, <4>1
      <3> QED
        BY <3>1, <3>2
    <2> QED
      BY <1>7, <2>2 DEF KeysAscend
  <1>18. KeysAscend(K, up, Cardinality(of))
    BY <1>7, <1>10 DEF KeysAscend
  <1>19. \A i \in 1..m : K[list[i]] = K[up[i]]
    <2>1. \A x \in of : K[x] \in Int
      BY <1>4
    <2> HIDE DEF TimesOf, Sorted
    <2>2. IsFiniteSet(of)
      BY <1>7
    <2>3. \A i \in 1..Cardinality(of) : K[list[i]] = K[up[i]]
      BY <1>8, <1>17, <1>18, <2>1, <2>2, SortedKeysAreOne
    <2> QED
      BY <1>7, <2>3
  <1>20. of # {}
    BY <1>1, <1>6
  <1>21. Finals(of) \in Seq(Nat) /\ Len(Finals(of)) = m
    <2>1. Finals(of) = [k \in 1..m |-> Finals(of)[k]]
      BY <1>7, <1>14
    <2>2. \A k \in 1..m : Finals(of)[k] \in Nat
      BY <1>4, <1>15, <1>16
    <2> QED
      BY <1>1, <2>1, <2>2
  <1> QED
    BY <1>9, <1>16, <1>19, <1>20, <1>21 DEF m

\* Each midpoint mirrors another about the half cycle, and the median is the
\* middle one or the mean of the middle two.
LEMMA MedianOfSweep ==
    ASSUME NEW of, Sweeps(of)
    PROVE  \E half \in {Cycle \div 2, (Cycle + 1) \div 2} : MedianOf(of) = {half}
  <1> DEFINE m == n - 1
             f == Finals(of)
             p == m \div 2
  <1>1. /\ n \in Nat /\ n > 1 /\ m \in Nat \ {0} /\ Cycle \in Nat \ {0}
        /\ n = m + 1
    BY CycleIsPositive DEF Sweeps
  <1>2. /\ \A k \in 1..m : Midpoint(k) \in Nat /\ Midpoint(k) < Cycle
        /\ \A k \in 1..m : Midpoint(k) + Midpoint(n - k) \in {Cycle - 1, Cycle}
    BY <1>1, MidpointFacts
  <1>3. of # {} /\ Len(f) = m /\ \A i \in 1..m : f[i] = Cycle - Midpoint(n - i)
    BY SweepInOrder
  <1>4. MedianOf(of) = {IF m % 2 = 1 THEN f[p + 1] ELSE (f[p] + f[p + 1]) \div 2}
    BY <1>3 DEF MedianOf, median_u64
  <1>5. CASE m % 2 = 1
    <2>1. p + 1 \in 1..m /\ n - (p + 1) = p + 1
      BY <1>1, <1>5
    <2> HIDE DEF m, f, p
    <2> DEFINE mid == Midpoint(p + 1)
    <2>2. mid \in Nat /\ mid < Cycle /\ mid + mid \in {Cycle - 1, Cycle} /\ f[p + 1] = Cycle - mid
      BY <1>2, <1>3, <2>1
    <2> HIDE DEF mid
    <2>3. Cycle - mid \in {Cycle \div 2, (Cycle + 1) \div 2}
      BY <1>1, <2>2
    <2> QED
      BY <1>4, <1>5, <2>2, <2>3
  <1>6. CASE m % 2 # 1
    <2>1. p \in 1..m /\ p + 1 \in 1..m /\ n - (p + 1) = p /\ n - p = p + 1
      BY <1>1, <1>6
    <2> HIDE DEF m, f, p
    <2> DEFINE a == Midpoint(p)
               b == Midpoint(p + 1)
    <2>2. /\ a \in Nat /\ a < Cycle /\ b \in Nat /\ b < Cycle /\ a + b \in {Cycle - 1, Cycle}
          /\ f[p] = Cycle - b /\ f[p + 1] = Cycle - a
      BY <1>2, <1>3, <2>1
    <2> HIDE DEF a, b
    <2>3. ((Cycle - b) + (Cycle - a)) \div 2 \in {Cycle \div 2, (Cycle + 1) \div 2}
      BY <1>1, <2>2
    <2> QED
      BY <1>4, <1>6, <2>2, <2>3
  <1> QED
    BY <1>5, <1>6

-------------------------------------------------------------------------------
\* What a call adds

\* The stagger of an issue is a number, whatever was measured so far.
LEMMA StaggerFacts ==
    ASSUME TypesOK, LockedIsACycle, run \in 1..n
    PROVE  swept # {} => Min(swept) \in Nat
  <1> SUFFICES ASSUME swept # {} PROVE Min(swept) \in Nat
    OBVIOUS
  <1>1. n \in Nat /\ run \in Nat /\ run > 1 /\ n >= run /\ Cycle \in Nat
    BY CycleIsPositive DEF swept, TypesOK
  <1>2. Offset(Cycle) \in Nat
    <2> DEFINE parts == 2 * (run - 1) - 1
               whole == 2 * (n - 1)
    <2>1. parts \in Nat /\ whole \in Nat \ {0}
      BY <1>1
    <2>2. Offset(Cycle) = (Cycle * parts) \div whole
      BY DEF Offset
    <2> HIDE DEF parts, whole
    <2>3. Cycle * parts \in Nat
      BY <1>1, <2>1
    <2> QED
      BY <2>1, <2>2, <2>3
  <1>3. swept \subseteq {Offset(Cycle)}
    BY HintFacts DEF swept
  <1>4. swept \in SUBSET Nat
    BY <1>2, <1>3
  <1> QED
    BY <1>4, LeastFacts

Calls(action, phase, stagger, offset, outcome) ==
    /\ action \in {"issue", "redeem"} /\ phase \in {"unknown", "free", "locked"}
    /\ stagger \in Nat /\ offset \in 0..Cycle - 1 /\ outcome \in Failures \cup {"commit"}
    /\ timed_call(action, phase, stagger, offset, outcome)

\* The sample of a call is taken whatever the answer, and a commit starts a
\* cycle.
LEMMA CallFacts ==
    ASSUME TypesOK, NEW action, NEW phase, NEW stagger, NEW offset, NEW outcome,
           Calls(action, phase, stagger, offset, outcome)
    PROVE  /\ samples' \in Seq(Samples) /\ clock' \in 0..Cycle - 1
           /\ Len(samples) \in Nat /\ Len(samples') = Len(samples) + 1
           /\ \A i \in 1..Len(samples) : samples'[i] = samples[i]
           /\ samples'[Len(samples) + 1].phase = phase
           /\ samples'[Len(samples) + 1].outcome = outcome
           /\ outcome = "commit" =>
                 samples'[Len(samples) + 1].finality_ms = Cycle - offset /\ clock' = 0
  <1> DEFINE wait == IF outcome = "commit" THEN Cycle - offset ELSE 0
             s == FinalitySample(action, phase, stagger, outcome, wait)
  <1>1. Cycle \in Nat /\ Cycle >= 1 /\ offset \in 0..Cycle - 1
    BY CycleIsPositive DEF Calls
  <1>2. samples' = Append(samples, s) /\ clock' \in 0..Cycle - 1 /\ (outcome = "commit" => clock' = 0)
    BY <1>1 DEF Calls, timed_call
  <1>3. wait \in Nat
    BY <1>1
  <1>4. s \in Samples /\ s.phase = phase /\ s.outcome = outcome /\ s.finality_ms = wait
    BY <1>3 DEF Calls, FinalitySample, Samples, TypesOK
  <1> HIDE DEF s
  <1>5. samples \in Seq(Samples)
    BY DEF TypesOK
  <1> QED
    BY <1>2, <1>4, <1>5

\* What all committed did so before the last one.
LEMMA AllCommittedBefore ==
    ASSUME TypesOK, NEW action, NEW phase, NEW stagger, NEW offset, NEW outcome,
           Calls(action, phase, stagger, offset, outcome), AllCommitted'
    PROVE  AllCommitted /\ outcome = "commit"
  <1>1. /\ Len(samples) \in Nat /\ Len(samples') = Len(samples) + 1
        /\ \A i \in 1..Len(samples) : samples'[i] = samples[i]
        /\ samples'[Len(samples) + 1].outcome = outcome
    BY CallFacts
  <1>2. \A i \in 1..(Len(samples) + 1) : samples'[i].outcome = "commit"
    BY <1>1 DEF AllCommitted, Committed
  <1>3. \A i \in 1..Len(samples) : samples[i].outcome = "commit"
    BY <1>1, <1>2
  <1> QED
    BY <1>1, <1>2, <1>3 DEF AllCommitted, Committed

\* A locked sample that committed is a cycle long if it was sent at the start
\* of one.
LEMMA CallsAreLocked ==
    ASSUME TypesOK, LockedIsACycle, NEW action, NEW phase, NEW stagger, NEW offset, NEW outcome,
           Calls(action, phase, stagger, offset, outcome), phase = "locked" => offset = 0,
           pc' = "redeem" => outcome = "commit"
    PROVE  LockedIsACycle'
  <1>1. /\ Len(samples) \in Nat /\ Len(samples') = Len(samples) + 1
        /\ \A i \in 1..Len(samples) : samples'[i] = samples[i]
        /\ samples'[Len(samples) + 1].phase = phase
        /\ samples'[Len(samples) + 1].outcome = outcome
        /\ outcome = "commit" =>
              samples'[Len(samples) + 1].finality_ms = Cycle - offset /\ clock' = 0
    BY CallFacts
  <1>2. Cycle - 0 = Cycle
    BY CycleIsPositive
  <1>3. ASSUME NEW i \in 1..(Len(samples) + 1), samples'[i].outcome = "commit",
               samples'[i].phase = "locked"
        PROVE  samples'[i].finality_ms = Cycle
    <2>1. CASE i \in 1..Len(samples)
      BY <1>1, <1>3, <2>1 DEF LockedIsACycle, Committed
    <2>2. CASE i = Len(samples) + 1
      BY <1>1, <1>2, <1>3, <2>2
    <2> QED
      BY <1>1, <2>1, <2>2
  <1> QED
    BY <1>1, <1>3 DEF LockedIsACycle, Committed

-------------------------------------------------------------------------------
\* The invariant

\* A call, and where the run goes after it.
Goes(outcome) ==
    \/ pc = "issue" /\ outcome = "commit" /\ pc' = "redeem" /\ run' = run
    \/ pc = "issue" /\ outcome # "commit" /\ NextPair
    \/ pc = "redeem" /\ NextPair

LEMMA SamplingStep ==
    ASSUME IInv, NEW action, NEW phase, NEW stagger, NEW offset, NEW outcome,
           Calls(action, phase, stagger, offset, outcome), phase = "locked" => offset = 0,
           Goes(outcome), UNCHANGED <<measurements, out, n>>
    PROVE  IInv'
  <1>1. TypesOK /\ n \in Nat /\ run \in 1..n
    BY DEF IInv, TypesOK, Tally, Goes
  <1>2. /\ samples' \in Seq(Samples) /\ clock' \in 0..Cycle - 1
        /\ Len(samples) \in Nat /\ Len(samples') = Len(samples) + 1
    BY <1>1, CallFacts
  <1>3. /\ pc' \in {"issue", "redeem", "report"} /\ run' \in Nat
        /\ pc' = "redeem" => outcome = "commit" /\ run' = run /\ pc = "issue"
        /\ pc' = "issue" => run' = run + 1 /\ run < n
        /\ pc' = "report" => run' = run + 1 /\ run = n
        /\ pc' # "redeem" => pc = "redeem" \/ outcome # "commit"
    BY <1>1 DEF Goes, NextPair
  <1>4. TypesOK'
    BY <1>1, <1>2, <1>3 DEF TypesOK
  <1>5. LockedIsACycle'
    BY <1>1, <1>3, CallsAreLocked DEF IInv
  <1>6. Tally'
    <2>1. (pc' \in {"issue", "redeem"} => run' \in 1..n) /\ (pc' = "report" => run' = n + 1)
      BY <1>1, <1>3
    <2>2. ASSUME AllCommitted'
          PROVE  Len(samples') = 2 * (run' - 1) + (IF pc' = "redeem" THEN 1 ELSE 0)
      <3>1. AllCommitted /\ outcome = "commit"
        BY <1>1, <2>2, AllCommittedBefore
      <3>2. pc \in {"issue", "redeem"}
        BY DEF Goes
      <3>3. Len(samples) = 2 * (run - 1) + (IF pc = "redeem" THEN 1 ELSE 0)
        BY <3>1, <3>2 DEF IInv, Tally
      <3>4. CASE pc = "issue"
        <4>1. pc' = "redeem" /\ run' = run
          BY <3>1, <3>4 DEF Goes
        <4> QED
          BY <1>1, <1>2, <3>3, <3>4, <4>1
      <3>5. CASE pc = "redeem"
        <4>1. pc' # "redeem" /\ run' = run + 1
          BY <3>5 DEF Goes, NextPair
        <4> QED
          BY <1>1, <1>2, <3>3, <3>5, <4>1
      <3> QED
        BY <3>2, <3>4, <3>5
    <2> QED
      BY <1>3, <2>1, <2>2 DEF Tally
  <1>7. NameIsFree'
    BY DEF Goes, IInv, NameIsFree, Free
  <1>8. VerdictIsEarned' /\ CycleIsTheCycle'
    BY DEF IInv, VerdictIsEarned, CycleIsTheCycle
  <1> QED
    BY <1>4, <1>5, <1>6, <1>7, <1>8 DEF IInv

\* An issue is a call at an offset that is not said to be locked.
LEMMA IssueStep ==
    ASSUME IInv, Issue
    PROVE  IInv'
  <1> DEFINE stagger == IF swept = {} THEN 0 ELSE Min(swept)
             phase == IF swept = {} THEN "unknown" ELSE "free"
             offset == (clock + stagger) % Cycle
  <1>1. /\ pc = "issue" /\ UNCHANGED <<measurements, out, n>>
        /\ \E outcome \in Failures \cup {"commit"} :
              timed_call("issue", phase, stagger, offset, outcome) /\ Goes(outcome)
    <2>1. "commit" \notin Failures
      BY DEF Failures
    <2> QED
      BY <2>1 DEF Issue, Goes
  <1>2. PICK outcome \in Failures \cup {"commit"} :
            timed_call("issue", phase, stagger, offset, outcome) /\ Goes(outcome)
    BY <1>1
  <1>3. run \in 1..n /\ clock \in Nat /\ Cycle \in Nat \ {0}
    BY <1>1, CycleIsPositive DEF IInv, Tally, TypesOK
  <1>4. stagger \in Nat
    BY <1>3, StaggerFacts DEF IInv
  <1>5. offset \in 0..Cycle - 1 /\ phase \in {"unknown", "free"}
    <2> HIDE DEF stagger
    <2> QED
      BY <1>3, <1>4
  <1> HIDE DEF stagger, phase, offset
  <1>6. Calls("issue", phase, stagger, offset, outcome) /\ phase # "locked"
    BY <1>2, <1>4, <1>5 DEF Calls
  <1> QED
    BY <1>1, <1>2, <1>6, SamplingStep

\* A redeem is sent right after a commit.
LEMMA RedeemStep ==
    ASSUME IInv, Redeem
    PROVE  IInv'
  <1>1. /\ pc = "redeem" /\ UNCHANGED <<measurements, out, n>>
        /\ \E outcome \in Failures \cup {"commit"} :
              timed_call("redeem", "locked", 0, clock, outcome) /\ Goes(outcome)
    BY DEF Redeem, Goes
  <1>2. PICK outcome \in Failures \cup {"commit"} :
            timed_call("redeem", "locked", 0, clock, outcome) /\ Goes(outcome)
    BY <1>1
  <1>3. clock = 0 /\ clock \in 0..Cycle - 1
    BY <1>1 DEF IInv, LockedIsACycle, TypesOK
  <1>4. Calls("redeem", "locked", 0, clock, outcome)
    BY <1>2, <1>3 DEF Calls
  <1> QED
    BY <1>1, <1>2, <1>3, <1>4, SamplingStep

\* What a record says, the samples say.
LEMMA RecordFacts ==
    ASSUME IInv, pc = "report"
    PROVE  /\ Record.verdict = "MEASURED" => Record.samples_considered = 2 * Record.pairs
           /\ Record.verdict = "NO COMMITS" => Record.cycle = {} /\ Record.free_phase.median = {}
           /\ Record.cycle \subseteq {Cycle} /\ Record.expected_wait \subseteq {Cycle \div 2}
  <1>1. /\ Record.verdict = verdict /\ Record.pairs = n
        /\ Record.samples_considered = n_committed /\ Record.cycle = cycle_hint
        /\ Record.expected_wait = {cycle \div 2 : cycle \in cycle_hint}
        /\ Record.free_phase = summarise("free")
    BY DEF Record
  <1>2. /\ Len(samples) \in Nat /\ n_committed \in 0..Len(samples)
        /\ n_committed = Len(samples) => AllCommitted
    BY CommittedFacts DEF IInv
  <1>3. verdict = "MEASURED" => n_committed = Len(samples)
    BY <1>2 DEF verdict
  <1>4. n_committed = Len(samples) => Len(samples) = 2 * n
    BY <1>2 DEF IInv, Tally, TypesOK
  <1>5. verdict = "NO COMMITS" => n_committed = 0
    BY DEF verdict
  <1>6. cycle_hint \subseteq {Cycle} /\ (n_committed = 0 => cycle_hint = {} /\ summarise("free").median = {})
    BY HintFacts DEF IInv
  <1> HIDE DEF Record
  <1> QED
    BY <1>1, <1>3, <1>4, <1>5, <1>6

LEMMA ReportStep ==
    ASSUME IInv, Report
    PROVE  IInv'
  <1>1. /\ pc = "report" /\ pc' = "done" /\ UNCHANGED <<out, n, run, samples, clock>>
        /\ measurements' = [measurements EXCEPT ![out] = Record]
    BY DEF Report
  <1>2. out \in 1..MaxNames /\ DOMAIN measurements = 1..MaxNames
    BY <1>1 DEF IInv, NameIsFree, TypesOK
  <1>3. /\ DOMAIN measurements' = 1..MaxNames
        /\ \A name \in 1..MaxNames :
              measurements'[name] = IF name = out THEN Record ELSE measurements[name]
    BY <1>1, <1>2
  <1>4. TypesOK' /\ LockedIsACycle' /\ Tally' /\ NameIsFree'
    BY <1>1, <1>3 DEF IInv, TypesOK, LockedIsACycle, Tally, NameIsFree
  <1>5. /\ \A name \in 1..MaxNames : LET r == measurements[name]
                                     IN  /\ r.verdict = "MEASURED" => r.samples_considered = 2 * r.pairs
                                         /\ r.verdict = "NO COMMITS" =>
                                               r.cycle = {} /\ r.free_phase.median = {}
        /\ \A name \in 1..MaxNames :
              measurements[name] # NoRecord => /\ measurements[name].cycle \subseteq {Cycle}
                                               /\ measurements[name].expected_wait \subseteq {Cycle \div 2}
    BY DEF IInv, VerdictIsEarned, CycleIsTheCycle
  <1>6. VerdictIsEarned' /\ CycleIsTheCycle'
    BY <1>1, <1>3, <1>5, RecordFacts DEF VerdictIsEarned, CycleIsTheCycle
  <1> QED
    BY <1>4, <1>6 DEF IInv

LEMMA InitStep == Init => IInv
  <1> SUFFICES ASSUME Init PROVE IInv
    OBVIOUS
  <1>1. \A name \in 1..MaxNames : measurements[name] = NoRecord
    BY DEF Init
  <1>2. NoRecord.verdict = "none"
    BY DEF NoRecord
  <1>3. VerdictIsEarned /\ CycleIsTheCycle
    BY <1>1, <1>2 DEF VerdictIsEarned, CycleIsTheCycle
  <1>4. TypesOK
    BY CycleIsPositive, BoundsAreNumbers DEF Init, TypesOK
  <1> QED
    BY <1>3, <1>4 DEF Init, IInv, LockedIsACycle, Tally, NameIsFree

LEMMA NextStep == IInv /\ [Next]_vars => IInv'
  <1> SUFFICES ASSUME IInv, [Next]_vars PROVE IInv'
    OBVIOUS
  <1>1. CASE Start
    <2>1. /\ out' = finality_out_path /\ n' \in Nat /\ n' >= 1 /\ run' = 1 /\ pc' = "issue"
          /\ samples' = <<>> /\ clock' \in 0..Cycle - 1 /\ measurements' = measurements
      BY <1>1 DEF Start
    <2>2. out' \in 1..MaxNames /\ (Free(out') \/ \A name \in 1..MaxNames : ~ Free(name))
      BY <2>1, NameFacts
    <2>3. TypesOK'
      BY <2>1, <2>2, BoundsAreNumbers DEF IInv, TypesOK
    <2>4. LockedIsACycle' /\ Tally' /\ NameIsFree'
      BY <2>1, <2>2 DEF LockedIsACycle, Tally, NameIsFree, Free
    <2>5. VerdictIsEarned' /\ CycleIsTheCycle'
      BY <2>1 DEF IInv, VerdictIsEarned, CycleIsTheCycle
    <2> QED
      BY <2>3, <2>4, <2>5 DEF IInv
  <1>2. CASE End
    <2>1. /\ pc' = "idle" /\ out' = 0 /\ n' = 0 /\ run' = 0 /\ samples' = <<>> /\ clock' = 0
          /\ measurements' = measurements
      BY <1>2 DEF End
    <2>2. TypesOK'
      BY <2>1, CycleIsPositive, BoundsAreNumbers DEF IInv, TypesOK
    <2>3. LockedIsACycle' /\ Tally' /\ NameIsFree'
      BY <2>1 DEF LockedIsACycle, Tally, NameIsFree
    <2>4. VerdictIsEarned' /\ CycleIsTheCycle'
      BY <2>1 DEF IInv, VerdictIsEarned, CycleIsTheCycle
    <2> QED
      BY <2>2, <2>3, <2>4 DEF IInv
  <1>3. CASE UNCHANGED vars
    BY <1>3 DEF vars, IInv, TypesOK, LockedIsACycle, Tally, AllCommitted, Committed, NameIsFree, Free,
                VerdictIsEarned, CycleIsTheCycle
  <1> QED
    BY <1>1, <1>2, <1>3, IssueStep, RedeemStep, ReportStep DEF Next

THEOREM Inductive == Spec => []IInv
  BY InitStep, NextStep, PTL DEF Spec

\* A record that says MEASURED is of a run every transaction of which
\* committed, and one that says NO COMMITS states no time.
THEOREM VerdictsAreEarned == Spec => []VerdictIsEarned
  <1>1. IInv => VerdictIsEarned
    BY DEF IInv
  <1> QED
    BY <1>1, Inductive, PTL

\* The cycle in a record is the cycle, and the wait that is quoted is half of
\* it, for any cycle, any offsets and any failures.
THEOREM CycleIsMeasured == Spec => []CycleIsTheCycle
  <1>1. IInv => CycleIsTheCycle
    BY DEF IInv
  <1> QED
    BY <1>1, Inductive, PTL

\* No record is written over while the day has names left.
THEOREM NoRecordIsWrittenOver == Spec => RecordsStay
  <1>1. ASSUME IInv, [Next]_vars, NEW name \in 1..MaxNames, ~ Free(name),
               NEW other \in 1..MaxNames, Free(other)
        PROVE  measurements'[name] = measurements[name]
    <2>1. CASE Report
      <3>1. Free(out) /\ out \in 1..MaxNames
        BY <1>1, <2>1 DEF Report, IInv, NameIsFree
      <3> QED
        BY <1>1, <2>1, <3>1 DEF Report, Free, IInv, TypesOK
    <2>2. CASE measurements' = measurements
      BY <2>2
    <2> QED
      BY <1>1, <2>1, <2>2 DEF Next, Start, Issue, Redeem, End, vars
  <1>2. IInv /\ [Next]_vars =>
            [\A name \in 1..MaxNames :
                /\ measurements[name] # NoRecord
                /\ \E other \in 1..MaxNames : measurements[other] = NoRecord
                => measurements'[name] = measurements[name]]_vars
    BY <1>1 DEF Free
  <1> QED
    BY <1>2, Inductive, PTL DEF Spec, RecordsStay

-------------------------------------------------------------------------------
\* The sweep of a run

\* What the samples of a run that all committed are: an issue and a redeem in
\* turn, and no issue but the first at an unknown phase.
PhaseOf(i) == IF i % 2 = 0 THEN "locked" ELSE IF i = 1 THEN "unknown" ELSE "free"

\* While all committed, each commit started a cycle, and the issues after the
\* first were sent at the midpoints in turn.
SweepIsRun ==
    pc \in {"issue", "redeem", "report"} /\ AllCommitted =>
        /\ samples # <<>> => clock = 0
        /\ \A i \in 1..Len(samples) : samples[i].phase = PhaseOf(i)
        /\ \A k \in 1..(n-1) :
              2 * k + 1 <= Len(samples) => samples[2 * k + 1].finality_ms = Cycle - Midpoint(k)

\* A call that goes on with it.
GoesOn(phase, offset) ==
    /\ phase = PhaseOf(Len(samples) + 1)
    /\ \A k \in 1..(n-1) : Len(samples) = 2 * k => offset = Midpoint(k)

LEMMA SweepGoesOn ==
    ASSUME IInv, SweepIsRun, pc \in {"issue", "redeem"}, n' = n,
           NEW action, NEW phase, NEW stagger, NEW offset, NEW outcome,
           Calls(action, phase, stagger, offset, outcome), AllCommitted => GoesOn(phase, offset)
    PROVE  SweepIsRun'
  <1> SUFFICES ASSUME AllCommitted'
               PROVE  /\ samples' # <<>> => clock' = 0
                      /\ \A i \in 1..Len(samples') : samples'[i].phase = PhaseOf(i)
                      /\ \A k \in 1..(n-1) : 2 * k + 1 <= Len(samples') =>
                            samples'[2 * k + 1].finality_ms = Cycle - Midpoint(k)
    BY DEF SweepIsRun, PhaseOf, Midpoint
  <1>1. TypesOK /\ n \in Nat
    BY DEF IInv, TypesOK
  <1>2. AllCommitted /\ outcome = "commit"
    BY <1>1, AllCommittedBefore
  <1>3. /\ Len(samples) \in Nat /\ Len(samples') = Len(samples) + 1
        /\ \A i \in 1..Len(samples) : samples'[i] = samples[i]
        /\ samples'[Len(samples) + 1].phase = phase
        /\ samples'[Len(samples) + 1].finality_ms = Cycle - offset /\ clock' = 0
    BY <1>1, <1>2, CallFacts
  <1>4. GoesOn(phase, offset)
    BY <1>2
  <1>5. /\ \A i \in 1..Len(samples) : samples[i].phase = PhaseOf(i)
        /\ \A k \in 1..(n-1) :
              2 * k + 1 <= Len(samples) => samples[2 * k + 1].finality_ms = Cycle - Midpoint(k)
    BY <1>2 DEF SweepIsRun
  <1>6. ASSUME NEW i \in 1..(Len(samples) + 1) PROVE samples'[i].phase = PhaseOf(i)
    <2>1. CASE i \in 1..Len(samples)
      BY <1>3, <1>5, <2>1
    <2>2. CASE i = Len(samples) + 1
      BY <1>3, <1>4, <2>2 DEF GoesOn
    <2> QED
      BY <1>3, <2>1, <2>2
  <1>7. ASSUME NEW k \in 1..(n-1), 2 * k + 1 <= Len(samples) + 1
        PROVE  samples'[2 * k + 1].finality_ms = Cycle - Midpoint(k)
    <2>1. CASE 2 * k + 1 <= Len(samples)
      <3>1. 2 * k + 1 \in 1..Len(samples)
        BY <1>1, <1>3, <2>1
      <3>2. samples'[2 * k + 1] = samples[2 * k + 1]
        BY <1>3, <3>1
      <3> QED
        BY <1>5, <2>1, <3>2
    <2>2. CASE 2 * k = Len(samples)
      <3>1. offset = Midpoint(k)
        BY <1>4, <2>2 DEF GoesOn
      <3> QED
        BY <1>3, <2>2, <3>1
    <2> QED
      BY <1>1, <1>3, <1>7, <2>1, <2>2
  <1> QED
    BY <1>3, <1>6, <1>7

\* Once a locked sample committed, the cycle is known.
LEMMA CycleIsKnown ==
    ASSUME TypesOK, LockedIsACycle, NEW i \in 1..Len(samples),
           Committed(samples[i]), samples[i].phase = "locked"
    PROVE  cycle_hint = {Cycle}
  <1> DEFINE of == Committing(OfPhase("locked"))
  <1>1. i \in of
    BY DEF Committing, OfPhase
  <1>2. cycle_hint = MedianOf(of)
    BY DEF cycle_hint, summarise
  <1>3. cycle_hint # {}
    BY <1>1, <1>2 DEF MedianOf
  <1>4. cycle_hint \subseteq {Cycle}
    BY HintFacts
  <1> QED
    BY <1>3, <1>4

LEMMA SweepOnIssue ==
    ASSUME IInv, SweepIsRun, Issue
    PROVE  SweepIsRun'
  <1> DEFINE stagger == IF swept = {} THEN 0 ELSE Min(swept)
             phase == IF swept = {} THEN "unknown" ELSE "free"
             offset == (clock + stagger) % Cycle
  <1>1. /\ pc = "issue" /\ UNCHANGED <<measurements, out, n>>
        /\ \E outcome \in Failures \cup {"commit"} :
              timed_call("issue", phase, stagger, offset, outcome)
    BY DEF Issue
  <1>2. PICK outcome \in Failures \cup {"commit"} :
            timed_call("issue", phase, stagger, offset, outcome)
    BY <1>1
  <1>3. run \in 1..n /\ n \in Nat /\ clock \in Nat /\ Cycle \in Nat \ {0} /\ Len(samples) \in Nat
    BY <1>1, CycleIsPositive DEF IInv, Tally, TypesOK
  <1>4. stagger \in Nat
    BY <1>3, StaggerFacts DEF IInv
  <1>5. offset \in 0..Cycle - 1 /\ phase \in {"unknown", "free"}
    <2> HIDE DEF stagger
    <2> QED
      BY <1>3, <1>4
  <1>6. ASSUME AllCommitted PROVE GoesOn(phase, offset)
    <2>1. Len(samples) = 2 * (run - 1)
      BY <1>1, <1>3, <1>6 DEF IInv, Tally
    <2>2. CASE run = 1
      <3>1. swept = {} /\ Len(samples) = 0
        BY <2>1, <2>2 DEF swept
      <3> QED
        BY <1>3, <3>1 DEF GoesOn, PhaseOf
    <2>3. CASE run > 1
      <3>1. /\ 2 \in 1..Len(samples) /\ n > 1 /\ run - 1 \in 1..(n-1)
            /\ (Len(samples) + 1) % 2 = 1 /\ Len(samples) + 1 # 1
            /\ \A k \in 1..(n-1) : Len(samples) = 2 * k => k = run - 1
        BY <1>3, <2>1, <2>3
      <3>2. samples # <<>> /\ clock = 0
        BY <1>1, <1>6, <3>1 DEF SweepIsRun
      <3>3. samples[2].phase = "locked" /\ Committed(samples[2])
        BY <1>1, <1>6, <3>1 DEF SweepIsRun, PhaseOf, AllCommitted
      <3>4. cycle_hint = {Cycle}
        BY <3>1, <3>3, CycleIsKnown DEF IInv
      <3>5. swept = {Midpoint(run - 1)}
        BY <2>3, <3>4 DEF swept, Offset, Midpoint
      <3>6. Midpoint(run - 1) \in Nat /\ Midpoint(run - 1) < Cycle
        BY <1>3, <3>1, MidpointFacts
      <3>7. Min(swept) \in swept /\ swept # {}
        BY <3>5, <3>6, LeastFacts
      <3>8. stagger = Midpoint(run - 1) /\ phase = "free"
        BY <3>5, <3>7
      <3> HIDE DEF stagger, phase
      <3>9. offset = Midpoint(run - 1)
        BY <1>3, <3>2, <3>6, <3>8
      <3> HIDE DEF offset
      <3> QED
        BY <3>1, <3>8, <3>9 DEF GoesOn, PhaseOf
    <2> QED
      BY <1>3, <2>2, <2>3
  <1> HIDE DEF stagger, phase, offset
  <1>7. Calls("issue", phase, stagger, offset, outcome)
    BY <1>2, <1>4, <1>5 DEF Calls
  <1> QED
    BY <1>1, <1>6, <1>7, SweepGoesOn

LEMMA SweepOnRedeem ==
    ASSUME IInv, SweepIsRun, Redeem
    PROVE  SweepIsRun'
  <1>1. PICK outcome \in Failures \cup {"commit"} :
            timed_call("redeem", "locked", 0, clock, outcome)
    BY DEF Redeem
  <1>2. pc = "redeem" /\ n' = n /\ run \in Nat /\ n \in Nat /\ run >= 1
    BY DEF Redeem, IInv, Tally, TypesOK
  <1>3. Calls("redeem", "locked", 0, clock, outcome)
    BY <1>1 DEF Calls, IInv, TypesOK
  <1>4. ASSUME AllCommitted PROVE GoesOn("locked", clock)
    <2>1. Len(samples) = 2 * (run - 1) + 1
      BY <1>2, <1>4 DEF IInv, Tally
    <2>2. (Len(samples) + 1) % 2 = 0 /\ \A k \in 1..(n-1) : Len(samples) # 2 * k
      BY <1>2, <2>1
    <2> QED
      BY <2>2 DEF GoesOn, PhaseOf
  <1> QED
    BY <1>2, <1>3, <1>4, SweepGoesOn

\* The median of the free samples of a run that all committed.
LEMMA SweepOnReport ==
    ASSUME IInv, SweepIsRun, pc = "report", Record.verdict = "MEASURED", Record.pairs > 1
    PROVE  \E half \in {Cycle \div 2, (Cycle + 1) \div 2} : Record.free_phase.median = {half}
  <1> DEFINE of == Committing(OfPhase("free"))
  <1>1. Record.verdict = verdict /\ Record.pairs = n /\ Record.free_phase.median = MedianOf(of)
    BY DEF Record, summarise
  <1>2. n \in Nat /\ n > 1 /\ TypesOK
    BY <1>1 DEF IInv, TypesOK
  <1>3. /\ Len(samples) \in Nat /\ n_committed \in 0..Len(samples)
        /\ n_committed = Len(samples) => AllCommitted
    BY <1>2, CommittedFacts
  <1>4. AllCommitted
    <2>1. verdict = "MEASURED"
      BY <1>1
    <2>2. n_committed = Len(samples)
      BY <1>3, <2>1 DEF verdict
    <2> QED
      BY <1>3, <2>2
  <1>5. Len(samples) = 2 * n
    BY <1>2, <1>4 DEF IInv, Tally, TypesOK
  <1>6. \A i \in 1..(2 * n) : samples[i].phase = PhaseOf(i) /\ Committed(samples[i])
    BY <1>4, <1>5 DEF SweepIsRun, AllCommitted
  <1>7. \A i : i \in of <=> i \in 1..(2 * n) /\ i % 2 # 0 /\ i # 1
    BY <1>5, <1>6 DEF Committing, OfPhase, PhaseOf
  <1> HIDE DEF of
  <1>8. of = {2 * k + 1 : k \in 1..(n-1)}
    <2>1. ASSUME NEW i \in of PROVE i \in {2 * k + 1 : k \in 1..(n-1)}
      <3>1. i \in Nat /\ i % 2 # 0 /\ i # 1 /\ i <= 2 * n
        BY <1>2, <1>7
      <3>2. (i - 1) \div 2 \in 1..(n-1) /\ i = 2 * ((i - 1) \div 2) + 1
        BY <1>2, <3>1
      <3> QED
        BY <3>2
    <2>2. ASSUME NEW k \in 1..(n-1) PROVE 2 * k + 1 \in of
      <3>1. 2 * k + 1 \in 1..(2 * n) /\ (2 * k + 1) % 2 # 0 /\ 2 * k + 1 # 1
        BY <1>2
      <3> QED
        BY <1>7, <3>1
    <2> QED
      BY <2>1, <2>2
  <1>9. \A k \in 1..(n-1) : samples[2 * k + 1].finality_ms = Cycle - Midpoint(k)
    <2> SUFFICES ASSUME NEW k \in 1..(n-1)
                 PROVE  samples[2 * k + 1].finality_ms = Cycle - Midpoint(k)
      OBVIOUS
    <2>1. 2 * k + 1 <= Len(samples)
      BY <1>2, <1>5
    <2> QED
      BY <1>4, <2>1 DEF SweepIsRun
  <1> HIDE DEF Record
  <1> QED
    BY <1>1, <1>2, <1>8, <1>9, MedianOfSweep DEF Sweeps

SweepInv == IInv /\ SweepIsRun /\ SweepIsUnbiased

LEMMA SweepStep == SweepInv /\ [Next]_vars => SweepInv'
  <1> SUFFICES ASSUME SweepInv, [Next]_vars PROVE SweepIsRun' /\ SweepIsUnbiased'
    BY NextStep DEF SweepInv
  <1>1. IInv /\ SweepIsRun /\ SweepIsUnbiased
    BY DEF SweepInv
  <1>2. SweepIsRun'
    <2>1. CASE Start
      <3>1. samples' = <<>> /\ n' \in Nat
        BY <2>1 DEF Start
      <3>2. Len(samples') = 0
        BY <3>1
      <3>3. \A k \in 1..(n'-1) : ~ (2 * k + 1 <= 0)
        BY <3>1
      <3>4. \A i \in 1..0 : FALSE
        OBVIOUS
      <3> QED
        BY <3>1, <3>2, <3>3, <3>4 DEF SweepIsRun
    <2>2. CASE Report \/ End
      BY <2>2 DEF Report, End, SweepIsRun
    <2>3. CASE UNCHANGED vars
      BY <1>1, <2>3 DEF vars, SweepIsRun, AllCommitted, Committed, PhaseOf, Midpoint
    <2> QED
      BY <1>1, <2>1, <2>2, <2>3, SweepOnIssue, SweepOnRedeem DEF Next
  <1>3. SweepIsUnbiased'
    <2>1. CASE Report
      <3>1. /\ pc = "report" /\ measurements' = [measurements EXCEPT ![out] = Record]
            /\ out \in 1..MaxNames /\ DOMAIN measurements = 1..MaxNames
        BY <1>1, <2>1 DEF Report, IInv, NameIsFree, TypesOK
      <3>2. \A name \in 1..MaxNames :
                measurements'[name] = IF name = out THEN Record ELSE measurements[name]
        BY <3>1
      <3> QED
        BY <1>1, <3>1, <3>2, SweepOnReport DEF SweepIsUnbiased
    <2>2. CASE measurements' = measurements
      BY <1>1, <2>2 DEF SweepIsUnbiased
    <2> QED
      BY <2>1, <2>2 DEF Next, Start, Issue, Redeem, End, vars
  <1> QED
    BY <1>2, <1>3

\* When every transaction committed, the median that is told to a merchant is
\* half the cycle, to a rounding, however long the cycle and many the pairs.
THEOREM TheSweepIsUnbiased == Spec => []SweepIsUnbiased
  <1>1. Init => SweepInv
    <2> SUFFICES ASSUME Init PROVE SweepIsRun /\ SweepIsUnbiased
      BY InitStep DEF SweepInv
    <2>1. \A name \in 1..MaxNames : measurements[name].verdict = "none"
      BY DEF Init, NoRecord
    <2>2. pc = "idle"
      BY DEF Init
    <2> QED
      BY <2>1, <2>2 DEF SweepIsRun, SweepIsUnbiased
  <1>2. SweepInv => SweepIsUnbiased
    BY DEF SweepInv
  <1> QED
    BY <1>1, <1>2, SweepStep, PTL DEF Spec
===============================================================================
