--------------------------- MODULE GatekeeperProofs ---------------------------
(***************************************************************************)
(* Proofs about Gatekeeper, for any payments, catalogue, prices and number *)
(* of nodes and of passes cut short.  Six layers of invariant: what the        *)
(* ledgers have judged, what they grant, how their books add up, how far   *)
(* rentals run, what the nodes hold of it, and that in order.  The books   *)
(* make the seller a shop; how far rentals run, that renewing loses none   *)
(* of the time bought.                                                     *)
(***************************************************************************)
EXTENDS Gatekeeper, Collections

-------------------------------------------------------------------------------
\* Selling

Shelves == [Titles -> Nat \cup {NoRow}]

Ledgers ==
    [cursor     : Nat,
     verdict    : [Ids -> Verdicts],
     issued     : [Ids -> BOOLEAN],
     expires_at : [Subs -> Int],
     total_paid : [Subs -> Nat],
     seq        : [Subs -> Nat],
     grants     : [Subs -> Shelves]]

\* A payment is of its type.
LEMMA PaymentFacts ==
    ASSUME NEW i \in Ids
    PROVE  /\ Payment[i].sub \in Subs /\ Payment[i].sku \in SKUs
           /\ Payment[i].amount \in Nat /\ Payment[i].outcome \in {"Commit", "Abort"}
  <1> DEFINE P == [sub : Subs, sku : SKUs, amount : Nat, outcome : {"Commit", "Abort"}]
  <1>1. Payment \in Seq(P) /\ i \in 1..Len(Payment)
    BY PaymentsAreTyped DEF Ids
  <1> HIDE DEF P
  <1>2. Payment[i] \in P
    BY <1>1
  <1>3. QED
    BY <1>2 DEF P

\* The price of everything buys at least a day.
LEMMA DaysFacts ==
    ASSUME NEW amount \in Nat
    PROVE  /\ days_for(amount) \in Nat
           /\ amount >= price_of(ALL_ACCESS) => days_for(amount) >= 1
  <1>1. PRICE_PER_DAY \in Nat /\ PRICE_PER_DAY > 0 /\ RENTAL_DAYS \in Nat /\ RENTAL_DAYS >= 1
    BY PricesArePositive
  <1>2. days_for(amount) \in Nat
    BY <1>1 DEF days_for
  <1>3. ASSUME amount >= PRICE_PER_DAY * RENTAL_DAYS PROVE amount >= PRICE_PER_DAY
    <2>1. PRICE_PER_DAY * RENTAL_DAYS = PRICE_PER_DAY + PRICE_PER_DAY * (RENTAL_DAYS - 1)
      BY <1>1
    <2>2. RENTAL_DAYS - 1 \in Nat
      BY <1>1
    <2>3. PRICE_PER_DAY * (RENTAL_DAYS - 1) \in Nat
      BY <1>1, <2>2
    <2>4. QED
      BY <1>1, <1>3, <2>1, <2>3
  <1>4. ASSUME amount >= PRICE_PER_DAY PROVE amount \div PRICE_PER_DAY >= 1
    BY <1>1, <1>4
  <1>5. QED
    BY <1>2, <1>3, <1>4 DEF days_for, price_of

\* A price is a number.
LEMMA PriceFacts == \A sku \in SKUs : price_of(sku) \in Nat
  <1> SUFFICES ASSUME NEW sku \in SKUs PROVE price_of(sku) \in Nat
    OBVIOUS
  <1>1. CASE sku = ALL_ACCESS
    BY <1>1, PricesArePositive DEF price_of
  <1>2. CASE sku # ALL_ACCESS
    <2>1. sku.names \subseteq Titles
      BY <1>2 DEF SKUs
    <2>2. Cardinality(sku.names) \in Nat
      BY <2>1, TitlesAreFinite, FS_Subset, FS_CardinalityType
    <2>3. QED
      BY <1>2, <2>2, PricesArePositive DEF price_of
  <1>3. QED
    BY <1>1, <1>2

\* A rental runs past today, and a title bought outright is kept.
LEMMA DeadlineFacts ==
    ASSUME NEW db \in Ledgers, NEW s \in Subs, NEW sku \in SKUs, NEW amount \in Nat, NEW now \in Nat
    PROVE  /\ Deadline(db, s, sku, amount, now) \in Nat
           /\ sku # ALL_ACCESS => Deadline(db, s, sku, amount, now) = KEPT
           /\ sku = ALL_ACCESS /\ amount >= price_of(sku) =>
                  Deadline(db, s, sku, amount, now) > now
  <1>1. db.expires_at[s] \in Int /\ days_for(amount) \in Nat
    BY DaysFacts DEF Ledgers
  <1>2. sku = ALL_ACCESS /\ amount >= price_of(sku) => days_for(amount) >= 1
    BY DaysFacts
  <1>3. CASE sku = ALL_ACCESS
    <2> DEFINE base == IF db.expires_at[s] # NoRow /\ db.expires_at[s] < PERPETUAL
                       THEN Later(now, db.expires_at[s]) ELSE now
    <2>1. base \in Nat /\ base >= now
      BY <1>1 DEF Later
    <2>2. Deadline(db, s, sku, amount, now) = base + days_for(amount)
      BY <1>3 DEF Deadline
    <2> HIDE DEF base
    <2>3. QED
      BY <1>1, <1>2, <1>3, <2>1, <2>2
  <1>4. CASE sku # ALL_ACCESS
    BY <1>4 DEF Deadline, KEPT
  <1>5. QED
    BY <1>3, <1>4

\* A grant is extended, never shortened, and what is kept was kept or is now.
LEMMA ExtendedFacts ==
    ASSUME NEW held \in Nat \cup {NoRow}, NEW until \in Nat
    PROVE  /\ Extended(held, until) \in Nat
           /\ Extended(held, until) \in {held, until}
           /\ held # NoRow => AsGood(Extended(held, until), held)
           /\ AsGood(Extended(held, until), until)
           /\ held = NoRow => Extended(held, until) = until
           /\ held = KEPT => Extended(held, until) = KEPT
           /\ held # NoRow /\ until = KEPT => Extended(held, until) = KEPT
  BY DEF Extended, Later, AsGood, KEPT, NoRow

\* The horizon is that of some grant and no nearer than any, and one kept is
\* for ever.
LEMMA HorizonFacts ==
    ASSUME NEW grants \in Shelves, NEW u \in Titles, grants[u] # NoRow
    PROVE  /\ Horizon(grants) \in Int
           /\ \A t \in Titles : grants[t] # NoRow =>
                  Horizon(grants) >= IF grants[t] = KEPT THEN PERPETUAL ELSE grants[t]
           /\ \E t \in Titles :
                 /\ grants[t] # NoRow
                 /\ Horizon(grants) = IF grants[t] = KEPT THEN PERPETUAL ELSE grants[t]
  <1> DEFINE H == {t \in Titles : grants[t] # NoRow}
             f == [t \in H |-> IF grants[t] = KEPT THEN PERPETUAL ELSE grants[t]]
             D == {IF grants[t] = KEPT THEN PERPETUAL ELSE grants[t] : t \in H}
  <1>1. IsFiniteSet(H)
    BY TitlesAreFinite, FS_Subset
  <1>2. f \in Surjection(H, D)
    <2>1. f \in [H -> D]
      OBVIOUS
    <2>2. \A y \in D : \E t \in H : f[t] = y
      OBVIOUS
    <2>3. QED
      BY <2>1, <2>2 DEF Surjection
  <1>3. IsFiniteSet(D) /\ D # {}
    BY <1>1, <1>2, FS_Surjection
  <1>4. D \in SUBSET Int
    BY PerpetualIsFar DEF Shelves, NoRow
  <1>5. Max(D) \in D /\ \A y \in D : Max(D) >= y
    BY <1>3, <1>4, MaxFacts
  <1>6. Horizon(grants) = Max(D)
    BY DEF Horizon
  <1>7. QED
    BY <1>4, <1>5, <1>6

\* What is granted, title by title.
LEMMA GrantedFacts ==
    ASSUME NEW grants \in Shelves, NEW titles, NEW until \in Nat
    PROVE  /\ Granted(grants, titles, until) \in Shelves
           /\ \A t \in Titles :
                 Granted(grants, titles, until)[t] =
                     IF t \in titles THEN Extended(grants[t], until) ELSE grants[t]
           /\ Covers(Granted(grants, titles, until), grants)
  <1>1. \A t \in Titles : grants[t] \in Nat \cup {NoRow}
    BY DEF Shelves
  <1>2. \A t \in Titles :
            Granted(grants, titles, until)[t] =
                IF t \in titles THEN Extended(grants[t], until) ELSE grants[t]
    BY DEF Granted
  <1>3. Granted(grants, titles, until) \in Shelves
    BY <1>1, ExtendedFacts DEF Granted, Shelves
  <1>4. ASSUME NEW t \in Titles, grants[t] # NoRow
        PROVE  AsGood(Granted(grants, titles, until)[t], grants[t])
    <2>1. grants[t] \in Nat
      BY <1>1, <1>4
    <2>2. AsGood(grants[t], grants[t])
      BY <1>4, <2>1 DEF AsGood
    <2>3. QED
      BY <1>1, <1>2, <1>4, <2>2, ExtendedFacts
  <1>5. QED
    BY <1>2, <1>3, <1>4 DEF Covers

\* A shelf covers itself, and what it covers covers.
LEMMA CoversIsAnOrder ==
    /\ \A g \in Shelves : Covers(g, g)
    /\ \A f, g, h \in Shelves : Covers(f, g) /\ Covers(g, h) => Covers(f, h)
  BY DEF Covers, AsGood, Shelves, NoRow, KEPT

\* Ledger d is db with event i given a verdict, and nothing else.
Records(db, d, i, verdict, issued) ==
    /\ d \in Ledgers
    /\ d.cursor = db.cursor /\ d.seq = db.seq
    /\ d.grants = db.grants /\ d.expires_at = db.expires_at
    /\ d.total_paid = db.total_paid
    /\ \A j \in Ids : /\ d.verdict[j] = IF j = i THEN verdict ELSE db.verdict[j]
                      /\ d.issued[j] = IF j = i THEN issued ELSE db.issued[j]

\* What an event that is only recorded changes.
LEMMA RecordedFacts ==
    ASSUME NEW db \in Ledgers, NEW i \in Ids, NEW verdict \in Verdicts, NEW issued \in BOOLEAN
    PROVE  Records(db, Recorded(db, i, verdict, issued), i, verdict, issued)
  BY DEF Recorded, Ledgers, Records

\* Ledger d is db with the titles of payment i granted, all of them as good as
\* before or better, and good past `now'.
Sells(db, d, i, now) ==
    LET p == Payment[i]
        until == Deadline(db, p.sub, p.sku, p.amount, now)
        grants == Granted(db.grants[p.sub], titles_for(p.sku), until)
    IN  /\ d \in Ledgers
        /\ d.cursor = db.cursor /\ d.seq = db.seq
        /\ \A j \in Ids : /\ d.verdict[j] = IF j = i THEN "credited" ELSE db.verdict[j]
                          /\ d.issued[j] = IF j = i THEN FALSE ELSE db.issued[j]
        /\ until \in Nat /\ grants \in Shelves
        /\ \A s \in Subs :
              /\ d.grants[s] = IF s = p.sub THEN grants ELSE db.grants[s]
              /\ d.expires_at[s] = IF s = p.sub THEN Horizon(grants) ELSE db.expires_at[s]
        /\ Horizon(grants) > now \/ Horizon(grants) >= PERPETUAL

\* What a sale changes.
LEMMA SoldFacts ==
    ASSUME NEW db \in Ledgers, NEW i \in Ids, NEW now \in Nat, Deserving(i)
    PROVE  Sells(db, Sold(db, i, now), i, now)
  <1> DEFINE p == Payment[i]
             until == Deadline(db, p.sub, p.sku, p.amount, now)
             grants == Granted(db.grants[p.sub], titles_for(p.sku), until)
             r == Recorded(db, i, "credited", FALSE)
             d == Sold(db, i, now)
  <1>1. p.sub \in Subs /\ p.sku \in SKUs /\ p.amount \in Nat
    BY PaymentFacts
  <1>2. /\ until \in Nat
        /\ p.sku # ALL_ACCESS => until = KEPT
        /\ p.sku = ALL_ACCESS => until > now
    BY <1>1, DeadlineFacts DEF Deserving
  <1>3. db.grants[p.sub] \in Shelves /\ db.total_paid[p.sub] \in Nat
    BY <1>1 DEF Ledgers
  <1>4. /\ grants \in Shelves
        /\ \A t \in Titles : t \in titles_for(p.sku) =>
               grants[t] = Extended(db.grants[p.sub][t], until)
    BY <1>2, <1>3, GrantedFacts
  <1>5. PICK u \in Titles : u \in titles_for(p.sku)
    BY <1>1, TitlesAreNamed DEF Deserving, Refused, titles_for, SKUs, ALL_ACCESS
  <1>6. db.grants[p.sub][u] \in Nat \cup {NoRow}
    BY <1>3 DEF Shelves
  <1> HIDE DEF until
  <1>7. AsGood(grants[u], until)
    <2> DEFINE held == db.grants[p.sub][u]
    <2>1. grants[u] = Extended(held, until)
      BY <1>4, <1>5
    <2>2. held \in Nat \cup {NoRow}
      BY <1>6
    <2> HIDE DEF held
    <2>3. AsGood(Extended(held, until), until)
      BY <1>2, <2>2, ExtendedFacts
    <2>4. QED
      BY <2>1, <2>3
  <1>8. /\ Horizon(grants) \in Int
        /\ Horizon(grants) >= IF grants[u] = KEPT THEN PERPETUAL ELSE grants[u]
    BY <1>4, <1>5, <1>7, HorizonFacts DEF AsGood
  <1>9. Horizon(grants) > now \/ Horizon(grants) >= PERPETUAL
    <2>1. grants[u] \in Nat \cup {NoRow}
      BY <1>4 DEF Shelves
    <2>2. CASE grants[u] = KEPT
      BY <1>8, <2>2
    <2>3. CASE grants[u] # KEPT
      <3>1. until # KEPT /\ grants[u] >= until
        BY <1>7, <2>3 DEF AsGood
      <3>2. until > now
        BY <1>2, <3>1
      <3>3. grants[u] \in Nat
        BY <1>7, <2>1 DEF AsGood
      <3>4. QED
        BY <1>2, <1>8, <2>3, <3>1, <3>2, <3>3
    <2>4. QED
      BY <2>2, <2>3
  <1>10. /\ r \in Ledgers
         /\ r.cursor = db.cursor /\ r.seq = db.seq
         /\ r.grants = db.grants /\ r.expires_at = db.expires_at
         /\ r.total_paid = db.total_paid
         /\ \A j \in Ids : /\ r.verdict[j] = IF j = i THEN "credited" ELSE db.verdict[j]
                           /\ r.issued[j] = IF j = i THEN FALSE ELSE db.issued[j]
    <2>1. "credited" \in Verdicts /\ FALSE \in BOOLEAN
      BY DEF Verdicts
    <2>2. Records(db, r, i, "credited", FALSE)
      BY <2>1, RecordedFacts
    <2> HIDE DEF r
    <2>3. QED
      BY <2>2 DEF Records
  <1>11. d = [r EXCEPT !.grants[p.sub] = grants,
                       !.expires_at[p.sub] = Horizon(grants),
                       !.total_paid[p.sub] = @ + p.amount]
    BY DEF Sold, until
  <1> HIDE DEF r, d, grants
  <1>12. /\ d.cursor = r.cursor /\ d.seq = r.seq /\ d.verdict = r.verdict /\ d.issued = r.issued
         /\ d.grants = [r.grants EXCEPT ![p.sub] = grants]
         /\ d.expires_at = [r.expires_at EXCEPT ![p.sub] = Horizon(grants)]
         /\ d \in Ledgers
    <2> DEFINE paid == [r.total_paid EXCEPT ![p.sub] = @ + p.amount]
               g == [r.grants EXCEPT ![p.sub] = grants]
               e == [r.expires_at EXCEPT ![p.sub] = Horizon(grants)]
    <2>1. /\ r.grants \in [Subs -> Shelves] /\ r.expires_at \in [Subs -> Int]
          /\ r.total_paid \in [Subs -> Nat]
      BY <1>10 DEF Ledgers
    <2>2. g \in [Subs -> Shelves] /\ e \in [Subs -> Int] /\ paid \in [Subs -> Nat]
      BY <1>1, <1>4, <1>8, <2>1
    <2>3. d = [r EXCEPT !.grants = g, !.expires_at = e, !.total_paid = paid]
      BY <1>10, <1>11, <2>1 DEF Ledgers
    <2> HIDE DEF g, e, paid
    <2>4. /\ d.cursor = r.cursor /\ d.seq = r.seq /\ d.verdict = r.verdict /\ d.issued = r.issued
          /\ d.grants = g /\ d.expires_at = e
      BY <1>10, <2>3 DEF Ledgers
    <2>5. d \in Ledgers
      BY <1>10, <2>2, <2>3 DEF Ledgers
    <2>6. QED
      BY <2>4, <2>5 DEF g, e
  <1>13. \A s \in Subs :
            /\ d.grants[s] = IF s = p.sub THEN grants ELSE db.grants[s]
            /\ d.expires_at[s] = IF s = p.sub THEN Horizon(grants) ELSE db.expires_at[s]
    BY <1>10, <1>12 DEF Ledgers
  <1>14. /\ d \in Ledgers
         /\ d.cursor = db.cursor /\ d.seq = db.seq
         /\ \A j \in Ids : /\ d.verdict[j] = IF j = i THEN "credited" ELSE db.verdict[j]
                           /\ d.issued[j] = IF j = i THEN FALSE ELSE db.issued[j]
    BY <1>10, <1>12
  <1> QED
    BY <1>2, <1>4, <1>9, <1>13, <1>14 DEF d, grants, until, Sells

\* A verdict the indexer's answer allows: a deserving payment is credited, or
\* kept to be asked about again; no other is credited.
LEMMA JudgedFacts ==
    ASSUME NEW i \in Ids, NEW outcome \in {"unresolved", Payment[i].outcome}
    PROVE  /\ Judged(Payment[i], outcome) \in Verdicts \ {"unseen"}
           /\ Deserving(i) => Judged(Payment[i], outcome) \in {"credited", "unresolved"}
           /\ Judged(Payment[i], outcome) = "credited" => Deserving(i)
  <1>1. Payment[i].amount \in Nat /\ price_of(Payment[i].sku) \in Nat
    BY PaymentFacts, PriceFacts
  <1>2. Payment[i].outcome # "unresolved"
    BY PaymentFacts
  <1>3. QED
    BY <1>1, <1>2 DEF Judged, Deserving, Verdicts

\* credit(), whatever the answer: it settles or holds one event, and sells at
\* most what was paid for.
LEMMA CreditFacts ==
    ASSUME NEW db \in Ledgers, NEW i \in Ids, NEW now \in Nat,
           NEW outcome \in {"unresolved", Payment[i].outcome}
    PROVE  LET d == credit(db, i, outcome, now)
               p == Payment[i]
           IN  \/ d = db /\ db.verdict[i] \notin {"unseen", "unresolved"}
               \/ /\ db.verdict[i] \in {"unseen", "unresolved"}
                  /\ Deserving(i) /\ d = Sold(db, i, now)
               \/ /\ db.verdict[i] \in {"unseen", "unresolved"}
                  /\ \E v \in Verdicts \ {"unseen", "credited"} :
                        /\ Deserving(i) => v = "unresolved"
                        /\ d = Recorded(db, i, v, v # "unresolved")
  BY JudgedFacts DEF credit

\* What issuing changes of a ledger.
LEMMA BumpedFacts ==
    ASSUME NEW db \in Ledgers, NEW owed
    PROVE  LET d == Bumped(db, owed)
           IN  /\ d \in Ledgers
               /\ d.cursor = db.cursor /\ d.verdict = db.verdict /\ d.issued = db.issued
               /\ d.grants = db.grants /\ d.expires_at = db.expires_at
               /\ \A s \in Subs : d.seq[s] = IF s \in owed THEN db.seq[s] + 1 ELSE db.seq[s]
  BY DEF Bumped, Ledgers

\* What marking everything issued changes.
LEMMA DeliveredFacts ==
    ASSUME NEW db \in Ledgers
    PROVE  LET d == Delivered(db)
           IN  /\ d \in Ledgers
               /\ d.cursor = db.cursor /\ d.verdict = db.verdict /\ d.seq = db.seq
               /\ d.grants = db.grants /\ d.expires_at = db.expires_at
               /\ \A i \in Ids : d.issued[i] <=> db.issued[i] \/ db.verdict[i] = "credited"
               /\ Owed(d) = {}
  <1> DEFINE d == Delivered(db)
  <1>1. /\ d \in Ledgers
        /\ d.cursor = db.cursor /\ d.verdict = db.verdict /\ d.seq = db.seq
        /\ d.grants = db.grants /\ d.expires_at = db.expires_at
        /\ \A i \in Ids : d.issued[i] <=> db.issued[i] \/ db.verdict[i] = "credited"
    BY DEF Delivered, Ledgers
  <1> HIDE DEF d
  <1>2. Owed(d) = {}
    BY <1>1 DEF Owed
  <1>3. QED
    BY <1>1, <1>2 DEF d

\* What closing a pass changes.
LEMMA ClosedFacts ==
    ASSUME NEW db \in Ledgers, highest \in Nat
    PROVE  LET d == Closed(db)
           IN  /\ d \in Ledgers
               /\ d.cursor = IF purpose = "close" THEN highest ELSE db.cursor
               /\ d.verdict = db.verdict /\ d.seq = db.seq /\ d.issued = db.issued
               /\ d.grants = db.grants /\ d.expires_at = db.expires_at
               /\ Owed(d) = Owed(db)
  <1> DEFINE d == Closed(db)
  <1>1. /\ d \in Ledgers
        /\ d.cursor = IF purpose = "close" THEN highest ELSE db.cursor
        /\ d.verdict = db.verdict /\ d.seq = db.seq /\ d.issued = db.issued
        /\ d.grants = db.grants /\ d.expires_at = db.expires_at
    BY DEF Closed, Ledgers
  <1> HIDE DEF d
  <1>2. Owed(d) = Owed(db)
    BY <1>1 DEF Owed
  <1>3. QED
    BY <1>1, <1>2 DEF d

-------------------------------------------------------------------------------
\* What a step does to the ledgers

States == {"stopped", "poll", "retry", "credit", "issue", "push"}

TypesOK ==
    /\ tip \in 0..Len(Payment) /\ clock \in 0..MaxClock
    /\ ledger \in Ledgers /\ work \in Ledgers
    /\ pc \in States /\ highest \in Nat
    /\ highest <= tip /\ ledger.cursor <= tip
    /\ todo \subseteq Ids /\ \A i \in todo : i <= tip
    /\ \A i \in Ids : work.verdict[i] # "unseen" => i <= tip
    /\ \A i \in Ids : ledger.verdict[i] # "unseen" => i <= tip

\* The five things that happen to the ledgers.
Nothing == UNCHANGED <<ledger, work>>

RollsBack == ledger' = ledger /\ work' = ledger

Credits(i, outcome) ==
    /\ i \in todo /\ outcome \in {"unresolved", Payment[i].outcome}
    /\ pc \in {"retry", "credit"}
    /\ ledger' = ledger /\ work' = credit(work, i, outcome, clock)

Bumps ==
    /\ pc = "issue"
    /\ ledger' = ledger /\ work' = Bumped(work, Owed(work))

Commits ==
    \/ pc = "issue" /\ Owed(work) = {} /\ ledger' = Closed(work) /\ work' = Closed(work)
    \/ pc = "push" /\ ledger' = Closed(Delivered(work)) /\ work' = Closed(Delivered(work))

LedgerStep == Nothing \/ RollsBack \/ (\E i \in Ids : \E o : Credits(i, o)) \/ Bumps \/ Commits

\* The next event is one of those to do.
LEMMA TodoFacts ==
    ASSUME TypesOK, todo # {}
    PROVE  Min(todo) \in todo /\ Min(todo) \in Ids
  <1>1. Len(Payment) \in Nat
    BY PaymentsAreTyped
  <1>2. IsFiniteSet(Ids)
    BY <1>1, FS_Interval DEF Ids
  <1>3. IsFiniteSet(todo)
    BY <1>2, FS_Subset DEF TypesOK
  <1>4. todo \subseteq Int
    BY <1>1 DEF TypesOK, Ids
  <1>5. QED
    BY <1>3, <1>4, MinFacts DEF TypesOK

\* Every step does one of the five.
LEMMA StepIsLedgerStep ==
    ASSUME TypesOK, [Next]_vars
    PROVE  LedgerStep
  <1>1. CASE UNCHANGED vars
    BY <1>1 DEF vars, LedgerStep, Nothing
  <1>2. CASE Pay \/ Tick \/ Poll \/ ReadFails \/ EventsDone \/ Accept \/ Refuse
    BY <1>2 DEF Pay, Tick, Poll, ReadFails, EventsDone, Accept, Refuse, LedgerStep, Nothing
  <1>3. CASE \E last \in Ids \cup {0} : ReadEvents(last)
    BY <1>3 DEF ReadEvents, LedgerStep, Nothing
  <1>4. CASE Start \/ NobodyAccepted \/ Die \/ IssueRaises
    BY <1>4 DEF Start, NobodyAccepted, Die, IssueRaises, RolledBack, LedgerStep, RollsBack
  <1>5. ASSUME NEW outcome, Credit(outcome) PROVE LedgerStep
    <2>1. Credits(Min(todo), outcome) /\ Min(todo) \in Ids
      BY <1>5, TodoFacts DEF Credit, Credits
    <2>2. QED
      BY <2>1 DEF LedgerStep
  <1>6. CASE Issue
    BY <1>6 DEF Issue, LedgerStep, Bumps
  <1>7. CASE CommitNothingOwed \/ CommitIssued
    BY <1>7 DEF CommitNothingOwed, CommitIssued, Commit, LedgerStep, Commits
  <1>8. QED
    BY <1>1, <1>2, <1>3, <1>4, <1>5, <1>6, <1>7 DEF Next, Watch

-------------------------------------------------------------------------------
\* What the ledgers have judged

\* Nothing is credited that does not deserve it; what does is never settled
\* otherwise.
Fair(db) ==
    \A i \in Ids :
        /\ db.verdict[i] = "credited" => Deserving(i)
        /\ Deserving(i) => db.verdict[i] \in {"unseen", "unresolved", "credited"}

LookedAt(db, upto) == \A i \in Ids : i <= upto => db.verdict[i] # "unseen"

JudgeInv ==
    /\ TypesOK
    /\ Fair(ledger) /\ Fair(work)
    /\ Owed(ledger) = {}
    /\ pc \in {"stopped", "poll"} => work = ledger
    /\ work.cursor = ledger.cursor
    /\ LookedAt(ledger, ledger.cursor)
    /\ LookedAt(work, work.cursor)
    /\ pc = "retry" => highest = work.cursor
    /\ pc = "credit" => \A i \in Ids : i <= highest /\ i \notin todo => work.verdict[i] # "unseen"
    /\ pc \in {"issue", "push"} /\ purpose = "close" => LookedAt(work, highest)

\* Ledger d is db with event i looked at, no less fair.
LooksAt(db, d, i) ==
    /\ d \in Ledgers /\ Fair(d) /\ d.cursor = db.cursor /\ d.seq = db.seq
    /\ \A j \in Ids : db.verdict[j] # "unseen" => d.verdict[j] # "unseen"
    /\ \A j \in Ids \ {i} : d.verdict[j] = db.verdict[j]
    /\ d.verdict[i] # "unseen"

\* After credit(): the ledger is still one, as fair, and remembers more.
LEMMA CreditKeeps ==
    ASSUME NEW db \in Ledgers, Fair(db), NEW i \in Ids, NEW now \in Nat,
           NEW outcome \in {"unresolved", Payment[i].outcome},
           NEW d, d = credit(db, i, outcome, now)
    PROVE  LooksAt(db, d, i)
  <1>1. CASE d = db /\ db.verdict[i] \notin {"unseen", "unresolved"}
    BY <1>1 DEF LooksAt
  <1>2. CASE /\ db.verdict[i] \in {"unseen", "unresolved"}
             /\ Deserving(i) /\ d = Sold(db, i, now)
    <2>1. /\ d \in Ledgers /\ d.cursor = db.cursor /\ d.seq = db.seq
          /\ \A j \in Ids : d.verdict[j] = IF j = i THEN "credited" ELSE db.verdict[j]
      <3>1. Sells(db, d, i, now)
        BY <1>2, SoldFacts
      <3>2. QED
        BY <3>1 DEF Sells
    <2>2. Fair(d)
      BY <1>2, <2>1 DEF Fair, Ledgers
    <2>3. QED
      BY <2>1, <2>2 DEF Ledgers, LooksAt
  <1>3. CASE /\ db.verdict[i] \in {"unseen", "unresolved"}
             /\ \E v \in Verdicts \ {"unseen", "credited"} :
                   /\ Deserving(i) => v = "unresolved"
                   /\ d = Recorded(db, i, v, v # "unresolved")
    <2>1. PICK v \in Verdicts \ {"unseen", "credited"} :
              /\ Deserving(i) => v = "unresolved"
              /\ d = Recorded(db, i, v, v # "unresolved")
      BY <1>3
    <2>2. (v # "unresolved") \in BOOLEAN
      OBVIOUS
    <2>3. /\ d \in Ledgers /\ d.cursor = db.cursor /\ d.seq = db.seq
          /\ \A j \in Ids : d.verdict[j] = IF j = i THEN v ELSE db.verdict[j]
      <3>1. v \in Verdicts
        OBVIOUS
      <3>2. Records(db, d, i, v, v # "unresolved")
        BY <2>1, <2>2, <3>1, RecordedFacts
      <3>3. QED
        BY <3>2 DEF Records
    <2>4. Fair(d)
      BY <2>1, <2>3 DEF Fair, Ledgers
    <2>5. QED
      BY <2>1, <2>3, <2>4 DEF Ledgers, LooksAt
  <1>4. QED
    BY <1>1, <1>2, <1>3, CreditFacts

\* The ledgers after a step.
LEMMA LedgersKeep ==
    ASSUME JudgeInv, LedgerStep
    PROVE  /\ ledger' \in Ledgers /\ work' \in Ledgers
           /\ Fair(ledger)' /\ Fair(work)' /\ Owed(ledger)' = {}
           /\ work'.cursor = ledger'.cursor /\ ledger'.cursor \in {ledger.cursor, highest}
           /\ LookedAt(ledger', ledger'.cursor)
           /\ LookedAt(work', work'.cursor)
           /\ \A i \in Ids : work'.verdict[i] # "unseen" =>
                  work.verdict[i] # "unseen" \/ ledger.verdict[i] # "unseen" \/ i \in todo
           /\ \A i \in Ids : ledger'.verdict[i] # "unseen" =>
                  work.verdict[i] # "unseen" \/ ledger.verdict[i] # "unseen"
  <1>1. /\ ledger \in Ledgers /\ work \in Ledgers /\ highest \in Nat
        /\ Fair(ledger) /\ Fair(work) /\ Owed(ledger) = {} /\ work.cursor = ledger.cursor
        /\ LookedAt(ledger, ledger.cursor) /\ LookedAt(work, work.cursor)
    BY DEF JudgeInv, TypesOK
  <1>2. CASE Nothing
    BY <1>1, <1>2 DEF Nothing, Fair, Owed
  <1>3. CASE RollsBack
    BY <1>1, <1>3 DEF RollsBack, Fair, Owed
  <1>4. ASSUME NEW i \in Ids, NEW outcome, Credits(i, outcome)
        PROVE  /\ ledger' \in Ledgers /\ work' \in Ledgers
               /\ Fair(ledger)' /\ Fair(work)' /\ Owed(ledger)' = {}
               /\ work'.cursor = ledger'.cursor /\ ledger'.cursor \in {ledger.cursor, highest}
               /\ LookedAt(ledger', ledger'.cursor)
               /\ LookedAt(work', work'.cursor)
               /\ \A j \in Ids : work'.verdict[j] # "unseen" =>
                      work.verdict[j] # "unseen" \/ ledger.verdict[j] # "unseen" \/ j \in todo
               /\ \A j \in Ids : ledger'.verdict[j] # "unseen" =>
                      work.verdict[j] # "unseen" \/ ledger.verdict[j] # "unseen"
    <2>1. clock \in Nat
      BY PerpetualIsFar DEF JudgeInv, TypesOK
    <2>2. ledger' = ledger /\ work' = credit(work, i, outcome, clock) /\ i \in todo
          /\ outcome \in {"unresolved", Payment[i].outcome}
      BY <1>4 DEF Credits
    <2>3. /\ work' \in Ledgers /\ Fair(work') /\ work'.cursor = work.cursor
          /\ \A j \in Ids : work.verdict[j] # "unseen" => work'.verdict[j] # "unseen"
          /\ \A j \in Ids \ {i} : work'.verdict[j] = work.verdict[j]
      <3>1. LooksAt(work, work', i)
        BY <1>1, <2>1, <2>2, CreditKeeps
      <3>2. QED
        BY <3>1 DEF LooksAt
    <2>4. LookedAt(work', work'.cursor)
      BY <1>1, <2>3 DEF LookedAt
    <2>5. Fair(ledger)' /\ Fair(work)' /\ Owed(ledger)' = {}
      BY <1>1, <2>2, <2>3 DEF Fair, Owed
    <2>6. QED
      BY <1>1, <2>2, <2>3, <2>4, <2>5
  <1>5. CASE Bumps
    <2>1. ledger' = ledger /\ work' = Bumped(work, Owed(work))
      BY <1>5 DEF Bumps
    <2>2. work' \in Ledgers /\ work'.cursor = work.cursor /\ work'.verdict = work.verdict
      BY <1>1, <2>1, BumpedFacts
    <2>3. Fair(ledger)' /\ Fair(work)' /\ Owed(ledger)' = {} /\ LookedAt(work', work'.cursor)
      BY <1>1, <2>1, <2>2 DEF Fair, Owed, LookedAt
    <2>4. QED
      BY <1>1, <2>1, <2>2, <2>3
  <1>6. CASE Commits
    <2>0. work.cursor = ledger.cursor
      BY <1>1
    <2>1. PICK db \in Ledgers : /\ db.verdict = work.verdict /\ db.cursor = work.cursor
                                /\ Owed(db) = {} /\ ledger' = Closed(db) /\ work' = Closed(db)
      BY <1>1, <1>6, DeliveredFacts DEF Commits
    <2>2. /\ ledger' \in Ledgers /\ ledger'.verdict = work.verdict /\ Owed(ledger') = {}
          /\ ledger'.cursor = IF purpose = "close" THEN highest ELSE work.cursor
          /\ work' = ledger'
      BY <1>1, <2>1, ClosedFacts
    <2>3. Fair(ledger)' /\ Fair(work)' /\ Owed(ledger)' = {}
      BY <1>1, <2>2 DEF Fair, Owed
    <2>4. LookedAt(ledger', ledger'.cursor)
      <3>1. purpose = "close" => LookedAt(work, highest)
        BY <1>6 DEF Commits, JudgeInv
      <3>2. QED
        BY <1>1, <2>2, <3>1 DEF LookedAt
    <2>5. ledger'.cursor \in {ledger.cursor, highest}
      BY <2>0, <2>2
    <2>6. QED
      BY <2>2, <2>3, <2>4, <2>5
  <1>7. QED
    BY <1>2, <1>3, <1>4, <1>5, <1>6 DEF LedgerStep

\* Where the pass is and what it has looked at so far.
Progress ==
    /\ tip \in 0..Len(Payment) /\ clock \in 0..MaxClock
    /\ pc \in States /\ highest \in Nat /\ highest <= tip
    /\ todo \subseteq Ids /\ \A i \in todo : i <= tip
    /\ pc \in {"stopped", "poll"} => work = ledger
    /\ pc = "retry" => highest = work.cursor
    /\ pc = "credit" => \A i \in Ids : i <= highest /\ i \notin todo => work.verdict[i] # "unseen"
    /\ pc \in {"issue", "push"} /\ purpose = "close" => LookedAt(work, highest)

\* The pass moves on, and skips no event.
LEMMA ProgressStep ==
    ASSUME JudgeInv, [Next]_vars
    PROVE  Progress'
  <1>1. /\ Progress /\ LookedAt(work, work.cursor)
        /\ ledger \in Ledgers /\ work \in Ledgers /\ clock \in Nat
        /\ \A i \in Ids : work.verdict[i] # "unseen" => i <= tip
        /\ Len(Payment) \in Nat /\ tip \in Int
        /\ Fair(work) /\ work.cursor <= tip /\ work.cursor \in Nat
    <2>1. Len(Payment) \in Nat /\ MaxClock \in Nat
      BY PaymentsAreTyped, PerpetualIsFar
    <2>2. JudgeInv /\ TypesOK
      BY DEF JudgeInv
    <2>3. /\ ledger \in Ledgers /\ work \in Ledgers /\ clock \in Nat /\ tip \in Int
          /\ \A i \in Ids : work.verdict[i] # "unseen" => i <= tip
      BY <2>1, <2>2 DEF TypesOK
    <2>4. work.cursor = ledger.cursor /\ ledger.cursor <= tip
      BY <2>2 DEF JudgeInv, TypesOK
    <2>5. work.cursor \in Nat
      BY <2>3 DEF Ledgers
    <2>6. Progress
      BY <2>2 DEF JudgeInv, TypesOK, Progress
    <2>7. QED
      BY <2>1, <2>2, <2>3, <2>4, <2>5, <2>6 DEF JudgeInv
  <1>2. CASE UNCHANGED vars
    BY <1>1, <1>2 DEF vars, Progress, LookedAt
  <1>3. CASE Pay
    BY <1>1, <1>3 DEF Pay, progress, Progress, LookedAt, Ids
  <1>4. CASE Tick
    BY <1>1, <1>4, PerpetualIsFar DEF Tick, progress, Progress, LookedAt
  <1>5. CASE Start
    BY <1>1, <1>5 DEF Start, chain, Progress, LookedAt, States
  <1>6. CASE Poll
    <2>1. work.cursor \in Nat
      BY <1>1 DEF Ledgers
    <2>2. QED
      BY <1>1, <1>6, <2>1 DEF Poll, chain, Progress, LookedAt, States
  <1>7. CASE ReadFails \/ EventsDone
    BY <1>1, <1>7 DEF ReadFails, EventsDone, chain, Progress, LookedAt, States
  <1>8. ASSUME NEW last \in Ids \cup {0}, ReadEvents(last)
        PROVE  Progress'
    <2>1. /\ pc = "retry" /\ last \in highest..tip /\ todo' = (highest + 1)..last
          /\ highest' = last /\ pc' = "credit" /\ UNCHANGED <<tip, clock, ledger, work, purpose>>
      BY <1>8 DEF ReadEvents, chain
    <2>2. highest = work.cursor /\ highest \in Nat
      BY <1>1, <2>1 DEF Progress
    <2>3. last \in Nat /\ todo' \subseteq Ids /\ \A i \in todo' : i <= tip
      BY <1>1, <2>1, <2>2 DEF Ids
    <2>4. \A i \in Ids : i <= last /\ i \notin todo' => work.verdict[i] # "unseen"
      BY <1>1, <2>1, <2>2, <2>3 DEF LookedAt, Ids
    <2>5. QED
      BY <1>1, <2>1, <2>3, <2>4 DEF Progress, States
  <1>9. ASSUME NEW outcome, Credit(outcome)
        PROVE  Progress'
    <2> DEFINE i == Min(todo)
    <2>1. i \in Ids /\ i \in todo
      BY <1>9, TodoFacts DEF Credit, JudgeInv
    <2>2. /\ pc \in {"retry", "credit"} /\ outcome \in {"unresolved", Payment[i].outcome}
          /\ work' = credit(work, i, outcome, clock) /\ todo' = todo \ {i}
          /\ UNCHANGED <<tip, clock, ledger, pc, purpose, highest>>
      BY <1>9 DEF Credit, chain
    <2> HIDE DEF i
    <2>3. LooksAt(work, work', i)
      BY <1>1, <2>1, <2>2, CreditKeeps
    <2>4. /\ work'.cursor = work.cursor
          /\ \A j \in Ids : work.verdict[j] # "unseen" \/ j = i => work'.verdict[j] # "unseen"
      BY <2>1, <2>3 DEF LooksAt
    <2>5. QED
      BY <1>1, <2>1, <2>2, <2>4 DEF Progress, LookedAt
  <1>10. CASE Issue
    <2>1. /\ pc = "issue" /\ pc' = "push" /\ work' = Bumped(work, Owed(work))
          /\ UNCHANGED <<tip, clock, purpose, todo, highest>>
      BY <1>10 DEF Issue, chain
    <2>2. work'.verdict = work.verdict
      BY <1>1, <2>1, BumpedFacts
    <2>3. QED
      BY <1>1, <2>1, <2>2 DEF Progress, LookedAt, States
  <1>11. CASE Accept \/ Refuse
    BY <1>1, <1>11 DEF Accept, Refuse, chain, progress, Progress, LookedAt
  <1>12. CASE NobodyAccepted \/ Die \/ IssueRaises
    BY <1>1, <1>12 DEF NobodyAccepted, Die, IssueRaises, RolledBack, chain, Progress, LookedAt, States
  <1>13. CASE CommitNothingOwed \/ CommitIssued
    BY <1>1, <1>13 DEF CommitNothingOwed, CommitIssued, Commit, chain, Progress, LookedAt, States
  <1>14. QED
    BY <1>2, <1>3, <1>4, <1>5, <1>6, <1>7, <1>8, <1>9, <1>10, <1>11, <1>12, <1>13 DEF Next, Watch

\* JudgeInv is inductive.
LEMMA JudgeStep ==
    ASSUME JudgeInv, [Next]_vars
    PROVE  JudgeInv'
  <1>1. LedgerStep
    BY StepIsLedgerStep DEF JudgeInv
  <1>2. Progress'
    BY ProgressStep
  <1>3. /\ ledger' \in Ledgers /\ work' \in Ledgers
        /\ Fair(ledger)' /\ Fair(work)' /\ Owed(ledger)' = {}
        /\ work'.cursor = ledger'.cursor /\ ledger'.cursor \in {ledger.cursor, highest}
        /\ LookedAt(ledger', ledger'.cursor)
        /\ LookedAt(work', work'.cursor)
        /\ \A i \in Ids : work'.verdict[i] # "unseen" =>
               work.verdict[i] # "unseen" \/ ledger.verdict[i] # "unseen" \/ i \in todo
        /\ \A i \in Ids : ledger'.verdict[i] # "unseen" =>
               work.verdict[i] # "unseen" \/ ledger.verdict[i] # "unseen"
    BY <1>1, LedgersKeep
  <1>4. tip' \in {tip, tip + 1} /\ tip \in Int
    <2>1. tip \in Int
      BY PaymentsAreTyped DEF JudgeInv, TypesOK
    <2>2. tip' \in {tip, tip + 1}
      BY DEF Next, Watch, vars, chain, Pay, Tick, Start, Poll, ReadFails, EventsDone, Credit,
             ReadEvents, Issue, IssueRaises, RolledBack, Accept, Refuse, NobodyAccepted,
             CommitNothingOwed, CommitIssued, Commit, Die
    <2>3. QED
      BY <2>1, <2>2
  <1>5. /\ \A i \in Ids : work'.verdict[i] # "unseen" => i <= tip'
        /\ \A i \in Ids : ledger'.verdict[i] # "unseen" => i <= tip'
    <2>1. \A i \in Ids : i \in Int
      BY PaymentsAreTyped DEF Ids
    <2>2. QED
      BY <1>3, <1>4, <2>1 DEF JudgeInv, TypesOK
  <1>6. ledger'.cursor <= tip'
    BY <1>3, <1>4 DEF JudgeInv, TypesOK, Ledgers
  <1>7. QED
    BY <1>2, <1>3, <1>5, <1>6 DEF JudgeInv, TypesOK, Progress, LookedAt

\* It holds at the start.
LEMMA JudgeInit == Init => JudgeInv
  <1> SUFFICES ASSUME Init PROVE JudgeInv
    OBVIOUS
  <1>1. NewLedger \in Ledgers /\ NewLedger.cursor = 0 /\ Owed(NewLedger) = {}
        /\ \A i \in Ids : NewLedger.verdict[i] = "unseen"
    BY DEF NewLedger, Ledgers, Shelves, Verdicts, Owed, NoRow
  <1>2. Len(Payment) \in Nat
    BY PaymentsAreTyped
  <1>3. QED
    BY <1>1, <1>2, PerpetualIsFar DEF Init, JudgeInv, TypesOK, Fair, LookedAt, States, Ids

\* It always holds.
THEOREM VerdictsAreFair == Spec => []JudgeInv
  BY JudgeInit, JudgeStep, PTL DEF Spec

\* No payment falls behind the cursor (NothingFallsBehindTheCursor).
THEOREM CursorPassesNothing == Spec => []NothingFallsBehindTheCursor
  <1>1. JudgeInv => NothingFallsBehindTheCursor
    <2> SUFFICES ASSUME JudgeInv, NEW i \in 1..ledger.cursor, Deserving(i)
                 PROVE  \/ ledger.verdict[i] = "credited" /\ ledger.issued[i]
                        \/ ledger.verdict[i] = "unresolved"
      BY DEF NothingFallsBehindTheCursor
    <2>1. Len(Payment) \in Nat /\ ledger.cursor \in Nat
      BY PaymentsAreTyped DEF JudgeInv, TypesOK, Ledgers
    <2>2. i \in Ids
      BY <2>1 DEF JudgeInv, TypesOK, Ids
    <2>3. ledger.verdict[i] \in {"unresolved", "credited"}
      BY <2>2 DEF JudgeInv, Fair, LookedAt
    <2>4. ledger.verdict[i] = "credited" => ledger.issued[i]
      BY <2>2, PaymentFacts DEF JudgeInv, Owed
    <2>5. QED
      BY <2>3, <2>4
  <1>2. QED
    BY <1>1, VerdictsAreFair, PTL

\* Credit and issuance commit together (NoCommittedDebt).
THEOREM CommittedLedgersOweNobody == Spec => []NoCommittedDebt
  <1>1. JudgeInv => NoCommittedDebt
    BY DEF JudgeInv, NoCommittedDebt
  <1>2. QED
    BY <1>1, VerdictsAreFair, PTL

-------------------------------------------------------------------------------
\* What the ledgers grant

\* A grant has a payment that deserves it.
Backing(s, t, until, upto) ==
    until # NoRow =>
        \E i \in PaidFor(s) :
            /\ i <= upto /\ Deserving(i) /\ t \in titles_for(Payment[i].sku)
            /\ (until = KEPT) = (Payment[i].sku # ALL_ACCESS)

Backed(db, upto) ==
    \A s \in Subs : \A t \in Titles : Backing(s, t, db.grants[s][t], upto)

NoWorse(d, db) == \A s \in Subs : Covers(d.grants[s], db.grants[s])

\* Whoever is owed an envelope is owed a good one.
Timely(db) == \A s \in Owed(db) : db.expires_at[s] > clock

GrantInv ==
    /\ JudgeInv
    /\ Backed(ledger, tip) /\ Backed(work, tip)
    /\ \A e \in signed : \A t \in Titles : Backing(e.sub, t, e.sealed[t], tip)
    /\ NoWorse(work, ledger)
    /\ Timely(work)

\* A ledger is no worse than itself.
LEMMA NoWorseThanItself == \A db \in Ledgers : NoWorse(db, db)
  <1> SUFFICES ASSUME NEW db \in Ledgers, NEW s \in Subs
               PROVE  Covers(db.grants[s], db.grants[s])
    BY DEF NoWorse
  <1>1. db.grants[s] \in Shelves
    BY DEF Ledgers
  <1>2. QED
    BY <1>1, CoversIsAnOrder

\* Nor is one that is no worse than one no worse than it.
LEMMA NoWorseCarries ==
    \A c, d, e \in Ledgers : NoWorse(c, d) /\ NoWorse(d, e) => NoWorse(c, e)
  <1> SUFFICES ASSUME NEW c \in Ledgers, NEW d \in Ledgers, NEW e \in Ledgers,
                      NoWorse(c, d), NoWorse(d, e), NEW s \in Subs
               PROVE  Covers(c.grants[s], e.grants[s])
    BY DEF NoWorse
  <1>1. c.grants[s] \in Shelves /\ d.grants[s] \in Shelves /\ e.grants[s] \in Shelves
    BY DEF Ledgers
  <1>2. Covers(c.grants[s], d.grants[s]) /\ Covers(d.grants[s], e.grants[s])
    BY DEF NoWorse
  <1>3. QED
    BY <1>1, <1>2, CoversIsAnOrder

\* What a sale grants is backed: by the sale, or by what backed it before.
LEMMA SaleIsBacked ==
    ASSUME NEW db \in Ledgers, Backed(db, tip), NEW i \in Ids, i <= tip, Deserving(i), NEW now \in Nat,
           NEW d, Sells(db, d, i, now)
    PROVE  Backed(d, tip) /\ NoWorse(d, db)
  <1> DEFINE p == Payment[i]
             until == Deadline(db, p.sub, p.sku, p.amount, now)
             held == db.grants[p.sub]
             grants == Granted(held, titles_for(p.sku), until)
  <1>1. p.sub \in Subs /\ p.sku \in SKUs /\ p.amount \in Nat
    BY PaymentFacts
  <1>2. held \in Shelves
    BY <1>1 DEF Ledgers
  <1>3. /\ until \in Nat
        /\ \A s \in Subs : d.grants[s] = IF s = p.sub THEN grants ELSE db.grants[s]
    BY DEF Sells
  <1>4. (until = KEPT) = (p.sku # ALL_ACCESS)
    <2>1. /\ p.sku # ALL_ACCESS => until = KEPT
          /\ p.sku = ALL_ACCESS => until > now
      BY <1>1, DeadlineFacts DEF Deserving
    <2> HIDE DEF until
    <2>2. QED
      BY <1>3, <2>1 DEF KEPT
  <1> HIDE DEF until
  <1>5. /\ grants \in Shelves /\ Covers(grants, held)
        /\ \A t \in Titles : grants[t] = IF t \in titles_for(p.sku) THEN Extended(held[t], until)
                                                                  ELSE held[t]
    BY <1>2, <1>3, GrantedFacts
  <1> HIDE DEF grants
  <1>6. ASSUME NEW t \in Titles PROVE Backing(p.sub, t, grants[t], tip)
    <2>1. Backing(p.sub, t, held[t], tip) /\ held[t] \in Nat \cup {NoRow}
      BY <1>1, <1>2 DEF Backed, Shelves
    <2>2. CASE t \notin titles_for(p.sku)
      BY <1>5, <2>1, <2>2
    <2>3. CASE t \in titles_for(p.sku) /\ held[t] # NoRow /\ Extended(held[t], until) = held[t]
      BY <1>5, <2>1, <2>3
    <2>4. CASE t \in titles_for(p.sku) /\ Extended(held[t], until) = until
      <3>1. grants[t] = until
        BY <1>5, <2>4
      <3>2. i \in PaidFor(p.sub)
        BY DEF PaidFor
      <3>3. QED
        BY <1>4, <2>4, <3>1, <3>2 DEF Backing
    <2>5. \/ Extended(held[t], until) = until
          \/ held[t] # NoRow /\ Extended(held[t], until) = held[t]
      BY DEF Extended, Later
    <2>6. QED
      BY <2>2, <2>3, <2>4, <2>5
  <1>7. Backed(d, tip)
    BY <1>3, <1>6 DEF Backed
  <1>8. NoWorse(d, db)
    <2>1. NoWorse(db, db)
      BY NoWorseThanItself
    <2>2. QED
      BY <1>3, <1>5, <2>1 DEF NoWorse
  <1>9. QED
    BY <1>7, <1>8

\* Crediting keeps the grants backed, no worse, and good when they are signed.
LEMMA CreditGrants ==
    ASSUME NEW db \in Ledgers, Backed(db, tip), Timely(db), clock \in 0..MaxClock,
           NEW i \in Ids, i <= tip, NEW outcome \in {"unresolved", Payment[i].outcome},
           NEW d, d = credit(db, i, outcome, clock)
    PROVE  Backed(d, tip) /\ NoWorse(d, db) /\ Timely(d)
  <1>1. clock \in Nat /\ clock < PERPETUAL /\ PERPETUAL \in Nat /\ MaxClock \in Nat
    BY PerpetualIsFar
  <1>2. CASE d = db
    BY <1>2, NoWorseThanItself
  <1>3. CASE Deserving(i) /\ d = Sold(db, i, clock)
    <2>1. Sells(db, d, i, clock)
      BY <1>1, <1>3, SoldFacts
    <2>2. Backed(d, tip) /\ NoWorse(d, db)
      BY <1>1, <1>3, <2>1, SaleIsBacked
    <2>3. ASSUME NEW s \in Owed(d) PROVE d.expires_at[s] > clock
      <3>1. s \in Subs
        BY DEF Owed
      <3>2. CASE s = Payment[i].sub
        <4> DEFINE p == Payment[i]
                   h == Horizon(Granted(db.grants[p.sub], titles_for(p.sku),
                                        Deadline(db, p.sub, p.sku, p.amount, clock)))
        <4>1. d.expires_at[s] = h /\ (h > clock \/ h >= PERPETUAL) /\ d \in Ledgers
          BY <2>1, <3>1, <3>2 DEF Sells
        <4>2. h \in Int
          BY <3>1, <4>1 DEF Ledgers
        <4> HIDE DEF h
        <4>3. QED
          BY <1>1, <4>1, <4>2
      <3>3. CASE s # Payment[i].sub
        <4>1. d.expires_at[s] = db.expires_at[s]
          BY <2>1, <3>1, <3>3 DEF Sells
        <4>2. \A j \in Ids : j # i => d.verdict[j] = db.verdict[j] /\ d.issued[j] = db.issued[j]
          BY <2>1 DEF Sells
        <4>3. s \in Owed(db)
          <5>1. PICK j \in Ids : d.verdict[j] = "credited" /\ ~ d.issued[j] /\ Payment[j].sub = s
            BY DEF Owed
          <5>2. j # i
            BY <3>3, <5>1
          <5>3. QED
            BY <3>1, <4>2, <5>1, <5>2 DEF Owed
        <4>4. QED
          BY <4>1, <4>3 DEF Timely
      <3>4. QED
        BY <3>2, <3>3
    <2>4. QED
      BY <2>2, <2>3 DEF Timely
  <1>4. CASE \E v \in Verdicts \ {"unseen", "credited"} : d = Recorded(db, i, v, v # "unresolved")
    <2>1. PICK v \in Verdicts \ {"unseen", "credited"} : d = Recorded(db, i, v, v # "unresolved")
      BY <1>4
    <2>2. v \in Verdicts /\ (v # "unresolved") \in BOOLEAN
      OBVIOUS
    <2>3. Records(db, d, i, v, v # "unresolved")
      BY <2>1, <2>2, RecordedFacts
    <2>4. /\ d.grants = db.grants /\ d.expires_at = db.expires_at
          /\ \A j \in Ids : j # i => d.verdict[j] = db.verdict[j] /\ d.issued[j] = db.issued[j]
          /\ d.verdict[i] # "credited"
      BY <2>3 DEF Records
    <2>5. Owed(d) \subseteq Owed(db)
      BY <2>4 DEF Owed
    <2>6. NoWorse(db, db)
      BY NoWorseThanItself
    <2>7. QED
      BY <2>4, <2>5, <2>6 DEF Backed, NoWorse, Timely
  <1>5. QED
    BY <1>2, <1>3, <1>4, CreditFacts

\* GrantInv is inductive.
LEMMA GrantStep ==
    ASSUME GrantInv, [Next]_vars
    PROVE  GrantInv' /\ NoWorse(ledger', ledger)
  <1>1. JudgeInv' /\ LedgerStep /\ TypesOK /\ TypesOK'
    <2>1. JudgeInv'
      BY JudgeStep DEF GrantInv
    <2>2. TypesOK /\ TypesOK'
      BY <2>1 DEF GrantInv, JudgeInv
    <2>3. QED
      BY <2>1, <2>2, StepIsLedgerStep
  <1>2. /\ ledger \in Ledgers /\ work \in Ledgers /\ ledger' \in Ledgers /\ work' \in Ledgers
        /\ clock \in 0..MaxClock /\ highest \in Nat
    BY <1>1 DEF TypesOK
  <1>3. /\ tip' \in {tip, tip + 1} /\ tip \in Int
        /\ clock' # clock => pc \in {"stopped", "poll"} /\ ledger' = ledger /\ work' = work
    <2>1. tip \in Int
      BY <1>1, PaymentsAreTyped DEF TypesOK
    <2>2. /\ tip' \in {tip, tip + 1}
          /\ clock' # clock => pc \in {"stopped", "poll"} /\ ledger' = ledger /\ work' = work
      BY DEF Next, Watch, vars, chain, Pay, Tick, Start, Poll, ReadFails, EventsDone, Credit,
             ReadEvents, Issue, IssueRaises, RolledBack, Accept, Refuse, NobodyAccepted,
             CommitNothingOwed, CommitIssued, Commit, Die
    <2>3. QED
      BY <2>1, <2>2
  <1>4. \A s, t, until : Backing(s, t, until, tip) => Backing(s, t, until, tip')
    <2>1. \A i \in Ids : i <= tip => i <= tip'
      BY <1>3, PaymentsAreTyped DEF Ids
    <2>2. QED
      BY <2>1 DEF Backing, PaidFor
  <1>5. /\ Backed(ledger', tip) /\ Backed(work', tip) /\ NoWorse(work', ledger') /\ NoWorse(ledger', ledger)
        /\ Timely(work')
    <2>1. NoWorse(ledger, ledger) /\ NoWorse(work, work)
      BY <1>2, NoWorseThanItself
    <2>2. Timely(ledger)
      BY DEF GrantInv, JudgeInv, Timely
    <2>3. CASE Nothing
      BY <2>1, <2>3 DEF Nothing, GrantInv
    <2>4. CASE RollsBack
      BY <2>1, <2>2, <2>4 DEF RollsBack, GrantInv
    <2>5. ASSUME NEW i \in Ids, NEW outcome, Credits(i, outcome)
          PROVE  /\ Backed(ledger', tip) /\ Backed(work', tip) /\ NoWorse(work', ledger')
                 /\ NoWorse(ledger', ledger) /\ Timely(work')
      <3>1. /\ i <= tip /\ outcome \in {"unresolved", Payment[i].outcome}
            /\ work' = credit(work, i, outcome, clock) /\ ledger' = ledger
        BY <1>1, <2>5 DEF Credits, TypesOK
      <3>2. Backed(work', tip) /\ NoWorse(work', work) /\ Timely(work')
        BY <1>2, <3>1, CreditGrants DEF GrantInv
      <3>3. NoWorse(work', ledger)
        BY <1>2, <3>2, NoWorseCarries DEF GrantInv
      <3>4. QED
        BY <2>1, <3>1, <3>2, <3>3 DEF GrantInv
    <2>6. CASE Bumps
      <3>1. ledger' = ledger /\ work' = Bumped(work, Owed(work))
        BY <2>6 DEF Bumps
      <3>2. /\ work'.grants = work.grants /\ work'.expires_at = work.expires_at
            /\ work'.verdict = work.verdict /\ work'.issued = work.issued
        BY <1>2, <3>1, BumpedFacts
      <3>3. Owed(work') = Owed(work)
        BY <3>2 DEF Owed
      <3>4. QED
        BY <2>1, <3>1, <3>2, <3>3 DEF GrantInv, Backed, NoWorse, Timely
    <2>7. CASE Commits
      <3>1. PICK db \in Ledgers : /\ db.grants = work.grants /\ Owed(db) = {}
                                  /\ ledger' = Closed(db) /\ work' = Closed(db)
        BY <1>2, <2>7, DeliveredFacts DEF Commits
      <3>2. work' = ledger' /\ work'.grants = work.grants /\ Owed(work') = {}
        BY <1>2, <3>1, ClosedFacts
      <3>3. NoWorse(work', work') /\ NoWorse(work', ledger)
        BY <1>2, <3>2, NoWorseThanItself DEF NoWorse, GrantInv
      <3>4. QED
        BY <3>2, <3>3 DEF GrantInv, Backed, Timely
    <2>8. QED
      BY <1>1, <2>3, <2>4, <2>5, <2>6, <2>7 DEF LedgerStep
  <1>6. Backed(ledger', tip') /\ Backed(work', tip')
    BY <1>4, <1>5 DEF Backed
  <1>7. Timely(work)'
    <2>1. CASE clock' = clock
      BY <1>5, <2>1 DEF Timely, Owed
    <2>2. CASE clock' # clock
      <3>1. work' = ledger'
        BY <1>3, <2>2 DEF GrantInv, JudgeInv
      <3>2. Owed(work)' = {}
        BY <1>1, <3>1 DEF JudgeInv, Owed
      <3>3. QED
        BY <3>2 DEF Timely
    <2>3. QED
      BY <2>1, <2>2
  <1>8. \A e \in signed' : \A t \in Titles : Backing(e.sub, t, e.sealed[t], tip')
    <2>1. CASE signed' = signed
      BY <1>4, <2>1 DEF GrantInv
    <2>2. CASE Issue
      <3>1. \A e \in signed' : e \in signed \/ \E s \in Subs : e.sub = s /\ e.sealed = subscriber_bundle(work.grants[s])
        <4> DEFINE owed == Owed(work)
                   db == Bumped(work, owed)
        <4>1. db.grants = work.grants /\ owed \subseteq Subs
          BY <1>2, BumpedFacts DEF Owed
        <4>2. PICK envelope :
                 /\ signed' = signed \cup {envelope[s] : s \in owed}
                 /\ \A s \in owed : envelope[s].sub = s /\ envelope[s].sealed = subscriber_bundle(db.grants[s])
          <5>1. PICK sig \in [owed -> Sigs] :
                   LET envelope == [s \in owed |-> [sub |-> s, seq |-> db.seq[s],
                                                    sealed |-> subscriber_bundle(db.grants[s]), sig |-> sig[s]]]
                   IN  signed' = signed \cup {envelope[s] : s \in owed}
            BY <2>2 DEF Issue
          <5> DEFINE envelope == [s \in owed |-> [sub |-> s, seq |-> db.seq[s],
                                                  sealed |-> subscriber_bundle(db.grants[s]), sig |-> sig[s]]]
          <5>2. \A s \in owed : envelope[s].sub = s /\ envelope[s].sealed = subscriber_bundle(db.grants[s])
            OBVIOUS
          <5>3. signed' = signed \cup {envelope[s] : s \in owed}
            BY <5>1
          <5> HIDE DEF envelope
          <5>4. QED
            BY <5>2, <5>3
        <4> HIDE DEF owed, db
        <4>3. QED
          BY <4>1, <4>2
      <3>2. \A s \in Subs : \A t \in Titles : Backing(s, t, subscriber_bundle(work.grants[s])[t], tip')
        <4> SUFFICES ASSUME NEW s \in Subs, NEW t \in Titles
                     PROVE  Backing(s, t, subscriber_bundle(work.grants[s])[t], tip')
          OBVIOUS
        <4>1. subscriber_bundle(work.grants[s])[t] \in {work.grants[s][t], NoRow}
          BY DEF subscriber_bundle
        <4>2. Backing(s, t, work.grants[s][t], tip')
          BY <1>4 DEF GrantInv, Backed
        <4>3. Backing(s, t, NoRow, tip')
          BY DEF Backing
        <4>4. QED
          BY <4>1, <4>2, <4>3
      <3>3. ASSUME NEW e \in signed', NEW t \in Titles PROVE Backing(e.sub, t, e.sealed[t], tip')
        BY <1>4, <3>1, <3>2 DEF GrantInv
      <3>4. QED
        BY <3>3
    <2>3. signed' = signed \/ Issue
      BY DEF Next, Watch, vars, Pay, Tick, Start, Poll, ReadFails, EventsDone, Credit,
             ReadEvents, IssueRaises, RolledBack, Accept, Refuse, NobodyAccepted,
             CommitNothingOwed, CommitIssued, Commit, Die
    <2>4. QED
      BY <2>1, <2>2, <2>3
  <1>9. NoWorse(work, ledger)'
    BY <1>5 DEF NoWorse
  <1>10. QED
    BY <1>1, <1>5, <1>6, <1>7, <1>8, <1>9 DEF GrantInv

\* It holds at the start.
LEMMA GrantInit == Init => GrantInv
  <1> SUFFICES ASSUME Init PROVE GrantInv
    OBVIOUS
  <1>1. JudgeInv /\ work = NewLedger /\ ledger = NewLedger /\ signed = {}
    BY JudgeInit DEF Init
  <1>2. \A s \in Subs : \A t \in Titles : NewLedger.grants[s][t] = NoRow
    BY DEF NewLedger
  <1>3. Owed(NewLedger) = {}
    BY <1>1 DEF JudgeInv
  <1>4. QED
    BY <1>1, <1>2, <1>3 DEF GrantInv, Backed, Backing, NoWorse, Covers, Timely

\* It always holds.
THEOREM GrantsAreBacked == Spec => []GrantInv
  BY GrantInit, GrantStep, PTL DEF Spec

\* Nothing is given away: every grant ever signed has a payment that deserves
\* it (NothingGivenAway).
THEOREM GivesNothingAway == Spec => []NothingGivenAway
  <1>1. GrantInv => NothingGivenAway
    BY DEF GrantInv, Backing, NothingGivenAway
  <1>2. QED
    BY <1>1, GrantsAreBacked, PTL

\* What is signed is still good when it is signed (IssuedWhileGood).
THEOREM IssuesWhileGood == Spec => []IssuedWhileGood
  <1>1. GrantInv => IssuedWhileGood
    BY DEF GrantInv, Timely, IssuedWhileGood
  <1>2. QED
    BY <1>1, GrantsAreBacked, PTL

\* Grants are only ever extended (GrantsNeverShrink).
THEOREM OnlyEverExtends == Spec => GrantsNeverShrink
  <1>1. GrantInv /\ [Next]_vars => [\A s \in Subs : Covers(ledger'.grants[s], ledger.grants[s])]_vars
    BY GrantStep DEF NoWorse
  <1>2. QED
    BY <1>1, GrantsAreBacked, PTL DEF Spec, GrantsNeverShrink

-------------------------------------------------------------------------------
\* What the books add up to

Final == {"ignored", "refused", "underpaid", "credited"}

Counted(db, s) == {i \in PaidFor(s) : db.verdict[i] = "credited"}

\* A subscriber has paid the sum of what was credited.
PaidUp(db) == \A s \in Subs : db.total_paid[s] = Total(Amount, Counted(db, s))

\* A subscriber holds what was credited, and for good what it bought outright.
Stocked(db) ==
    \A s \in Subs : \A t \in Titles :
        /\ db.grants[s][t] # NoRow <=>
             \E i \in Counted(db, s) : t \in titles_for(Payment[i].sku)
        /\ db.grants[s][t] = KEPT <=>
             \E i \in Counted(db, s) :
                Payment[i].sku # ALL_ACCESS /\ t \in titles_for(Payment[i].sku)

\* What was settled stays settled.
Remembers(d, db) ==
    \A i \in Ids : db.verdict[i] \in Final => d.verdict[i] = db.verdict[i]

SameBooks(d, db) ==
    /\ d.verdict = db.verdict /\ d.grants = db.grants /\ d.total_paid = db.total_paid

BooksInv ==
    /\ PaidUp(ledger) /\ PaidUp(work)
    /\ Stocked(ledger) /\ Stocked(work)
    /\ Remembers(work, ledger)

\* The sum in EachPaymentCountsOnce is what Collections calls a total.
LEMMA AmountsAddUp ==
    ASSUME NEW T
    PROVE  MapThenSumSet(LAMBDA i : Amount[i], T) = Total(Amount, T)
  BY DEF MapThenSumSet, MapThenFoldSet, Total, Adds, Chosen

\* Only finitely many payments can be credited, and each is a number.
LEMMA CountedFacts ==
    ASSUME NEW db, NEW s
    PROVE  /\ IsFiniteSet(Counted(db, s)) /\ Counted(db, s) \subseteq Ids
           /\ \A i \in Ids : Amount[i] = Payment[i].amount /\ Amount[i] \in Nat
  <1>1. IsFiniteSet(Ids)
    BY PaymentsAreTyped, FS_Interval DEF Ids
  <1>2. Counted(db, s) \subseteq Ids
    BY DEF Counted, PaidFor
  <1> QED
    BY <1>1, <1>2, FS_Subset, PaymentFacts DEF Amount

\* A sale adds what was paid to what its subscriber has paid.
LEMMA SalePays ==
    ASSUME NEW db \in Ledgers, NEW i \in Ids, NEW now
    PROVE  \A s \in Subs :
              Sold(db, i, now).total_paid[s] =
                  IF s = Payment[i].sub THEN db.total_paid[s] + Payment[i].amount
                                        ELSE db.total_paid[s]
  BY DEF Sold, Recorded, Ledgers

\* A sale keeps the books.
LEMMA SaleKeepsBooks ==
    ASSUME NEW db \in Ledgers, PaidUp(db), Stocked(db),
           NEW i \in Ids, db.verdict[i] \notin Final, Deserving(i), NEW now \in Nat,
           NEW d, d = Sold(db, i, now)
    PROVE  PaidUp(d) /\ Stocked(d) /\ Remembers(d, db)
  <1> DEFINE p == Payment[i]
             until == Deadline(db, p.sub, p.sku, p.amount, now)
             held == db.grants[p.sub]
             grants == Granted(held, titles_for(p.sku), until)
  <1>1. p.sub \in Subs /\ p.sku \in SKUs /\ p.amount \in Nat
    BY PaymentFacts
  <1>2. /\ d \in Ledgers /\ until \in Nat
        /\ \A j \in Ids : d.verdict[j] = IF j = i THEN "credited" ELSE db.verdict[j]
        /\ \A s \in Subs : d.grants[s] = IF s = p.sub THEN grants ELSE db.grants[s]
    <2>1. Sells(db, d, i, now)
      BY SoldFacts
    <2> QED
      BY <2>1 DEF Sells
  <1>3. until = KEPT <=> p.sku # ALL_ACCESS
    <2>1. /\ p.sku # ALL_ACCESS => until = KEPT
          /\ p.sku = ALL_ACCESS => until > now
      BY <1>1, DeadlineFacts DEF Deserving
    <2> HIDE DEF until
    <2> QED
      BY <1>2, <2>1 DEF KEPT
  <1>4. held \in Shelves
    BY <1>1 DEF Ledgers
  <1> HIDE DEF until
  <1>5. \A t \in Titles :
           grants[t] = IF t \in titles_for(p.sku) THEN Extended(held[t], until) ELSE held[t]
    BY DEF Granted
  <1> HIDE DEF held, grants
  <1>6. \A t \in Titles :
           /\ grants[t] # NoRow <=> held[t] # NoRow \/ t \in titles_for(p.sku)
           /\ grants[t] = KEPT <=> held[t] = KEPT \/ (until = KEPT /\ t \in titles_for(p.sku))
    <2> SUFFICES ASSUME NEW t \in Titles
                 PROVE  /\ grants[t] # NoRow <=> held[t] # NoRow \/ t \in titles_for(p.sku)
                        /\ grants[t] = KEPT <=>
                              held[t] = KEPT \/ (until = KEPT /\ t \in titles_for(p.sku))
      OBVIOUS
    <2>1. held[t] \in Nat \cup {NoRow} /\ until \in Nat
      BY <1>2, <1>4 DEF Shelves
    <2>2. /\ Extended(held[t], until) # NoRow
          /\ Extended(held[t], until) = KEPT <=> held[t] = KEPT \/ until = KEPT
      BY <2>1 DEF Extended, Later, NoRow, KEPT
    <2> QED
      BY <1>5, <2>2
  <1>7. i \notin Counted(db, p.sub)
    BY DEF Counted, Final
  <1>8. \A s \in Subs : Counted(d, s) = IF s = p.sub THEN Counted(db, s) \cup {i}
                                                    ELSE Counted(db, s)
    BY <1>2 DEF Counted, PaidFor
  <1>9. PaidUp(d)
    <2> SUFFICES ASSUME NEW s \in Subs PROVE d.total_paid[s] = Total(Amount, Counted(d, s))
      BY DEF PaidUp
    <2>1. /\ d.total_paid[s] = IF s = p.sub THEN db.total_paid[s] + p.amount ELSE db.total_paid[s]
          /\ db.total_paid[s] = Total(Amount, Counted(db, s))
      BY SalePays DEF PaidUp
    <2>2. s = p.sub => Total(Amount, Counted(db, s) \cup {i}) = Total(Amount, Counted(db, s)) + p.amount
      <3>1. /\ IsFiniteSet(Counted(db, s)) /\ \A j \in Counted(db, s) : Amount[j] \in Nat
            /\ Amount[i] \in Nat /\ Amount[i] = p.amount
        BY CountedFacts
      <3> QED
        BY <1>7, <3>1, TotalOfOneMore
    <2> QED
      BY <1>8, <2>1, <2>2
  <1>10. Stocked(d)
    <2> SUFFICES ASSUME NEW s \in Subs, NEW t \in Titles
                 PROVE  /\ d.grants[s][t] # NoRow <=>
                             \E j \in Counted(d, s) : t \in titles_for(Payment[j].sku)
                        /\ d.grants[s][t] = KEPT <=>
                             \E j \in Counted(d, s) :
                                Payment[j].sku # ALL_ACCESS /\ t \in titles_for(Payment[j].sku)
      BY DEF Stocked
    <2>1. CASE s # p.sub
      BY <1>2, <1>8, <2>1 DEF Stocked
    <2>2. CASE s = p.sub
      <3>1. d.grants[s][t] = grants[t] /\ Counted(d, s) = Counted(db, s) \cup {i}
        BY <1>2, <1>8, <2>2
      <3>2. /\ held[t] # NoRow <=> \E j \in Counted(db, s) : t \in titles_for(Payment[j].sku)
            /\ held[t] = KEPT <=>
                 \E j \in Counted(db, s) :
                    Payment[j].sku # ALL_ACCESS /\ t \in titles_for(Payment[j].sku)
        BY <2>2 DEF Stocked, held
      <3> QED
        BY <1>3, <1>6, <3>1, <3>2
    <2> QED
      BY <2>1, <2>2
  <1>11. Remembers(d, db)
    BY <1>2 DEF Remembers
  <1> QED
    BY <1>9, <1>10, <1>11

\* Books with the same entries say the same.
LEMMA SameBooksSameInv ==
    ASSUME NEW d, NEW db, SameBooks(d, db)
    PROVE  /\ PaidUp(db) => PaidUp(d)
           /\ Stocked(db) => Stocked(d)
           /\ Remembers(d, db)
           /\ \A e : Remembers(db, e) => Remembers(d, e)
  BY DEF SameBooks, PaidUp, Stocked, Remembers, Counted

\* credit() keeps the books, whatever the answer.
LEMMA CreditKeepsBooks ==
    ASSUME NEW db \in Ledgers, PaidUp(db), Stocked(db), NEW i \in Ids, NEW now \in Nat,
           NEW outcome \in {"unresolved", Payment[i].outcome},
           NEW d, d = credit(db, i, outcome, now)
    PROVE  PaidUp(d) /\ Stocked(d) /\ Remembers(d, db)
  <1>1. CASE d = db
    BY <1>1 DEF Remembers
  <1>2. CASE db.verdict[i] \in {"unseen", "unresolved"} /\ Deserving(i) /\ d = Sold(db, i, now)
    BY <1>2, SaleKeepsBooks DEF Final
  <1>3. CASE /\ db.verdict[i] \in {"unseen", "unresolved"}
             /\ \E v \in Verdicts \ {"unseen", "credited"} : d = Recorded(db, i, v, v # "unresolved")
    <2>1. PICK v \in Verdicts \ {"unseen", "credited"} : d = Recorded(db, i, v, v # "unresolved")
      BY <1>3
    <2>2. v \in Verdicts /\ (v # "unresolved") \in BOOLEAN
      OBVIOUS
    <2>3. Records(db, d, i, v, v # "unresolved")
      BY <2>1, <2>2, RecordedFacts
    <2>4. /\ d.grants = db.grants /\ d.total_paid = db.total_paid
          /\ \A j \in Ids : d.verdict[j] = IF j = i THEN v ELSE db.verdict[j]
      BY <2>3 DEF Records
    <2>5. \A s : Counted(d, s) = Counted(db, s)
      BY <1>3, <2>4 DEF Counted, PaidFor
    <2> QED
      BY <1>3, <2>4, <2>5 DEF PaidUp, Stocked, Remembers, Final
  <1> QED
    BY <1>1, <1>2, <1>3, CreditFacts

\* Issuing, marking issued and closing enter nothing in the books.
LEMMA IssuingKeepsBooks ==
    ASSUME NEW db \in Ledgers
    PROVE  /\ \A owed : SameBooks(Bumped(db, owed), db)
           /\ SameBooks(Delivered(db), db)
           /\ SameBooks(Closed(db), db)
  BY DEF Bumped, Delivered, Closed, Ledgers, SameBooks

\* A pass that commits, commits the books it has, and owes nobody then.
LEMMA CommitsBooks ==
    ASSUME TypesOK, highest \in Nat, Commits
    PROVE  work' = ledger' /\ SameBooks(ledger', work) /\ Owed(ledger') = {}
  <1>1. work \in Ledgers
    BY DEF TypesOK
  <1>2. PICK db \in Ledgers : SameBooks(db, work) /\ Owed(db) = {} /\ ledger' = Closed(db) /\ work' = Closed(db)
    BY <1>1, DeliveredFacts, IssuingKeepsBooks DEF Commits, SameBooks
  <1>3. SameBooks(Closed(db), db) /\ Owed(Closed(db)) = {}
    BY <1>2, ClosedFacts, IssuingKeepsBooks
  <1> QED
    BY <1>2, <1>3 DEF SameBooks

LEMMA BooksStep ==
    ASSUME JudgeInv, BooksInv, [Next]_vars
    PROVE  BooksInv'
  <1>1. TypesOK /\ LedgerStep
    BY StepIsLedgerStep DEF JudgeInv
  <1>2. ledger \in Ledgers /\ work \in Ledgers /\ highest \in Nat /\ clock \in Nat
    BY <1>1, PerpetualIsFar DEF TypesOK
  <1>3. Remembers(ledger, ledger)
    BY DEF Remembers
  <1>4. CASE Nothing
    BY <1>4 DEF Nothing, BooksInv, PaidUp, Stocked, Counted, Remembers
  <1>5. CASE RollsBack
    BY <1>3, <1>5 DEF RollsBack, BooksInv, PaidUp, Stocked, Counted, Remembers
  <1>6. ASSUME NEW i \in Ids, NEW outcome, Credits(i, outcome)
        PROVE  BooksInv'
    <2>1. /\ outcome \in {"unresolved", Payment[i].outcome}
          /\ work' = credit(work, i, outcome, clock) /\ ledger' = ledger
      BY <1>6 DEF Credits
    <2>2. PaidUp(work') /\ Stocked(work') /\ Remembers(work', work)
      BY <1>2, <2>1, CreditKeepsBooks DEF BooksInv
    <2>3. Remembers(work', ledger)
      BY <2>2 DEF BooksInv, Remembers
    <2> QED
      BY <2>1, <2>2, <2>3 DEF BooksInv, PaidUp, Stocked, Counted, Remembers
  <1>7. CASE Bumps
    <2>1. ledger' = ledger /\ SameBooks(work', work)
      BY <1>2, <1>7, IssuingKeepsBooks DEF Bumps
    <2>2. PaidUp(work') /\ Stocked(work') /\ Remembers(work', ledger)
      BY <2>1, SameBooksSameInv DEF BooksInv
    <2> QED
      BY <2>1, <2>2 DEF BooksInv, PaidUp, Stocked, Counted, Remembers
  <1>8. CASE Commits
    <2>1. work' = ledger' /\ SameBooks(ledger', work)
      BY <1>1, <1>2, <1>8, CommitsBooks
    <2>2. PaidUp(ledger') /\ Stocked(ledger')
      BY <2>1, SameBooksSameInv DEF BooksInv
    <2> QED
      BY <2>1, <2>2 DEF BooksInv, PaidUp, Stocked, Counted, Remembers
  <1> QED
    BY <1>1, <1>4, <1>5, <1>6, <1>7, <1>8 DEF LedgerStep

LEMMA BooksInit == Init => BooksInv
  <1> SUFFICES ASSUME Init PROVE BooksInv
    OBVIOUS
  <1>1. /\ ledger = NewLedger /\ work = NewLedger
        /\ \A s \in Subs : Counted(NewLedger, s) = {} /\ NewLedger.total_paid[s] = 0
        /\ \A s \in Subs : \A t \in Titles : NewLedger.grants[s][t] = NoRow
    BY DEF Init, NewLedger, Counted, PaidFor
  <1>2. NoRow # KEPT
    BY DEF NoRow, KEPT
  <1>3. PaidUp(NewLedger)
    BY <1>1, TotalOfNothing DEF PaidUp
  <1>4. Stocked(NewLedger)
    BY <1>1, <1>2 DEF Stocked
  <1> QED
    BY <1>1, <1>3, <1>4 DEF BooksInv, Remembers

\* The books always add up.
THEOREM BooksAreInOrder == Spec => []BooksInv
  BY BooksInit, BooksStep, VerdictsAreFair, PTL DEF Spec

\* What the ledger says a subscriber has paid is the sum of their credited
\* payments, each once, however often a pass was repeated.
THEOREM EachCountsOnce == Spec => []EachPaymentCountsOnce
  <1>1. ASSUME BooksInv PROVE EachPaymentCountsOnce
    <2>1. \A db \in {ledger, work} : \A s \in Subs : db.total_paid[s] = Total(Amount, Counted(db, s))
      BY <1>1 DEF BooksInv, PaidUp
    <2>2. ASSUME NEW db \in {ledger, work}, NEW s \in Subs
          PROVE  db.total_paid[s] =
                    MapThenSumSet(LAMBDA i : Amount[i],
                                  {i \in PaidFor(s) : db.verdict[i] = "credited"})
      <3>1. MapThenSumSet(LAMBDA i : Amount[i], Counted(db, s)) = Total(Amount, Counted(db, s))
        BY AmountsAddUp
      <3> QED
        BY <2>1, <3>1 DEF Counted
    <2> QED
      BY <2>2 DEF EachPaymentCountsOnce
  <1> QED
    BY <1>1, BooksAreInOrder, PTL

-------------------------------------------------------------------------------
\* How far a rental runs

Days == [i \in Ids |-> days_for(Payment[i].amount)]

\* The rentals a ledger has credited to a subscriber, and all it may ever pay for.
Rented(db, s) == {i \in Counted(db, s) : Payment[i].sku = ALL_ACCESS}

Rentals(s) == {i \in PaidFor(s) : Payment[i].sku = ALL_ACCESS /\ Deserving(i)}

\* No title a subscriber holds outlasts their horizon; and that of a renter,
\* who holds none outright, is no further off than the days they paid for.
Dated(db, s, now) ==
    /\ \A t \in Titles : db.grants[s][t] # NoRow => db.expires_at[s] >= db.grants[s][t]
    /\ (\A t \in Titles : db.grants[s][t] # KEPT) =>
           db.expires_at[s] <= now + Total(Days, Rented(db, s))

Terms(db, now) == \A s \in Subs : Dated(db, s, now)

TermsInv == Terms(ledger, clock) /\ Terms(work, clock)

\* The days of all that a subscriber rents end before PERPETUAL, the horizon
\* of what is kept.
TimeSoldIsShort == \A s \in Subs : MaxClock + Total(Days, Rentals(s)) < PERPETUAL

\* Finitely many rentals are credited, each of a number of days.
LEMMA RentedFacts ==
    ASSUME NEW db, NEW s
    PROVE  /\ IsFiniteSet(Rented(db, s)) /\ IsFiniteSet(Rentals(s))
           /\ Rented(db, s) \subseteq Ids /\ Rentals(s) \subseteq Ids
           /\ \A i \in Ids : Days[i] = days_for(Payment[i].amount) /\ Days[i] \in Nat
           /\ Total(Days, Rented(db, s)) \in Nat
  <1>1. IsFiniteSet(Ids)
    BY PaymentsAreTyped, FS_Interval DEF Ids
  <1>2. Rented(db, s) \subseteq Ids /\ Rentals(s) \subseteq Ids
    BY DEF Rented, Counted, Rentals, PaidFor
  <1>3. \A i \in Ids : Days[i] = days_for(Payment[i].amount) /\ Days[i] \in Nat
    BY PaymentFacts, DaysFacts DEF Days
  <1>4. IsFiniteSet(Rented(db, s)) /\ IsFiniteSet(Rentals(s))
    BY <1>1, <1>2, FS_Subset
  <1>5. Total(Days, Rented(db, s)) \in Nat
    BY <1>2, <1>3, <1>4, TotalType
  <1> QED
    BY <1>2, <1>3, <1>4, <1>5

\* A ledger with the same grants, horizons and verdicts is as well dated, and
\* a day later it still is.
LEMMA DatedCarries ==
    ASSUME NEW db \in Ledgers, NEW d, NEW s \in Subs, NEW now \in Nat, NEW later \in Nat, now <= later,
           d.grants[s] = db.grants[s], d.expires_at[s] = db.expires_at[s],
           Rented(d, s) = Rented(db, s), Dated(db, s, now)
    PROVE  Dated(d, s, later)
  <1>1. db.expires_at[s] \in Int /\ Total(Days, Rented(db, s)) \in Nat
    BY RentedFacts DEF Ledgers
  <1> DEFINE n == Total(Days, Rented(db, s))
             e == db.expires_at[s]
  <1>2. n = Total(Days, Rented(d, s)) /\ e = d.expires_at[s] /\ n \in Nat /\ e \in Int
    BY <1>1
  <1>3. e <= now + n => e <= later + n
    BY <1>1
  <1> QED
    BY <1>2, <1>3 DEF Dated

\* A rental runs from no later than now or the horizon it extends.
LEMMA RentalRuns ==
    ASSUME NEW db \in Ledgers, NEW s \in Subs, NEW amount \in Nat, NEW now \in Nat, NEW most \in Nat,
           now <= most, db.expires_at[s] <= most
    PROVE  Deadline(db, s, ALL_ACCESS, amount, now) <= most + days_for(amount)
  <1>1. db.expires_at[s] \in Int /\ days_for(amount) \in Nat
    BY DaysFacts DEF Ledgers
  <1> QED
    BY <1>1 DEF Deadline, Later

\* A sale dates its subscriber's titles right.
LEMMA SaleIsDated ==
    ASSUME NEW db \in Ledgers, NEW i \in Ids, NEW now \in Nat, Terms(db, now),
           db.verdict[i] \notin Final, Deserving(i), NEW d, d = Sold(db, i, now)
    PROVE  Terms(d, now)
  <1> DEFINE p == Payment[i]
             s == p.sub
             until == Deadline(db, s, p.sku, p.amount, now)
             held == db.grants[s]
             grants == Granted(held, titles_for(p.sku), until)
             had == Total(Days, Rented(db, s))
             has == Total(Days, Rented(d, s))
  <1>1. s \in Subs /\ p.sku \in SKUs /\ p.amount \in Nat
    BY PaymentFacts
  <1>2. Sells(db, d, i, now)
    BY SoldFacts
  <1>3. /\ until \in Nat /\ grants \in Shelves /\ held \in Shelves
        /\ \A j \in Ids : d.verdict[j] = IF j = i THEN "credited" ELSE db.verdict[j]
        /\ \A r \in Subs :
              /\ d.grants[r] = IF r = s THEN grants ELSE db.grants[r]
              /\ d.expires_at[r] = IF r = s THEN Horizon(grants) ELSE db.expires_at[r]
    BY <1>1, <1>2 DEF Sells, Ledgers
  <1>4. i \notin Rented(db, s)
    BY DEF Rented, Counted, Final
  <1>5. /\ \A r \in Subs : r # s => Rented(d, r) = Rented(db, r)
        /\ Rented(d, s) = IF p.sku = ALL_ACCESS THEN Rented(db, s) \cup {i} ELSE Rented(db, s)
    BY <1>3 DEF Rented, Counted, PaidFor
  <1>6. had \in Nat /\ has = IF p.sku = ALL_ACCESS THEN had + days_for(p.amount) ELSE had
    <2>1. /\ IsFiniteSet(Rented(db, s)) /\ \A j \in Rented(db, s) : Days[j] \in Nat
          /\ Days[i] = days_for(p.amount) /\ Days[i] \in Nat
          /\ Total(Days, Rented(db, s)) \in Nat
      BY RentedFacts
    <2>2. Total(Days, Rented(db, s) \cup {i}) = Total(Days, Rented(db, s)) + Days[i]
      BY <1>4, <2>1, TotalOfOneMore
    <2> QED
      BY <1>5, <2>1, <2>2
  <1>7. p.sku # ALL_ACCESS => until = KEPT
    BY <1>1, DeadlineFacts
  <1>8. db.expires_at[s] <= now + had => (p.sku = ALL_ACCESS => until <= now + has)
    <2>1. now + had \in Nat /\ now <= now + had
      BY <1>6
    <2> DEFINE most == now + had
    <2>2. db.expires_at[s] <= most =>
             Deadline(db, s, ALL_ACCESS, p.amount, now) <= most + days_for(p.amount)
      <3> HIDE DEF most, s, p
      <3> QED
        BY <1>1, <2>1, RentalRuns DEF most
    <2>3. days_for(p.amount) \in Nat
      BY <1>1, DaysFacts
    <2>4. p.sku = ALL_ACCESS => most + days_for(p.amount) = now + has
      <3> HIDE DEF had, has
      <3> QED
        BY <1>6, <2>3
    <2> QED
      BY <2>2, <2>4
  <1>9. \A t \in Titles :
           grants[t] = IF t \in titles_for(p.sku) THEN Extended(held[t], until) ELSE held[t]
    BY DEF Granted
  <1>10. Dated(db, s, now) /\ db.expires_at[s] \in Int
    BY <1>1 DEF Terms, Ledgers
  <1>11. d.grants[s] = grants /\ d.expires_at[s] = Horizon(grants)
    BY <1>1, <1>3
  <1>12. ASSUME NEW t \in Titles, grants[t] # NoRow
         PROVE  Horizon(grants) >= grants[t]
    <2> HIDE DEF grants
    <2>1. /\ Horizon(grants) \in Int
          /\ Horizon(grants) >= IF grants[t] = KEPT THEN PERPETUAL ELSE grants[t]
      BY <1>3, <1>12, HorizonFacts
    <2> QED
      BY <2>1, PerpetualIsFar DEF KEPT
  <1>13. ASSUME \A t \in Titles : grants[t] # KEPT
         PROVE  Horizon(grants) <= now + has
    <2>1. \A t \in Titles : held[t] # KEPT
      <3> SUFFICES ASSUME NEW t \in Titles, held[t] = KEPT PROVE FALSE
        OBVIOUS
      <3>1. Extended(held[t], until) = KEPT
        BY DEF Extended, KEPT, NoRow
      <3> QED
        BY <1>9, <1>13, <3>1
    <2>2. db.expires_at[s] <= now + had
      BY <1>10, <2>1 DEF Dated
    <2> HIDE DEF until, had, has
    <2>3. had <= has
      BY <1>1, <1>6, DaysFacts
    <2>4. ASSUME NEW t \in Titles, grants[t] # NoRow PROVE grants[t] <= now + has
      <3>1. CASE grants[t] = held[t]
        <4>1. held[t] \in Nat /\ db.expires_at[s] >= held[t]
          BY <1>3, <1>10, <2>4, <3>1 DEF Dated, Shelves
        <4> HIDE DEF held, grants
        <4> QED
          BY <1>6, <1>10, <2>2, <2>3, <3>1, <4>1
      <3>2. CASE grants[t] # held[t]
        <4>1. grants[t] = until
          <5>1. Extended(held[t], until) \in {held[t], KEPT, until}
            BY DEF Extended, Later
          <5> QED
            BY <1>9, <1>13, <3>2, <5>1
        <4>2. p.sku = ALL_ACCESS
          BY <1>7, <1>13, <4>1
        <4> QED
          BY <1>8, <2>2, <4>1, <4>2
      <3> QED
        BY <3>1, <3>2
    <2>5. PICK t \in Titles : grants[t] # NoRow /\ Horizon(grants) = grants[t]
      <3>1. PICK u \in Titles : grants[u] # NoRow
        <4>1. PICK u \in Titles : u \in titles_for(p.sku)
          BY <1>1, TitlesAreNamed DEF Deserving, Refused, titles_for, SKUs, ALL_ACCESS
        <4>2. held[u] \in Nat \cup {NoRow} /\ until \in Nat
          BY <1>3 DEF Shelves
        <4>3. Extended(held[u], until) # NoRow
          BY <4>2 DEF Extended, Later, NoRow, KEPT
        <4> QED
          BY <1>9, <4>1, <4>3
      <3> HIDE DEF grants
      <3>2. PICK t \in Titles : /\ grants[t] # NoRow
                                /\ Horizon(grants) = IF grants[t] = KEPT THEN PERPETUAL ELSE grants[t]
        BY <1>3, <3>1, HorizonFacts
      <3> QED
        BY <1>13, <3>2
    <2> QED
      BY <2>4, <2>5
  <1>14. Dated(d, s, now)
    <2> HIDE DEF grants, has, s
    <2>1. \A t \in Titles : d.grants[s][t] # NoRow => d.expires_at[s] >= d.grants[s][t]
      BY <1>11, <1>12
    <2>2. (\A t \in Titles : d.grants[s][t] # KEPT) => d.expires_at[s] <= now + has
      BY <1>11, <1>13
    <2> QED
      BY <2>1, <2>2 DEF Dated, has
  <1>15. ASSUME NEW r \in Subs, r # s PROVE Dated(d, r, now)
    <2>1. d.grants[r] = db.grants[r] /\ d.expires_at[r] = db.expires_at[r] /\ Rented(d, r) = Rented(db, r)
      BY <1>3, <1>5, <1>15
    <2>2. Dated(db, r, now) /\ now <= now
      BY DEF Terms
    <2> QED
      BY <2>1, <2>2, DatedCarries
  <1> QED
    BY <1>14, <1>15 DEF Terms

\* The same of a whole ledger.
LEMMA TermsCarry ==
    ASSUME NEW db \in Ledgers, NEW d, NEW now \in Nat, NEW later \in Nat, now <= later,
           d.grants = db.grants, d.expires_at = db.expires_at,
           \A s \in Subs : Rented(d, s) = Rented(db, s), Terms(db, now)
    PROVE  Terms(d, later)
  <1> SUFFICES ASSUME NEW s \in Subs PROVE Dated(d, s, later)
    BY DEF Terms
  <1>1. Dated(db, s, now) /\ Rented(d, s) = Rented(db, s)
    BY DEF Terms
  <1> QED
    BY <1>1, DatedCarries

\* credit() dates titles right, whatever the answer.
LEMMA CreditIsDated ==
    ASSUME NEW db \in Ledgers, NEW i \in Ids, NEW now \in Nat, Terms(db, now),
           NEW outcome \in {"unresolved", Payment[i].outcome},
           NEW d, d = credit(db, i, outcome, now)
    PROVE  Terms(d, now)
  <1>1. CASE d = db
    BY <1>1
  <1>2. CASE db.verdict[i] \in {"unseen", "unresolved"} /\ Deserving(i) /\ d = Sold(db, i, now)
    BY <1>2, SaleIsDated DEF Final
  <1>3. CASE /\ db.verdict[i] \in {"unseen", "unresolved"}
             /\ \E v \in Verdicts \ {"unseen", "credited"} : d = Recorded(db, i, v, v # "unresolved")
    <2>1. PICK v \in Verdicts \ {"unseen", "credited"} : d = Recorded(db, i, v, v # "unresolved")
      BY <1>3
    <2>2. v \in Verdicts /\ (v # "unresolved") \in BOOLEAN
      OBVIOUS
    <2>3. Records(db, d, i, v, v # "unresolved")
      BY <2>1, <2>2, RecordedFacts
    <2>4. /\ d.grants = db.grants /\ d.expires_at = db.expires_at
          /\ \A j \in Ids : d.verdict[j] = IF j = i THEN v ELSE db.verdict[j]
      BY <2>3 DEF Records
    <2>5. \A s : Rented(d, s) = Rented(db, s)
      BY <1>3, <2>4 DEF Rented, Counted, PaidFor
    <2> QED
      BY <2>4, <2>5, TermsCarry
  <1> QED
    BY <1>1, <1>2, <1>3, CreditFacts

\* TermsInv is inductive.
LEMMA TermsStep ==
    ASSUME JudgeInv, JudgeInv', TermsInv, [Next]_vars
    PROVE  TermsInv'
  <1>1. TypesOK /\ LedgerStep /\ TypesOK'
    BY StepIsLedgerStep DEF JudgeInv
  <1>2. /\ ledger \in Ledgers /\ work \in Ledgers /\ highest \in Nat
        /\ clock \in Nat /\ clock' \in Nat
    BY <1>1, PerpetualIsFar DEF TypesOK
  <1>3. clock <= clock'
    <2>1. clock' \in {clock, clock + 1}
      BY DEF Next, Watch, vars, chain, Pay, Tick, Start, Poll, ReadFails, EventsDone, Credit,
             ReadEvents, Issue, IssueRaises, RolledBack, Accept, Refuse, NobodyAccepted,
             CommitNothingOwed, CommitIssued, Commit, Die
    <2> QED
      BY <1>2, <2>1
  <1>4. Terms(ledger, clock') /\ Terms(work, clock')
    BY <1>2, <1>3, TermsCarry DEF TermsInv
  <1>5. CASE Nothing \/ RollsBack
    BY <1>4, <1>5 DEF Nothing, RollsBack, TermsInv
  <1>6. ASSUME NEW i \in Ids, NEW outcome, Credits(i, outcome)
        PROVE  TermsInv'
    <2>1. /\ outcome \in {"unresolved", Payment[i].outcome}
          /\ work' = credit(work, i, outcome, clock) /\ ledger' = ledger /\ work' \in Ledgers
      BY <1>1, <1>6 DEF Credits, TypesOK
    <2>2. Terms(work', clock)
      BY <1>2, <2>1, CreditIsDated DEF TermsInv
    <2>3. Terms(work', clock')
      BY <1>2, <1>3, <2>1, <2>2, TermsCarry
    <2> QED
      BY <1>4, <2>1, <2>3 DEF TermsInv
  <1>7. CASE Bumps
    <2>1. ledger' = ledger /\ work' = Bumped(work, Owed(work))
      BY <1>7 DEF Bumps
    <2>2. work'.grants = work.grants /\ work'.expires_at = work.expires_at /\ work'.verdict = work.verdict
      BY <1>2, <2>1, BumpedFacts
    <2>3. \A s : Rented(work', s) = Rented(work, s)
      BY <2>2 DEF Rented, Counted
    <2>4. Terms(work', clock')
      BY <1>2, <1>4, <2>2, <2>3, TermsCarry
    <2> QED
      BY <1>4, <2>1, <2>4 DEF TermsInv
  <1>8. CASE Commits
    <2>1. PICK db \in Ledgers : /\ db.grants = work.grants /\ db.expires_at = work.expires_at
                                /\ db.verdict = work.verdict
                                /\ ledger' = Closed(db) /\ work' = Closed(db)
      BY <1>2, <1>8, DeliveredFacts DEF Commits
    <2>2. /\ work' = ledger' /\ work'.grants = work.grants /\ work'.expires_at = work.expires_at
          /\ work'.verdict = work.verdict
      BY <1>2, <2>1, ClosedFacts
    <2>3. \A s : Rented(work', s) = Rented(work, s)
      BY <2>2 DEF Rented, Counted
    <2>4. Terms(work', clock')
      BY <1>2, <1>4, <2>2, <2>3, TermsCarry
    <2> QED
      BY <2>2, <2>4 DEF TermsInv
  <1> QED
    BY <1>1, <1>5, <1>6, <1>7, <1>8 DEF LedgerStep

\* It holds at the start.
LEMMA TermsInit == Init => TermsInv
  <1> SUFFICES ASSUME Init, NEW s \in Subs PROVE Dated(NewLedger, s, 0)
    BY DEF Init, TermsInv, Terms
  <1>1. NewLedger.expires_at[s] = NoRow /\ \A t \in Titles : NewLedger.grants[s][t] = NoRow
    BY DEF NewLedger
  <1>2. Total(Days, Rented(NewLedger, s)) \in Nat
    BY RentedFacts
  <1> QED
    BY <1>1, <1>2 DEF Dated, NoRow

\* No title outlasts its holder's horizon, and no renter's horizon the days
\* they paid for, counted from today.
THEOREM RentersRunOut == Spec => []TermsInv
  <1>1. JudgeInv /\ TermsInv /\ [Next]_vars => JudgeInv' /\ TermsInv'
    BY JudgeStep, TermsStep
  <1> QED
    BY <1>1, JudgeInit, TermsInit, PTL DEF Spec

\* What is credited by a step is credited by a sale.
LEMMA RenewalIsASale ==
    ASSUME JudgeInv, BooksInv, [Next]_vars, NEW i \in Ids, Renews(i)
    PROVE  work' = Sold(work, i, clock) /\ Deserving(i) /\ work.verdict[i] \notin Final
  <1>1. TypesOK /\ LedgerStep
    BY StepIsLedgerStep DEF JudgeInv
  <1>2. /\ work \in Ledgers /\ ledger \in Ledgers /\ clock \in Nat
        /\ pc \in {"retry", "credit"}
        /\ work.verdict[i] # "credited" /\ work'.verdict[i] = "credited"
    BY <1>1, PerpetualIsFar DEF TypesOK, Renews
  <1>3. ~ Nothing
    BY <1>2 DEF Nothing
  <1>4. ~ RollsBack
    BY <1>2 DEF RollsBack, BooksInv, Remembers, Final
  <1>5. ~ Bumps /\ ~ Commits
    BY <1>2 DEF Bumps, Commits
  <1>6. PICK j \in Ids : \E o : Credits(j, o)
    BY <1>1, <1>3, <1>4, <1>5 DEF LedgerStep
  <1>7. PICK outcome : Credits(j, outcome)
    BY <1>6
  <1>8. outcome \in {"unresolved", Payment[j].outcome} /\ work' = credit(work, j, outcome, clock)
    BY <1>7 DEF Credits
  <1>9. CASE work' = work
    BY <1>2, <1>9
  <1>10. CASE work.verdict[j] \in {"unseen", "unresolved"} /\ Deserving(j) /\ work' = Sold(work, j, clock)
    <2>1. Sells(work, work', j, clock)
      BY <1>2, <1>10, SoldFacts
    <2>2. i = j
      BY <1>2, <2>1 DEF Sells
    <2> QED
      BY <1>10, <2>2 DEF Final
  <1>11. ASSUME NEW v \in Verdicts \ {"unseen", "credited"},
                work' = Recorded(work, j, v, v # "unresolved")
         PROVE  FALSE
    <2>1. v \in Verdicts /\ (v # "unresolved") \in BOOLEAN
      OBVIOUS
    <2>2. Records(work, work', j, v, v # "unresolved")
      BY <1>2, <1>11, <2>1, RecordedFacts
    <2>3. work'.verdict[i] = IF i = j THEN v ELSE work.verdict[i]
      BY <2>2 DEF Records
    <2> QED
      BY <1>2, <2>3
  <1>12. \/ work' = work
         \/ work.verdict[j] \in {"unseen", "unresolved"} /\ Deserving(j) /\ work' = Sold(work, j, clock)
         \/ \E v \in Verdicts \ {"unseen", "credited"} : work' = Recorded(work, j, v, v # "unresolved")
    BY <1>2, <1>8, CreditFacts
  <1> QED
    BY <1>9, <1>10, <1>11, <1>12

\* A renter's horizon is never mistaken for that of a title kept for good.
LEMMA HorizonIsNear ==
    ASSUME JudgeInv, TermsInv, TimeSoldIsShort, NEW s \in Subs,
           \A t \in Titles : work.grants[s][t] # KEPT
    PROVE  work.expires_at[s] < PERPETUAL
  <1>1. /\ work \in Ledgers /\ clock \in Nat /\ clock <= MaxClock /\ MaxClock \in Nat
        /\ PERPETUAL \in Nat /\ Fair(work)
    BY PerpetualIsFar DEF JudgeInv, TypesOK
  <1> DEFINE had == Total(Days, Rented(work, s))
             all == Total(Days, Rentals(s))
             e == work.expires_at[s]
  <1>2. Rented(work, s) \in SUBSET Rentals(s)
    BY <1>1 DEF Rented, Rentals, Counted, PaidFor, Fair
  <1>3. had <= all /\ had \in Nat /\ all \in Nat
    <2>1. /\ IsFiniteSet(Rentals(s)) /\ \A j \in Rentals(s) : Days[j] \in Nat
          /\ had \in Nat
      BY RentedFacts
    <2> QED
      BY <1>2, <2>1, TotalGrows, TotalType
  <1>4. e <= clock + had /\ e \in Int
    BY <1>1 DEF TermsInv, Terms, Dated, Ledgers
  <1>5. MaxClock + all < PERPETUAL
    BY DEF TimeSoldIsShort
  <1> HIDE DEF had, all, e
  <1>6. e < PERPETUAL
    BY <1>1, <1>3, <1>4, <1>5
  <1> QED
    BY <1>6 DEF e

\* A sale to a renter moves every running rental out by the days paid for.
LEMMA RentalIsMovedOut ==
    ASSUME GrantInv, TermsInv, TimeSoldIsShort, NEW i \in Ids, Renews(i),
           work' = Sold(work, i, clock), Deserving(i),
           \A t \in Titles : work.grants[Payment[i].sub][t] # KEPT
    PROVE  KeepsTimeBought(i)
  <1> DEFINE p == Payment[i]
             s == p.sub
             days == days_for(p.amount)
             until == Deadline(work, s, p.sku, p.amount, clock)
             e == work.expires_at[s]
  <1> SUFFICES ASSUME NEW t \in Titles, work.grants[s][t] > clock
               PROVE  work'.grants[s][t] >= work.grants[s][t] + days
    BY DEF KeepsTimeBought
  <1> DEFINE held == work.grants[s][t]
  <1>1. /\ work \in Ledgers /\ clock \in Nat /\ s \in Subs /\ p.sku = ALL_ACCESS
        /\ p.amount \in Nat /\ days \in Nat
    <2>1. work \in Ledgers /\ clock \in Nat
      BY PerpetualIsFar DEF GrantInv, JudgeInv, TypesOK
    <2>2. s \in Subs /\ p.amount \in Nat
      BY PaymentFacts
    <2>3. days \in Nat
      BY <2>2, DaysFacts
    <2>4. p.sku = ALL_ACCESS
      BY DEF Renews
    <2> QED
      BY <2>1, <2>2, <2>3, <2>4
  <1>2. held \in Nat /\ held # KEPT /\ held # NoRow /\ e \in Int
    <2>1. held \in Nat \cup {NoRow} /\ e \in Int
      BY <1>1 DEF Ledgers, Shelves
    <2> QED
      BY <1>1, <2>1 DEF NoRow, KEPT
  <1>3. t \in titles_for(p.sku)
    <2>1. PICK j \in PaidFor(s) : Deserving(j) /\ t \in titles_for(Payment[j].sku)
      BY <1>1, <1>2 DEF GrantInv, Backed, Backing
    <2>2. j \in Ids
      BY <2>1 DEF PaidFor
    <2>3. t \in Catalogue
      BY <2>1, <2>2, PaymentFacts DEF Deserving, Refused, titles_for, SKUs, ALL_ACCESS
    <2> QED
      BY <1>1, <2>3 DEF titles_for
  <1>4. held <= e /\ e < PERPETUAL
    <2>1. e < PERPETUAL
      BY <1>1, HorizonIsNear DEF GrantInv
    <2>2. Dated(work, s, clock)
      BY <1>1 DEF TermsInv, Terms
    <2> QED
      BY <1>2, <2>1, <2>2 DEF Dated
  <1>5. until \in Nat /\ until >= held + days /\ until > clock
    <2>1. e # NoRow
      BY <1>2, <1>4 DEF NoRow
    <2>2. until = Later(clock, e) + days
      BY <1>1, <1>4, <2>1 DEF Deadline
    <2>3. Later(clock, e) \in Int /\ Later(clock, e) >= e
      BY <1>1, <1>2 DEF Later
    <2>4. held > clock
      OBVIOUS
    <2> HIDE DEF until, held, e, days
    <2> QED
      BY <1>1, <1>2, <1>4, <2>2, <2>3, <2>4
  <1>6. work'.grants[s][t] = Extended(held, until)
    <2>1. Sells(work, work', i, clock)
      BY <1>1, SoldFacts
    <2>2. work'.grants[s] = Granted(work.grants[s], titles_for(p.sku), until)
      BY <1>1, <2>1 DEF Sells
    <2> QED
      BY <1>3, <2>2 DEF Granted
  <1> HIDE DEF until, held, days
  <1>7. Extended(held, until) >= until
    BY <1>1, <1>2, <1>5 DEF Extended, Later, KEPT
  <1>8. Extended(held, until) \in Nat
    BY <1>2, <1>5, ExtendedFacts
  <1> QED
    BY <1>1, <1>2, <1>5, <1>6, <1>7, <1>8 DEF held, days

\* A renewal throws away no time a renter has bought, as long as what is
\* rented ends before PERPETUAL (RentersKeepTimeBought).
THEOREM RenewingKeepsTime ==
    ASSUME TimeSoldIsShort
    PROVE  Spec => RentersKeepTimeBought
  <1>1. ASSUME GrantInv, BooksInv, TermsInv, [Next]_vars
        PROVE  [\A i \in Ids : Renews(i) /\ (\A t \in Titles : work.grants[Payment[i].sub][t] # KEPT)
                        => KeepsTimeBought(i)]_vars
    <2> SUFFICES ASSUME NEW i \in Ids, Renews(i),
                        \A t \in Titles : work.grants[Payment[i].sub][t] # KEPT
                 PROVE  KeepsTimeBought(i)
      OBVIOUS
    <2>1. work' = Sold(work, i, clock) /\ Deserving(i)
      BY <1>1, RenewalIsASale DEF GrantInv
    <2> QED
      BY <1>1, <2>1, RentalIsMovedOut
  <1> QED
    BY <1>1, GrantsAreBacked, BooksAreInOrder, RentersRunOut, PTL DEF Spec, RentersKeepTimeBought

-------------------------------------------------------------------------------
\* The seller implements the shop

\* What is sold exists.
LEMMA TitlesAreSold == \A i \in Ids : titles_for(Payment[i].sku) \subseteq Titles
  BY PaymentFacts, TitlesAreNamed DEF titles_for, SKUs, ALL_ACCESS

\* The goods of some of a customer's orders.
LEMMA GoodsFacts ==
    ASSUME NEW orders \in SUBSET Ids, NEW s, NEW t
    PROVE  t \in Shop!GoodsOf(orders, s) <=>
              \E i \in orders : Payment[i].sub = s /\ t \in titles_for(Payment[i].sku)
  <1>1. \A i \in orders : /\ [j \in Ids |-> Payment[j].sub][i] = Payment[i].sub
                          /\ [j \in Ids |-> titles_for(Payment[j].sku)][i] = titles_for(Payment[i].sku)
    OBVIOUS
  <1> QED
    BY <1>1 DEF Shop!GoodsOf

Bought == {i \in Ids : Payment[i].sku # ALL_ACCESS}

\* A ledger that owes nobody: the credited payments are the served orders, and
\* what a subscriber has is their goods.
LEMMA LedgerAsShop ==
    ASSUME NEW db, Stocked(db), Owed(db) = {}
    PROVE  /\ ServedIn(db) = {i \in Ids : db.verdict[i] = "credited"}
           /\ \A s \in Subs : /\ HeldIn(db)[s] = Shop!GoodsOf(ServedIn(db), s)
                              /\ OwnedIn(db)[s] = Shop!GoodsOf(ServedIn(db) \cap Bought, s)
  <1>1. ServedIn(db) = {i \in Ids : db.verdict[i] = "credited"}
    BY PaymentFacts DEF ServedIn, Owed
  <1>2. ASSUME NEW s \in Subs
        PROVE  /\ HeldIn(db)[s] = Shop!GoodsOf(ServedIn(db), s)
               /\ OwnedIn(db)[s] = Shop!GoodsOf(ServedIn(db) \cap Bought, s)
    <2> DEFINE mine == Counted(db, s)
    <2>1. mine = {i \in ServedIn(db) : Payment[i].sub = s}
      BY <1>1 DEF Counted, PaidFor
    <2>2. ServedIn(db) \in SUBSET Ids /\ ServedIn(db) \cap Bought \in SUBSET Ids
      BY DEF ServedIn
    <2>3. /\ \A t : t \in Shop!GoodsOf(ServedIn(db), s) <=>
                      \E i \in mine : t \in titles_for(Payment[i].sku)
          /\ \A t : t \in Shop!GoodsOf(ServedIn(db) \cap Bought, s) <=>
                      \E i \in mine : Payment[i].sku # ALL_ACCESS /\ t \in titles_for(Payment[i].sku)
      <3> HIDE DEF mine
      <3>1. \A t : t \in Shop!GoodsOf(ServedIn(db), s) <=>
                      \E i \in ServedIn(db) : Payment[i].sub = s /\ t \in titles_for(Payment[i].sku)
        BY <2>2, GoodsFacts
      <3>2. \A t : t \in Shop!GoodsOf(ServedIn(db) \cap Bought, s) <=>
                      \E i \in ServedIn(db) \cap Bought :
                         Payment[i].sub = s /\ t \in titles_for(Payment[i].sku)
        BY <2>2, GoodsFacts
      <3>3. \A i : i \in ServedIn(db) \cap Bought <=> i \in ServedIn(db) /\ Payment[i].sku # ALL_ACCESS
        BY <2>2 DEF Bought
      <3> QED
        BY <2>1, <3>1, <3>2, <3>3
    <2>4. \A i \in mine : titles_for(Payment[i].sku) \subseteq Titles
      BY TitlesAreSold DEF Counted, PaidFor
    <2>5. \A t \in Titles :
             /\ db.grants[s][t] # NoRow <=> \E i \in mine : t \in titles_for(Payment[i].sku)
             /\ db.grants[s][t] = KEPT <=>
                   \E i \in mine : Payment[i].sku # ALL_ACCESS /\ t \in titles_for(Payment[i].sku)
      BY DEF Stocked
    <2> HIDE DEF mine
    <2>6. HeldIn(db)[s] = {t \in Titles : db.grants[s][t] # NoRow}
      BY DEF HeldIn
    <2>7. OwnedIn(db)[s] = {t \in Titles : db.grants[s][t] = KEPT}
      BY DEF OwnedIn
    <2>8. HeldIn(db)[s] = Shop!GoodsOf(ServedIn(db), s)
      BY <2>3, <2>4, <2>5, <2>6
    <2>9. OwnedIn(db)[s] = Shop!GoodsOf(ServedIn(db) \cap Bought, s)
      BY <2>3, <2>4, <2>5, <2>7
    <2> QED
      BY <2>8, <2>9
  <1> QED
    BY <1>1, <1>2

\* The goods of more orders are more goods.
LEMMA GoodsAdd ==
    ASSUME NEW orders \in SUBSET Ids, NEW more \in SUBSET Ids, NEW s
    PROVE  Shop!GoodsOf(orders \cup more, s) = Shop!GoodsOf(orders, s) \cup Shop!GoodsOf(more, s)
  <1> DEFINE has(os, t) == \E i \in os : Payment[i].sub = s /\ t \in titles_for(Payment[i].sku)
  <1>1. /\ \A t : t \in Shop!GoodsOf(orders, s) <=> has(orders, t)
        /\ \A t : t \in Shop!GoodsOf(more, s) <=> has(more, t)
        /\ \A t : t \in Shop!GoodsOf(orders \cup more, s) <=> has(orders \cup more, t)
    BY GoodsFacts
  <1>2. \A t : has(orders \cup more, t) <=> has(orders, t) \/ has(more, t)
    OBVIOUS
  <1> HIDE DEF has
  <1> QED
    BY <1>1, <1>2

\* In ledger d, the orders `good' and `bad' of those placed are settled and in db
\* they are not yet.
Settles(d, db, top, good, bad) ==
    /\ good \in SUBSET Ids /\ bad \in SUBSET Ids
    /\ good \subseteq (top \ (ServedIn(db) \cup RefusedIn(db))) \cap {i \in Ids : Deserving(i)}
    /\ bad \subseteq (top \ (ServedIn(db) \cup RefusedIn(db))) \ {i \in Ids : Deserving(i)}
    /\ ServedIn(d) = ServedIn(db) \cup good
    /\ RefusedIn(d) = RefusedIn(db) \cup bad
    /\ OwnedIn(d) = [s \in Subs |-> OwnedIn(db)[s] \cup Shop!GoodsOf(good \cap Bought, s)]
    /\ HeldIn(d) = [s \in Subs |-> HeldIn(db)[s] \cup Shop!GoodsOf(good, s)]

\* From one ledger that owes nobody to a later one.
LEMMA SettlesOrders ==
    ASSUME NEW d, NEW db, Stocked(d), Stocked(db), Owed(d) = {}, Owed(db) = {},
           Remembers(d, db), Fair(d),
           NEW top, \A i \in Ids : d.verdict[i] # "unseen" => i \in top,
           NEW good, good = ServedIn(d) \ ServedIn(db),
           NEW bad, bad = RefusedIn(d) \ RefusedIn(db)
    PROVE  Settles(d, db, top, good, bad)
  <1>1. /\ ServedIn(d) = {i \in Ids : d.verdict[i] = "credited"}
        /\ ServedIn(db) = {i \in Ids : db.verdict[i] = "credited"}
    BY LedgerAsShop
  <1>2. /\ RefusedIn(d) = {i \in Ids : d.verdict[i] \in {"ignored", "refused", "underpaid"}}
        /\ RefusedIn(db) = {i \in Ids : db.verdict[i] \in {"ignored", "refused", "underpaid"}}
    BY DEF RefusedIn
  <1>3. \A i \in Ids : i \in ServedIn(db) => i \in ServedIn(d)
    BY <1>1 DEF Remembers, Final
  <1>4. \A i \in Ids : i \in RefusedIn(db) => i \in RefusedIn(d)
    BY <1>2 DEF Remembers, Final
  <1>5. ASSUME NEW i \in good
        PROVE  /\ i \in Ids /\ i \in top /\ i \notin ServedIn(db)
               /\ i \notin RefusedIn(db) /\ Deserving(i)
    BY <1>1, <1>2, <1>4 DEF Fair
  <1>6. ASSUME NEW i \in bad
        PROVE  /\ i \in Ids /\ i \in top /\ i \notin ServedIn(db)
               /\ i \notin RefusedIn(db) /\ ~ Deserving(i)
    BY <1>1, <1>2, <1>3 DEF Fair
  <1>7. ServedIn(d) = ServedIn(db) \cup good /\ RefusedIn(d) = RefusedIn(db) \cup bad
    BY <1>1, <1>2, <1>3, <1>4
  <1>8. /\ ServedIn(db) \in SUBSET Ids /\ good \in SUBSET Ids
        /\ ServedIn(db) \cap Bought \in SUBSET Ids /\ good \cap Bought \in SUBSET Ids
        /\ ServedIn(d) \cap Bought = (ServedIn(db) \cap Bought) \cup (good \cap Bought)
    BY <1>1, <1>5, <1>7
  <1>9. ASSUME NEW s \in Subs
        PROVE  /\ HeldIn(d)[s] = HeldIn(db)[s] \cup Shop!GoodsOf(good, s)
               /\ OwnedIn(d)[s] = OwnedIn(db)[s] \cup Shop!GoodsOf(good \cap Bought, s)
    <2>1. /\ HeldIn(d)[s] = Shop!GoodsOf(ServedIn(d), s)
          /\ HeldIn(db)[s] = Shop!GoodsOf(ServedIn(db), s)
          /\ OwnedIn(d)[s] = Shop!GoodsOf(ServedIn(d) \cap Bought, s)
          /\ OwnedIn(db)[s] = Shop!GoodsOf(ServedIn(db) \cap Bought, s)
      BY LedgerAsShop
    <2>2. Shop!GoodsOf(ServedIn(d), s) = Shop!GoodsOf(ServedIn(db), s) \cup Shop!GoodsOf(good, s)
      BY <1>7, <1>8, GoodsAdd
    <2>3. Shop!GoodsOf(ServedIn(d) \cap Bought, s) =
             Shop!GoodsOf(ServedIn(db) \cap Bought, s) \cup Shop!GoodsOf(good \cap Bought, s)
      BY <1>8, GoodsAdd
    <2> QED
      BY <2>1, <2>2, <2>3
  <1>10. HeldIn(d) = [s \in Subs |-> HeldIn(db)[s] \cup Shop!GoodsOf(good, s)]
    BY <1>9 DEF HeldIn
  <1>11. OwnedIn(d) = [s \in Subs |-> OwnedIn(db)[s] \cup Shop!GoodsOf(good \cap Bought, s)]
    BY <1>9 DEF OwnedIn
  <1> QED
    BY <1>5, <1>6, <1>7, <1>10, <1>11 DEF Settles

\* A committing step settles orders, a payment places one, and no other step
\* is seen.
LEMMA ShopStep ==
    ASSUME JudgeInv, BooksInv, JudgeInv', BooksInv', [Next]_vars
    PROVE  [Shop!Next]_(Shop!vars)
  <1>1. TypesOK /\ TypesOK' /\ highest \in Nat
    BY DEF JudgeInv, TypesOK
  <1>2. Len(Payment) \in Nat /\ tip \in Nat
    BY <1>1, PaymentsAreTyped DEF TypesOK
  <1>3. CASE Pay
    <2>1. tip + 1 \in Ids \ (1..tip) /\ 1..tip' = (1..tip) \cup {tip + 1} /\ ledger' = ledger
      BY <1>2, <1>3 DEF Pay, Ids
    <2>2. Shop!Place(tip + 1)
      BY <2>1 DEF Shop!Place, ServedIn, RefusedIn, OwnedIn, HeldIn
    <2> QED
      BY <2>1, <2>2 DEF Shop!Next
  <1>4. CASE tip' = tip /\ ledger' = ledger
    BY <1>4 DEF Shop!vars, ServedIn, RefusedIn, OwnedIn, HeldIn
  <1>5. CASE Commits /\ tip' = tip
    <2> DEFINE good == ServedIn(ledger') \ ServedIn(ledger)
               bad == RefusedIn(ledger') \ RefusedIn(ledger)
    <2>1. SameBooks(ledger', work) /\ Owed(ledger') = {}
      BY <1>1, <1>5, CommitsBooks
    <2>2. Remembers(ledger', ledger)
      BY <2>1, SameBooksSameInv DEF BooksInv
    <2>3. Stocked(ledger') /\ Fair(ledger')
      BY DEF BooksInv, JudgeInv, Stocked, Counted, Fair
    <2>4. Stocked(ledger) /\ Owed(ledger) = {}
      BY DEF BooksInv, JudgeInv
    <2>5. \A i \in Ids : ledger'.verdict[i] # "unseen" => i \in 1..tip
      BY <1>1, <1>2, <1>5 DEF TypesOK, Ids
    <2>0. good = ServedIn(ledger') \ ServedIn(ledger) /\ bad = RefusedIn(ledger') \ RefusedIn(ledger)
      OBVIOUS
    <2> HIDE DEF good, bad
    <2>6. Settles(ledger', ledger, 1..tip, good, bad)
      BY <2>0, <2>1, <2>2, <2>3, <2>4, <2>5, SettlesOrders
    <2>7. Shop!Settle(good, bad)
      BY <1>5, <2>6 DEF Settles, Shop!Settle, Shop!Open, Bought, ServedIn, RefusedIn, OwnedIn, HeldIn
    <2> QED
      BY <2>6, <2>7 DEF Settles, Shop!Next
  <1>6. Pay \/ tip' = tip
    BY DEF Next, Watch, vars, chain, Tick, Start, Poll, ReadFails, EventsDone, Credit, ReadEvents,
           Issue, IssueRaises, RolledBack, Accept, Refuse, NobodyAccepted, CommitNothingOwed,
           CommitIssued, Commit, Die
  <1>7. ledger' = ledger \/ Commits
    BY <1>1, StepIsLedgerStep DEF LedgerStep, Nothing, RollsBack, Credits, Bumps
  <1> QED
    BY <1>3, <1>4, <1>5, <1>6, <1>7

LEMMA ShopInit == Init => Shop!Init
  <1> SUFFICES ASSUME Init PROVE Shop!Init
    OBVIOUS
  <1>1. /\ ledger = NewLedger /\ 1..tip = {}
        /\ \A i \in Ids : NewLedger.verdict[i] = "unseen"
        /\ \A s \in Subs : \A t \in Titles : NewLedger.grants[s][t] = NoRow
    BY DEF Init, NewLedger
  <1>2. ServedIn(ledger) = {} /\ RefusedIn(ledger) = {}
    BY <1>1 DEF ServedIn, RefusedIn
  <1>3. /\ OwnedIn(ledger) = [s \in Subs |-> {}]
        /\ HeldIn(ledger) = [s \in Subs |-> {}]
    BY <1>1 DEF OwnedIn, HeldIn, NoRow, KEPT
  <1> QED
    BY <1>1, <1>2, <1>3 DEF Shop!Init

\* The seller implements the shop: by the committed ledger every payment is
\* settled at most once, rightly, together with its delivery, whatever passes
\* were cut short or repeated.
THEOREM ImplementsTheShop == Spec => SellsLikeAShop
  <1>1. JudgeInv /\ BooksInv /\ JudgeInv' /\ BooksInv' /\ [Next]_vars => [Shop!Next]_(Shop!vars)
    BY ShopStep
  <1> QED
    BY <1>1, ShopInit, VerdictsAreFair, BooksAreInOrder, PTL DEF Spec, SellsLikeAShop, Shop!Spec

-------------------------------------------------------------------------------
\* What the nodes hold

Holds(reg, s, q) == reg[s] # NoEntitlement /\ reg[s].seq >= q

Numbered(reg) == \A s \in Subs : reg[s] # NoEntitlement => reg[s].seq \in Nat

\* The nodes that have taken the delta of this push.
Took == {n \in Nodes : n < port /\ n \notin failures}

\* The delta, subscriber by subscriber: the next envelope of whoever is owed one.
DeltaIsOwed ==
    \A s \in Subs :
        IF s \in Owed(work)
        THEN /\ delta[s] # NoEntitlement /\ delta[s].seq = work.seq[s]
             /\ delta[s].sealed = subscriber_bundle(work.grants[s])
             /\ work.seq[s] = ledger.seq[s] + 1
        ELSE delta[s] = NoEntitlement /\ work.seq[s] = ledger.seq[s]

Pushing ==
    /\ DOMAIN nodes = Nodes /\ \A n \in Nodes : Numbered(nodes[n])
    /\ port \in 1..(NodeCount + 1) /\ failures \subseteq Nodes /\ \A n \in failures : n < port
    /\ pc # "push" => work.seq = ledger.seq
    /\ pc = "push" => /\ DeltaIsOwed
                      /\ \A n \in Took : \A s \in Owed(work) : Holds(nodes[n], s, work.seq[s])
    /\ \A s \in Subs : ledger.seq[s] > 0 => \E n \in Nodes : Holds(nodes[n], s, ledger.seq[s])

NetInv == GrantInv /\ Pushing

\* What a join returns for one subscriber.
JoinsAt(a, b, j, s) ==
    /\ j[s] \in {a[s], b[s]}
    /\ b[s] = NoEntitlement => j[s] = a[s]
    /\ b[s] # NoEntitlement => Holds(j, s, b[s].seq)
    /\ a[s] # NoEntitlement => Holds(j, s, a[s].seq)
    /\ b[s] # NoEntitlement /\ (a[s] # NoEntitlement => a[s].seq < b[s].seq) => j[s] = b[s]

\* Nothing older replaces what is held, and what is newer does.
LEMMA JoinFacts ==
    ASSUME NEW a, NEW b, Numbered(a), Numbered(b), NEW s \in Subs
    PROVE  JoinsAt(a, b, join(a, b), s)
  <1> DEFINE j == join(a, b)
  <1>1. /\ a[s] # NoEntitlement => a[s].seq \in Nat
        /\ b[s] # NoEntitlement => b[s].seq \in Nat
    BY DEF Numbered
  <1>2. j[s] = IF \/ b[s] = NoEntitlement
                  \/ a[s] # NoEntitlement /\ Keeps(a[s], b[s])
               THEN a[s] ELSE b[s]
    BY DEF join
  <1> HIDE DEF j
  <1>3. Keeps(a[s], b[s]) <=>
            \/ a[s].seq > b[s].seq
            \/ a[s].seq = b[s].seq /\ a[s].sig >= b[s].sig
    BY DEF Keeps
  <1>4. a[s] # NoEntitlement /\ b[s] # NoEntitlement =>
            /\ Keeps(a[s], b[s]) => a[s].seq >= b[s].seq
            /\ ~ Keeps(a[s], b[s]) => b[s].seq >= a[s].seq
            /\ a[s].seq < b[s].seq => ~ Keeps(a[s], b[s])
    BY <1>1, <1>3
  <1>5. QED
    BY <1>1, <1>2, <1>4 DEF JoinsAt, Holds, j

\* An envelope is not the absence of one.
LEMMA EnvelopesAreSome ==
    \A a, b, c, d : [sub |-> a, seq |-> b, sealed |-> c, sig |-> d] # NoEntitlement
  <1> SUFFICES ASSUME NEW a, NEW b, NEW c, NEW d
               PROVE  [sub |-> a, seq |-> b, sealed |-> c, sig |-> d] # NoEntitlement
    OBVIOUS
  <1>1. DOMAIN [sub |-> a, seq |-> b, sealed |-> c, sig |-> d] = {"sub", "seq", "sealed", "sig"}
    OBVIOUS
  <1>2. DOMAIN NoEntitlement = {"sub"}
    BY DEF NoEntitlement
  <1>3. QED
    BY <1>1, <1>2

\* What is signed is what is owed.
LEMMA IssueFacts ==
    ASSUME NetInv, Issue
    PROVE  DeltaIsOwed' /\ work'.grants = work.grants /\ Owed(work') = Owed(work)
  <1> DEFINE owed == Owed(work)
             db == Bumped(work, owed)
  <1>1. pc = "issue" /\ work' = db /\ ledger' = ledger /\ work \in Ledgers /\ work.seq = ledger.seq
    BY DEF Issue, NetInv, Pushing, GrantInv, JudgeInv, TypesOK
  <1>2. PICK envelope :
           /\ delta' = [s \in Subs |-> IF s \in owed THEN envelope[s] ELSE NoEntitlement]
           /\ \A s \in owed : /\ envelope[s] # NoEntitlement
                              /\ envelope[s].seq = db.seq[s]
                              /\ envelope[s].sealed = subscriber_bundle(db.grants[s])
    <2>1. PICK sig \in [owed -> Sigs] :
             LET envelope == [s \in owed |-> [sub |-> s, seq |-> db.seq[s],
                                              sealed |-> subscriber_bundle(db.grants[s]), sig |-> sig[s]]]
             IN  delta' = [s \in Subs |-> IF s \in owed THEN envelope[s] ELSE NoEntitlement]
      BY DEF Issue
    <2> DEFINE envelope == [s \in owed |-> [sub |-> s, seq |-> db.seq[s],
                                            sealed |-> subscriber_bundle(db.grants[s]), sig |-> sig[s]]]
    <2>2. \A s \in owed : /\ envelope[s] # NoEntitlement
                          /\ envelope[s].seq = db.seq[s]
                          /\ envelope[s].sealed = subscriber_bundle(db.grants[s])
      BY EnvelopesAreSome
    <2>3. delta' = [s \in Subs |-> IF s \in owed THEN envelope[s] ELSE NoEntitlement]
      BY <2>1
    <2> HIDE DEF envelope
    <2>4. QED
      BY <2>2, <2>3
  <1>3. /\ db.grants = work.grants /\ db.verdict = work.verdict /\ db.issued = work.issued
        /\ \A s \in Subs : db.seq[s] = IF s \in owed THEN work.seq[s] + 1 ELSE work.seq[s]
    BY <1>1, BumpedFacts
  <1> HIDE DEF owed, db
  <1>4. Owed(work') = owed
    BY <1>1, <1>3 DEF Owed, owed
  <1>5. DeltaIsOwed'
    <2> SUFFICES ASSUME NEW s \in Subs
                 PROVE  IF s \in Owed(work')
                        THEN /\ delta'[s] # NoEntitlement /\ delta'[s].seq = work'.seq[s]
                             /\ delta'[s].sealed = subscriber_bundle(work'.grants[s])
                             /\ work'.seq[s] = ledger'.seq[s] + 1
                        ELSE delta'[s] = NoEntitlement /\ work'.seq[s] = ledger'.seq[s]
      BY DEF DeltaIsOwed, Owed
    <2>1. CASE s \in owed
      BY <1>1, <1>2, <1>3, <1>4, <2>1
    <2>2. CASE s \notin owed
      BY <1>1, <1>2, <1>3, <1>4, <2>2
    <2>3. QED
      BY <2>1, <2>2
  <1>6. QED
    BY <1>1, <1>3, <1>4, <1>5 DEF owed

\* A call on port n, answered or not: that node joined the delta or nothing
\* happened, and whatever a node held, it holds it or something later.
PushesTo(m) ==
    /\ DOMAIN nodes' = Nodes /\ \A n \in Nodes : Numbered(nodes'[n])
    /\ \A n \in Nodes : n # m => nodes'[n] = nodes[n]
    /\ \A s \in Subs : \/ nodes'[m][s] = nodes[m][s]
                       \/ nodes'[m][s] = delta[s]
    /\ nodes' = [nodes EXCEPT ![m] = join(@, delta)] =>
           \A s \in Subs : JoinsAt(nodes[m], delta, nodes'[m], s)
    /\ \A n \in Nodes : \A s \in Subs : \A q \in Nat :
           Holds(nodes[n], s, q) => Holds(nodes'[n], s, q)

LEMMA PushFacts ==
    ASSUME Pushing, pc = "push", NEW m \in Nodes, work \in Ledgers,
           nodes' \in {nodes, [nodes EXCEPT ![m] = join(@, delta)]}
    PROVE  PushesTo(m)
  <1>1. Numbered(delta) /\ Numbered(nodes[m]) /\ DOMAIN nodes = Nodes
    BY DEF Pushing, Numbered, DeltaIsOwed, Ledgers
  <1>2. CASE nodes' = nodes
    <2>1. nodes' = [nodes EXCEPT ![m] = join(@, delta)] => nodes'[m] = join(nodes[m], delta)
      BY <1>1
    <2>2. \A s \in Subs : JoinsAt(nodes[m], delta, join(nodes[m], delta), s)
      BY <1>1, JoinFacts
    <2>3. QED
      BY <1>2, <2>1, <2>2 DEF Pushing, PushesTo
  <1>3. CASE nodes' = [nodes EXCEPT ![m] = join(@, delta)]
    <2>1. /\ DOMAIN nodes' = Nodes /\ nodes'[m] = join(nodes[m], delta)
          /\ \A n \in Nodes : n # m => nodes'[n] = nodes[n]
      BY <1>1, <1>3
    <2>2. \A s \in Subs : JoinsAt(nodes[m], delta, nodes'[m], s)
      BY <1>1, <2>1, JoinFacts
    <2>3. \A n \in Nodes : Numbered(nodes'[n])
      <3>1. Numbered(nodes'[m])
        BY <1>1, <2>2 DEF Numbered, JoinsAt
      <3>2. QED
        BY <2>1, <3>1 DEF Pushing
    <2>4. ASSUME NEW n \in Nodes, NEW s \in Subs, NEW q \in Nat, Holds(nodes[n], s, q)
          PROVE  Holds(nodes'[n], s, q)
      <3>1. CASE n = m
        <4> DEFINE a == nodes[m][s]
                   j == nodes'[m][s]
        <4>1. a # NoEntitlement /\ a.seq >= q /\ a.seq \in Nat
          BY <1>1, <2>4, <3>1 DEF Holds, Numbered
        <4>2. j # NoEntitlement /\ j.seq >= a.seq /\ j.seq \in Nat
          BY <2>2, <2>3, <4>1 DEF JoinsAt, Holds, Numbered
        <4> HIDE DEF a, j
        <4>3. j # NoEntitlement /\ j.seq >= q
          BY <4>1, <4>2
        <4>4. QED
          BY <3>1, <4>3 DEF Holds, j
      <3>2. CASE n # m
        BY <2>1, <2>4, <3>2
      <3>3. QED
        BY <3>1, <3>2
    <2>5. \A s \in Subs : nodes'[m][s] = nodes[m][s] \/ nodes'[m][s] = delta[s]
      BY <2>2 DEF JoinsAt
    <2>6. QED
      BY <2>1, <2>2, <2>3, <2>4, <2>5 DEF PushesTo
  <1>4. QED
    BY <1>2, <1>3

\* The process's steps keep the nodes up with the ledger.
LEMMA PushingStep ==
    ASSUME NetInv, [Next]_vars
    PROVE  Pushing'
  <1>1. /\ Pushing /\ GrantInv /\ ledger \in Ledgers /\ work \in Ledgers /\ highest \in Nat
        /\ NodeCount \in Nat /\ port \in Nat
        /\ pc \in {"stopped", "poll"} => work = ledger
    BY BoundsAreNumbers DEF NetInv, Pushing, GrantInv, JudgeInv, TypesOK
  <1>2. CASE UNCHANGED vars \/ Pay
    BY <1>1, <1>2 DEF vars, Pay, push, progress, Pushing, DeltaIsOwed, Took, Owed
  <1>3. CASE Tick \/ Poll \/ ReadFails \/ EventsDone
    BY <1>1, <1>3 DEF Tick, Poll, ReadFails, EventsDone, push, progress, Pushing
  <1>4. CASE \E last \in Ids \cup {0} : ReadEvents(last)
    BY <1>1, <1>4 DEF ReadEvents, push, Pushing
  <1>5. CASE Start
    BY <1>1, <1>5 DEF Start, push, Pushing
  <1>6. ASSUME NEW outcome, Credit(outcome) PROVE Pushing'
    <2> DEFINE i == Min(todo)
    <2>1. i \in Ids /\ clock \in Nat /\ Fair(work)
      BY <1>6, TodoFacts, PerpetualIsFar DEF Credit, NetInv, GrantInv, JudgeInv, TypesOK
    <2>2. /\ pc' = pc /\ pc # "push" /\ outcome \in {"unresolved", Payment[i].outcome}
          /\ work' = credit(work, i, outcome, clock)
          /\ UNCHANGED <<nodes, ledger, port, failures>>
      BY <1>6 DEF Credit, push
    <2> HIDE DEF i
    <2>3. LooksAt(work, work', i)
      BY <1>1, <2>1, <2>2, CreditKeeps
    <2>4. QED
      BY <1>1, <2>2, <2>3 DEF LooksAt, Pushing
  <1>7. CASE Issue
    <2>1. /\ pc' = "push" /\ port' = 1 /\ failures' = {} /\ UNCHANGED <<nodes, ledger>>
      BY <1>7 DEF Issue
    <2>2. Took' = {}
      BY <2>1 DEF Took, Nodes
    <2>3. DeltaIsOwed'
      BY <1>7, IssueFacts
    <2>4. QED
      BY <1>1, <2>1, <2>2, <2>3 DEF Pushing
  <1>8. CASE Accept \/ Refuse
    <2>1. /\ pc = "push" /\ pc' = pc /\ port \in Nodes /\ port' = port + 1
          /\ failures' \in {failures, failures \cup {port}} /\ UNCHANGED <<ledger, work, delta>>
          /\ nodes' \in {nodes, [nodes EXCEPT ![port] = join(@, delta)]}
          /\ port \in failures' \/ nodes' = [nodes EXCEPT ![port] = join(@, delta)]
      BY <1>8 DEF Accept, Refuse, progress
    <2>2. DeltaIsOwed /\ DeltaIsOwed' /\ Owed(work)' = Owed(work)
      BY <1>1, <2>1 DEF Pushing, DeltaIsOwed, Owed
    <2>3. PushesTo(port)
      BY <1>1, <2>1, PushFacts
    <2>4. \A n \in Took' : n \in Took \/ (n = port /\ n \notin failures')
      BY <1>1, <2>1 DEF Took, Pushing, Nodes
    <2>5. ASSUME NEW n \in Took', NEW s \in Owed(work) PROVE Holds(nodes'[n], s, work.seq[s])
      <3>1. s \in Subs /\ work.seq[s] \in Nat /\ n \in Nodes
        BY <1>1, <2>5 DEF Owed, Ledgers, Took
      <3>2. CASE n \in Took
        <4>1. Holds(nodes[n], s, work.seq[s])
          BY <1>1, <2>1, <3>2 DEF Pushing
        <4>2. QED
          BY <2>3, <3>1, <4>1 DEF PushesTo
      <3>3. CASE n = port /\ n \notin failures'
        BY <1>1, <2>1, <2>2, <2>3, <3>1, <3>3 DEF PushesTo, JoinsAt, DeltaIsOwed, Pushing
      <3>4. QED
        BY <2>4, <2>5, <3>2, <3>3
    <2>6. ASSUME NEW s \in Subs, ledger.seq[s] > 0
          PROVE  \E n \in Nodes : Holds(nodes'[n], s, ledger.seq[s])
      <3>1. ledger.seq[s] \in Nat
        BY <1>1 DEF Ledgers
      <3>2. QED
        BY <1>1, <2>3, <2>6, <3>1 DEF Pushing, PushesTo
    <2>7. port' \in 1..(NodeCount + 1) /\ failures' \subseteq Nodes /\ \A n \in failures' : n < port'
      <3>1. failures \subseteq Nodes /\ \A n \in failures : n < port
        BY <1>1 DEF Pushing
      <3>2. port' \in 1..(NodeCount + 1) /\ port < port' /\ \A n \in Nodes : n \in Int
        BY <1>1, <2>1 DEF Nodes
      <3>3. failures' \subseteq Nodes /\ \A n \in failures' : n <= port
        BY <2>1, <3>1, <3>2
      <3>4. \A n \in failures' : n < port'
        BY <1>1, <3>2, <3>3
      <3>5. QED
        BY <3>2, <3>3, <3>4
    <2>8. QED
      BY <2>1, <2>2, <2>3, <2>5, <2>6, <2>7 DEF Pushing, PushesTo
  <1>9. CASE NobodyAccepted \/ Die \/ IssueRaises
    BY <1>1, <1>9 DEF NobodyAccepted, Die, IssueRaises, RolledBack, Pushing
  <1>10. CASE CommitNothingOwed
    <2>1. /\ pc = "issue" /\ ledger' = Closed(work) /\ work' = Closed(work) /\ pc' \in {"poll", "stopped"}
          /\ port' = 1 /\ failures' = {} /\ nodes' = nodes
      BY <1>10 DEF CommitNothingOwed, Commit
    <2>2. ledger'.seq = work.seq
      BY <1>1, <2>1, ClosedFacts
    <2>3. QED
      BY <1>1, <2>1, <2>2 DEF Pushing
  <1>11. CASE CommitIssued
    <2>1. /\ pc = "push" /\ port \notin Nodes /\ failures # Nodes /\ nodes' = nodes
          /\ ledger' = Closed(Delivered(work)) /\ work' = ledger' /\ pc' \in {"poll", "stopped"}
          /\ port' = 1 /\ failures' = {}
      BY <1>11 DEF CommitIssued, Commit
    <2>2. ledger'.seq = work.seq
      BY <1>1, <2>1, DeliveredFacts, ClosedFacts
    <2>3. PICK n \in Took : TRUE
      <3>1. failures \subseteq Nodes /\ port = NodeCount + 1
        BY <1>1, <2>1 DEF Pushing, Nodes
      <3>2. PICK m \in Nodes : m \notin failures
        BY <2>1, <3>1
      <3>3. m < port
        BY <1>1, <3>1 DEF Nodes
      <3>4. QED
        BY <3>2, <3>3 DEF Took
    <2>4. ASSUME NEW s \in Subs, work.seq[s] > 0
          PROVE  \E m \in Nodes : Holds(nodes[m], s, work.seq[s])
      <3>1. CASE s \in Owed(work)
        BY <1>1, <2>1, <2>3, <3>1 DEF Pushing, Took
      <3>2. CASE s \notin Owed(work)
        BY <1>1, <2>1, <2>4, <3>2 DEF Pushing, DeltaIsOwed
      <3>3. QED
        BY <3>1, <3>2
    <2>5. QED
      BY <1>1, <2>1, <2>2, <2>4 DEF Pushing
  <1>12. QED
    BY <1>2, <1>3, <1>4, <1>5, <1>6, <1>7, <1>8, <1>9, <1>10, <1>11 DEF Next, Watch

\* NetInv holds at the start, and is inductive.
LEMMA NetInvHolds == (Init => NetInv) /\ (NetInv /\ [Next]_vars => NetInv')
  <1>1. ASSUME Init PROVE NetInv
    <2>1. GrantInv /\ NodeCount \in Nat
      BY <1>1, GrantInit, BoundsAreNumbers
    <2>2. /\ nodes = [n \in Nodes |-> EmptyRegister] /\ port = 1 /\ failures = {} /\ pc = "stopped"
          /\ work = NewLedger /\ ledger = NewLedger
      BY <1>1 DEF Init
    <2>3. \A s \in Subs : NewLedger.seq[s] = 0 /\ EmptyRegister[s] = NoEntitlement
      BY DEF NewLedger, EmptyRegister
    <2>4. QED
      BY <2>1, <2>2, <2>3 DEF NetInv, Pushing, Numbered
  <1>2. ASSUME NetInv, [Next]_vars PROVE NetInv'
    BY <1>2, GrantStep, PushingStep DEF NetInv
  <1>3. QED
    BY <1>1, <1>2

\* What the ledger says was issued is on some node (SeqIsOnTheNetwork).
THEOREM NodesKeepUp == Spec => []SeqIsOnTheNetwork
  <1>1. NetInv => SeqIsOnTheNetwork
    BY DEF NetInv, Pushing, Holds, SeqIsOnTheNetwork
  <1>2. QED
    BY <1>1, NetInvHolds, PTL DEF Spec

-------------------------------------------------------------------------------
\* What is left of what was issued

\* Ledger d owes an envelope wherever it differs from db.
Debts(db, d) ==
    /\ \A s \in Subs : s \notin Owed(d) => s \notin Owed(db) /\ d.grants[s] = db.grants[s]
    /\ \A j \in Ids : d.verdict[j] = "credited" /\ d.issued[j] =>
           db.verdict[j] = "credited" /\ db.issued[j]

\* A sale is owed until it is issued.
LEMMA CreditDebts ==
    ASSUME NEW db \in Ledgers, NEW i \in Ids, NEW now \in Nat,
           NEW outcome \in {"unresolved", Payment[i].outcome},
           NEW d, d = credit(db, i, outcome, now)
    PROVE  Debts(db, d)
  <1>1. CASE d = db
    BY <1>1 DEF Debts
  <1>2. CASE /\ db.verdict[i] \in {"unseen", "unresolved"}
             /\ Deserving(i) /\ d = Sold(db, i, now)
    <2>1. Sells(db, d, i, now)
      BY <1>2, SoldFacts
    <2>2. /\ \A j \in Ids : /\ d.verdict[j] = IF j = i THEN "credited" ELSE db.verdict[j]
                            /\ j # i => d.issued[j] = db.issued[j]
          /\ ~ d.issued[i]
          /\ \A s \in Subs : s # Payment[i].sub => d.grants[s] = db.grants[s]
      BY <2>1 DEF Sells
    <2>3. Payment[i].sub \in Owed(d)
      BY <2>2, PaymentFacts DEF Owed
    <2>4. \A s \in Owed(db) : s \in Owed(d)
      BY <1>2, <2>2 DEF Owed
    <2>5. QED
      BY <2>2, <2>3, <2>4 DEF Debts
  <1>3. CASE /\ db.verdict[i] \in {"unseen", "unresolved"}
             /\ \E v \in Verdicts \ {"unseen", "credited"} : d = Recorded(db, i, v, v # "unresolved")
    <2>1. PICK v \in Verdicts \ {"unseen", "credited"} : d = Recorded(db, i, v, v # "unresolved")
      BY <1>3
    <2>2. v \in Verdicts /\ (v # "unresolved") \in BOOLEAN
      OBVIOUS
    <2>3. Records(db, d, i, v, v # "unresolved")
      BY <2>1, <2>2, RecordedFacts
    <2>4. /\ d.grants = db.grants
          /\ \A j \in Ids : j # i => d.verdict[j] = db.verdict[j] /\ d.issued[j] = db.issued[j]
          /\ d.verdict[i] # "credited"
      BY <2>3 DEF Records
    <2>5. \A s \in Owed(db) : s \in Owed(d)
      BY <1>3, <2>4 DEF Owed
    <2>6. QED
      BY <2>4, <2>5 DEF Debts
  <1>4. QED
    BY <1>1, <1>2, <1>3, CreditFacts

\* An envelope that is older than the last one issued, or as good, or one whose
\* seq a pass that was rolled back has used: the last, or the next.
Settled(e, s) ==
    \/ e.seq < ledger.seq[s]
    \/ /\ e.seq = ledger.seq[s]
       /\ Tied(s) \/ Covers(e.sealed, subscriber_bundle(ledger.grants[s]))
    \/ /\ e.seq = ledger.seq[s] + 1 /\ <<s, e.seq>> \in strayed
       /\ Covers(e.sealed, subscriber_bundle(ledger.grants[s]))

\* What the ledger issued, it issued; and what a node holds is settled, or it is
\* the envelope that is being pushed.
Orderly ==
    /\ \A s \in Subs : s \notin Owed(work) => work.grants[s] = ledger.grants[s]
    /\ \A i \in Ids : ledger.verdict[i] = "credited" /\ ledger.issued[i] =>
           ledger.seq[Payment[i].sub] > 0
    /\ \A i \in Ids : work.verdict[i] = "credited" /\ work.issued[i] =>
           ledger.seq[Payment[i].sub] > 0
    /\ \A n \in Nodes : \A s \in Subs : nodes[n][s] # NoEntitlement =>
           \/ Settled(nodes[n][s], s)
           \/ pc = "push" /\ n < port /\ nodes[n][s] = delta[s]

\* What goes into an envelope is no worse for grants that are no worse.
LEMMA BundlesCover ==
    \A g, h \in Shelves :
        /\ Covers(g, h) => Covers(subscriber_bundle(g), subscriber_bundle(h))
        /\ Covers(subscriber_bundle(g), subscriber_bundle(g))
  BY DEF Covers, AsGood, subscriber_bundle, Shelves, NoRow, KEPT

\* The envelope being pushed is the next, and no worse than what is committed.
LEMMA PushedFacts ==
    ASSUME NetInv, pc = "push", NEW s \in Subs, delta[s] # NoEntitlement
    PROVE  /\ delta[s].seq = work.seq[s] /\ work.seq[s] = ledger.seq[s] + 1
           /\ Covers(delta[s].sealed, subscriber_bundle(work.grants[s]))
           /\ Covers(delta[s].sealed, subscriber_bundle(ledger.grants[s]))
  <1>1. /\ delta[s].seq = work.seq[s] /\ work.seq[s] = ledger.seq[s] + 1
        /\ delta[s].sealed = subscriber_bundle(work.grants[s])
    BY DEF NetInv, Pushing, DeltaIsOwed
  <1>2. work.grants[s] \in Shelves /\ ledger.grants[s] \in Shelves
    BY DEF NetInv, GrantInv, JudgeInv, TypesOK, Ledgers
  <1>3. Covers(work.grants[s], ledger.grants[s])
    BY DEF NetInv, GrantInv, NoWorse
  <1>4. QED
    BY <1>1, <1>2, <1>3, BundlesCover

\* A rolled-back pass leaves a settled envelope on the nodes, or a stray one.
LEMMA RolledBackIsOrderly ==
    ASSUME NetInv, Orderly, RolledBack
    PROVE  Orderly'
  <1>1. /\ ledger \in Ledgers /\ work' = ledger /\ UNCHANGED <<nodes, ledger>>
        /\ strayed' = strayed \cup Strays /\ Pushing
    BY DEF RolledBack, NetInv, GrantInv, JudgeInv, TypesOK
  <1>2. ASSUME NEW n \in Nodes, NEW s \in Subs, nodes[n][s] # NoEntitlement
        PROVE  Settled(nodes[n][s], s)'
    <2>1. CASE Settled(nodes[n][s], s)
      BY <1>1, <2>1 DEF Settled, Tied
    <2>2. CASE pc = "push" /\ n < port /\ nodes[n][s] = delta[s]
      <3>1. /\ nodes[n][s].seq = ledger.seq[s] + 1
            /\ Covers(nodes[n][s].sealed, subscriber_bundle(ledger.grants[s]))
        BY <1>2, <2>2, PushedFacts
      <3>2. ledger.seq[s] \in Nat
        BY <1>1 DEF Ledgers
      <3>3. s \in Held(nodes[n]) /\ nodes[n][s].seq > ledger.seq[s]
        BY <1>2, <3>1, <3>2 DEF Held
      <3>4. <<s, nodes[n][s].seq>> \in Strays
        BY <3>3 DEF Strays
      <3>5. QED
        BY <1>1, <3>1, <3>4 DEF Settled
    <2>3. QED
      BY <1>2, <2>1, <2>2 DEF Orderly
  <1>3. QED
    BY <1>1, <1>2 DEF Orderly, Owed

\* A step keeps the order.
LEMMA OrderlyStep ==
    ASSUME NetInv, Orderly, [Next]_vars
    PROVE  Orderly'
  <1>1. /\ ledger \in Ledgers /\ work \in Ledgers /\ highest \in Nat /\ clock \in Nat
        /\ NodeCount \in Nat /\ port \in Nat /\ Pushing
        /\ pc \in {"stopped", "poll"} => work = ledger
    BY BoundsAreNumbers, PerpetualIsFar DEF NetInv, Pushing, GrantInv, JudgeInv, TypesOK
  <1>2. CASE UNCHANGED vars \/ Pay
    BY <1>1, <1>2 DEF vars, Pay, push, mishaps, progress, Orderly, Settled, Tied, Owed
  <1>3. CASE Tick \/ Poll \/ ReadFails \/ EventsDone
    BY <1>1, <1>3 DEF Tick, Poll, ReadFails, EventsDone, push, mishaps, progress, Orderly, Settled,
                      Tied, Owed
  <1>4. CASE \E last \in Ids \cup {0} : ReadEvents(last)
    BY <1>1, <1>4 DEF ReadEvents, push, mishaps, Orderly, Settled, Tied, Owed
  <1>5. CASE Start
    BY <1>1, <1>5 DEF Start, push, mishaps, Orderly, Settled, Tied, Owed
  <1>6. ASSUME NEW outcome, Credit(outcome) PROVE Orderly'
    <2> DEFINE i == Min(todo)
    <2>1. i \in Ids
      BY <1>6, TodoFacts DEF Credit, NetInv, GrantInv, JudgeInv
    <2>2. /\ pc' = pc /\ pc # "push" /\ outcome \in {"unresolved", Payment[i].outcome}
          /\ work' = credit(work, i, outcome, clock)
          /\ UNCHANGED <<nodes, ledger, strayed>>
      BY <1>6 DEF Credit, push, mishaps
    <2> HIDE DEF i
    <2>3. Debts(work, work')
      BY <1>1, <2>1, <2>2, CreditDebts
    <2>4. Owed(work)' = Owed(work')
      BY DEF Owed
    <2>5. QED
      BY <1>1, <2>2, <2>3, <2>4 DEF Debts, Orderly, Settled, Tied
  <1>7. CASE Issue
    <2>1. /\ pc = "issue" /\ pc' = "push" /\ work' = Bumped(work, Owed(work))
          /\ UNCHANGED <<nodes, ledger, strayed>>
      BY <1>7 DEF Issue, mishaps
    <2>2. work'.grants = work.grants /\ work'.verdict = work.verdict /\ work'.issued = work.issued
      BY <1>1, <2>1, BumpedFacts
    <2>3. Owed(work)' = Owed(work)
      BY <2>2 DEF Owed
    <2>4. QED
      BY <1>1, <2>1, <2>2, <2>3 DEF Orderly, Settled, Tied
  <1>8. CASE Accept \/ Refuse
    <2>1. /\ pc = "push" /\ pc' = pc /\ port \in Nodes /\ port' = port + 1
          /\ UNCHANGED <<ledger, work, delta, strayed>>
          /\ nodes' \in {nodes, [nodes EXCEPT ![port] = join(@, delta)]}
      BY <1>8 DEF Accept, Refuse, progress, mishaps
    <2>2. PushesTo(port)
      BY <1>1, <2>1, PushFacts
    <2>3. ASSUME NEW n \in Nodes, NEW s \in Subs, nodes'[n][s] # NoEntitlement
          PROVE  Settled(nodes'[n][s], s) \/ (nodes'[n][s] = delta[s] /\ n < port')
      <3>1. \A m \in Nodes : m \in Int /\ (m < port => m < port')
        BY <1>1, <2>1 DEF Nodes
      <3>2. CASE nodes'[n][s] = nodes[n][s]
        BY <2>3, <3>1, <3>2 DEF Orderly
      <3>3. CASE n = port /\ nodes'[n][s] = delta[s]
        BY <1>1, <2>1, <3>3
      <3>4. QED
        BY <2>2, <3>2, <3>3 DEF PushesTo
    <2>4. QED
      BY <2>1, <2>3 DEF Orderly, Settled, Tied, Owed
  <1>9. CASE NobodyAccepted \/ Die \/ IssueRaises
    BY <1>9, RolledBackIsOrderly DEF NobodyAccepted, Die, IssueRaises
  <1>10. CASE CommitNothingOwed
    <2>1. /\ pc = "issue" /\ Owed(work) = {} /\ ledger' = Closed(work) /\ work' = ledger'
          /\ pc' # "push" /\ UNCHANGED <<nodes, strayed>>
      BY <1>10 DEF CommitNothingOwed, Commit, mishaps
    <2>2. /\ ledger'.seq = work.seq /\ ledger'.grants = work.grants
          /\ ledger'.verdict = work.verdict /\ ledger'.issued = work.issued
      BY <1>1, <2>1, ClosedFacts
    <2>3. work.seq = ledger.seq /\ \A s \in Subs : work.grants[s] = ledger.grants[s]
      BY <1>1, <2>1 DEF Pushing, Orderly
    <2>4. QED
      BY <2>1, <2>2, <2>3 DEF Orderly, Settled, Tied
  <1>11. CASE CommitIssued
    <2>1. /\ pc = "push" /\ ledger' = Closed(Delivered(work)) /\ work' = ledger'
          /\ pc' # "push" /\ UNCHANGED <<nodes, strayed>>
      BY <1>11 DEF CommitIssued, Commit, mishaps
    <2>2. PICK db \in Ledgers : /\ db = Delivered(work) /\ db.seq = work.seq /\ db.grants = work.grants
                                /\ db.verdict = work.verdict
      BY <1>1, DeliveredFacts
    <2>3. /\ ledger'.seq = work.seq /\ ledger'.grants = work.grants /\ ledger'.verdict = work.verdict
      BY <1>1, <2>1, <2>2, ClosedFacts
    <2>4. DeltaIsOwed
      BY <1>1, <2>1 DEF Pushing
    <2>5. ASSUME NEW i \in Ids, work.verdict[i] = "credited"
          PROVE  work.seq[Payment[i].sub] > 0
      <3>1. Payment[i].sub \in Subs
        BY PaymentFacts
      <3>2. ledger.seq[Payment[i].sub] \in Nat
        BY <1>1, <3>1 DEF Ledgers
      <3>3. CASE work.issued[i]
        BY <2>4, <2>5, <3>1, <3>2, <3>3 DEF DeltaIsOwed, Orderly
      <3>4. CASE ~ work.issued[i]
        <4>1. Payment[i].sub \in Owed(work)
          BY <2>5, <3>1, <3>4 DEF Owed
        <4>2. QED
          BY <2>4, <3>1, <3>2, <4>1 DEF DeltaIsOwed
      <3>5. QED
        BY <3>3, <3>4
    <2>6. ASSUME NEW n \in Nodes, NEW s \in Subs, nodes[n][s] # NoEntitlement
          PROVE  Settled(nodes[n][s], s)'
      <3> DEFINE e == nodes[n][s]
      <3>1. ledger.seq[s] \in Nat /\ e.seq \in Nat
        BY <1>1, <2>6 DEF Ledgers, Pushing, Numbered
      <3>2. CASE e = delta[s]
        <4>1. e.seq = work.seq[s] /\ Covers(e.sealed, subscriber_bundle(work.grants[s]))
          BY <2>1, <2>6, <3>2, PushedFacts
        <4>2. QED
          BY <2>1, <2>3, <4>1 DEF Settled
      <3>3. CASE Settled(e, s) /\ s \in Owed(work)
        <4>1. work.seq[s] = ledger.seq[s] + 1
          BY <2>4, <3>3 DEF DeltaIsOwed
        <4>2. e.seq < work.seq[s] \/ (e.seq = work.seq[s] /\ <<s, work.seq[s]>> \in strayed)
          BY <3>1, <3>3, <4>1 DEF Settled
        <4>3. QED
          BY <2>1, <2>3, <4>2 DEF Settled, Tied
      <3>4. CASE Settled(e, s) /\ s \notin Owed(work)
        <4>1. work.seq[s] = ledger.seq[s] /\ work.grants[s] = ledger.grants[s]
          BY <2>4, <3>4 DEF DeltaIsOwed, Orderly
        <4>2. QED
          BY <2>1, <2>3, <3>4, <4>1 DEF Settled, Tied
      <3>5. QED
        BY <2>6, <3>2, <3>3, <3>4 DEF Orderly
    <2>7. QED
      BY <2>1, <2>3, <2>5, <2>6 DEF Orderly
  <1>12. QED
    BY <1>2, <1>3, <1>4, <1>5, <1>6, <1>7, <1>8, <1>9, <1>10, <1>11 DEF Next, Watch

\* It holds at the start.
LEMMA OrderlyInit == Init => Orderly
  <1> SUFFICES ASSUME Init PROVE Orderly
    OBVIOUS
  <1>1. /\ nodes = [n \in Nodes |-> EmptyRegister]
        /\ work = NewLedger /\ ledger = NewLedger
    BY DEF Init
  <1>2. /\ \A i \in Ids : NewLedger.verdict[i] = "unseen"
        /\ \A s \in Subs : EmptyRegister[s] = NoEntitlement
    BY DEF NewLedger, EmptyRegister
  <1>3. QED
    BY <1>1, <1>2 DEF Orderly

\* What was paid for and marked issued can be opened from some node, whichever
\* passes were cut short and whichever calls failed, unless a pass that was
\* rolled back left the subscriber's last seq on a node
\* (PaidIsReadableUnlessTied).
THEOREM PaidCanBeRead == Spec => []PaidIsReadableUnlessTied
  <1>1. NetInv /\ Orderly => PaidIsReadableUnlessTied
    <2> SUFFICES ASSUME NetInv, Orderly, NEW i \in Ids, Issued(i), ~ Tied(Payment[i].sub)
                 PROVE  \E n \in Nodes : Readable(n, Payment[i].sub)
      BY DEF PaidIsReadableUnlessTied
    <2> DEFINE s == Payment[i].sub
    <2>1. /\ s \in Subs /\ Pushing /\ ledger \in Ledgers /\ work \in Ledgers
      BY PaymentFacts DEF NetInv, GrantInv, JudgeInv, TypesOK
    <2>2. ledger.seq[s] > 0 /\ ledger.seq[s] \in Nat /\ ~ Tied(s)
      BY <2>1 DEF Orderly, Issued, Ledgers
    <2> HIDE DEF s
    <2>3. PICK n \in Nodes : Holds(nodes[n], s, ledger.seq[s])
      BY <2>1, <2>2 DEF Pushing
    <2>4. /\ nodes[n][s] # NoEntitlement /\ nodes[n][s].seq >= ledger.seq[s]
          /\ nodes[n][s].seq \in Nat
      BY <2>1, <2>3 DEF Holds, Pushing, Numbered
    <2>5. Covers(nodes[n][s].sealed, subscriber_bundle(ledger.grants[s]))
      <3>1. CASE Settled(nodes[n][s], s)
        BY <2>2, <2>4, <3>1 DEF Settled
      <3>2. CASE pc = "push" /\ nodes[n][s] = delta[s]
        BY <2>1, <2>4, <3>2, PushedFacts
      <3>3. QED
        BY <2>1, <2>4, <3>1, <3>2 DEF Orderly
    <2>6. QED
      BY <2>4, <2>5 DEF Readable, s
  <1>2. Init => NetInv /\ Orderly
    BY NetInvHolds, OrderlyInit
  <1>3. NetInv /\ Orderly /\ [Next]_vars => (NetInv /\ Orderly)'
    BY NetInvHolds, OrderlyStep
  <1>4. QED
    BY <1>1, <1>2, <1>3, PTL DEF Spec

-------------------------------------------------------------------------------
\* Types

\* The rest of TypeOK; the last node to refuse is counted before it refuses.
TypedRest ==
    /\ nodes \in [Nodes -> Register] /\ delta \in Register /\ signed \subseteq Entitlement
    /\ purpose \in {"none", "sweep", "unread", "close"}
    /\ lost \in 0..MaxLost /\ strayed \subseteq Subs \X Nat
    /\ pc = "push" /\ failures = Nodes => lost < MaxLost

\* A step keeps it.
LEMMA TypedRestStep ==
    ASSUME NetInv, TypedRest, [Next]_vars
    PROVE  TypedRest'
  <1>1. /\ NodeCount \in Nat \ {0} /\ MaxLost \in Nat
        /\ work \in Ledgers /\ port \in 1..(NodeCount + 1) /\ \A n \in failures : n < port
        /\ EmptyRegister \in Register
    BY BoundsAreNumbers DEF NetInv, Pushing, GrantInv, JudgeInv, TypesOK, EmptyRegister, Register
  <1>2. CASE UNCHANGED vars \/ Pay \/ Tick \/ Poll \/ ReadFails \/ EventsDone \/ Start
    BY <1>2 DEF vars, Pay, Tick, Poll, ReadFails, EventsDone, Start, push, mishaps, progress, TypedRest
  <1>3. CASE \E last \in Ids \cup {0} : ReadEvents(last)
    BY <1>3 DEF ReadEvents, push, mishaps, TypedRest
  <1>4. CASE \E outcome \in {"unresolved", "Commit", "Abort"} : Credit(outcome)
    BY <1>4 DEF Credit, push, mishaps, TypedRest
  <1>5. CASE Issue
    <2> DEFINE owed == Owed(work)
               db == Bumped(work, owed)
    <2>1. db \in Ledgers /\ owed \subseteq Subs
      BY <1>1, BumpedFacts DEF Owed
    <2>2. \A s \in owed : db.seq[s] \in Nat /\ subscriber_bundle(db.grants[s]) \in Bundle
      BY <2>1 DEF Ledgers, Shelves, Bundle, NoRow, subscriber_bundle
    <2>3. PICK sig \in [owed -> Sigs] :
             LET envelope == [s \in owed |-> [sub |-> s, seq |-> db.seq[s],
                                              sealed |-> subscriber_bundle(db.grants[s]), sig |-> sig[s]]]
             IN  /\ delta' = [s \in Subs |-> IF s \in owed THEN envelope[s] ELSE NoEntitlement]
                 /\ signed' = signed \cup {envelope[s] : s \in owed}
      BY <1>5 DEF Issue
    <2> DEFINE envelope == [s \in owed |-> [sub |-> s, seq |-> db.seq[s],
                                            sealed |-> subscriber_bundle(db.grants[s]), sig |-> sig[s]]]
    <2>4. /\ delta' = [s \in Subs |-> IF s \in owed THEN envelope[s] ELSE NoEntitlement]
          /\ signed' = signed \cup {envelope[s] : s \in owed}
      BY <2>3
    <2> HIDE DEF db, owed
    <2>5. \A s \in owed : envelope[s] \in Entitlement
      BY <2>1, <2>2 DEF Entitlement
    <2> HIDE DEF envelope
    <2>6. delta' \in Register /\ signed' \subseteq Entitlement
      BY <2>4, <2>5 DEF Register, TypedRest
    <2>7. pc' = "push" /\ failures' = {} /\ UNCHANGED <<nodes, purpose, strayed, lost>>
      BY <1>5 DEF Issue, mishaps
    <2>8. failures' # Nodes
      BY <1>1, <2>7 DEF Nodes
    <2>9. QED
      BY <2>6, <2>7, <2>8 DEF TypedRest
  <1>6. CASE Accept \/ Refuse
    <2>1. /\ port \in Nodes /\ UNCHANGED <<delta, pc, purpose, signed, strayed, lost>>
          /\ nodes' \in {nodes, [nodes EXCEPT ![port] = join(@, delta)]}
          /\ \/ failures' = failures
             \/ failures' = failures \cup {port} /\ (failures = Nodes \ {port} => lost < MaxLost)
      BY <1>6 DEF Accept, Refuse, progress, mishaps
    <2>2. nodes[port] \in Register /\ delta \in Register
      BY <2>1 DEF TypedRest
    <2>3. join(nodes[port], delta) \in Register
      BY <2>2 DEF join, Register
    <2>4. nodes' \in [Nodes -> Register]
      BY <2>1, <2>3 DEF TypedRest
    <2>5. port \notin failures
      BY <1>1
    <2>6. failures' = Nodes => failures = Nodes \/ failures = Nodes \ {port}
      BY <2>1, <2>5
    <2>7. QED
      BY <2>1, <2>4, <2>6 DEF TypedRest
  <1>7. ASSUME RolledBack, lost' \in 0..MaxLost PROVE TypedRest'
    <2>1. Strays \subseteq Subs \X Nat
      <3>1. ASSUME NEW n \in Nodes, NEW s \in Held(nodes[n]) PROVE <<s, nodes[n][s].seq>> \in Subs \X Nat
        <4>1. s \in Subs /\ nodes[n][s] # NoEntitlement
          BY DEF Held
        <4>2. nodes[n][s].seq \in Nat
          BY <4>1 DEF NetInv, Pushing, Numbered
        <4>3. QED
          BY <4>1, <4>2
      <3>2. QED
        BY <3>1 DEF Strays
    <2>2. QED
      BY <1>1, <1>7, <2>1 DEF RolledBack, TypedRest
  <1>8. CASE NobodyAccepted \/ Die
    <2>1. lost' = lost + 1 /\ lost < MaxLost /\ lost \in Nat /\ RolledBack
      BY <1>8 DEF NobodyAccepted, Die, TypedRest
    <2>2. lost' \in 0..MaxLost
      BY <1>1, <2>1
    <2>3. QED
      BY <1>7, <2>1, <2>2
  <1>9. CASE IssueRaises
    BY <1>7, <1>9 DEF IssueRaises, TypedRest
  <1>10. CASE CommitNothingOwed \/ CommitIssued
    BY <1>1, <1>10 DEF CommitNothingOwed, CommitIssued, Commit, mishaps, TypedRest
  <1>11. QED
    BY <1>2, <1>3, <1>4, <1>5, <1>6, <1>7, <1>8, <1>9, <1>10 DEF Next, Watch

\* Every variable has its type.
THEOREM TypeCorrect == Spec => []TypeOK
  <1>1. NetInv /\ TypedRest => TypeOK
    <2> SUFFICES ASSUME NetInv, TypedRest PROVE TypeOK
      OBVIOUS
    <2>1. /\ JudgeInv /\ TypesOK /\ Pushing /\ ledger \in Ledgers /\ work \in Ledgers
          /\ tip \in Nat
      BY PaymentsAreTyped DEF NetInv, GrantInv, JudgeInv, TypesOK
    <2>2. ledger.cursor \in 0..tip /\ work.cursor \in 0..tip /\ highest \in 0..tip
      BY <2>1 DEF JudgeInv, TypesOK, Ledgers
    <2>3. ASSUME NEW db \in {ledger, work}
          PROVE  /\ db.cursor \in 0..tip
                 /\ db.verdict \in [Ids -> Verdicts] /\ db.issued \in [Ids -> BOOLEAN]
                 /\ db.expires_at \in [Subs -> Int] /\ db.total_paid \in [Subs -> Nat]
                 /\ db.seq \in [Subs -> Nat] /\ db.grants \in [Subs -> Bundle]
      <3>1. db \in Ledgers /\ db.cursor \in 0..tip
        BY <2>1, <2>2
      <3>2. Shelves \subseteq Bundle
        BY DEF Shelves, Bundle, NoRow
      <3>3. db.grants \in [Subs -> Bundle]
        BY <3>1, <3>2 DEF Ledgers
      <3>4. QED
        BY <3>1, <3>3 DEF Ledgers
    <2>4. QED
      BY <2>1, <2>2, <2>3 DEF TypeOK, TypedRest, Pushing, JudgeInv, TypesOK, States
  <1>2. Init => TypedRest
    <2> SUFFICES ASSUME Init PROVE TypedRest
      OBVIOUS
    <2>1. EmptyRegister \in Register
      BY DEF EmptyRegister, Register
    <2>2. QED
      BY <2>1, BoundsAreNumbers DEF Init, TypedRest
  <1>3. NetInv /\ TypedRest /\ [Next]_vars => (NetInv /\ TypedRest)'
    BY NetInvHolds, TypedRestStep
  <1>4. QED
    BY <1>1, <1>2, <1>3, NetInvHolds, PTL DEF Spec
===============================================================================
