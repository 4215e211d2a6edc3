------------------------------ MODULE Gatekeeper ------------------------------
(***************************************************************************)
(* The seller, gatekeeper/gatekeeper.py: `watch' reads payments off the    *)
(* chain, credits them in a SQLite ledger, signs one envelope per owed     *)
(* subscriber and hands them to the Freenet nodes that serve readers.      *)
(* `catflix serve' runs it again whenever it ends.                         *)
(*                                                                         *)
(* Python's sqlite3 opens a transaction at the first write and only        *)
(* db.commit() ends it, so a pass works on `work' and a process that dies  *)
(* leaves `ledger' as the last commit wrote it.  What a pass did to the    *)
(* nodes is not undone.                                                    *)
(*                                                                         *)
(* A step ends wherever the process asks somebody else: the indexer for    *)
(* events, the indexer for an outcome, a node for an update.  It may die   *)
(* between any two steps.  Time is counted in days (DAY_SECONDS is one).   *)
(*                                                                         *)
(* It is told which contract to update, as `serve' always tells it: a      *)
(* `watch' without --contract pushes nothing, marks everything issued, and *)
(* is not in here.                                                         *)
(***************************************************************************)
EXTENDS Integers, FiniteSets, Sequences, FiniteSetsExt

CONSTANTS
    Subs,            \* subscriber keys
    Sigs,            \* signatures an issuance may come out with
    Titles,          \* every title a reference can name
    Catalogue,       \* the titles in site/catalog.json
    Keyed,           \* the titles whose content key is in content-titles.json
    Sealable,        \* the subscribers' keys to which an envelope can be sealed
    BUNDLE_TITLES,   \* how many titles a bundle can hold within 8 KiB
    Payment,         \* the payments the chain comes to hold, by event id
    NodeCount,       \* the --node-port options, in order
    PRICE_PER_DAY, PRICE_PER_TITLE, RENTAL_DAYS, PERPETUAL,
    MaxClock,        \* bound: days the clock may move
    MaxLost          \* bound: passes cut short, because the process is killed or
                     \* fdev does not answer in time, or fails on every port

Ids == 1..Len(Payment)
Nodes == 1..NodeCount

KEPT == 0            \* grants.until of a title bought outright
NoRow == -1          \* no row in the table

Bundle == [Titles -> Int]

INSTANCE Entitlements WITH Bundles <- Bundle

ASSUME TitlesAreNamed == Catalogue # {} /\ Catalogue \subseteq Titles
ASSUME PricesArePositive ==
    PRICE_PER_DAY \in Nat \ {0} /\ PRICE_PER_TITLE \in Nat \ {0} /\ RENTAL_DAYS \in Nat \ {0}
ASSUME TitlesAreFinite == IsFiniteSet(Titles)
ASSUME PerpetualIsFar == {PERPETUAL, MaxClock} \subseteq Nat /\ MaxClock < PERPETUAL
ASSUME BoundsAreNumbers == NodeCount \in Nat \ {0} /\ MaxLost \in Nat
ASSUME BundlesAreBounded == BUNDLE_TITLES \in Nat
ASSUME SignaturesSuffice == Cardinality(Sigs) > MaxLost

-------------------------------------------------------------------------------
\* References and the tariff

ALL_ACCESS == [kind |-> "all", names |-> {}]

\* A payment to the shared component carries the reference of its sale: a
\* subscriber and an sku, or something else's reference altogether.
SKUs == {ALL_ACCESS} \cup [kind : {"titles", "foreign"}, names : SUBSET Titles]

ASSUME PaymentsAreTyped ==
    Payment \in Seq([sub : Subs, sku : SKUs, amount : Nat, outcome : {"Commit", "Abort"}])

\* parse_reference and titles_for raise Refusal: not a catflix reference, or
\* an order for nothing, or for a title that is not in the catalogue.
Refused(sku) ==
    \/ sku.kind = "foreign"
    \/ sku.kind = "titles" /\ (sku.names = {} \/ ~ sku.names \subseteq Catalogue)

titles_for(sku) == IF sku = ALL_ACCESS THEN Catalogue ELSE sku.names

price_of(sku) ==
    IF sku = ALL_ACCESS THEN PRICE_PER_DAY * RENTAL_DAYS
                        ELSE PRICE_PER_TITLE * Cardinality(sku.names)

days_for(amount) == amount \div PRICE_PER_DAY

-------------------------------------------------------------------------------
\* The ledger

Verdicts == {"unseen", "ignored", "unresolved", "refused", "underpaid", "credited"}

\* The tables: meta.cursor; payments by event id, "unseen" being no row;
\* subscribers; and grants, the deadline of each title a subscriber holds.
NewLedger ==
    [cursor     |-> 0,
     verdict    |-> [i \in Ids |-> "unseen"],
     issued     |-> [i \in Ids |-> FALSE],
     expires_at |-> [s \in Subs |-> NoRow],
     total_paid |-> [s \in Subs |-> 0],
     seq        |-> [s \in Subs |-> 0],
     grants     |-> [s \in Subs |-> [t \in Titles |-> NoRow]]]

\* Mutant: an INSERT OR IGNORE, and no UPDATE of the row of a retried payment.
RecordedOnce(db, i, verdict, issued) ==
    IF db.verdict[i] # "unseen" THEN db
    ELSE [db EXCEPT !.verdict[i] = verdict, !.issued[i] = issued]

Recorded(db, i, verdict, issued) ==
    [db EXCEPT !.verdict[i] = verdict, !.issued[i] = issued]

Later(a, b) == IF a >= b THEN a ELSE b

\* Mutant: the row is overwritten.
Overwritten(held, until) == until

\* Never downgrade: what is kept stays kept, and a deadline only moves out.
Extended(held, until) ==
    IF held = NoRow THEN until
    ELSE IF held = KEPT \/ until = KEPT THEN KEPT
    ELSE Later(held, until)

Granted(grants, titles, until) ==
    [t \in Titles |-> IF t \in titles THEN Extended(grants[t], until) ELSE grants[t]]

\* Mutant: MAX(until), which takes what is kept for long expired.
LatestUntil(grants) == Max({grants[t] : t \in {u \in Titles : grants[u] # NoRow}})

\* MAX(CASE WHEN until = 0 THEN PERPETUAL ELSE until END) over the grants.
Horizon(grants) ==
    Max({IF grants[t] = KEPT THEN PERPETUAL ELSE grants[t] :
            t \in {u \in Titles : grants[u] # NoRow}})

\* Mutant: a renewal runs from now.
DeadlineFromNow(db, s, sku, amount, now) ==
    IF sku # ALL_ACCESS THEN KEPT ELSE now + days_for(amount)

\* How long an sku paid for now is good for.
Deadline(db, s, sku, amount, now) ==
    IF sku # ALL_ACCESS THEN KEPT
    ELSE LET base == IF db.expires_at[s] # NoRow /\ db.expires_at[s] < PERPETUAL
                     THEN Later(now, db.expires_at[s]) ELSE now
         IN  base + days_for(amount)

Sold(db, i, now) ==
    LET p == Payment[i]
        grants == Granted(db.grants[p.sub], titles_for(p.sku),
                          Deadline(db, p.sub, p.sku, p.amount, now))
    IN  [Recorded(db, i, "credited", FALSE) EXCEPT
            !.grants[p.sub] = grants,
            !.expires_at[p.sub] = Horizon(grants),
            !.total_paid[p.sub] = @ + p.amount]

\* Mutants: an unreadable outcome counts as an abort; nobody looks at the price.
JudgedHastily(p, outcome) ==
    IF Refused(p.sku) THEN "ignored"
    ELSE IF outcome # "Commit" THEN "refused"
    ELSE IF p.amount < price_of(p.sku) THEN "underpaid"
    ELSE "credited"

JudgedAtAnyPrice(p, outcome) ==
    IF Refused(p.sku) THEN "ignored"
    ELSE IF outcome = "unresolved" THEN "unresolved"
    ELSE IF outcome # "Commit" THEN "refused"
    ELSE "credited"

\* The verdict on a payment, `outcome' being what the indexer answers about
\* its transaction: "Commit", another outcome, or nothing that can be read.
Judged(p, outcome) ==
    IF Refused(p.sku) THEN "ignored"
    ELSE IF outcome = "unresolved" THEN "unresolved"
    ELSE IF outcome # "Commit" THEN "refused"
    ELSE IF p.amount < price_of(p.sku) THEN "underpaid"
    ELSE "credited"

\* credit(): the ledger after one payment event.  A settled event is a
\* duplicate; an unresolved one is judged again from its first sighting.
credit(db, i, outcome, now) ==
    LET verdict == Judged(Payment[i], outcome)
    IN  IF db.verdict[i] \notin {"unseen", "unresolved"} THEN db
        ELSE IF verdict = "credited" THEN Sold(db, i, now)
        ELSE Recorded(db, i, verdict, verdict # "unresolved")

\* Subscribers owed an envelope.
Owed(db) ==
    {s \in Subs : \E i \in Ids : /\ db.verdict[i] = "credited" /\ ~ db.issued[i]
                                 /\ Payment[i].sub = s}

\* Mutants: UPDATE subscribers without its WHERE; no UPDATE at all.
BumpedForAll(db, owed) == [db EXCEPT !.seq = [s \in Subs |-> @[s] + 1]]

NeverBumped(db, owed) == db

Bumped(db, owed) == [db EXCEPT !.seq = [s \in Subs |-> IF s \in owed THEN @[s] + 1 ELSE @[s]]]

\* What goes into a subscriber's envelope: all their grants, without the
\* titles there is no content key for.
subscriber_bundle(grants) == [t \in Titles |-> IF t \in Keyed THEN grants[t] ELSE NoRow]

\* E.issue raises for a horizon that is not ahead, for a key nothing can be
\* sealed to (a low-order point), and for a bundle that is too large.
Issues(db, s, now) ==
    /\ db.expires_at[s] > now
    /\ s \in Sealable
    /\ Cardinality({t \in Titles : subscriber_bundle(db.grants[s])[t] # NoRow}) <= BUNDLE_TITLES

Delivered(db) ==
    [db EXCEPT !.issued = [i \in Ids |-> @[i] \/ db.verdict[i] = "credited"]]

-------------------------------------------------------------------------------

VARIABLES
    tip,         \* the chain: events 1..tip have happened
    clock,       \* time.time(), in days
    nodes,       \* each node's copy of the entitlements register
    ledger,      \* the committed ledger
    work,        \* the ledger the running pass sees
    pc,          \* what the process does next
    purpose,     \* which of the three calls of issue_pending is running
    todo,        \* events still to credit
    highest,     \* the cursor this pass will commit
    delta,       \* the register being pushed
    port,        \* the next node to push to
    failures,    \* nodes on which fdev failed in this push
    signed,      \* history: every envelope ever handed to a push
    strayed,     \* history: the seqs, by subscriber, that a node has from a
                 \* pass that was rolled back
    lost         \* passes cut short so far

chain == <<tip, clock>>
progress == <<pc, purpose, todo, highest>>
push == <<delta, port, failures>>
mishaps == <<strayed, lost>>
vars == <<tip, clock, nodes, ledger, work, pc, purpose, todo, highest, delta, port,
          failures, signed, strayed, lost>>

Init ==
    /\ tip = 0 /\ clock = 0
    /\ nodes = [n \in Nodes |-> EmptyRegister]
    /\ ledger = NewLedger /\ work = NewLedger
    /\ pc = "stopped" /\ purpose = "none" /\ todo = {} /\ highest = 0
    /\ delta = EmptyRegister /\ port = 1 /\ failures = {}
    /\ signed = {} /\ strayed = {} /\ lost = 0

-------------------------------------------------------------------------------
\* Outside

\* Somebody pays the component.
Pay ==
    /\ tip < Len(Payment)
    /\ tip' = tip + 1
    /\ UNCHANGED <<clock, nodes, ledger, work, progress, push, signed, mishaps>>

\* A pass reads the clock once, so a day that passes during one is a day that
\* passes after it.
Tick ==
    /\ pc \in {"stopped", "poll"} /\ clock < MaxClock
    /\ clock' = clock + 1
    /\ UNCHANGED <<tip, nodes, ledger, work, progress, push, signed, mishaps>>

-------------------------------------------------------------------------------
\* cmd_watch

\* The envelopes on the nodes that the committed ledger knows nothing of.
Strays ==
    UNION {{<<s, nodes[n][s].seq>> :
                s \in {u \in Held(nodes[n]) : nodes[n][u].seq > ledger.seq[u]}} : n \in Nodes}

\* Back to nothing in memory: what was not committed is gone, and what the
\* nodes took of it is not.
RolledBack ==
    /\ work' = ledger
    /\ strayed' = strayed \cup Strays
    /\ pc' = "stopped" /\ purpose' = "none" /\ todo' = {} /\ highest' = 0
    /\ delta' = EmptyRegister /\ port' = 1 /\ failures' = {}
    /\ UNCHANGED <<chain, nodes, ledger, signed>>

\* The process starts, and the first thing it does is sweep.
Start ==
    /\ pc = "stopped"
    /\ work' = ledger
    /\ pc' = "issue" /\ purpose' = "sweep"
    /\ UNCHANGED <<chain, nodes, ledger, todo, highest, push, signed, mishaps>>

\* Mutant: an unresolved payment is never looked at again.
PollWithoutRetry ==
    /\ pc = "poll"
    /\ highest' = work.cursor
    /\ todo' = {}
    /\ pc' = "retry"
    /\ UNCHANGED <<chain, nodes, ledger, work, purpose, push, signed, mishaps>>

\* The top of the loop: the cursor is read, and the unresolved events listed.
Poll ==
    /\ pc = "poll"
    /\ highest' = work.cursor
    /\ todo' = {i \in Ids : work.verdict[i] = "unresolved"}
    /\ pc' = "retry"
    /\ UNCHANGED <<chain, nodes, ledger, work, purpose, push, signed, mishaps>>

\* Mutant: each credit is committed on its own.
CreditAtOnce(outcome) ==
    /\ pc \in {"retry", "credit"} /\ todo # {}
    /\ LET i == Min(todo)
       IN  /\ outcome \in {"unresolved", Payment[i].outcome}
           /\ work' = credit(work, i, outcome, clock)
           /\ ledger' = work'
           /\ todo' = todo \ {i}
    /\ UNCHANGED <<chain, nodes, pc, purpose, highest, push, signed, mishaps>>

\* retry_unresolved and the loop over new events call credit in id order.
Credit(outcome) ==
    /\ pc \in {"retry", "credit"} /\ todo # {}
    /\ LET i == Min(todo)
       IN  /\ outcome \in {"unresolved", Payment[i].outcome}
           /\ work' = credit(work, i, outcome, clock)
           /\ todo' = todo \ {i}
    /\ UNCHANGED <<chain, nodes, ledger, pc, purpose, highest, push, signed, mishaps>>

\* read_events returns what the indexer replays after the cursor, or only the
\* beginning of it when the stream falls silent or the deadline passes.
ReadEvents(last) ==
    /\ pc = "retry" /\ todo = {}
    /\ last \in highest..tip
    /\ todo' = (highest + 1)..last
    /\ highest' = last
    /\ pc' = "credit"
    /\ UNCHANGED <<chain, nodes, ledger, work, purpose, push, signed, mishaps>>

\* read_events raises: what the retries credited is issued all the same.
ReadFails ==
    /\ pc = "retry" /\ todo = {}
    /\ pc' = "issue" /\ purpose' = "unread"
    /\ UNCHANGED <<chain, nodes, ledger, work, todo, highest, push, signed, mishaps>>

EventsDone ==
    /\ pc = "credit" /\ todo = {}
    /\ pc' = "issue" /\ purpose' = "close"
    /\ UNCHANGED <<chain, nodes, ledger, work, todo, highest, push, signed, mishaps>>

-------------------------------------------------------------------------------
\* issue_pending and push_delta

\* One envelope per owed subscriber, at the next seq, carrying all their
\* grants.  Sealing is randomised, so the signature is any new one.
Issue ==
    /\ pc = "issue" /\ Owed(work) # {}
    /\ \A s \in Owed(work) : Issues(work, s, clock)
    /\ LET owed == Owed(work)
           db == Bumped(work, owed)
       IN  \E sig \in [owed -> Sigs] :
             LET envelope == [s \in owed |-> [sub |-> s, seq |-> db.seq[s],
                                              sealed |-> subscriber_bundle(db.grants[s]), sig |-> sig[s]]]
             IN  /\ \A s \in owed : \A e \in signed :
                        e.sub = s /\ e.seq = db.seq[s] => e.sig # sig[s]
                 /\ delta' = [s \in Subs |-> IF s \in owed THEN envelope[s]
                                                           ELSE NoEntitlement]
                 /\ signed' = signed \cup {envelope[s] : s \in owed}
                 /\ work' = db
    /\ pc' = "push" /\ port' = 1 /\ failures' = {}
    /\ UNCHANGED <<chain, nodes, ledger, purpose, todo, highest, mishaps>>

\* E.issue raises for one of them, nobody catches it, and the process ends:
\* nobody gets an envelope, and nothing of the pass was committed.
IssueRaises ==
    /\ pc = "issue"
    /\ \E s \in Owed(work) : ~ Issues(work, s, clock)
    /\ RolledBack
    /\ UNCHANGED lost

\* `fdev execute update' on the next port: the node joins the delta.
Accept ==
    /\ pc = "push" /\ port \in Nodes
    /\ nodes' = [nodes EXCEPT ![port] = join(@, delta)]
    /\ port' = port + 1
    /\ UNCHANGED <<chain, ledger, work, progress, delta, failures, signed, mishaps>>

\* fdev fails and the loop goes on.  That says nothing of the node: it may
\* have refused the update, or joined it and the answer was lost.
Refuse ==
    /\ pc = "push" /\ port \in Nodes
    /\ failures = Nodes \ {port} => lost < MaxLost
    /\ nodes' \in {nodes, [nodes EXCEPT ![port] = join(@, delta)]}
    /\ failures' = failures \cup {port}
    /\ port' = port + 1
    /\ UNCHANGED <<chain, ledger, work, progress, delta, signed, mishaps>>

\* fdev failed on every port: SystemExit, before anything was committed.
NobodyAccepted ==
    /\ pc = "push" /\ port \notin Nodes /\ failures = Nodes
    /\ lost' = lost + 1
    /\ RolledBack

\* The transaction a pass commits.  After the sweep, and after a stream that
\* could not be read, it moves no cursor; at the close of a pass it does.
Commit(db) ==
    /\ ledger' = db /\ work' = db
    /\ IF purpose = "sweep"
       THEN pc' = "poll"
       ELSE pc' \in {"poll", "stopped"}       \* --once returns
    /\ purpose' = "none" /\ highest' = 0
    /\ delta' = EmptyRegister /\ port' = 1 /\ failures' = {}
    /\ UNCHANGED <<chain, nodes, todo, signed, mishaps>>

Closed(db) == IF purpose = "close" THEN [db EXCEPT !.cursor = highest] ELSE db

\* issue_pending had nothing to do, or pushed to at least one node.
CommitNothingOwed ==
    /\ pc = "issue" /\ Owed(work) = {}
    /\ Commit(Closed(work))

CommitIssued ==
    /\ pc = "push" /\ port \notin Nodes /\ failures # Nodes
    /\ Commit(Closed(Delivered(work)))

\* The process is killed, or fdev does not answer in 300 seconds and
\* TimeoutExpired ends it.  The node asked last may have taken the update:
\* that is this step after Accept.
Die ==
    /\ pc # "stopped" /\ lost < MaxLost
    /\ lost' = lost + 1
    /\ RolledBack

-------------------------------------------------------------------------------

Watch ==
    \/ Start \/ Poll \/ ReadFails \/ EventsDone
    \/ \E outcome \in {"unresolved", "Commit", "Abort"} : Credit(outcome)
    \/ \E last \in Ids \cup {0} : ReadEvents(last)
    \/ Issue \/ IssueRaises \/ Accept \/ Refuse \/ NobodyAccepted
    \/ CommitNothingOwed \/ CommitIssued

Next == Pay \/ Tick \/ Watch \/ Die

Spec == Init /\ [][Next]_vars

\* `catflix serve' starts the process again whenever it has ended, so the
\* process's own steps are never put off for ever.  The indexer and the nodes
\* are outside; the assumption on them is that one that is asked again and
\* again answers in the end: a whole replay, an outcome, an accepted update.
Answers ==
    /\ SF_vars(ReadEvents(tip))
    /\ SF_vars(Credit("Commit")) /\ SF_vars(Credit("Abort"))
    /\ \A n \in Nodes : SF_vars(port = n /\ Accept)

FairSpec == Spec /\ WF_vars(Watch) /\ Answers

-------------------------------------------------------------------------------
\* What a payment deserves, from the chain alone

Deserving(i) ==
    LET p == Payment[i]
    IN  ~ Refused(p.sku) /\ p.outcome = "Commit" /\ p.amount >= price_of(p.sku)

PaidFor(s) == {i \in Ids : Payment[i].sub = s}

\* A deadline is as good as another, KEPT being good for ever.
AsGood(a, b) == a # NoRow /\ (a = KEPT \/ (b # KEPT /\ a >= b))

Covers(grants, other) ==
    \A t \in Titles : other[t] # NoRow => AsGood(grants[t], other[t])

Amount == [i \in Ids |-> Payment[i].amount]

\* What a ledger says was settled, and what the subscribers hold by it.
ServedIn(db) == {i \in Ids : db.verdict[i] = "credited" /\ db.issued[i]}

RefusedIn(db) == {i \in Ids : db.verdict[i] \in {"ignored", "refused", "underpaid"}}

OwnedIn(db) == [s \in Subs |-> {t \in Titles : db.grants[s][t] = KEPT}]

HeldIn(db) == [s \in Subs |-> {t \in Titles : db.grants[s][t] # NoRow}]

\* The committed ledger as a shop: a payment is open until the pass that
\* settles it is committed.
Shop == INSTANCE Shop WITH
    Customers  <- Subs,
    Orders     <- Ids,
    BuyerOf    <- [i \in Ids |-> Payment[i].sub],
    ContentsOf <- [i \in Ids |-> titles_for(Payment[i].sku)],
    Outright   <- {i \in Ids : Payment[i].sku # ALL_ACCESS},
    Worthy     <- {i \in Ids : Deserving(i)},
    placed     <- 1..tip,
    served     <- ServedIn(ledger),
    refused    <- RefusedIn(ledger),
    owned      <- OwnedIn(ledger),
    held       <- HeldIn(ledger)

-------------------------------------------------------------------------------
\* Properties

\* Every variable has its type; only a running pass has uncommitted work.
TypeOK ==
    /\ tip \in 0..Len(Payment) /\ clock \in 0..MaxClock
    /\ nodes \in [Nodes -> Register]
    /\ \A db \in {ledger, work} :
        /\ db.cursor \in 0..tip
        /\ db.verdict \in [Ids -> Verdicts] /\ db.issued \in [Ids -> BOOLEAN]
        /\ db.expires_at \in [Subs -> Int] /\ db.total_paid \in [Subs -> Nat]
        /\ db.seq \in [Subs -> Nat] /\ db.grants \in [Subs -> Bundle]
    /\ pc \in {"stopped", "poll", "retry", "credit", "issue", "push"}
    /\ purpose \in {"none", "sweep", "unread", "close"}
    /\ todo \subseteq Ids /\ highest \in 0..tip
    /\ delta \in Register /\ port \in 1..(NodeCount + 1) /\ failures \subseteq Nodes
    /\ signed \subseteq Entitlement /\ strayed \subseteq Subs \X Nat
    /\ lost \in 0..MaxLost
    /\ pc = "stopped" => work = ledger

\* credit() is idempotent on the event id (gatekeeper.py:504-506): what the
\* ledger says a subscriber has paid is the sum of their credited payments,
\* each once, however often a pass was repeated.
EachPaymentCountsOnce ==
    \A db \in {ledger, work} : \A s \in Subs :
        db.total_paid[s] =
            MapThenSumSet(LAMBDA i : Amount[i],
                          {i \in PaidFor(s) : db.verdict[i] = "credited"})

\* "Price is enforced here or nowhere", and "a payment credited but not issued
\* must be issued on restart" (gatekeeper.py:45, 51): by the committed ledger
\* every payment is settled at most once, rightly, and in one step with its
\* delivery, and a subscriber holds exactly what the served payments bought,
\* however many passes were cut short, repeated, or saw a part of the stream.
SellsLikeAShop == Shop!Spec

\* No payment falls behind the cursor (gatekeeper.py:837-839): below the
\* committed cursor, a payment that deserves its goods is credited and marked
\* issued, or held unresolved to be retried.
NothingFallsBehindTheCursor ==
    \A i \in 1..ledger.cursor : Deserving(i) =>
        \/ ledger.verdict[i] = "credited" /\ ledger.issued[i]
        \/ ledger.verdict[i] = "unresolved"

\* Credit and issuance commit together: no committed ledger owes anybody, so a
\* restart recovers by reading from the cursor and its sweep finds nothing.
NoCommittedDebt == Owed(ledger) = {}

\* Nothing is given away (obligation 4, and "only an explicit Commit permits
\* disclosure", gatekeeper.py:456): every grant ever signed, even by a pass
\* that was rolled back, is backed by a deserving payment for that title, and
\* what is kept was bought outright.
NothingGivenAway ==
    \A e \in signed : \A t \in Titles : e.sealed[t] # NoRow =>
        \E i \in PaidFor(e.sub) :
            /\ i <= tip /\ Deserving(i) /\ t \in titles_for(Payment[i].sku)
            /\ (e.sealed[t] = KEPT) = (Payment[i].sku # ALL_ACCESS)

\* E.issue never refuses a sale for its horizon (envelope.py:193): whoever is
\* owed an envelope is owed one that is still good when it is signed.
IssuedWhileGood ==
    pc = "issue" => \A s \in Owed(work) : work.expires_at[s] > clock

\* The committed seq is never ahead of the network: an issuance the ledger
\* remembers is one that some node holds, or holds a later one.
SeqIsOnTheNetwork ==
    \A s \in Subs : ledger.seq[s] > 0 =>
        \E n \in Nodes : nodes[n][s] # NoEntitlement /\ nodes[n][s].seq >= ledger.seq[s]

\* Node n serves subscriber s an envelope that opens all they own by the
\* committed ledger.
Readable(n, s) ==
    /\ nodes[n][s] # NoEntitlement
    /\ Covers(nodes[n][s].sealed, subscriber_bundle(ledger.grants[s]))

Issued(i) == ledger.verdict[i] = "credited" /\ ledger.issued[i]

\* What was paid for and marked issued can be opened from some node.  "A crash
\* between crediting and issuing costs a restart rather than a subscription"
\* (gatekeeper.py:698-699) says so of a process that dies, too.
PaidIsReadable == \A i \in Ids : Issued(i) => \E n \in Nodes : Readable(n, Payment[i].sub)

\* The last seq committed for s is one that a pass which was rolled back has
\* left on a node, so that two envelopes have it.
Tied(s) == <<s, ledger.seq[s]>> \in strayed

\* And so it is for everybody else, whoever died and whichever calls failed,
\* and for a subscriber whose seq was tied from their next issuance on.
PaidIsReadableUnlessTied ==
    \A i \in Ids : Issued(i) /\ ~ Tied(Payment[i].sub) =>
        \E n \in Nodes : Readable(n, Payment[i].sub)

\* "The sweep will retry the rest on the next pass, because `issued' only
\* clears on success" (gatekeeper.py:767-768): a payment whose envelope some
\* node has not taken is not marked issued.
IssuedMeansEveryNode == \A i \in Ids : Issued(i) => \A n \in Nodes : Readable(n, Payment[i].sub)

\* Grants are only ever extended, never revoked (gatekeeper.py:192-195).
GrantsNeverShrink ==
    [][\A s \in Subs : Covers(ledger'.grants[s], ledger.grants[s])]_vars

\* An all-access payment moves every running rental of its subscriber out by
\* the days it paid for.
KeepsTimeBought(i) ==
    LET s == Payment[i].sub
    IN  \A t \in Titles : work.grants[s][t] > clock =>
            work'.grants[s][t] >= work.grants[s][t] + days_for(Payment[i].amount)

Renews(i) ==
    /\ Payment[i].sku = ALL_ACCESS
    /\ pc \in {"retry", "credit"}
    /\ work.verdict[i] # "credited" /\ work'.verdict[i] = "credited"

\* "A renewal EXTENDS from the later of now and the current deadline, so
\* renewing early does not throw away time already bought"
\* (gatekeeper.py:593-594).
RenewalsKeepTimeBought == [][\A i \in Ids : Renews(i) => KeepsTimeBought(i)]_vars

\* And so it is for a subscriber who holds no title outright.
RentersKeepTimeBought ==
    [][\A i \in Ids : Renews(i) /\ (\A t \in Titles : work.grants[Payment[i].sub][t] # KEPT)
                        => KeepsTimeBought(i)]_vars

\* Some node holds an envelope with the keys of all that a payment bought.
ServedBy(n, i) ==
    LET s == Payment[i].sub
    IN  /\ nodes[n][s] # NoEntitlement
        /\ \A t \in titles_for(Payment[i].sku) \cap Keyed : nodes[n][s].sealed[t] # NoRow

\* The chain holds a payment for which E.issue raises in every pass: of a key
\* nothing can be sealed to, or of titles beyond what a bundle holds.
PurchasesOf(s) ==
    UNION {titles_for(Payment[i].sku) : i \in {j \in PaidFor(s) : j <= tip /\ Deserving(j)}}

Jammed ==
    \E s \in Subs : /\ PurchasesOf(s) # {}
                    /\ \/ s \notin Sealable
                       \/ Cardinality(PurchasesOf(s) \cap Keyed) > BUNDLE_TITLES

\* "Everything credited and not yet delivered" is issued (obligation 5): in the
\* end every payment that deserves its goods is served for good, unless a pass
\* that was rolled back has left its last seq on a node, or some payment on the
\* chain ends every pass.
EveryPaymentIsServed ==
    \A i \in Ids : (tip >= i /\ Deserving(i)) ~>
        [](Jammed \/ Tied(Payment[i].sub) \/ \E n \in Nodes : ServedBy(n, i))
===============================================================================
