# catflix in TLA+

Catflix sells pictures to people who have no account with it. A visitor's page
makes a key, names it in a payment on the Ootle chain, and later finds, on
Freenet, an envelope that only that key opens. Between the two stands one
process, the seller, with a SQLite ledger. This directory specifies the parts
of the program that decide who gets what and who pays for what, checks them
with TLC on small instances, and proves the most important results with TLAPS
for instances of every size.

Contents: 1 the system, 2 the modules, 3 the runs, 4 the proofs, 5 where the
code and its documentation differ, 6 what is left out and what could follow.

## 1. The system

```
 page (ui/app.js) --reference--> payment component (Ootle chain) --events--> gatekeeper watch
      |                                   ^                                     |  ledger.sqlite
      | asks the house                    | pay-sale                            | signed envelopes
      v                                   |                                     v
 request queue contract --get--> gatekeeper cover --> agent wallet --> toolkit  entitlements contract
 (Freenet)                                                                      (Freenet) --> page
```

### The entitlements contract, `contract/src/lib.rs`
*State:* per node, a register: one envelope per subscriber key.
*Operations:* `validate_state`, `update_state`, `summarize_state`,
`get_state_delta`, all pure. *Interactions:* the network calls them with
documents from anybody, in any order, repeatedly or never; the gatekeeper
writes, the page reads. *Hard:* the merge must not depend on order or grouping,
nor ever step back; the summary must tell what a peer misses. *Correct when:*
nodes that were given the same envelopes agree, an older envelope never comes
back, every state written is a state accepted.

### The seller, `gatekeeper/gatekeeper.py watch`
*State:* `ledger.sqlite`: cursor, `payments` with verdicts and `issued`,
`subscribers` with `seq` and `expires_at`, `grants`. *Operations:* retry the
payments whose outcome could not be read, read new events after the cursor,
credit, sign one envelope per owed subscriber, push to every node, commit.
*Interactions:* the indexer (events, outcomes), `fdev` per node, the ledger it
shares with `cover`. *Hard:* one transaction spans several conversations with
other processes, so a death undoes the ledger but not what was pushed; outcomes
may stay unknown for many passes; nodes fail one by one, and a call that failed
may have been carried out; rentals, renewals and outright purchases meet in one
row; signing raises for some keys and bundles. *Correct when:* each payment
counts once and none is lost behind the cursor, nothing is signed that was not
paid, grants never shrink, what the ledger calls issued can be opened, and every
payment is served in the end. The last two do not hold without conditions: see
5.1 and 5.9.

### Reading the event stream, `read_events`
*State:* none beyond one call. It parses server-sent events until the stream is
silent or a deadline passes. *Hard:* partial replays, overflow of the read
limit. *Correct when:* what it returns is a prefix of what is after the cursor.

### The house, `gatekeeper/gatekeeper.py cover`
*State:* the table `covered`. *Operations:* read the request queue from all
nodes, drop what has a row or is credited, pay the first `--max` through the
wallet, write a row per payment. *Interactions:* the queue contract, the wallet
as a child process, the ledger. *Hard:* dying between the wallet's payment and
the row; a wallet that cannot say whether it paid. *Correct when:* no request is
paid twice, and the budget holds over all sweeps.

### The agents' wallet, `payer/agent_wallet.py`
*State:* `agent_wallets.json` (identities with slot, account, tokens in flight
and faucet counter; payment records by sale reference; the workstation's grant
counter) under a file lock, and the directory of key files.
*Operations:* `mint`, `fund`, `pay_sale`, `retire`, `identities`.
*Interactions:* the toolkit, run as a child with a slot; callers in other
processes. *Hard:* every operation releases the lock while its child runs, so
operations overlap, callers die and children outlive them, leases lapse, and the
toolkit creates any key it does not find. *Correct when:* a sale is paid once per
decision, the faucet's budget holds, no key is lost while in use or shared.

### The Ootle toolkit, `payer/ootle/toolkit/src/main.rs`
*State:* per machine a till key file and, on demand, a dev bench key file; a
recovery key file somewhere; request and response files that customer and
merchant exchange; dated records of measurements. *Operations:* verbs that each
hold keys, prepare a transaction against the ledger as it is, sign it, and send
it (`faucet`, `deploy`, `award`, `enrol`, `redeem`, `rotate`, `pay`, the cards,
the dev bench); `--compose`, `sign-request` and `submit-request`, by which a
customer signs on another machine; `key seal`; `finality`, which times pairs of
transactions. *Interactions:* the ledger, other machines through it, the wallet
as its parent. *Hard:* the ledger moves between prepare and send; which keys a run
holds, and makes if they are missing, depends on its verb and on flags somebody
typed; the recovery key file that is brought to a till may be another
component's; request and response are files somebody can mix up; a run may
die between the two halves of a write; files are created without a lock.
*Correct when:* what is prepared would land if nothing else happened first, who
is said to have signed has signed, a till that hands a transaction over makes no
customer's key, no key that may hold money is lost, what a record says follows
from what was measured.

### The request queue contract, `contract-requests/src/lib.rs`
*State:* per node, a set of at most 2000 references. *Operations:* the same four
as above; merge is union. *Hard:* the cap: replicas under it whose union is over
it. *Correct when:* replicas agree, and a full queue stays readable.

### The page, `ui/app.js` and `ui/pricing.js`
*State:* keyring, grants, basket, the polling interval, the queue of node calls.
*Operations:* make an order, ask the house, ingest a register, poll, reveal.
*Hard:* grants are compared before an await and assigned after it; one call that
never answers holds up all later ones; the interval is never cleared while
connected. *Correct when:* the stronger grant stays, and waiting ends.

### Others
`gatekeeper/envelope.py` seals and signs (X25519, HKDF, AES-GCM, Ed25519).
`catflix` is the command line; its `serve` runs `watch --once` and `cover` in
turn for ever under `run/serve.lock`. `gatekeeper init` and `status` write two
key files and read the ledger. `frontdoor.py` redirects. `catalog/` renders and
encrypts the images offline. `build.sh`, `check.sh` and `tests/` have no state
of the running system.

The hazards of this code, each at its line and with the properties that would
catch it going wrong, are listed in `PROJECT.json`.

## 2. The modules

| Module | Models | Extends |
|---|---|---|
| `Entitlements` | the contract's pure functions | |
| `Replicas` | nodes that run them on anything the network hands over | `Entitlements` |
| `ReplicasProofs` | theorems about `Replicas` | `Replicas`, `Collections` |
| `Shop` | what the seller promises: the abstract specification of `Gatekeeper` | |
| `Gatekeeper` | `watch`, the chain before it and the nodes behind it | `Entitlements`; `Shop` by INSTANCE |
| `GatekeeperProofs` | theorems about `Gatekeeper` | `Gatekeeper`, `Collections` |
| `AgentWallet` | the wallet, its children, the key directory, the chain's verdict | |
| `House` | `cover` paying through the wallet | `AgentWallet` |
| `WalletProofs` | theorems about the wallet's payments, records, faucet and keys, and about `House` | `House`, `Collections` |
| `RequestQueue` | the queue contract and nodes that run it | |
| `RequestQueueProofs` | theorems about `RequestQueue` | `RequestQueue`, `Collections` |
| `Toolkit` | the toolkit's transactions, the handoff, the ledger they meet | |
| `ToolkitProofs` | theorems about `Toolkit` | `Toolkit` |
| `KeyFiles` | opening, creating and sealing one key file | |
| `KeyFilesProofs` | theorems about `KeyFiles` | `KeyFiles` |
| `Finality` | the finality measurement and its records | |
| `FinalityProofs` | theorems about `Finality` | `Finality`, `Collections` |
| `Collections` | lemmas about finite sets, least and greatest numbers, listings and sums | |
| `MCReplicas`, `MCGatekeeper`, `MCAgentWallet`, `MCHouse`, `MCRequestQueue`, `MCToolkit` | small instances | the above |

`KeyFiles` and `Finality` have constants simple enough to be given in
their `.cfg` alone.

Definitions whose comment begins with "Mutant" are plausible mistakes of the
definition that follows them. No specification uses them; for every checked
property there is one that makes its run fail (`PROJECT.json`, "mutants"), so
that every property is known to depend on the code it is about.

### Entitlements and Replicas
A register is a function from subscribers to an envelope or `NoEntitlement`. A
document, which in the code is the JSON of a `Register` or a `Delta`, is a
version and a sequence of envelopes, so that `parse_checked`'s checks (version,
strict order, signature) are all there. Cryptography is ideal: a signature
verifies if and only if the envelope is in `signed`. The order of signatures,
which the merge uses to break ties, is the order of numbers.
`update_state` takes any of the shapes the code does: a state, a delta, both, or
several; a batch of up to two documents stands for all of them, since the code
folds them one at a time. `Deliver` hands any node any batch at any time, which
includes every loss, repetition, reordering and stale cache; `Synchronise` is a
summary, the delta for it, and the merge.

### Gatekeeper
Python's `sqlite3` opens a transaction at the first write and only
`db.commit()` ends it. So there are two ledgers: `ledger`, as last committed,
and `work`, which the running pass sees. Three things end a pass and put `work`
back to `ledger` (`RolledBack`): the process being killed, or ended by the
timeout of `fdev` (`Die`); `fdev` failing on every port (`NobodyAccepted`); and
`issue` raising (`IssueRaises`). What the nodes took meanwhile stays; `strayed`
remembers the seqs of such envelopes. The action
boundaries are the conversations: `Start` (a process begins with the sweep),
`Poll` (the unresolved payments are listed), `Credit` (one outcome is asked for,
one payment judged), `ReadEvents` (any prefix of what is new) or `ReadFails`,
`EventsDone`, `Issue` (seq, grants, envelopes), `Accept` and `Refuse` per port,
`CommitIssued` and `CommitNothingOwed`. `credit` is one operator with all the
code's branches: an event settled before, a foreign or unknown reference, an
unreadable outcome, an abort, an underpayment, and a sale with its grants,
deadlines and horizon. The nodes' registers are merged by `Entitlements!join`.
`Refuse` is a call of `fdev` that failed: the node may have refused the update,
or joined it before its answer was lost. `Issues` says when `issue` does not
raise: the horizon is ahead, the key is one to which an envelope can be sealed
(`Sealable`; a low-order point is not), and the titles for which there is a
content key (`Keyed`; `subscriber_bundle` leaves the others out) fit into 8 KiB
(`BUNDLE_TITLES`). It is called once per owed subscriber, and nobody catches
what it raises, so one of them ends the pass for all.
Abstractions: days instead of seconds; event bodies are well formed; the
catalogue does not change; the clock moves between passes only, because a pass
reads it once; nodes do not gossip with each other (`Replicas` is about that);
`TimeoutExpired` is `Die`, before or after `Accept`; whether `--once` was given
is left open. Titles' keys travel in the envelope as the grants they come with.
The size of a bundle is the number of its titles. A `watch` without
`--contract`, which marks everything issued and pushes nothing, is left out:
`serve` always gives one.

### Shop
The abstract specification: orders that are placed, each with a customer and
goods, and settled in batches, those that are worth their goods by serving them
and the others by refusing them; a customer has what the served orders
contained, for good if they were outright. `Gatekeeper!SellsLikeAShop` is this
specification with the chain for the placed orders and the committed ledger for
the rest. What it hides is what a customer does not see: the process, its
deaths and retries, the ledger being written, the nodes, and terms of days.

### AgentWallet
A call is its own token in `in_flight`, and the name of the key its child makes
if it makes one. Each call is a first transaction (`MintNew`, `MintAgain`,
`Fund`, `Pay`), a child (`Launch` or `LaunchFails`; `ChildOpens`, `ChildCreates`,
`ChildSubmits`; `AccountShown`, `CommitShown`, `ChildFails`) and a last
transaction (`FinishMint`, `FinishFund`, `FinishPay`); `Retire` is one
transaction. Each transaction is one step because the file lock is held and the
registry is replaced atomically. Between any two steps the caller may be
`Killed`, and its child goes on; the chain decides a submitted transaction
(`Decided`) at any time, whether or not anybody waits for it. `LeaseLapses`
is the only trace of time: a call that waits for its child kills it after
`TIMEOUT_S`, before its lease of `LEASE_SECONDS` ends, so the lease can only
lapse on a live child when the caller was killed, or was slow between its first
transaction and the launch.
Not in the model, because it only refuses more calls and changes nothing: the
cooldown, invalid arguments, an unreadable registry. A registry that cannot be
saved at the end of a call is the same as a caller killed before it. The reason
text of results is left out, and of the faucet's result, which nothing is
recorded about, everything.
`orderly` is a history variable. The header of the file promises separation of
keys "with an intact and mutually consistent registry/key directory, no
concurrent lifecycle operations on the same identity" (agent_wallet.py:78-79);
`orderly` says that this has been so: nothing overlaps the making or the
retiring of an identity's key, a used identity has its key, and no lease has
lapsed under a live child. The two properties about keys hold on that condition,
and TLC explores the states where it is met (the constraint `Orderly`).

### House
A sweep reads the queue and the tables (`Sweep`), goes through the first
`MaxPerSweep` references in their order (`Skip` for one that does not fit the
budget, `PayForStranger` for one that does), waits for the wallet's process and
writes its row (`WalletReturns`). `PayForStranger` is the wallet's own `Pay`, and
the steps of the wallet, its child and the chain are the wallet's `Work`, so all
interleavings of the two are there. What happens outside, a new request or a
payment that `watch` credits (`CreditOf`), happens between sweeps, because a
sweep reads both at its beginning. The payment credited may be the house's or,
for a reference in `SelfPaid`, the visitor's own. `WalletRefuses` is a wallet that ends without
starting a payment. A sweep may die at any point and leave the wallet running
(`SweepDies`; `Killed` may follow, or not). `serve` runs one sweep at a time.

### RequestQueue
A queue is a set of references; a reference keeps what `well_formed` asks of the
string (its length, its prefix, its parts, whether they are clean) and its place
in the order of strings. The empty state, bytes that are no JSON, and a document
of another version are there; a document is refused for its order, its length
and each of its references. `update_state` folds the union over all readable
parts of an update and fails as a whole if the result passes `MAX_ENTRIES`.
`Deliver` hands any node a batch of up to two documents, `Synchronise` is a
summary and a delta of it. `offered` is a history: the references of every
readable update a node was handed, accepted or not.

### Toolkit
A machine of the merchant is a till; a customer's device has a bench key only;
recovery key files are kept in `Safes` and brought to a till for a rotation. A
verb is two steps: `Hold`, which is everything up to the transaction
(the keys, `prepare` against `substates`, which fixes what the transaction
declares, the signatures), and `Send`, where the transaction reaches the ledger, or
an error ends the run. Tills take their steps in
any order, so between the two the ledger may have moved; `fresh` in a held
transaction says whether anything landed since. `Required` and `Optional` are
the wants of each verb; `Touched`, `Badges` and `Execute` are what the ledger asks
for and does, modelled from what the toolkit's comments say of it, and
external. It may refuse any transaction; the deadline the dev bench's payments
are tested for is one of the reasons for which `Send` may end with nothing sent.

A component has an operating key, which `deploy` takes from the till and
`rotate` replaces by the till's own or by any public key that is named, and a
recovery key, which is whatever public key was named when it was deployed.
`rotate` signs with the key in the file that is here (`Recovery(s)` for any `s`),
which need not be that one. `Pasted` bounds which public keys anybody names.

`--compose` is typed in one of four ways (`Flags`), and `take_flag` reads it:
a flag without a value, or given twice, ends the run. With a value, the run
holds no customer's key and leaves a `request` (`WriteRequest`); without the
flag, `enrol` and `redeem` load the bench key, and make it where there is none,
before anything else is looked at (`CoSigned`). The first draft of `take_flag`
took a flag without its value for no flag, and is the mutant
`TakeWhatIsThere`. Only the tills in `DevBenches` run the verbs that load the key
without having typed `--compose`; whatever the others type, they meant to hand
the transaction over. `Pay` holds the till's key only.

`SignRequest` adds a signature, after it has loaded or created the
bench key; `SubmitRequest` takes a response whose fields may have been mixed up
(`HandedOver`) and says who signed. `signatures` is a history.
Amounts are left out, so a transaction refused for want of points or
money is one the ledger refused; and so is a request for the till's own payment,
which nobody can sign. Vaults are told apart by what they hold only as far
as a key's kind does: gift cards in a till's, points in a customer's.

### KeyFiles
A name stands for an inode, so that a rename does not disturb a write that is
under way. `fs::write` is two steps, the truncation and the writing, and after
any step the process may die (`Die`), which can leave a torn file; the code
refuses such a file for ever. Opening a plain file, or a sealed one with its
passphrase, leads to `using`; once the run has used it, the key is `relied` upon. `seal`
writes the sealed copy beside the plain file, reads it back, and renames it
over. `FirstRunsOverlap` and `SealsOverlap` say whether two processes may
create, or seal, at once: the code has no lock, and relies on the operator.

### Finality
Time is an offset into the network's commit cycle. A pair is an issue and a
redeem. The redeem is sent right after the issue has committed, so its phase is
`locked` and its wait is the cycle; the issues after the first wait for the
midpoint of their part of the cycle that the locked samples have measured
(`swept`), and are `free`. Each transaction ends as committed, refused, unsent or
timed out (`timed_call`), with the wait the network made of it; an issue that
fails skips its redeem. The verdict and the summaries are the code's.
`measurements` are the files of one day, by name: `finality_out_path` takes the
first name that is free before anything is spent, and `Report` writes the record
at the end. A command may end at any moment. One command runs at a time.

## 3. The runs

| Run | Asks | Result |
|---|---|---|
| `replicas` | do nodes converge on the best envelopes, never step back, write what they accept, and catch up by summaries up to ties? | holds |
| `gatekeeper` | is the ledger right, does it serve and refuse as `Shop` does, and is what it calls issued readable unless its seq is tied, if one pass may be cut short at any step? | holds |
| `gatekeeper_terms` | are terms right for a renter who also buys, over a clock that passes every deadline, and is nothing given away? | holds |
| `gatekeeper_live` | is each of two purchases served for good, if one pass may be cut short, until a payment arrives that ends every pass, and unless its seq is tied? | holds |
| `gatekeeper_killed` | is what is called issued readable after a pass that was cut short? | violated |
| `wallet` | once per decision, true records, faucet budget, keys neither lost nor mixed? | holds |
| `wallet_forced` | is a second, unforced call for a sale always refused? | violated |
| `house` | never the same one twice, what is recorded as paid landed and is within the budget? | holds |
| `queue` | does a node hold what it was handed while that fits, stay readable when full, and catch up in a round? | holds |
| `keyfiles` | is a key that was used never lost, one for all, and sealed for good, wherever a run or a seal dies? | holds |
| `toolkit` | would what is prepared land, did who is said to sign sign, is no customer's key made at a till that hands over, however the flag is typed? | holds |
| `finality` | do verdict, cycle and median follow from what was measured, and do records stay? | holds |

### Bounds
- `replicas`: two nodes, two subscribers, five envelopes: a tie on seq whose
  signatures sort against the order of issuance, a later seq, and a second
  subscriber; documents of up to two envelopes, sorted or not, with repetitions,
  unsigned ones and an unknown version. Two nodes are enough for every pairwise
  property; that more nodes and envelopes bring nothing new is what is proved.
- `gatekeeper`: three payments of two subscribers, one of whom renews, two
  nodes, one pass cut short (`MaxLost`): the first payment can be pushed, lost
  from the ledger and met again together with the renewal, which is the shortest
  way to trouble. A pass cut short is one that is killed, or in which `fdev`
  fails on both ports, whether or not the nodes took the update.
- `gatekeeper_terms`: rent, buy, underpay and renew by one subscriber; the clock
  can pass the first deadline before any later payment is read. Only one of the
  two titles has a content key, so that `subscriber_bundle` leaves one out.
- `gatekeeper_live`: two purchases of one subscriber, so that the second can be
  delivered under a seq the first was pushed with; then a payment for a key to
  which nothing can be sealed; one pass cut short. The clock stands still.
- `wallet`: two identities, two slots, one sale and four calls, planned as a mint,
  then grants, payments and a second mint in the orders `Planned` admits, with
  one forced payment; retirements at any time. Four calls are enough for
  a retired identity's slot to be taken by another while an old call is alive.
- `wallet_forced`: three payments of one sale: the first, the forced one, and
  the one after it.
- `house`: two requests of two units each and a budget of three, two processes
  of the wallet, one death. The second request never fits if the first is
  recorded as paid. The visitor of the first may pay it as well.
- `queue`: three nodes and a cap of two with three references that can be paid,
  so that the cap is reached from different sides and passed by a union of two
  queues below it; one reference too long, one of three parts, one malformed;
  documents of up to three references in any order, the version unknown in some.
- `keyfiles`: three processes, so that two runs meet a seal; two keys, two
  passphrases, and five inodes, enough for a torn seal, a second seal and its
  rename. First runs and seals do not overlap (5.6).
- `toolkit`: two tills, of which one is told to act as a customer, one device,
  two recovery key files, one of which has its public half pasted in, for a
  recovery key or, by mistake, for the key of a new till; up to four substates
  (an account and a vault on each side) and one signature for a request.
- `finality`: a cycle of four units, up to four pairs a day, and two names for
  records, so that a third run meets a day without free names.

`CHECK_DEADLOCK FALSE` is given where the system may really stop: for the wallet
and the house, whose calls are finite in number; for `keyfiles`, where a torn
file is refused by every later run; and for `finality`, where the day ends with
its pairs. The gatekeeper is checked for deadlock, as it never may stop.

### Fairness
`FairSpec` of `Gatekeeper` is used by `gatekeeper_live` only. `WF_vars(Watch)`:
`serve` is an endless loop around `watch`, so a process that has ended is started
again and one that runs goes on. `SF` on the answers of others: an indexer that
is asked again and again replays the whole stream at some time and names each
outcome at some time, and each node takes an update at some time. These are
assumptions on services outside the repository; without them nobody could
promise delivery. Nothing is assumed of payments or of the clock; how
often a pass is cut short is bounded (`MaxLost`).

## 4. The proofs

`tlapm` checks all of the following without a gap, for every value of the
constants that meets the named assumptions.

**Replicas.** The inductive invariant is `TypeOK /\ HoldsTheBest`: a register is
the best, in the order `Keeps`, of the genuine envelopes its node was given.
Convergence by itself is not inductive: two nodes that agree say nothing about
what the next document will do to them; being best does, because the best of a
set is unique (`BestIsUnique`), which rests on `Keeps` being a total order
(`KeepsIsTotalOrder`), which rests on a signature committing to all other fields.
`JoinOfBests` says that the merge of the bests of two sets is the best of their
union; `ParsedIsBest` and `DeltaIsBest` that a document and a delta are the
bests of what they carry. From these: `TypeCorrect`, `BestIsHeld`, `Converges`,
`NoDowngrade` and `SummaryLosesOnlyTies`; and `StatesDoValidate`, since a register
is written as the ascending listing of its subscribers.
Assumed: `SubsAreOrdered`, `SigsAreOrdered`, `EnvelopesAreTyped`,
`BatchesAreTyped`, `SignaturesCommit`.

**Gatekeeper.** Six layers, each on top of those it needs.
`JudgeInv` is about verdicts: neither ledger credits what does not deserve it, nor
settles otherwise what does; what has not been looked at is ahead of the cursor,
or in the list being worked through; the committed ledger owes nobody.
`GrantInv` is about terms: every deadline granted, in a ledger or an envelope,
has the payments behind it (`Backed`), `work` never grants less than `ledger`
(`NoWorse`), and whoever is owed an envelope is owed a good one (`Timely`).
`BooksInv` is about the books of both ledgers: what is recorded as paid for a
subscriber is the sum over the payments credited to them (`PaidUp`), a shelf
holds exactly what their credited payments contained (`Stocked`), and `work`
has settled whatever `ledger` has, the same way (`Remembers`), so that a pass
that dies and is repeated counts nothing twice.
`TermsInv` is about how far rentals run: no title outlasts its holder's
`expires_at`, and that of a subscriber who holds nothing outright is at most the
days they paid for, counted from today (`Dated`). So, if those days end before
PERPETUAL (`TimeSoldIsShort`), the horizon of a renter is never taken for that of
a kept title, a renewal runs from it, and `RenewingKeepsTime`: the promise
`RentersKeepTimeBought`. The condition is needed: two rentals that reach a
PERPETUAL of four days break the promise in TLC. In the code PERPETUAL is the year 2100,
and only an amount that pays for decades reaches it.
`NetInv` is about the nodes: what is being pushed is the next envelope of whoever
is owed one (`DeltaIsOwed`), a node that took it holds it or a later one
(`Took`, `Holds`), and a committed seq is on some node. `Orderly` adds that
what a node holds is older than the last envelope committed, or as good; or it
is the next, left by a pass that was rolled back; or it is being pushed
(`Settled`). When the next seq is committed, what such a pass left has become a
tie (`Tied`), unless the node holds the new envelope. A call of `fdev` that
failed does not disturb this, whether or not the node joined the envelope.
From these: `TypeCorrect`, `VerdictsAreFair`, `CursorPassesNothing`,
`CommittedLedgersOweNobody`, `GrantsAreBacked`, `GivesNothingAway`,
`IssuesWhileGood`, `OnlyEverExtends`, `BooksAreInOrder`, `EachCountsOnce`,
`RentersRunOut`, `RenewingKeepsTime`, `NodesKeepUp`, `PaidCanBeRead`.
The refinement `ImplementsTheShop` rests on the books. The committed ledger is
the shop: a payment on the chain is a placed order, and one is served when it is
credited and issued, which by `CommittedLedgersOweNobody` is as soon as it is
credited in a committed ledger. `Pay` is `Place`; a commit is one `Settle` of all
that the pass judged, whose goods are what `Stocked` says of the two ledgers
(`SettlesOrders`); a credit in `work`, a push, a death and everything else is a
stutter (`ShopStep`). Assumed:
those of `Entitlements`; `TitlesAreNamed`, `TitlesAreFinite`,
`PricesArePositive`; `PerpetualIsFar` (the clock does not reach the year 2100);
`BoundsAreNumbers` (at least one node: the code defaults to port 7509);
`BundlesAreBounded`; `SignaturesSuffice` (sealing is randomised, so there is
always a signature that was not used); `PaymentsAreTyped`.

**Collections.** What several of the proofs need of finite sets. A finite set of
subsets has a smallest one (`SmallestExists`, because the strict subsets of a
finite set are well founded), and that replaces induction: a claim about finite
sets is refuted by the smallest set it fails for. So `Max` and `Min` return what
they should (`MaxFacts`, `MinFacts`, `LeastFacts`); every set has a listing in
the order of a key (`ListingExists`), and only one sequence of keys ascends
(`OneAscendingOrder`, `SortedKeysAreOne`); a sum takes each element once
(`TotalTakes`, `TotalOfOneMore`), and more elements add up to no less
(`TotalGrows`). The prover does not see into `SortSeq` and
`SelectSeq`, so the modules describe a sorted sequence as the listing of a set
that ascends.

**AgentWallet** (in `WalletProofs`). `PaidOncePerDecision` is not inductive: a payment that is still
to be launched, or one about to take its record back, does not show in it. The
invariant counts those too (`Counted`): for every sale, the counted calls are at
most the forced ones and one more if there is a record (`InvCount`). A payment
that begins adds a call and either a force or the record that was missing
(`PayCounts`); a result that removes a record removes its call
(`FinishPayCounts`); nothing else adds a call or touches a record
(`OthersCount`). It needs `InStep`, which relates a call's process, its child and
its transaction. `InvCommitted` adds that a record says committed only of a
payment that landed, and landed stays landed (`LandedStays`). `InvFaucet` equates
the counter with the number of grants ever begun. From these: `TypeCorrect` (with:
no two identities ever claim one slot), `PaidOnce`, `TrueRecords`,
`FaucetBudget`. They hold without the constraint `Orderly`. Assumed:
`SlotsAreNumbered`, `BoundsAreNumbers`, `NamesAreNames`.

**The wallet's keys** (in `WalletProofs`). The two properties about keys, which are conditional on
`orderly`. They are about calls, but the toolkit works with slots: it opens
whatever key is in the slot, and makes one where there is none. So the invariant
says, of every call that is busy, that its identity is there and has kept its
slot (`Sheltered`), because a lease spares it from `retire`, or, for a mint,
because nothing overlaps it; that a child makes a key only for a mint that found
the slot empty (`Works`); that a mint is alone with its identity (`MintsAlone`);
and that therefore one key is in the slot until it is retired (`Doors`, `Owns`).
From it: `KeysStay` and `OneKeyEach`.

**House** (in `WalletProofs`). Each of its steps is a step of the wallet or leaves the wallet alone,
so the wallet's invariant holds here too. The house never forces, which makes
"once per decision" once. What it adds: a row is written from the exit of a
process, and that process is the one that was started for the row's reference.
A sweep reads what was spent from the table once and counts on by itself; for
the budget, `Budgeted` says that the two agree as long as the sweep lives, and
that the payment it waits for still fits. From these:
`NeverPaidTwice`, `RowsAreTrue`, `BudgetIsKept`. Assumed besides:
`RefsAreSorted`, `PricesAreTyped`, `BudgetIsNatural`.

**RequestQueue.** `TypeOK` is inductive because every reference that enters has
been parsed and the cap is enforced on the union; `KeepsAllThatFits` is on top
of it, since a union within the cap has only unions within the cap before it
(`SubsetsFit`). From these: `TypeCorrect`, `NothingThatFitsIsLost`,
`RoundsDoCatchUp`. `QueuesDoValidate` follows from `TypeOK`: what is written is
the listing of a set of well-formed references, in their order. Assumed:
`ReferencesAreTyped`, `IdsAreStrings`,
`BatchesAreTyped`, `CapIsNatural`.

**Toolkit.** The invariant says of each transaction a till holds which verb drew
it up with which keys (`DrawnUp`) and, while no other has landed since, that it
declares what the ledger holds of all it wants (`Declares`). `PreparedWouldLand`
compares that, verb by verb, with what the ledger touches. `WhoIsSaidToSignSigned`
is inductive by itself: only `SubmitRequest` says anything, after all four tests.
`NoKeyIsMintedForAHandoff` goes over every verb that loads a bench key. Those of
customers' devices and of the dev bench are no till's, or a dev bench's; the rest is
`OnlyBenchesLoad`: a run of `enrol` or `redeem` that `take_flag` lets through
without a file to write was typed without the flag. With the first draft of
`take_flag` that lemma is false. `TypeCorrect` is what the others use; any key,
not only a till's, may come to operate the component.
Assumed: `MachinesAreApart`, `BenchesAreTills`, `BoundsAreNumbers`,
`PastedAreKeys`.

**KeyFiles.** The invariant says what each run may count on of the two files at
its step (`CountsOn`), what the files keep for those who rely on them
(`FilesKeep`), and that one run at a time creates and one seals (`OneAtATime`).
From it, under `~FirstRunsOverlap` and `~SealsOverlap`: `NoReliedKeyIsLost`,
`RunsAgreeOnTheAccount`, `SealedForGood`.

**Finality.** The first invariant says that a locked sample that committed was
sent right after a commit (`LockedIsACycle`), how many samples a run has when
none failed (`Tally`), and that the name a run will write to is one nothing was
written to, if there is any (`NameIsFree`). A median is of a set of samples; that
of times which are all the same is that time (`MedianFacts`). From these:
`VerdictsAreEarned`, `CycleIsMeasured`, `NoRecordIsWrittenOver`. The second
(`SweepIsRun`) says what the samples are while all committed: an issue and a
redeem in turn, the issues after the first at the midpoints of the parts of the
cycle. Midpoints ascend and mirror each other about the half cycle to a unit
(`MidpointFacts`), so the one ascending order of the times (`SweepInOrder`) has
the half cycle in its middle (`MedianOfSweep`). From it: `TheSweepIsUnbiased`.
Assumed: `CycleIsPositive`, `BoundsAreNumbers`.

**Checked by TLC only.** Liveness under fairness (`EveryPaymentIsServed`) is
beyond the prover.

## 5. Where code and documentation differ

Two are shown by runs that TLC finds violated; `PROJECT.json` quotes the lines.

1. *A seq is minted twice* (`gatekeeper_killed`). The push precedes the commit.
   A death in between, or `fdev` failing on every port after a node has joined the
   update, forgets the seq, and a later pass signs another envelope
   with it, which ties and may lose on every node although it has more grants
   and is marked issued. Nothing pushes it again until the subscriber pays
   again. For everybody whose last seq is not one a rolled-back pass has left on
   a node (`Tied`), all is readable (`PaidIsReadableUnlessTied`).
2. *A forced attempt that was not launched* (`wallet_forced`) removes the record
   of the attempt before it, whoever made it, and a third call pays again
   without force. The count still holds (`PaidOncePerDecision`): the payment
   that was forced and not made is made by the call after it.

The others are stated in the modules as properties that no run lists. Put one
into the `.cfg` named here, and TLC finds it violated.

3. *Ties* (`SummariesSuffice`, `MCReplicas.cfg`). A delta is filtered by seq
   alone, but the merge breaks ties of seq by signature. A node with the losing
   envelope of a tie is told that it misses nothing. `SummariesCatchUp` is what
   does hold.
4. *One node of several* (`IssuedMeansEveryNode`, `MCGatekeeper.cfg`). The
   comment expects nodes that refused to be retried; `issued` is set as soon as
   one node accepts.
5. *Renewing with a portrait* (`RenewalsKeepTimeBought`,
   `MCGatekeeperTerms.cfg`). A subscriber who holds a title outright has the
   horizon PERPETUAL, and a renewal then runs from now: the days left are lost.
   For others the promise holds (`RentersKeepTimeBought`).
6. *Two first runs, or two seals, at once* (`KeyFiles.cfg` with
   `FirstRunsOverlap`, or `SealsOverlap`, set to TRUE). With the first,
   `OneAccount` and `ReliedKeysOpen` fail: the file keeps the key of the run
   that wrote last, and the other has shown its address. With the second,
   `ReliedKeysOpen` fails: one seal renames the other's file into place.
7. *The house's budget* (`HouseSpendsWithinBudget`, `MCHouse.cfg`) counts what
   the wallet confirmed. A payment it could not confirm is recorded as refused
   for zero and may land.
8. *The cap of the queue* (`OrderIrrelevant`, `MCRequestQueue.cfg`). Union makes
   arrival order irrelevant only below the cap: nodes that meet it from different
   sides keep different queues.
9. *One payment that ends every pass* (`EveryPaymentIsServed` without
   `Jammed`, `MCGatekeeperLive.cfg`). The code promises that everything
   credited and not yet delivered is issued. `issue` raises for a key nothing can
   be sealed to (envelope.py:136) and for a bundle above 8 KiB (envelope.py:109);
   such a payment is credited like any other, `watch` does not catch what it
   raises, and since nothing was committed the next pass meets it again. From
   then on nobody is served. `EveryPaymentIsServed` is what does hold.
10. *An award that is not alone* (`AwardsFindTheirVault`, `MCToolkit.cfg`). An
   optional want covers a vault that is there at prepare; one that another till's
   award creates before the send is touched and not declared. The engine refuses
   the transaction for a fee, and the next award lands.
11. *A free phase after a failure* (`FreePhaseIsKnown`, `Finality.cfg`). The
    stagger counts from the last commit; after a call that was refused or timed out
    nobody knows where in the cycle it started, yet the sample is labelled free.
    `SweepIsUnbiased` is what does hold: when every sample committed, and to the
    rounding of whole numbers.

Read on the way, and not about concurrent or persistent state: with all 99 names
of a day taken `finality_out_path` returns one that exists (`RecordsStay` is
stated for days with names left); `open-account`'s message divides the daily
allowance out as zero; `devbench ... --compose` panics; `payments pay` and
`submit-request` do not read the deadline the dev bench's payments do; without
`--compose`, `--member` and `--account` name a customer for whom this machine's
bench key signs; one of the two without the other is refused only after that key
was loaded or made; a transaction's id is printed only after its outcome, so a
killed run leaves none.

## 6. What is not modelled, and what could follow

- *The page, `ui/app.js` and `ui/pricing.js`:* its state is in one browser and
  nobody else reads it. What it writes and reads on the nodes is in `Replicas`
  and `RequestQueue`; a price it computes wrongly is an amount that `Gatekeeper`
  judges. A module `Page` about adoption across awaits (app.js:200-225) and the
  queue of node calls (app.js:488-554) is the first that could follow.
- *The event stream's framing* (`read_events`): `Gatekeeper` has what a page may
  return, any prefix or an error; the parser keeps nothing between calls. Event
  bodies are well formed, and the catalogue does not change between passes
  (gatekeeper.py:531).
- *A second seller:* `serve` takes a lock, `watch` alone does not.
- *`init` and `status`, the front door, the catalogue builder, the scripts:*
  one-shot or read-only.
- *The Ootle SDK:* building, encoding and executing a transaction. `Toolkit`'s
  ledger is what the toolkit's comments say of it. The constructors of payments,
  gift cards, warranties and memberships, `publish` and `call` are the action
  `Other`: each is one transaction, and no verb here reads what it writes.
- *Cryptography* is ideal: a signature verifies if and only if it was made, an
  envelope or a sealed key opens to its key only.
