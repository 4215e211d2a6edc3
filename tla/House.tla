--------------------------------- MODULE House ---------------------------------
(***************************************************************************)
(* The house pays for strangers: `cover', gatekeeper/gatekeeper.py, which  *)
(* `catflix serve' runs over and over.  A sweep reads the request queue,   *)
(* drops what is covered or credited, and pays the first few that are left *)
(* through the agents' wallet, one process of module AgentWallet each.     *)
(*                                                                         *)
(* The sweep waits for that process and then writes the row in `covered',  *)
(* committed per payment.  Whoever stops the sweep in between leaves the   *)
(* wallet's process running, or kills it too; subprocess.run's 600 seconds *)
(* end both.                                                               *)
(***************************************************************************)
EXTENDS AgentWallet

CONSTANTS
    Price,               \* price_of each reference; Refs are in sorted order
    HOUSE_BUDGET,        \* --budget
    MaxPerSweep,         \* --max
    SelfPaid,            \* bound: references their visitors may pay themselves
    MaxDeaths            \* bound: times a sweep is stopped half way

ASSUME RefsAreSorted == Refs \subseteq Nat
ASSUME BudgetIsNatural == HOUSE_BUDGET \in Nat
ASSUME PricesAreTyped == Price \in [Refs -> Nat \ {0}]

VARIABLES
    queue,               \* references visitors have asked for
    credited,            \* references whose payment the ledger has credited
    covered,             \* the table: outcome by reference, "none" being no row
    wanted,              \* the references this sweep still has to look at
    spent,               \* what the sweep counts as spent
    paying,              \* the call of the wallet the sweep waits for, or 0
    pc,                  \* "stopped", "sweeping" or "paying"
    deaths

houseVars == <<queue, credited, covered, wanted, spent, paying, pc, deaths>>
allVars == <<vars, queue, credited, covered, wanted, spent, paying, pc, deaths>>

HouseInit ==
    /\ Init
    /\ queue = {} /\ credited = {}
    /\ covered = [r \in Refs |-> "none"]
    /\ wanted = {} /\ spent = 0 /\ paying = 0
    /\ pc = "stopped" /\ deaths = 0

\* What a sweep knows of the outside it reads as it begins.  What happens there
\* during a sweep is what happens after it.

\* A visitor writes a reference into the queue contract.
Request(r) ==
    /\ pc = "stopped" /\ r \notin queue
    /\ queue' = queue \cup {r}
    /\ UNCHANGED <<vars, credited, covered, wanted, spent, paying, pc, deaths>>

\* watch, in its own process, credits a payment for r that is on the chain: the
\* house's, or the visitor's own, of which the house knows nothing.
CreditOf(r) ==
    /\ pc = "stopped" /\ r \notin credited
    /\ r \in SelfPaid \/ \E c \in PaymentsFor(r) : tx[c] = "committed"
    /\ credited' = credited \cup {r}
    /\ UNCHANGED <<vars, queue, covered, wanted, spent, paying, pc, deaths>>

-------------------------------------------------------------------------------

CoveredFor(outcome) == {r \in Refs : covered[r] = outcome}

TotalOf(refs) == MapThenSumSet(LAMBDA r : Price[r], refs)

\* Mutant: the sweep counts from nothing.
SpentThisSweep == 0

\* SELECT SUM(amount) FROM covered WHERE outcome = 'paid'
SpentSoFar == TotalOf(CoveredFor("paid"))

Unpaid == {r \in queue : covered[r] = "none" /\ r \notin credited}

\* wanted[: args.max]
FirstOf(refs) ==
    {r \in refs : Cardinality({q \in refs : q < r}) < MaxPerSweep}

Sweep ==
    /\ pc = "stopped" /\ Unpaid # {}
    /\ SpentSoFar < HOUSE_BUDGET
    /\ wanted' = FirstOf(Unpaid)
    /\ spent' = SpentSoFar
    /\ pc' = "sweeping"
    /\ UNCHANGED <<vars, queue, credited, covered, paying, deaths>>

Skip ==
    /\ pc = "sweeping" /\ wanted # {}
    /\ spent + Price[Min(wanted)] > HOUSE_BUDGET
    /\ wanted' = wanted \ {Min(wanted)}
    /\ UNCHANGED <<vars, queue, credited, covered, spent, paying, pc, deaths>>

Affordable == pc = "sweeping" /\ wanted # {} /\ spent + Price[Min(wanted)] <= HOUSE_BUDGET

\* The wallet's process begins, and its first transaction is saved.
PayForStranger(c, a) ==
    /\ Affordable
    /\ Pay(c, a, Min(wanted), FALSE)
    /\ paying' = c /\ pc' = "paying"
    /\ UNCHANGED <<queue, credited, covered, wanted, spent, deaths>>

\* The row, and the next reference.
Covered(outcome) ==
    LET r == Min(wanted)
    IN  /\ covered' = [covered EXCEPT ![r] = outcome]
        /\ spent' = IF outcome = "paid" THEN spent + Price[r] ELSE spent
        /\ wanted' = wanted \ {r}
        /\ paying' = 0 /\ pc' = "sweeping"
        /\ UNCHANGED <<vars, queue, credited, deaths>>

\* The wallet refuses, having this sale on record or no such identity; it may
\* also die before its first transaction.
WalletRefuses ==
    /\ Affordable
    /\ Covered("refused")

\* Mutant: any exit of the wallet is a payment.
PaidHoweverItEnded ==
    /\ pc = "paying" /\ step[paying] = "ended"
    /\ Covered("paid")

\* The return code says paid; anything else is refused, and counts nothing.
WalletReturns ==
    /\ pc = "paying" /\ step[paying] = "ended"
    /\ Covered(IF answer[paying] = "success" THEN "paid" ELSE "refused")

SweepEnds ==
    /\ pc = "sweeping" /\ wanted = {}
    /\ pc' = "stopped" /\ spent' = 0
    /\ UNCHANGED <<vars, queue, credited, covered, wanted, paying, deaths>>

\* What was committed stays; the wallet's process goes on by itself, or is
\* killed as well.
SweepDies ==
    /\ pc # "stopped" /\ deaths < MaxDeaths
    /\ deaths' = deaths + 1
    /\ pc' = "stopped" /\ wanted' = {} /\ spent' = 0 /\ paying' = 0
    /\ UNCHANGED <<vars, queue, credited, covered>>

-------------------------------------------------------------------------------

\* What the operator does: the house's identity, and no more.
Operator == \E c \in Calls, a \in Agents : MintNew(c, a)

House ==
    \/ Sweep \/ Skip \/ WalletRefuses \/ WalletReturns \/ SweepEnds
    \/ \E c \in Calls, a \in Agents : PayForStranger(c, a)

HouseNext ==
    \/ \E r \in Refs : Request(r) \/ CreditOf(r)
    \/ House \/ SweepDies
    \/ (Operator \/ Work) /\ UNCHANGED houseVars

HouseSpec == HouseInit /\ [][HouseNext]_allVars

-------------------------------------------------------------------------------
\* Properties

\* Every variable has its type, and a sweep that waits for the wallet waits
\* for the call it made for the first reference it wants.
HouseTypeOK ==
    /\ queue \subseteq Refs /\ credited \subseteq Refs
    /\ covered \in [Refs -> {"none", "paid", "refused"}]
    /\ wanted \subseteq queue /\ spent \in 0..HOUSE_BUDGET
    /\ pc \in {"stopped", "sweeping", "paying"}
    /\ pc = "paying" => /\ paying \in Calls /\ wanted # {}
                        /\ call[paying].ref = Min(wanted)
    /\ deaths \in 0..MaxDeaths

\* The ceiling "must not be crossed by the last order in a sweep that started
\* under it", and "restarting the seller does not reset it"
\* (gatekeeper.py:914-915, 931-932): what the table says was paid is within
\* the budget, over all sweeps.
RecordedWithinBudget == TotalOf(CoveredFor("paid")) <= HOUSE_BUDGET

\* "Never the same one twice" (gatekeeper.py:880): the house starts at most
\* one payment for a reference, in whatever sweep and however it died.
NeverTheSameTwice == \A r \in Refs : Cardinality(PaymentsFor(r)) <= 1

\* A row says paid only of a reference whose payment is on the chain.
PaidMeansLanded ==
    \A r \in CoveredFor("paid") : \E c \in PaymentsFor(r) : tx[c] = "committed"

\* "The most the house will EVER spend covering strangers"
\* (gatekeeper.py:132): what its payments moved on the chain is within the
\* budget.
HouseSpendsWithinBudget ==
    MapThenSumSet(LAMBDA c : Price[call[c].ref],
                  {c \in Calls : call[c].verb = "pay-sale" /\ tx[c] = "committed"})
        <= HOUSE_BUDGET
===============================================================================
