------------------------------ MODULE AgentWallet ------------------------------
(***************************************************************************)
(* The agents' wallet, payer/agent_wallet.py: identities of their own, each *)
(* with a key in a slot, for callers that must pay a sale without holding   *)
(* anybody's passphrase.                                                    *)
(*                                                                         *)
(* Every call of mint, fund and pay_sale is three steps with the registry  *)
(* lock released in between: a transaction that decides, a run of the      *)
(* toolkit in a child process, a transaction that records the result.  The *)
(* registry is replaced atomically, so a call that is killed leaves one of *)
(* the registries it wrote; its child goes on without it.  The child works *)
(* on the key directory without any lock: it opens the key of its slot, or *)
(* creates one when it sees none (load_or_create_key_at), and submits a    *)
(* transaction whose outcome may come when nobody is left to hear it.      *)
(*                                                                         *)
(* Time enters in one place: TIMEOUT_S ends a child before LEASE_SECONDS   *)
(* end its lease, unless its parent is gone.  The faucet's cooldown only   *)
(* refuses more, and a refused call changes nothing; neither does one that *)
(* finds the registry unreadable, or an argument invalid.                  *)
(***************************************************************************)
EXTENDS Integers, FiniteSets, Sequences, FiniteSetsExt

CONSTANTS
    Agents,               \* identity names
    Refs,                 \* sale references (numbers where their order matters)
    Slots,                \* AGENT_SLOT_BASE..MAX_AGENT_SLOT
    Planned,              \* bound: what each call may be for, as they begin
    MaxForced,            \* bound: of those, payments with force=True
    FAUCET_LIFETIME_MAX, GLOBAL_FAUCET_MAX

ASSUME SlotsAreNumbered == Slots \subseteq Nat
ASSUME BoundsAreNumbers ==
    /\ Planned \in Seq(SUBSET {"account", "faucet", "pay-sale"}) /\ MaxForced \in Nat
    /\ FAUCET_LIFETIME_MAX \in Nat /\ GLOBAL_FAUCET_MAX \in Nat

\* A call is its token in `in_flight', and the key its child creates.
Calls == 1..Len(Planned)

NoKey == 0
NoAnswer == "none"
Nobody == "nobody"
NoRef == 0

ASSUME NamesAreNames == Nobody \notin Agents /\ NoRef \notin Refs

-------------------------------------------------------------------------------
\* The registry, the key directory, the processes

Unminted == [slot |-> "none"]

\* in_flight keeps the live tokens: one whose lease ran out is as good as gone.
Identity == [slot : Slots, account : Calls \cup {NoKey},
             in_flight : SUBSET Calls, faucet_calls : Nat]

\* The entry _slot makes.
NewIdentity(slot) ==
    [slot |-> slot, account |-> NoKey, in_flight |-> {}, faucet_calls |-> 0]

AttemptStates == {"none", "submitted-unknown", "committed"}

Verbs == {"account", "faucet", "pay-sale"}

\* The arguments of a call, and what its first transaction read: the slot,
\* and the account the entry named before (`named').
Arguments ==
    [verb : Verbs, agent : Agents, ref : Refs \cup {NoRef}, force : BOOLEAN,
     slot : Slots, named : Calls \cup {NoKey}]

NoCall == [verb |-> "none", agent |-> Nobody, ref |-> NoRef, force |-> FALSE]

Alive == {"started", "creating", "holding", "submitted"}

VARIABLES
    identities,           \* registry["identities"], by name
    payments,             \* registry["payments"], the state by sale reference
    faucet_grants_total,  \* registry["faucet_grants_total"]
    keys,                 \* the key file of each slot, or NoKey
    call,                 \* the calls, NoCall before they begin
    step,                 \* where the process of each call is
    answer,               \* what its run of the toolkit came to
    child,                \* where that run of the toolkit is
    held,                 \* the key it works with, or NoKey
    tx,                   \* the transaction the child submitted
    orderly               \* history: the wrapper was used as its header asks

registry == <<identities, payments, faucet_grants_total>>
process == <<call, step, answer>>
vars == <<identities, payments, faucet_grants_total, keys, call, step, answer, child, held,
          tx, orderly>>

Init ==
    /\ identities = [a \in Agents |-> Unminted]
    /\ payments = [r \in Refs |-> "none"]
    /\ faucet_grants_total = 0
    /\ keys = [s \in Slots |-> NoKey]
    /\ call = [c \in Calls |-> NoCall]
    /\ step = [c \in Calls |-> "new"]
    /\ answer = [c \in Calls |-> NoAnswer]
    /\ child = [c \in Calls |-> "none"]
    /\ held = [c \in Calls |-> NoKey]
    /\ tx = [c \in Calls |-> "none"]
    /\ orderly = TRUE

-------------------------------------------------------------------------------

Minted(a) == identities[a] # Unminted

\* _slot: two identities that claim one slot may neither of them use it.
Usable(a) ==
    /\ Minted(a)
    /\ \A b \in Agents \ {a} : Minted(b) => identities[b].slot # identities[a].slot

\* Mutant: the key directory is not looked at.
UnclaimedSlots ==
    {s \in Slots : \A a \in Agents : Minted(a) => identities[a].slot # s}

\* A slot is free when no entry claims it and no key file is in it.
FreeSlots ==
    {s \in Slots : keys[s] = NoKey /\ \A a \in Agents : Minted(a) => identities[a].slot # s}

Running(c) == step[c] \in {"opened", "waiting", "answered"} \/ child[c] \in Alive

\* The header asks for "an intact and mutually consistent registry/key
\* directory, no concurrent lifecycle operations on the same identity": a key
\* for every identity that is used, and nothing beside the making of one.
Asked(verb, a) ==
    /\ \A c \in Calls : call[c].agent = a /\ Running(c)
                            => verb # "account" /\ call[c].verb # "account"
    /\ verb # "account" => keys[identities[a].slot] # NoKey

\* The first transaction of a call is saved; calls begin in their order.
Begin(c, verb, a, r, force, slot, named) ==
    /\ step[c] = "new" /\ \A d \in 1..(c - 1) : step[d] # "new"
    /\ verb \in Planned[c]
    /\ call' = [call EXCEPT ![c] = [verb |-> verb, agent |-> a, ref |-> r, force |-> force,
                                    slot |-> slot, named |-> named]]
    /\ step' = [step EXCEPT ![c] = "opened"]
    /\ orderly' = (orderly /\ Asked(verb, a))
    /\ UNCHANGED <<keys, answer, child, held, tx>>

MintNew(c, a) ==
    /\ ~ Minted(a)
    /\ \E slot \in FreeSlots :
        /\ \A s \in FreeSlots : slot <= s
        /\ identities' = [identities EXCEPT ![a] = NewIdentity(slot)]
        /\ Begin(c, "account", a, NoRef, FALSE, slot, NoKey)
    /\ UNCHANGED <<payments, faucet_grants_total>>

MintAgain(c, a) ==
    /\ Usable(a)
    /\ Begin(c, "account", a, NoRef, FALSE, identities[a].slot, identities[a].account)
    /\ UNCHANGED registry

Flying(a, c) == [identities[a] EXCEPT !.in_flight = @ \cup {c}]

\* Mutant: the workstation's budget is not looked at.
FundFreely(c, a) ==
    /\ Usable(a)
    /\ identities[a].faucet_calls < FAUCET_LIFETIME_MAX
    /\ identities' = [identities EXCEPT ![a] = [Flying(a, c) EXCEPT !.faucet_calls = @ + 1]]
    /\ faucet_grants_total' = faucet_grants_total + 1
    /\ Begin(c, "faucet", a, NoRef, FALSE, identities[a].slot, NoKey)
    /\ UNCHANGED payments

\* The counters move before the call: a grant that fails is spent as well.
Fund(c, a) ==
    /\ Usable(a)
    /\ faucet_grants_total < GLOBAL_FAUCET_MAX
    /\ identities[a].faucet_calls < FAUCET_LIFETIME_MAX
    /\ identities' = [identities EXCEPT ![a] = [Flying(a, c) EXCEPT !.faucet_calls = @ + 1]]
    /\ faucet_grants_total' = faucet_grants_total + 1
    /\ Begin(c, "faucet", a, NoRef, FALSE, identities[a].slot, NoKey)
    /\ UNCHANGED payments

\* Payments an operator forced on a reference.
Forced(r) == {c \in Calls : call[c].ref = r /\ call[c].force}

\* The attempt is on disk before the child starts, and refuses every later
\* one that is not forced.
Pay(c, a, r, force) ==
    /\ Usable(a)
    /\ payments[r] = "none" \/ force
    /\ force => Cardinality(UNION {Forced(q) : q \in Refs}) < MaxForced
    /\ payments' = [payments EXCEPT ![r] = "submitted-unknown"]
    /\ identities' = [identities EXCEPT ![a] = Flying(a, c)]
    /\ Begin(c, "pay-sale", a, r, force, identities[a].slot, NoKey)
    /\ UNCHANGED faucet_grants_total

\* Mutant: operations in flight are not looked at.
RetireBusy(a) ==
    /\ Usable(a)
    /\ identities' = [identities EXCEPT ![a] = Unminted]
    /\ keys' \in {keys, [keys EXCEPT ![identities[a].slot] = NoKey]}
    /\ orderly' = (orderly /\ \A c \in Calls : call[c].agent = a /\ Running(c)
                                                  => call[c].verb # "account")
    /\ UNCHANGED <<payments, faucet_grants_total, process, child, held, tx>>

\* One transaction, lock held: refused while a lease is live; the entry is
\* dropped, then the key deleted, unless that fails or the call is killed.
Retire(a) ==
    /\ Usable(a)
    /\ identities[a].in_flight = {}
    /\ identities' = [identities EXCEPT ![a] = Unminted]
    /\ keys' \in {keys, [keys EXCEPT ![identities[a].slot] = NoKey]}
    /\ orderly' = (orderly /\ \A c \in Calls : call[c].agent = a /\ Running(c)
                                                  => call[c].verb # "account")
    /\ UNCHANGED <<payments, faucet_grants_total, process, child, held, tx>>

-------------------------------------------------------------------------------
\* _run, and the toolkit

Launch(c) ==
    /\ step[c] = "opened"
    /\ step' = [step EXCEPT ![c] = "waiting"]
    /\ child' = [child EXCEPT ![c] = "started"]
    /\ UNCHANGED <<registry, keys, call, answer, held, tx, orderly>>

\* Code 2: no toolkit, or it cannot be executed.
LaunchFails(c) ==
    /\ step[c] = "opened"
    /\ step' = [step EXCEPT ![c] = "answered"]
    /\ answer' = [answer EXCEPT ![c] = "unlaunched"]
    /\ UNCHANGED <<registry, keys, call, child, held, tx, orderly>>

\* path.exists(): the key is read, or about to be created.
ChildOpens(c) ==
    /\ child[c] = "started"
    /\ held' = [held EXCEPT ![c] = keys[call[c].slot]]
    /\ child' = [child EXCEPT ![c] = IF held'[c] = NoKey THEN "creating" ELSE "holding"]
    /\ UNCHANGED <<registry, keys, process, tx, orderly>>

\* fs::write overwrites what another child wrote in the meantime.
ChildCreates(c) ==
    /\ child[c] = "creating"
    /\ keys' = [keys EXCEPT ![call[c].slot] = c]
    /\ held' = [held EXCEPT ![c] = c]
    /\ child' = [child EXCEPT ![c] = "holding"]
    /\ UNCHANGED <<registry, process, tx, orderly>>

ChildSubmits(c) ==
    /\ child[c] = "holding" /\ call[c].verb # "account"
    /\ child' = [child EXCEPT ![c] = "submitted"]
    /\ tx' = [tx EXCEPT ![c] = "submitted"]
    /\ UNCHANGED <<registry, keys, process, held, orderly>>

\* The network decides a transaction, whether or not anybody still waits; one
\* it rejects leaves nothing.
Decided(c, outcome) ==
    /\ tx[c] = "submitted"
    /\ tx' = [tx EXCEPT ![c] = outcome]
    /\ UNCHANGED <<registry, keys, process, child, held, orderly>>

\* The child is gone, and its parent has heard, if there still is one.
Answered(c, said) ==
    /\ child' = [child EXCEPT ![c] = "gone"]
    /\ \/ step[c] = "waiting" /\ step' = [step EXCEPT ![c] = "answered"]
                              /\ answer' = [answer EXCEPT ![c] = said]
       \/ step[c] # "waiting" /\ UNCHANGED <<step, answer>>
    /\ UNCHANGED <<registry, keys, call, tx, orderly>>

\* `devbench account' prints an address and the account of its key.
AccountShown(c) ==
    /\ child[c] = "holding" /\ call[c].verb = "account"
    /\ Answered(c, "success")
    /\ UNCHANGED held

CommitShown(c) ==
    /\ child[c] = "submitted" /\ tx[c] = "committed"
    /\ Answered(c, "success")
    /\ held' = [held EXCEPT ![c] = NoKey]

\* An error at any point, a watch that ran out, another outcome than Commit,
\* or TIMEOUT_S and the kill that follows it.
ChildFails(c) ==
    /\ child[c] \in Alive
    /\ Answered(c, "unknown")
    /\ held' = [held EXCEPT ![c] = NoKey]

-------------------------------------------------------------------------------
\* The last transaction

\* Mutant: an entry that is gone is made again.
LandingAnyway(a, c) ==
    [identities EXCEPT ![a] = IF Minted(a) THEN [@ EXCEPT !.in_flight = @ \ {c}]
                                           ELSE NewIdentity(call[c].slot)]

Landing(a, c) ==
    IF Minted(a) THEN [identities EXCEPT ![a].in_flight = @ \ {c}] ELSE identities

\* An identity that already named an account is not pointed at another.
FinishMint(c) ==
    LET a == call[c].agent
        account == held[c]
    IN  /\ step[c] = "answered" /\ call[c].verb = "account"
        /\ step' = [step EXCEPT ![c] = "ended"]
        /\ identities' =
             IF /\ answer[c] = "success" /\ Minted(a)
                /\ call[c].named \in {NoKey, account}
             THEN [identities EXCEPT ![a].account = account] ELSE identities
        /\ UNCHANGED <<payments, faucet_grants_total, keys, call, answer, child, held, tx,
                       orderly>>

FinishFund(c) ==
    /\ step[c] = "answered" /\ call[c].verb = "faucet"
    /\ step' = [step EXCEPT ![c] = "ended"]
    /\ identities' = Landing(call[c].agent, c)
    /\ UNCHANGED <<payments, faucet_grants_total, keys, call, answer, child, held, tx, orderly>>

\* Mutants: the record is dropped whenever the payment did not succeed; it is
\* closed as soon as the child has answered at all.
ForgottenUnlessPaid(state, said) ==
    IF said # "success" THEN "none" ELSE "committed"

ClosedByAnyAnswer(state, said) ==
    IF said = "unlaunched" \/ state = "none" THEN "none" ELSE "committed"

\* An attempt that never started is forgotten; any other result goes into the
\* record that is there.
Recorded(state, said) ==
    IF said = "unlaunched" \/ state = "none" THEN "none"
    ELSE IF said = "success" THEN "committed" ELSE "submitted-unknown"

FinishPay(c) ==
    /\ step[c] = "answered" /\ call[c].verb = "pay-sale"
    /\ step' = [step EXCEPT ![c] = "ended"]
    /\ payments' = [payments EXCEPT ![call[c].ref] = Recorded(@, answer[c])]
    /\ identities' = Landing(call[c].agent, c)
    /\ UNCHANGED <<faucet_grants_total, keys, call, answer, child, held, tx, orderly>>

-------------------------------------------------------------------------------
\* What else happens

\* The caller's process dies, or the last transaction cannot be saved.
Killed(c) ==
    /\ step[c] \in {"opened", "waiting", "answered"}
    /\ step' = [step EXCEPT ![c] = "ended"]
    /\ answer' = [answer EXCEPT ![c] = NoAnswer]
    /\ UNCHANGED <<registry, keys, call, child, held, tx, orderly>>

\* LEASE_SECONDS are over.  A call that waits has ended its child before that;
\* one that is slow to launch it, or was killed, has not.
LeaseLapses(c) ==
    LET a == call[c].agent
    IN  /\ step[c] \in {"opened", "answered", "ended"}
        /\ Minted(a) /\ c \in identities[a].in_flight
        /\ identities' = Landing(a, c)
        /\ orderly' = (orderly /\ step[c] # "opened" /\ child[c] \notin Alive)
        /\ UNCHANGED <<payments, faucet_grants_total, keys, process, child, held, tx>>

Caller ==
    \/ \E c \in Calls, a \in Agents : MintNew(c, a) \/ MintAgain(c, a) \/ Fund(c, a)
    \/ \E c \in Calls, a \in Agents, r \in Refs, force \in BOOLEAN : Pay(c, a, r, force)
    \/ \E a \in Agents : Retire(a)

Work ==
    \E c \in Calls :
        \/ Launch(c) \/ LaunchFails(c)
        \/ ChildOpens(c) \/ ChildCreates(c) \/ ChildSubmits(c)
        \/ Decided(c, "committed") \/ Decided(c, "none")
        \/ AccountShown(c) \/ CommitShown(c) \/ ChildFails(c)
        \/ FinishMint(c) \/ FinishFund(c) \/ FinishPay(c)
        \/ Killed(c) \/ LeaseLapses(c)

Next == Caller \/ Work

Spec == Init /\ [][Next]_vars

-------------------------------------------------------------------------------
\* Properties

Launched(c) == child[c] # "none"

PaymentsFor(r) == {c \in Calls : call[c].ref = r /\ Launched(c)}

\* Every variable has its type, and no two identities have one slot.
TypeOK ==
    /\ identities \in [Agents -> Identity \cup {Unminted}]
    /\ \A a \in Agents : Minted(a) => Usable(a)
    /\ payments \in [Refs -> AttemptStates]
    /\ faucet_grants_total \in Nat
    /\ keys \in [Slots -> Calls \cup {NoKey}]
    /\ call \in [Calls -> Arguments \cup {NoCall}]
    /\ step \in [Calls -> {"new", "opened", "waiting", "answered", "ended"}]
    /\ answer \in [Calls -> {NoAnswer, "unlaunched", "success", "unknown"}]
    /\ child \in [Calls -> Alive \cup {"none", "gone"}]
    /\ held \in [Calls -> Calls \cup {NoKey}]
    /\ tx \in [Calls -> {"none", "submitted", "committed"}]
    /\ orderly \in BOOLEAN

\* "Refusing to pay it twice" (agent_wallet.py:905), whatever dies, times
\* out or answers late: the payments started for a sale are one, and one more
\* for each the operator forced.
PaidOncePerDecision ==
    \A r \in Refs : Cardinality(PaymentsFor(r)) <= 1 + Cardinality(Forced(r))

\* "The ATTEMPT is written to the registry before the child starts, keyed by
\* sale_ref, and a second call for that reference is refused"
\* (agent_wallet.py:859-861): of two payments started for a sale, the later
\* was forced.
SecondCallIsForced ==
    \A r \in Refs : \A c, d \in PaymentsFor(r) : c < d => call[d].force

\* A sale for which a payment was started, and none forced, is on record; the
\* record says committed only of a sale that was paid.
RecordsAreTrue ==
    \A r \in Refs :
        /\ PaymentsFor(r) # {} /\ Forced(r) = {} => payments[r] # "none"
        /\ payments[r] = "committed" => \E c \in PaymentsFor(r) : tx[c] = "committed"

\* The budget "counts grants rather than identities" (agent_wallet.py:131-135):
\* the grants ever asked of the faucet are within it, however identities are
\* retired and minted again.
FaucetWithinBudget ==
    Cardinality({c \in Calls : call[c].verb = "faucet" /\ Launched(c)}) <= GLOBAL_FAUCET_MAX

\* Retiring spares the busy (agent_wallet.py:985-993): the key a child works
\* with stays the key of its slot until it is done, so a grant cannot land in
\* an account whose key is gone.
KeysOutliveTheirUsers ==
    orderly => \A c \in Calls : child[c] \in {"holding", "submitted"}
                                    => keys[call[c].slot] = held[c]

\* "An identity owning its own" key (agent_wallet.py:471-475): no child ever
\* works with a key that was made for another identity, nor does an entry name
\* such an account, whatever was retired in between.
KeysAreSeparate ==
    orderly =>
        /\ \A c \in Calls : held[c] # NoKey => call[held[c]].agent = call[c].agent
        /\ \A a \in Agents : Minted(a) /\ identities[a].account # NoKey =>
              /\ call[identities[a].account].agent = a
              /\ keys[identities[a].slot] = identities[a].account
===============================================================================
