------------------------------- MODULE Toolkit -------------------------------
(***************************************************************************)
(* The verbs of payer/ootle/toolkit/src/main.rs that send transactions,    *)
(* and the handoff by which a customer on another machine consents to one. *)
(*                                                                         *)
(* Every verb holds some keys, prepares a transaction against the ledger   *)
(* as it is then, which fixes the substates it declares, signs it, and     *)
(* sends it later; other machines do the same meanwhile.  The ledger, one  *)
(* loyalty component, one payment component and gift cards, is external:   *)
(* what the toolkit's own comments say it asks of a transaction.  It may   *)
(* refuse any transaction, one whose last epoch is over for instance.      *)
(* Amounts are left out.  The vaults of till keys hold gift cards, those   *)
(* of dev bench keys points; an account stands for its XTR vault too.      *)
(***************************************************************************)
EXTENDS Naturals, FiniteSets

CONSTANTS
    Tills,           \* machines of the merchant
    Devices,         \* machines of customers, who have no till
    DevBenches,      \* the tills that may be told to act as a customer
    Safes,           \* where recovery key files are kept, to be brought to a till
    Pasted,          \* bound on the keys whose public half anybody pastes in
    MaxSubstates,    \* bound on the substates on the ledger
    None,            \* no transaction, no component
    MaxSignatures    \* bound on the signatures made for requests

ASSUME MachinesAreApart == Tills \cap Devices = {}
ASSUME BenchesAreTills == DevBenches \subseteq Tills
ASSUME BoundsAreNumbers == {MaxSubstates, MaxSignatures} \subseteq Nat

Machines == Tills \cup Devices
Till(m) == <<m, "till">>
Bench(m) == <<m, "bench">>
Recovery(s) == <<s, "recovery">>

TillKeys == {Till(t) : t \in Tills}
MemberKeys == {Bench(m) : m \in DevBenches \cup Devices}
RecoveryKeys == {Recovery(s) : s \in Safes}
Keys == TillKeys \cup MemberKeys \cup RecoveryKeys

ASSUME PastedAreKeys == Pasted \subseteq Keys

Account(k) == <<"account", k>>
Substates == {"account", "vault", "enrolment"} \X Keys

Verbs == {"faucet", "open-account", "deploy", "award", "enrol", "redeem", "rotate",
          "devbench pay", "pay", "card issue", "card redeem", "other"}

VARIABLES
    substates,     \* what is on the ledger
    operating,     \* the loyalty component's operating key
    recovery,      \* the key that may replace it, the component's for good
    benched,       \* the machines that have a dev bench key file
    hand,          \* each till's transaction between prepare and send
    request,       \* the transaction of the last request file that was composed
    signatures     \* the signatures made for requests

vars == <<substates, operating, recovery, benched, hand, request, signatures>>

\* Only the constructor of a loyalty component names a recovery key.
Transaction == [verb : Verbs, for : SUBSET Keys, declared : SUBSET Substates,
                recovery : Keys \cup {None}]

Init ==
    /\ substates = {}
    /\ operating = None /\ recovery = None
    /\ benched = Devices
    /\ hand = [t \in Tills |-> None]
    /\ request = None
    /\ signatures = {}

-------------------------------------------------------------------------------
\* prepare: what a verb wants of the ledger

\* Mutant: a redemption does not declare the enrolment it reads.
RequiredOfArguments(verb, for) ==
    LET kinds == {kind \in {"account", "vault"} :
                    \/ kind = "account" /\ verb \in {"pay", "devbench pay"}
                    \/ kind = "vault" /\ verb \in {"card redeem", "enrol", "redeem"}}
    IN  kinds \X for

Required(verb, for) ==
    LET kinds == {kind \in {"account", "vault", "enrolment"} :
                    \/ kind = "account" /\ verb \in {"pay", "devbench pay"}
                    \/ kind = "vault" /\ verb \in {"card redeem", "enrol", "redeem"}
                    \/ kind = "enrolment" /\ verb = "redeem"}
    IN  kinds \X for

\* Declared if it is there, created if it is not.
Optional(verb, for) ==
    IF verb \in {"award", "card issue"} THEN {"vault"} \X for ELSE {}

Resolves(verb, for) == Required(verb, for) \subseteq substates

Prepared(verb, for, named) ==
    [verb |-> verb, for |-> for, recovery |-> named,
     declared |-> (Required(verb, for) \cup Optional(verb, for)) \cap substates]

-------------------------------------------------------------------------------
\* The ledger

\* The keys that must have signed, if only by sealing.
Badges(tx) ==
    {k \in Keys \cup {None} :
        \/ k = operating /\ tx.verb \in {"award", "enrol", "redeem"}
        \/ k = recovery /\ tx.verb = "rotate"
        \/ k \in tx.for /\ tx.verb \in {"enrol", "redeem", "pay", "devbench pay", "card redeem"}}

Touched(tx) ==
    LET kinds == {kind \in {"vault", "enrolment"} :
                    \/ kind = "vault" /\ tx.verb \in {"award", "enrol", "redeem", "card issue", "card redeem"}
                    \/ kind = "enrolment" /\ tx.verb = "redeem"}
    IN  kinds \X tx.for

\* Why the engine would not execute what a till holds, the fee aside.
NoPayer(h) == h.tx.verb # "faucet" /\ Account(h.sealer) \notin substates
SignerMissing(h) == ~(Badges(h.tx) \subseteq h.signers \cup {h.sealer})
SubstateNotFound(h) == ~(Touched(h.tx) \cap substates \subseteq h.tx.declared)
NoRecipient(h) == h.tx.verb = "award" /\ ~({"account"} \X h.tx.for \subseteq substates)

Created(tx) ==
    LET kinds == {kind \in {"account", "vault", "enrolment"} :
                    \/ kind = "account" /\ tx.verb \in {"faucet", "open-account"}
                    \/ kind = "vault" /\ tx.verb \in {"award", "card issue"}
                    \/ kind = "enrolment" /\ tx.verb = "enrol"}
    IN  kinds \X tx.for

Execute(tx) ==
    /\ substates' = substates \cup Created(tx)
    /\ operating' = IF tx.verb \in {"deploy", "rotate"} THEN CHOOSE k \in tx.for : TRUE ELSE operating
    /\ recovery' = IF tx.verb = "deploy" THEN tx.recovery ELSE recovery

-------------------------------------------------------------------------------
\* The verbs

Idle(t) == hand[t] = None

Hold(t, sealer, signers, verb, for, named) ==
    /\ Idle(t)
    /\ Resolves(verb, for)
    /\ hand' = [hand EXCEPT ![t] =
              [tx |-> Prepared(verb, for, named), sealer |-> sealer, signers |-> signers,
               fresh |-> TRUE, said |-> {}]]

\* A verb that only this till signs.
Alone(t, verb, for) ==
    /\ Hold(t, Till(t), {}, verb, for, None)
    /\ UNCHANGED <<substates, operating, recovery, benched, request, signatures>>

Faucet(t) == Alone(t, "faucet", {Till(t)})

OpenAccount(t) == \E k \in MemberKeys : Alone(t, "open-account", {k})

\* publish, call and the other constructors: one transaction each, and what
\* it writes no verb here reads.
Other(t) == Alone(t, "other", {})

CardIssue(t) == Alone(t, "card issue", {Till(t)})

CardRedeem(t) == Alone(t, "card redeem", {Till(t)})

\* award to one customer, and award-batch to several in one transaction.
Award(t) == \E for \in SUBSET MemberKeys \ {{}} : operating # None /\ Alone(t, "award", for)

OperatingKey(t) == Till(t)

\* Any public key will do for the recovery key, but not this till's own.  When
\* two are deployed at once, the later one is the component used from then on.
Deploy(t) ==
    /\ operating = None
    /\ \E named \in Pasted \ {OperatingKey(t)} :
           Hold(t, Till(t), {}, "deploy", {OperatingKey(t)}, named)
    /\ UNCHANGED <<substates, operating, recovery, benched, request, signatures>>

\* Refused when no recovery key's file is here; one that is may be another
\* component's.  The till seals and pays, the recovery key only consents.  The
\* new operating key is this till's own or any public key that is named.
Rotate(t) ==
    /\ operating # None
    /\ \E s \in Safes, new \in Pasted \cup {Till(t)} :
           Hold(t, Till(t), {Recovery(s)}, "rotate", {new}, None)
    /\ UNCHANGED <<substates, operating, recovery, benched, request, signatures>>

\* load_or_create_devbench_key
LoadBench(m) == benched' = benched \cup {m}

\* devbench account, faucet, pay and pay-sale: the bench key seals.
DevBench(t) ==
    /\ t \in DevBenches /\ LoadBench(t)
    /\ \/ UNCHANGED hand
       \/ \E verb \in {"faucet", "devbench pay"} : Hold(t, Bench(t), {}, verb, {Bench(t)}, None)
    /\ UNCHANGED <<substates, operating, recovery, request, signatures>>

\* How --compose may be typed.
Flags == {"absent", "given", "valueless", "twice"}

\* Mutant, the first draft: a flag without its value is not there.
TakeWhatIsThere(flag) == IF flag = "given" THEN "some" ELSE "none"

take_flag(flag) ==
    IF flag = "absent" THEN "none" ELSE IF flag = "given" THEN "some" ELSE "refused"

\* The request file: what is prepared is written out, for somebody else to sign.
WriteRequest(verb, k) ==
    /\ Resolves(verb, {k})
    /\ request' = Prepared(verb, {k}, None)
    /\ UNCHANGED hand

\* loyalty enrol and redeem, for this machine's bench key or a customer that is
\* named.  Only a dev bench runs them without meaning to hand the transaction
\* over.  Otherwise the bench key is loaded, and made if there is none, before
\* the arguments are read, and signs whoever the customer is.
CoSigned(t, flag) ==
    LET composing == take_flag(flag) = "some"
    IN  /\ flag = "absent" => t \in DevBenches
        /\ take_flag(flag) # "refused"
        /\ IF composing THEN UNCHANGED benched ELSE LoadBench(t)
        /\ \/ UNCHANGED <<hand, request>>
           \/ /\ operating # None
              /\ \E verb \in {"enrol", "redeem"}, k \in MemberKeys :
                    IF composing THEN WriteRequest(verb, k)
                    ELSE Hold(t, Till(t), {Bench(t)}, verb, {k}, None) /\ UNCHANGED request
        /\ UNCHANGED <<substates, operating, recovery, signatures>>

\* payments pay, for this till or a customer that is named: no bench key here.
\* A request for this till's own payment, which nobody can sign, is left out.
Pay(t, flag) ==
    /\ \/ /\ take_flag(flag) = "some"
          /\ \E k \in MemberKeys : WriteRequest("pay", k)
       \/ /\ take_flag(flag) = "none"
          /\ \E k \in MemberKeys \cup {Till(t)} : Hold(t, Till(t), {}, "pay", {k}, None)
          /\ UNCHANGED request
    /\ UNCHANGED <<substates, operating, recovery, benched, signatures>>

\* A request as it arrives: somebody may have mixed up or edited its fields.
Request(tx, member_key, seal_signer) ==
    [tx |-> tx, member_key |-> member_key, seal_signer |-> seal_signer]

HandedOver ==
    {Request(tx, k, s) : tx \in {request} \ {None}, k \in MemberKeys, s \in TillKeys}

\* The key is loaded, or created, before it is compared with the one asked for.
SignRequest(m) ==
    /\ LoadBench(m)
    /\ \E r \in HandedOver :
           signatures' = signatures \cup
               IF r.member_key = Bench(m)
               THEN {[by |-> Bench(m), tx |-> r.tx, sealer |-> r.seal_signer]} ELSE {}
    /\ Cardinality(signatures') <= MaxSignatures
    /\ UNCHANGED <<substates, operating, recovery, hand, request>>

\* Mutant: the label is asked who signed.
CheckLabel(r, label, signature) == label = r.member_key

check_signing_response(r, label, signature) ==
    /\ label = r.member_key
    /\ signature.by = r.member_key
    /\ signature.tx = r.tx
    /\ signature.sealer = r.seal_signer

SubmitRequest(t) ==
    /\ Idle(t)
    /\ \E r \in HandedOver, label \in MemberKeys, signature \in signatures :
           /\ r.seal_signer = Till(t)
           /\ check_signing_response(r, label, signature)
           /\ hand' = [hand EXCEPT ![t] =
                  [tx |-> r.tx, sealer |-> Till(t), signers |-> {signature.by}, fresh |-> FALSE,
                   said |-> {[by |-> label, tx |-> r.tx, sealer |-> Till(t)]}]]
    /\ UNCHANGED <<substates, operating, recovery, benched, request, signatures>>

-------------------------------------------------------------------------------
\* Sending

\* Refused here, its deadline over for instance, or by the network, or executed.
Send(t) ==
    LET h == hand[t]
        executed == ~(NoPayer(h) \/ SignerMissing(h) \/ SubstateNotFound(h) \/ NoRecipient(h))
    IN  /\ ~Idle(t)
        /\ \/ UNCHANGED <<substates, operating, recovery>> /\ hand' = [hand EXCEPT ![t] = None]
           \/ /\ IF executed THEN Execute(h.tx) ELSE UNCHANGED <<substates, operating, recovery>>
              /\ Cardinality(substates') <= MaxSubstates
              /\ hand' = [u \in Tills |->
                            IF u = t \/ Idle(u) THEN IF u = t THEN None ELSE hand[u]
                            ELSE [hand[u] EXCEPT !.fresh = @ /\ ~executed]]
        /\ UNCHANGED <<benched, request, signatures>>

Next ==
    \/ \E t \in Tills :
        \/ Faucet(t) \/ OpenAccount(t) \/ Other(t) \/ CardIssue(t) \/ CardRedeem(t)
        \/ Deploy(t) \/ Award(t) \/ Rotate(t) \/ DevBench(t)
        \/ \E flag \in Flags : CoSigned(t, flag) \/ Pay(t, flag)
        \/ SubmitRequest(t) \/ Send(t)
    \/ \E m \in DevBenches \cup Devices : SignRequest(m)

Spec == Init /\ [][Next]_vars

-------------------------------------------------------------------------------
\* Properties

Signature == [by : Keys, tx : Transaction, sealer : Keys]

Held == [tx : Transaction, sealer : Keys, signers : SUBSET Keys, fresh : BOOLEAN,
         said : SUBSET Signature]

\* Any key may come to operate the component: a rotation hands it to whatever
\* public key it is given.
TypeOK ==
    /\ substates \subseteq Substates
    /\ {operating, recovery} \subseteq Keys \cup {None}
    /\ benched \subseteq Machines /\ Devices \subseteq benched
    /\ hand \in [Tills -> Held \cup {None}]
    /\ request \in Transaction \cup {None}
    /\ signatures \subseteq Signature

\* "Getting it wrong is a fee" (main.rs, on which keys a run holds): while no
\* other transaction has landed since it was prepared, what a till is about to
\* send declares every substate it will touch, is paid for by a machine of the
\* merchant's and not by the key in the safe, and lacks a signature only for a
\* reason this machine cannot cure: it is not the operating key, the recovery key
\* brought here is not the component's, or the customer named is somebody else,
\* who has not signed.
PreparedLands ==
    \A t \in Tills :
        LET h == hand[t]
            verb == h.tx.verb
        IN  ~Idle(t) /\ h.fresh =>
                /\ ~SubstateNotFound(h)
                /\ NoPayer(h) => h.sealer \in {Till(t), Bench(t)}
                /\ SignerMissing(h) =>
                      \/ verb \in {"award", "enrol", "redeem"} /\ operating # Till(t)
                      \/ verb = "rotate" /\ recovery \notin h.signers
                      \/ verb \in {"enrol", "redeem"} /\ h.tx.for # {Bench(t)}
                      \/ verb = "pay" /\ h.tx.for # {Till(t)}

\* "A sentence that has to be true when it is printed" (main.rs, above
\* check_signing_response): whoever submit-request says has signed has signed
\* this transaction for this sealer, however the two files were mixed up.
SignedByIsTrue == \A t \in Tills : Idle(t) \/ hand[t].said \subseteq signatures

\* "A handoff whose first step mints the other party's key is not a handoff"
\* (main.rs, on --compose): a till on which enrolments and redemptions are only
\* ever handed over never gets a customer's key, however the flag is typed.
HandoffMintsNothing == benched \cap Tills \subseteq DevBenches

\* "Optional-want covers both" (main.rs, on award): a customer's first award and
\* the next one both find, or create, the vault.
AwardsFindTheirVault ==
    \A t \in Tills : ~Idle(t) /\ hand[t].tx.verb = "award" => ~SubstateNotFound(hand[t])
===============================================================================
