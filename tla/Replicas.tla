------------------------------- MODULE Replicas -------------------------------
(***************************************************************************)
(* The entitlements contract on several Freenet nodes.                     *)
(*                                                                         *)
(* The network is not part of the repository; the contract only assumes    *)
(* what its header says (contract/src/lib.rs:38-46): updates arrive in any *)
(* order, more than once, or never, and anybody can put together a         *)
(* document.  So a node may be handed any document at any time (Deliver),  *)
(* which covers every stale, duplicated, reordered or forged one, and any  *)
(* two nodes may run one round of summary and delta (Synchronise).         *)
(*                                                                         *)
(* `seen' is a history variable: the genuine envelopes a node was given.   *)
(***************************************************************************)
EXTENDS Entitlements

CONSTANTS
    Nodes,         \* peers that cache the contract
    Envelopes,     \* every envelope anybody may present
    Batches        \* the pairs of documents an update call may be handed

Document == [v : Nat, entitlements : Seq(Envelopes)]

ASSUME EnvelopesAreTyped == Envelopes \subseteq Entitlement
ASSUME BatchesAreTyped == Batches \subseteq Document \X Document
\* Ed25519 signatures commit to every other field.
ASSUME SignaturesCommit == \A e, f \in Envelopes : e.sig = f.sig => e = f

VARIABLES
    register,      \* each node's copy of the contract state
    signed,        \* envelopes the gatekeeper's key has signed
    seen           \* genuine envelopes each node was ever given

vars == <<register, signed, seen>>

Init ==
    /\ register = [n \in Nodes |-> EmptyRegister]
    /\ signed = {}
    /\ seen = [n \in Nodes |-> {}]

\* The gatekeeper signs an envelope, perhaps a second one for a subscriber's
\* seq, which a ledger rolled back by a crash makes it do (module Gatekeeper).
Sign(e) ==
    /\ signed' = signed \cup {e}
    /\ UNCHANGED <<register, seen>>

Update(n, first, second) ==
    /\ UpdateAccepted({first, second}, signed)
    /\ register' = [register EXCEPT ![n] = update_state(@, first, second)]
    /\ seen' = [seen EXCEPT ![n] =
                    @ \cup ToSet(first.entitlements) \cup ToSet(second.entitlements)]
    /\ UNCHANGED signed

\* One document, or two in one call, in the shapes update_state accepts.
Deliver(n) ==
    \E batch \in Batches : Update(n, batch[1], batch[2])

\* `to' sends its summary and `from' answers with the delta.  The delta is
\* joined as it stands: register entries are genuine and sorted.
Synchronise(from, to) ==
    LET delta == get_state_delta(register[from], summarize_state(register[to]))
    IN  /\ register' = [register EXCEPT ![to] = join(@, delta)]
        /\ seen' = [seen EXCEPT ![to] = @ \cup Entries(delta)]
        /\ UNCHANGED signed

Next ==
    \/ \E e \in Envelopes : Sign(e)
    \/ \E n \in Nodes : Deliver(n)
    \/ \E from, to \in Nodes : Synchronise(from, to)

Spec == Init /\ [][Next]_vars

-------------------------------------------------------------------------------
\* Properties

\* Every variable has its type, a node was only ever given signed envelopes,
\* and files each under its own subscriber.
TypeOK ==
    /\ register \in [Nodes -> Register]
    /\ signed \subseteq Envelopes
    /\ seen \in [Nodes -> SUBSET signed]
    /\ \A n \in Nodes : \A s \in Held(register[n]) : register[n][s].sub = s

\* What a node holds for a subscriber is one of the envelopes it was given,
\* and the best of them: nothing it was given is lost, whatever the order.
HoldsTheBest ==
    \A n \in Nodes :
        /\ \A s \in Held(register[n]) : register[n][s] \in seen[n]
        /\ \A e \in seen[n] : /\ register[n][e.sub] # NoEntitlement
                              /\ Keeps(register[n][e.sub], e)

\* "A peer receiving updates in a different order must land on the same
\* state" (contract/src/lib.rs:40-42): nodes given the same envelopes, in any
\* order, any grouping, any number of times, hold the same register.
Convergence ==
    \A n, m \in Nodes : seen[n] = seen[m] => register[n] = register[m]

\* Everything update_state writes is a state parse_checked and validate_state
\* accept again: the order serialize writes is the order parse_checked wants.
StatesValidate ==
    \A n \in Nodes : validate_state(serialize(register[n]), signed)

\* Replaying an old envelope is a no-op and never a downgrade
\* (contract/src/lib.rs:60-61): no step makes a node forget a subscriber or
\* put a losing envelope in the place of the one it holds.
NeverDowngraded ==
    \A n \in Nodes : \A s \in Held(register[n]) :
        /\ register'[n][s] # NoEntitlement
        /\ Keeps(register'[n][s], register[n][s])

\* A node that was sent the delta for its own summary is, for every subscriber,
\* at least at the sender's seq: a summary loses nothing but ties.
CaughtUp(from, to) ==
    \A s \in Held(register[from]) :
        /\ register'[to][s] # NoEntitlement
        /\ register'[to][s].seq >= register[from][s].seq

\* "Subscriber and sequence only. That is everything needed to decide what a
\* peer is missing" (contract/src/lib.rs:386-387): after that delta nothing the
\* sender holds would change the node.
NothingMissing(from, to) ==
    join(register'[to], register[from]) = register'[to]

DowngradeFree == [][NeverDowngraded]_vars

SummariesCatchUp ==
    [][\A from, to \in Nodes : Synchronise(from, to) => CaughtUp(from, to)]_vars

SummariesSuffice ==
    [][\A from, to \in Nodes : Synchronise(from, to) => NothingMissing(from, to)]_vars
===============================================================================
