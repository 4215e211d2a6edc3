----------------------------- MODULE Entitlements -----------------------------
(***************************************************************************)
(* The entitlements contract, contract/src/lib.rs: the pure functions a    *)
(* Freenet node runs over the replicated register of sold envelopes.       *)
(*                                                                         *)
(* A register (BTreeMap<String, Entitlement>) is a function from           *)
(* subscribers to an envelope or NoEntitlement.  A document is what        *)
(* travels: the JSON bytes of a Register or of a Delta, one shape for      *)
(* both.  Its bytes are abstracted to a version and a sequence of          *)
(* envelopes; the empty byte string is the document without envelopes,     *)
(* and bytes serde cannot read are a document of another version, since    *)
(* both are refused alike.                                                 *)
(*                                                                         *)
(* An envelope keeps the fields the contract's decisions depend on.  eph,  *)
(* nonce, issued_at and expires_at are carried with `sealed': no branch    *)
(* reads them.  A signature is a number because signatures are ordered     *)
(* bytewise, and a genuine one is modelled by the set `signed' of          *)
(* envelopes the key in the contract's parameters has ever signed: the     *)
(* signature covers every other field, so an envelope changed in any field *)
(* is not in that set.                                                     *)
(***************************************************************************)
EXTENDS Naturals, Sequences, SequencesExt

CONSTANTS
    Subs,          \* X25519 public keys: numbers, because registers sort by them
    Sigs,          \* Ed25519 signatures: numbers, because ties compare them
    Bundles        \* what an envelope carries, opaque to the contract

ASSUME SubsAreOrdered == Subs \subseteq Nat
ASSUME SigsAreOrdered == Sigs \subseteq Nat

FORMAT_VERSION == 1

Entitlement == [sub : Subs, seq : Nat, sealed : Bundles, sig : Sigs]

NoEntitlement == [sub |-> "nobody"]

Register == [Subs -> Entitlement \cup {NoEntitlement}]

EmptyRegister == [s \in Subs |-> NoEntitlement]

Held(reg) == {s \in Subs : reg[s] # NoEntitlement}

Entries(reg) == {reg[s] : s \in Held(reg)}

-------------------------------------------------------------------------------
\* Documents

EmptyDocument == [v |-> FORMAT_VERSION, entitlements |-> <<>>]

StrictlyAscending(list) ==
    \A i, j \in 1..Len(list) : i < j => list[i].sub < list[j].sub

\* Mutant: a signature nobody checks.
VerifyNothing(e, signed) == TRUE

\* Entitlement::verify, over the envelopes the bound key really signed.
verify(e, signed) == e \in signed

\* Whether parse_checked returns a register.  The code walks windows(2); that
\* every two entries are in order is the same thing, `<' being transitive.
parse_checked(doc, signed) ==
    /\ doc.v = FORMAT_VERSION
    /\ StrictlyAscending(doc.entitlements)
    /\ \A i \in 1..Len(doc.entitlements) : verify(doc.entitlements[i], signed)

\* The register an accepted document stands for.
Parsed(doc) ==
    [s \in Subs |->
        IF \E e \in ToSet(doc.entitlements) : e.sub = s
        THEN CHOOSE e \in ToSet(doc.entitlements) : e.sub = s
        ELSE NoEntitlement]

\* Mutant: entries sorted by something else than their key.
SerializeBySignature(reg) ==
    [v |-> FORMAT_VERSION,
     entitlements |-> CHOOSE list \in SetToSeqs(Entries(reg)) :
                        \A i, j \in DOMAIN list : i < j => list[i].sig < list[j].sig]

\* A BTreeMap iterates in the order of its keys.
KeysOf(reg) ==
    CHOOSE keys \in SetToSeqs(Held(reg)) :
        \A i, j \in DOMAIN keys : i < j => keys[i] < keys[j]

serialize(reg) ==
    LET keys == KeysOf(reg)
    IN  [v |-> FORMAT_VERSION, entitlements |-> [i \in DOMAIN keys |-> reg[keys[i]]]]

-------------------------------------------------------------------------------
\* The merge

\* Mutant: on a tie the first to arrive stays.
KeepsTheFirst(existing, candidate) == existing.seq >= candidate.seq

\* (existing.seq, &existing.sig) >= (candidate.seq, &candidate.sig)
Keeps(existing, candidate) ==
    \/ existing.seq > candidate.seq
    \/ existing.seq = candidate.seq /\ existing.sig >= candidate.sig

\* Mutant: the last writer wins.
JoinLastWriter(into, incoming) ==
    [s \in Subs |-> IF incoming[s] = NoEntitlement THEN into[s] ELSE incoming[s]]

join(into, incoming) ==
    [s \in Subs |->
        IF \/ incoming[s] = NoEntitlement
           \/ into[s] # NoEntitlement /\ Keeps(into[s], incoming[s])
        THEN into[s]
        ELSE incoming[s]]

\* update_state over two documents: a StateAndDelta, or a batch of two
\* updates.  A single update is one with an EmptyDocument beside it.  Both
\* are parsed before anything is returned, so one refusal refuses the call.
UpdateAccepted(docs, signed) ==
    \A d \in docs : parse_checked(d, signed)

update_state(reg, first, second) ==
    join(join(reg, Parsed(first)), Parsed(second))

-------------------------------------------------------------------------------
\* Synchronisation: what a peer says it has, and what it is sent

summarize_state(reg) == {<<s, reg[s].seq>> : s \in Held(reg)}

\* Mutant: a subscriber the summary does not name is not missing.
DeltaOfNamed(reg, summary) ==
    [s \in Subs |->
        IF /\ reg[s] # NoEntitlement
           /\ \E pair \in summary : pair[1] = s /\ reg[s].seq > pair[2]
        THEN reg[s]
        ELSE NoEntitlement]

\* A summary that cannot be read counts as the empty one.
get_state_delta(reg, summary) ==
    [s \in Subs |->
        IF /\ reg[s] # NoEntitlement
           /\ \A pair \in summary : pair[1] = s => reg[s].seq > pair[2]
        THEN reg[s]
        ELSE NoEntitlement]

validate_state(doc, signed) == parse_checked(doc, signed)
===============================================================================
