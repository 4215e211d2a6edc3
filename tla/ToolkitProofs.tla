----------------------------- MODULE ToolkitProofs -----------------------------
(***************************************************************************)
(* Proofs about Toolkit, for any tills, devices and bounds.  The invariant *)
(* says of each transaction a till holds which verb drew it up, with which *)
(* keys, and, while no other has landed since, that it declares what the   *)
(* ledger holds of all that it wants.                                      *)
(***************************************************************************)
EXTENDS Toolkit, TLAPS

\* Who seals, who else signs and whom it is for, as the verbs draw it up.
DrawnUp(t, h) ==
    /\ h.sealer \in {Till(t), Bench(t)}
    /\ h.tx.verb \in {"award", "enrol", "redeem", "pay", "card redeem", "rotate"} => h.sealer = Till(t)
    /\ h.tx.verb = "devbench pay" => h.sealer = Bench(t) /\ h.tx.for = {Bench(t)}
    /\ h.tx.verb = "card redeem" => h.tx.for = {Till(t)}
    /\ h.tx.verb \in {"enrol", "redeem"} => h.signers = {Bench(t)}
    /\ h.tx.verb \in {"enrol", "redeem", "pay"} => \E k \in Keys : h.tx.for = {k}

\* Everything it wants that is there is declared, and what it must have is there.
Declares(h) ==
    /\ Required(h.tx.verb, h.tx.for) \subseteq substates
    /\ h.tx.declared = (Required(h.tx.verb, h.tx.for) \cup Optional(h.tx.verb, h.tx.for)) \cap substates

\* A transaction that says who operates the component names one key.
NamesAKey(tx) ==
    tx.verb \in {"deploy", "rotate"} => \E k \in Keys : tx.for = {k}

Sound(t, h) ==
    /\ NamesAKey(h.tx)
    /\ h.fresh => DrawnUp(t, h) /\ Declares(h)

IInv ==
    /\ TypeOK
    /\ request # None => NamesAKey(request)
    /\ \A t \in Tills : ~Idle(t) => Sound(t, hand[t])

-------------------------------------------------------------------------------
\* Preparing

\* The keys a till or a customer has are keys.
LEMMA KeysAreKeys ==
    /\ \A t \in Tills : Till(t) \in TillKeys /\ Till(t) \in Keys
    /\ \A m \in DevBenches \cup Devices : Bench(m) \in MemberKeys /\ Bench(m) \in Keys
    /\ \A s \in Safes : Recovery(s) \in Keys
    /\ TillKeys \subseteq Keys /\ MemberKeys \subseteq Keys
  BY DEF Keys, TillKeys, MemberKeys, RecoveryKeys

\* What prepare wants and what it returns are of the ledger.
LEMMA PreparedType ==
    ASSUME NEW verb \in Verbs, NEW for \in SUBSET Keys, NEW named \in Keys \cup {None}
    PROVE  /\ Prepared(verb, for, named) \in Transaction
           /\ Prepared(verb, for, named).verb = verb /\ Prepared(verb, for, named).for = for
  <1>1. Required(verb, for) \subseteq Substates /\ Optional(verb, for) \subseteq Substates
    BY DEF Required, Optional, Substates
  <1>2. (Required(verb, for) \cup Optional(verb, for)) \cap substates \in SUBSET Substates
    BY <1>1
  <1>3. QED
    BY <1>2 DEF Prepared, Transaction

\* What is sound stays so while the ledger does.
LEMMA SoundnessStays ==
    ASSUME UNCHANGED substates
    PROVE  \A u, g : Sound(u, g)' <=> Sound(u, g)
  BY DEF Sound, Declares, NamesAKey, DrawnUp, Required, Optional

\* Holding a transaction that was just prepared, drawn up as the verbs do,
\* keeps the invariant for every till.
LEMMA HoldStep ==
    ASSUME IInv,
           NEW t \in Tills, NEW sealer \in Keys, NEW signers \in SUBSET Keys,
           NEW verb \in Verbs, NEW for \in SUBSET Keys, NEW named \in Keys \cup {None},
           Hold(t, sealer, signers, verb, for, named),
           UNCHANGED substates,
           NamesAKey(Prepared(verb, for, named)),
           DrawnUp(t, [tx |-> Prepared(verb, for, named), sealer |-> sealer, signers |-> signers,
                       fresh |-> TRUE, said |-> {}])
    PROVE  /\ hand' \in [Tills -> Held \cup {None}]
           /\ \A u \in Tills : ~Idle(u)' => Sound(u, hand[u])'
  <1> DEFINE h == [tx |-> Prepared(verb, for, named), sealer |-> sealer, signers |-> signers,
                   fresh |-> TRUE, said |-> {}]
  <1>1. hand' = [hand EXCEPT ![t] = h] /\ Resolves(verb, for)
    BY DEF Hold
  <1>2. h \in Held
    BY PreparedType DEF Held
  <1>3. hand' \in [Tills -> Held \cup {None}]
    BY <1>1, <1>2 DEF IInv, TypeOK
  <1>4. hand'[t] = h /\ \A u \in Tills \ {t} : hand'[u] = hand[u]
    BY <1>1 DEF IInv, TypeOK
  <1>5. h.tx = Prepared(verb, for, named) /\ h.fresh
    OBVIOUS
  <1>6. Declares(h)
    <2>1. h.tx.verb = verb /\ h.tx.for = for
      BY <1>5, PreparedType
    <2>2. h.tx.declared = (Required(verb, for) \cup Optional(verb, for)) \cap substates
      BY <1>5 DEF Prepared
    <2>3. QED
      BY <1>1, <2>1, <2>2 DEF Declares, Resolves
  <1>7. Sound(t, h)
    BY <1>5, <1>6 DEF Sound
  <1>8. ASSUME NEW u \in Tills, ~Idle(u)'
        PROVE  Sound(u, hand[u])'
    <2>1. \A g : Sound(u, g)' <=> Sound(u, g)
      BY SoundnessStays
    <2>2. CASE u = t
      BY <1>4, <1>7, <2>1, <2>2
    <2>3. CASE u # t
      BY <1>4, <1>8, <2>1, <2>3 DEF IInv, Idle
    <2>4. QED
      BY <2>2, <2>3
  <1>9. QED
    BY <1>3, <1>8

\* The invariant looks at the hands, the ledger, the request and the histories.
LEMMA FrameStep ==
    ASSUME IInv,
           UNCHANGED <<substates, operating, recovery, request, signatures>>,
           hand' \in [Tills -> Held \cup {None}],
           \A u \in Tills : ~Idle(u)' => Sound(u, hand[u])',
           \/ UNCHANGED benched
           \/ \E m \in Machines : LoadBench(m)
    PROVE  IInv'
  <1>1. benched' \subseteq Machines /\ Devices \subseteq benched'
    BY DEF IInv, TypeOK, LoadBench
  <1>2. TypeOK'
    BY <1>1 DEF IInv, TypeOK
  <1>3. (request # None => NamesAKey(request))'
    BY DEF IInv, NamesAKey
  <1>4. QED
    BY <1>2, <1>3 DEF IInv

\* What this till seals, drawn up as its verbs do, keeps the invariant.
LEMMA TillSealsStep ==
    ASSUME IInv, NEW t \in Tills, NEW signers \in SUBSET Keys,
           NEW verb \in Verbs, NEW for \in SUBSET Keys, NEW named \in Keys \cup {None},
           Hold(t, Till(t), signers, verb, for, named),
           UNCHANGED <<substates, operating, recovery, request, signatures>>,
           UNCHANGED benched \/ LoadBench(t),
           verb # "devbench pay",
           verb \in {"enrol", "redeem"} => signers = {Bench(t)},
           verb = "card redeem" => for = {Till(t)},
           verb \in {"deploy", "rotate", "enrol", "redeem", "pay"} => \E k \in Keys : for = {k}
    PROVE  IInv'
  <1> DEFINE h == [tx |-> Prepared(verb, for, named), sealer |-> Till(t), signers |-> signers,
                   fresh |-> TRUE, said |-> {}]
  <1>1. Prepared(verb, for, named).verb = verb /\ Prepared(verb, for, named).for = for
    BY DEF Prepared
  <1>2. NamesAKey(Prepared(verb, for, named))
    BY <1>1 DEF NamesAKey
  <1>3. h.tx.verb = verb /\ h.tx.for = for /\ h.sealer = Till(t) /\ h.signers = signers
    BY <1>1
  <1>4. DrawnUp(t, h)
    BY <1>3 DEF DrawnUp
  <1>5. Till(t) \in Keys /\ t \in Machines /\ UNCHANGED substates
    BY KeysAreKeys DEF Machines
  <1>6. /\ hand' \in [Tills -> Held \cup {None}]
        /\ \A u \in Tills : ~Idle(u)' => Sound(u, hand[u])'
    BY <1>2, <1>4, <1>5, HoldStep
  <1>7. QED
    BY <1>5, <1>6, FrameStep

\* A verb that only its till signs.
LEMMA AloneStep ==
    ASSUME IInv, NEW t \in Tills, NEW verb \in Verbs, NEW for \in SUBSET Keys,
           Alone(t, verb, for),
           verb \notin {"devbench pay", "deploy", "rotate", "enrol", "redeem", "pay"},
           verb = "card redeem" => for = {Till(t)}
    PROVE  IInv'
  <1>1. {} \in SUBSET Keys /\ None \in Keys \cup {None}
    OBVIOUS
  <1>2. /\ Hold(t, Till(t), {}, verb, for, None)
        /\ UNCHANGED <<substates, operating, recovery, benched, request, signatures>>
    BY DEF Alone
  <1>3. QED
    BY <1>1, <1>2, TillSealsStep

\* A deployment is for one till, and names some recovery key.
LEMMA DeployStep ==
    ASSUME IInv, NEW t \in Tills, Deploy(t)
    PROVE  IInv'
  <1>1. PICK named \in Pasted : Hold(t, Till(t), {}, "deploy", {Till(t)}, named)
    BY DEF Deploy, OperatingKey
  <1>2. UNCHANGED <<substates, operating, recovery, benched, request, signatures>>
    BY DEF Deploy
  <1>3. /\ Till(t) \in Keys /\ {Till(t)} \in SUBSET Keys /\ {} \in SUBSET Keys
        /\ named \in Keys \cup {None} /\ "deploy" \in Verbs
    BY KeysAreKeys, PastedAreKeys DEF Verbs
  <1>4. QED
    BY <1>1, <1>2, <1>3, TillSealsStep

\* A rotation is for one key, whosever it is, with some recovery key's consent.
LEMMA RotateStep ==
    ASSUME IInv, NEW t \in Tills, Rotate(t)
    PROVE  IInv'
  <1>1. PICK s \in Safes, new \in Pasted \cup {Till(t)} :
            Hold(t, Till(t), {Recovery(s)}, "rotate", {new}, None)
    BY DEF Rotate
  <1>2. UNCHANGED <<substates, operating, recovery, benched, request, signatures>>
    BY DEF Rotate
  <1>3. /\ new \in Keys /\ {new} \in SUBSET Keys /\ {Recovery(s)} \in SUBSET Keys
        /\ None \in Keys \cup {None} /\ "rotate" \in Verbs
    BY KeysAreKeys, PastedAreKeys DEF Verbs
  <1>4. QED
    BY <1>1, <1>2, <1>3, TillSealsStep

\* payments pay is for one key.
LEMMA PayHeldStep ==
    ASSUME IInv, NEW t \in Tills, NEW k \in MemberKeys \cup {Till(t)},
           Hold(t, Till(t), {}, "pay", {k}, None),
           UNCHANGED <<substates, operating, recovery, benched, request, signatures>>
    PROVE  IInv'
  <1>1. /\ k \in Keys /\ {k} \in SUBSET Keys /\ {} \in SUBSET Keys
        /\ None \in Keys \cup {None} /\ "pay" \in Verbs
    BY KeysAreKeys DEF Verbs
  <1>2. QED
    BY <1>1, TillSealsStep

\* An enrolment or redemption that is sent from here has this bench's signature.
LEMMA CoSignedHeldStep ==
    ASSUME IInv, NEW t \in DevBenches, NEW verb \in {"enrol", "redeem"}, NEW k \in MemberKeys,
           Hold(t, Till(t), {Bench(t)}, verb, {k}, None), LoadBench(t),
           UNCHANGED <<substates, operating, recovery, request, signatures>>
    PROVE  IInv'
  <1>1. /\ t \in Tills /\ k \in Keys /\ {k} \in SUBSET Keys /\ {Bench(t)} \in SUBSET Keys
        /\ None \in Keys \cup {None} /\ verb \in Verbs
    BY KeysAreKeys, BenchesAreTills DEF Verbs
  <1>2. QED
    BY <1>1, TillSealsStep

\* Nothing is held and nothing asked: a bench key may have been loaded.
LEMMA LoadedStep ==
    ASSUME IInv,
           UNCHANGED <<substates, operating, recovery, hand, request, signatures>>,
           UNCHANGED benched \/ \E m \in Machines : LoadBench(m)
    PROVE  IInv'
  <1>1. hand' \in [Tills -> Held \cup {None}]
    BY DEF IInv, TypeOK
  <1>2. \A u, g : Sound(u, g)' <=> Sound(u, g)
    BY SoundnessStays
  <1>3. \A u \in Tills : ~Idle(u)' => Sound(u, hand[u])'
    BY <1>2 DEF IInv, Idle
  <1>4. QED
    BY <1>1, <1>3, FrameStep

\* The dev bench seals what it prepares, or only loads its key.
LEMMA DevBenchStep ==
    ASSUME IInv, NEW t \in Tills, DevBench(t)
    PROVE  IInv'
  <1>1. t \in DevBenches /\ t \in Machines /\ LoadBench(t)
        /\ UNCHANGED <<substates, operating, recovery, request, signatures>>
    BY DEF DevBench, Machines
  <1>2. CASE UNCHANGED hand
    BY <1>1, <1>2, LoadedStep
  <1>3. ASSUME NEW verb \in {"faucet", "devbench pay"},
               Hold(t, Bench(t), {}, verb, {Bench(t)}, None)
        PROVE  IInv'
    <2> DEFINE tx == Prepared(verb, {Bench(t)}, None)
               h == [tx |-> tx, sealer |-> Bench(t), signers |-> {},
                     fresh |-> TRUE, said |-> {}]
    <2>1. /\ verb \in Verbs /\ Bench(t) \in Keys /\ {Bench(t)} \in SUBSET Keys
          /\ {} \in SUBSET Keys /\ None \in Keys \cup {None}
      BY <1>1, KeysAreKeys DEF Verbs
    <2>2. tx.verb = verb /\ tx.for = {Bench(t)}
      BY DEF Prepared
    <2>3. NamesAKey(tx)
      BY <2>2 DEF NamesAKey
    <2>4. h.tx.verb = verb /\ h.tx.for = {Bench(t)} /\ h.sealer = Bench(t)
      BY <2>2
    <2>5. DrawnUp(t, h)
      BY <2>4 DEF DrawnUp
    <2>6. /\ hand' \in [Tills -> Held \cup {None}]
          /\ \A u \in Tills : ~Idle(u)' => Sound(u, hand[u])'
      BY <1>1, <1>3, <2>1, <2>3, <2>5, HoldStep
    <2>7. QED
      BY <1>1, <2>6, FrameStep
  <1>4. QED
    BY <1>1, <1>2, <1>3 DEF DevBench

\* A request never gives the component away.
LEMMA WriteRequestStep ==
    ASSUME IInv, NEW verb \in {"enrol", "redeem", "pay"}, NEW k \in MemberKeys,
           WriteRequest(verb, k),
           UNCHANGED <<substates, operating, recovery, benched, signatures>>
    PROVE  IInv'
  <1>1. request' = Prepared(verb, {k}, None) /\ UNCHANGED hand
    BY DEF WriteRequest
  <1>2. verb \in Verbs /\ {k} \in SUBSET Keys /\ None \in Keys \cup {None}
    BY KeysAreKeys DEF Verbs
  <1>3. Prepared(verb, {k}, None) \in Transaction /\ Prepared(verb, {k}, None).verb = verb
    BY <1>2, PreparedType
  <1>4. TypeOK'
    BY <1>1, <1>3 DEF IInv, TypeOK
  <1>5. (request # None => NamesAKey(request))'
    BY <1>1, <1>3 DEF NamesAKey
  <1>6. \A u, g : Sound(u, g)' <=> Sound(u, g)
    BY SoundnessStays
  <1>7. \A u \in Tills : ~Idle(u)' => Sound(u, hand[u])'
    BY <1>1, <1>6 DEF IInv, Idle
  <1>8. QED
    BY <1>4, <1>5, <1>7 DEF IInv

\* Only a run without --compose, which a dev bench is for, loads a bench key
\* for an enrolment or a redemption.
LEMMA OnlyBenchesLoad ==
    ASSUME NEW t, NEW flag \in Flags, CoSigned(t, flag)
    PROVE  \/ take_flag(flag) = "some" /\ UNCHANGED benched
           \/ take_flag(flag) # "some" /\ t \in DevBenches /\ LoadBench(t)
  BY DEF CoSigned, Flags, take_flag

\* enrol and redeem, sent from here or handed over.
LEMMA CoSignedStep ==
    ASSUME IInv, NEW t \in Tills, NEW flag \in Flags, CoSigned(t, flag)
    PROVE  IInv'
  <1>1. UNCHANGED <<substates, operating, recovery, signatures>> /\ t \in Machines
    BY DEF CoSigned, Machines
  <1>2. CASE take_flag(flag) = "some"
    <2>1. UNCHANGED benched
      BY <1>2 DEF CoSigned
    <2>2. CASE UNCHANGED <<hand, request>>
      BY <1>1, <2>1, <2>2, LoadedStep
    <2>3. CASE \E verb \in {"enrol", "redeem"}, k \in MemberKeys : WriteRequest(verb, k)
      BY <1>1, <2>1, <2>3, WriteRequestStep
    <2>4. QED
      BY <1>2, <2>2, <2>3 DEF CoSigned
  <1>3. CASE take_flag(flag) # "some"
    <2>1. t \in DevBenches /\ LoadBench(t)
      BY <1>3, OnlyBenchesLoad
    <2>2. CASE UNCHANGED <<hand, request>>
      BY <1>1, <2>1, <2>2, LoadedStep
    <2>3. CASE \E verb \in {"enrol", "redeem"}, k \in MemberKeys :
                  Hold(t, Till(t), {Bench(t)}, verb, {k}, None) /\ UNCHANGED request
      BY <1>1, <2>1, <2>3, CoSignedHeldStep
    <2>4. QED
      BY <1>3, <2>2, <2>3 DEF CoSigned
  <1>4. QED
    BY <1>2, <1>3

\* payments pay, sent from here or handed over.
LEMMA PayStep ==
    ASSUME IInv, NEW t \in Tills, NEW flag \in Flags, Pay(t, flag)
    PROVE  IInv'
  <1>1. UNCHANGED <<substates, operating, recovery, benched, signatures>>
    BY DEF Pay
  <1>2. CASE \E k \in MemberKeys : WriteRequest("pay", k)
    BY <1>1, <1>2, WriteRequestStep
  <1>3. CASE /\ \E k \in MemberKeys \cup {Till(t)} : Hold(t, Till(t), {}, "pay", {k}, None)
             /\ UNCHANGED request
    BY <1>1, <1>3, PayHeldStep
  <1>4. QED
    BY <1>2, <1>3 DEF Pay

\* A request is a transaction that was composed, asked of some customer for
\* some till.
LEMMA HandedOverType ==
    ASSUME IInv, NEW r \in HandedOver
    PROVE  /\ r.tx = request /\ r.tx \in Transaction /\ NamesAKey(r.tx)
           /\ r.member_key \in MemberKeys /\ r.seal_signer \in TillKeys
  <1>1. PICK tx \in {request} \ {None}, k \in MemberKeys, s \in TillKeys : r = Request(tx, k, s)
    BY DEF HandedOver
  <1>2. r.tx = tx /\ r.member_key = k /\ r.seal_signer = s
    BY <1>1 DEF Request
  <1>3. tx = request /\ request # None
    OBVIOUS
  <1>4. QED
    BY <1>2, <1>3 DEF IInv, TypeOK

\* A signature for a request names a transaction and a till.
LEMMA SignRequestStep ==
    ASSUME IInv, NEW m \in DevBenches \cup Devices, SignRequest(m)
    PROVE  IInv'
  <1>1. LoadBench(m) /\ UNCHANGED <<substates, operating, recovery, hand, request>>
    BY DEF SignRequest
  <1>2. PICK r \in HandedOver :
            signatures' = signatures \cup
                IF r.member_key = Bench(m)
                THEN {[by |-> Bench(m), tx |-> r.tx, sealer |-> r.seal_signer]} ELSE {}
    BY DEF SignRequest
  <1>3. [by |-> Bench(m), tx |-> r.tx, sealer |-> r.seal_signer] \in Signature
    BY HandedOverType, KeysAreKeys DEF Signature
  <1>4. signatures' \subseteq Signature
    BY <1>2, <1>3 DEF IInv, TypeOK
  <1>5. benched' \subseteq Machines /\ Devices \subseteq benched'
    BY <1>1, BenchesAreTills DEF IInv, TypeOK, LoadBench, Machines
  <1>6. TypeOK'
    BY <1>1, <1>4, <1>5 DEF IInv, TypeOK
  <1>7. \A u, g : Sound(u, g)' <=> Sound(u, g)
    BY <1>1, SoundnessStays
  <1>8. \A u \in Tills : ~Idle(u)' => Sound(u, hand[u])'
    BY <1>1, <1>7 DEF IInv, Idle
  <1>9. (request # None => NamesAKey(request))'
    BY <1>1 DEF IInv, NamesAKey
  <1>10. QED
    BY <1>6, <1>8, <1>9 DEF IInv

\* What a till resubmits is the request's transaction, and is no longer fresh.
LEMMA SubmitRequestStep ==
    ASSUME IInv, NEW t \in Tills, SubmitRequest(t)
    PROVE  IInv'
  <1>1. PICK r \in HandedOver, label \in MemberKeys, signature \in signatures :
            hand' = [hand EXCEPT ![t] =
                [tx |-> r.tx, sealer |-> Till(t), signers |-> {signature.by}, fresh |-> FALSE,
                 said |-> {[by |-> label, tx |-> r.tx, sealer |-> Till(t)]}]]
    BY DEF SubmitRequest
  <1> DEFINE h == [tx |-> r.tx, sealer |-> Till(t), signers |-> {signature.by}, fresh |-> FALSE,
                   said |-> {[by |-> label, tx |-> r.tx, sealer |-> Till(t)]}]
  <1>2. UNCHANGED <<substates, operating, recovery, benched, request, signatures>>
    BY DEF SubmitRequest
  <1>3. r.tx \in Transaction /\ NamesAKey(r.tx)
    BY HandedOverType
  <1>4. /\ signature.by \in Keys /\ Till(t) \in Keys
        /\ [by |-> label, tx |-> r.tx, sealer |-> Till(t)] \in Signature
    BY <1>3, KeysAreKeys DEF IInv, TypeOK, Signature
  <1>5. h \in Held
    BY <1>3, <1>4 DEF Held
  <1>6. hand' \in [Tills -> Held \cup {None}]
    BY <1>1, <1>5 DEF IInv, TypeOK
  <1>7. h.tx = r.tx /\ h.fresh = FALSE
    OBVIOUS
  <1>8. Sound(t, h)
    BY <1>3, <1>7 DEF Sound
  <1>9. \A u, g : Sound(u, g)' <=> Sound(u, g)
    BY <1>2, SoundnessStays
  <1>10. ASSUME NEW u \in Tills, ~Idle(u)'
         PROVE  Sound(u, hand[u])'
    <2>1. CASE u = t
      <3>1. hand'[u] = h
        BY <1>1, <2>1 DEF IInv, TypeOK
      <3>2. QED
        BY <1>8, <1>9, <2>1, <3>1
    <2>2. CASE u # t
      <3>1. hand'[u] = hand[u]
        BY <1>1, <2>2 DEF IInv, TypeOK
      <3>2. QED
        BY <1>9, <1>10, <3>1 DEF IInv, Idle
    <2>3. QED
      BY <2>1, <2>2
  <1>11. QED
    BY <1>2, <1>6, <1>10, FrameStep

\* A transaction that is sent is refused, or executed, and then nothing that
\* was prepared before is fresh any more.
LEMMA SendStep ==
    ASSUME IInv, NEW t \in Tills, Send(t)
    PROVE  IInv'
  <1>1. /\ hand[t] \in Held /\ ~Idle(t) /\ Sound(t, hand[t])
        /\ UNCHANGED <<benched, request, signatures>>
    BY DEF Send, IInv, TypeOK, Idle
  <1>2. (request # None => NamesAKey(request))'
    BY <1>1 DEF IInv, NamesAKey
  <1>3. CASE /\ UNCHANGED <<substates, operating, recovery>>
             /\ hand' = [hand EXCEPT ![t] = None]
    <2>1. TypeOK'
      BY <1>1, <1>3 DEF IInv, TypeOK
    <2>2. \A u, g : Sound(u, g)' <=> Sound(u, g)
      BY <1>3, SoundnessStays
    <2>3. ASSUME NEW u \in Tills, ~Idle(u)'
          PROVE  Sound(u, hand[u])'
      <3>1. hand'[u] = hand[u]
        BY <1>3, <2>3 DEF IInv, TypeOK, Idle
      <3>2. QED
        BY <2>2, <2>3, <3>1 DEF IInv, Idle
    <2>4. QED
      BY <1>2, <2>1, <2>3 DEF IInv
  <1>4. ASSUME NEW executed \in BOOLEAN,
               IF executed THEN Execute(hand[t].tx) ELSE UNCHANGED <<substates, operating, recovery>>,
               hand' = [u \in Tills |->
                            IF u = t \/ Idle(u) THEN IF u = t THEN None ELSE hand[u]
                            ELSE [hand[u] EXCEPT !.fresh = @ /\ ~executed]]
        PROVE  IInv'
    <2>1. ASSUME NEW u \in Tills, ~Idle(u)'
          PROVE  /\ hand[u] \in Held /\ ~Idle(u) /\ Sound(u, hand[u])
                 /\ hand'[u] = [hand[u] EXCEPT !.fresh = @ /\ ~executed]
                 /\ hand'[u] \in Held
                 /\ hand'[u].tx = hand[u].tx /\ hand'[u].sealer = hand[u].sealer
                 /\ hand'[u].signers = hand[u].signers
                 /\ hand'[u].fresh = (hand[u].fresh /\ ~executed)
      <3>1. u # t /\ ~Idle(u) /\ hand'[u] = [hand[u] EXCEPT !.fresh = @ /\ ~executed]
        BY <1>4, <2>1 DEF Idle
      <3>2. hand[u] \in Held /\ Sound(u, hand[u])
        BY <3>1 DEF IInv, TypeOK, Idle
      <3>3. QED
        BY <3>1, <3>2 DEF Held
    <2>2. hand' \in [Tills -> Held \cup {None}]
      BY <1>4, <2>1 DEF Idle
    <2>3. /\ substates' \subseteq Substates
          /\ operating' \in Keys \cup {None} /\ recovery' \in Keys \cup {None}
      <3>1. hand[t].tx \in Transaction /\ NamesAKey(hand[t].tx)
        BY <1>1 DEF Held, Sound
      <3>2. Created(hand[t].tx) \subseteq Substates
        BY <3>1 DEF Created, Transaction, Substates
      <3>3. hand[t].tx.verb \in {"deploy", "rotate"} =>
                (CHOOSE k \in hand[t].tx.for : TRUE) \in Keys
        BY <3>1 DEF NamesAKey
      <3>7. hand[t].tx.recovery \in Keys \cup {None}
        BY <3>1 DEF Transaction
      <3>4. CASE executed
        BY <1>4, <3>2, <3>3, <3>4, <3>7 DEF Execute, IInv, TypeOK
      <3>5. CASE ~executed
        BY <1>4, <3>5 DEF IInv, TypeOK
      <3>6. QED
        BY <3>4, <3>5
    <2>4. TypeOK'
      BY <1>1, <1>4, <2>2, <2>3 DEF IInv, TypeOK
    <2>5. ASSUME NEW u \in Tills, ~Idle(u)'
          PROVE  Sound(u, hand[u])'
      <3>1. NamesAKey(hand[u].tx) /\ (hand[u].fresh => DrawnUp(u, hand[u]) /\ Declares(hand[u]))
        BY <2>1, <2>5 DEF Sound
      <3>2. NamesAKey(hand'[u].tx)
        BY <2>1, <2>5, <3>1
      <3>3. CASE executed
        <4>1. ~hand'[u].fresh
          BY <2>1, <2>5, <3>3
        <4>2. QED
          BY <3>2, <4>1 DEF Sound, NamesAKey
      <3>4. CASE ~executed
        <4>1. UNCHANGED substates
          BY <1>4, <3>4
        <4>2. Sound(u, hand'[u])
          <5> DEFINE g == hand'[u]
          <5>1. g.tx = hand[u].tx /\ g.sealer = hand[u].sealer /\ g.signers = hand[u].signers
            BY <2>1, <2>5
          <5>2. g.fresh => DrawnUp(u, hand[u]) /\ Declares(hand[u])
            BY <2>1, <2>5, <3>1
          <5>3. NamesAKey(g.tx)
            BY <3>2
          <5> HIDE DEF g
          <5>4. g.fresh => DrawnUp(u, g) /\ Declares(g)
            BY <5>1, <5>2 DEF DrawnUp, Declares
          <5>5. Sound(u, g)
            BY <5>3, <5>4 DEF Sound
          <5>6. QED
            BY <5>5 DEF g
        <4>3. QED
          BY <4>1, <4>2, SoundnessStays
      <3>5. QED
        BY <3>3, <3>4
    <2>6. QED
      BY <1>2, <2>4, <2>5 DEF IInv
  <1>5. QED
    BY <1>3, <1>4 DEF Send

-------------------------------------------------------------------------------
\* The invariant

\* Nobody holds anything at first.
LEMMA InitStep == Init => IInv
  <1> SUFFICES ASSUME Init PROVE IInv
    OBVIOUS
  <1>1. TypeOK
    BY DEF Init, TypeOK, Machines
  <1>2. QED
    BY <1>1 DEF Init, IInv, Idle

\* Every step keeps the invariant.
LEMMA NextStep == IInv /\ [Next]_vars => IInv'
  <1> SUFFICES ASSUME IInv, [Next]_vars PROVE IInv'
    OBVIOUS
  <1>1. CASE UNCHANGED vars
    <2>1. TypeOK' /\ (request # None => NamesAKey(request))'
      BY <1>1 DEF vars, IInv, TypeOK, NamesAKey
    <2>2. \A u, g : Sound(u, g)' <=> Sound(u, g)
      BY <1>1, SoundnessStays DEF vars
    <2>3. \A u \in Tills : ~Idle(u)' => Sound(u, hand[u])'
      BY <1>1, <2>2 DEF vars, IInv, Idle
    <2>4. QED
      BY <2>1, <2>3 DEF IInv
  <1>2. ASSUME NEW t \in Tills, NEW verb \in {"faucet", "card issue", "card redeem"},
               Alone(t, verb, {Till(t)})
        PROVE  IInv'
    <2>1. {Till(t)} \in SUBSET Keys /\ verb \in Verbs
      BY KeysAreKeys DEF Verbs
    <2>2. verb \notin {"devbench pay", "deploy", "rotate", "enrol", "redeem", "pay"}
      OBVIOUS
    <2>3. QED
      BY <1>2, <2>1, <2>2, AloneStep
  <1>3. ASSUME NEW t \in Tills, NEW verb \in {"open-account", "award", "other"},
               NEW for \in SUBSET Keys, Alone(t, verb, for)
        PROVE  IInv'
    <2>1. /\ verb \in Verbs /\ verb # "card redeem"
          /\ verb \notin {"devbench pay", "deploy", "rotate", "enrol", "redeem", "pay"}
      BY DEF Verbs
    <2>2. QED
      BY <1>3, <2>1, AloneStep
  <1>4. ASSUME NEW t \in Tills, Faucet(t) PROVE IInv'
    BY <1>2, <1>4 DEF Faucet
  <1>5. ASSUME NEW t \in Tills, OpenAccount(t) PROVE IInv'
    <2>1. PICK k \in MemberKeys : Alone(t, "open-account", {k})
      BY <1>5 DEF OpenAccount
    <2>2. {k} \in SUBSET Keys
      BY KeysAreKeys
    <2>3. QED
      BY <1>3, <2>1, <2>2
  <1>6. ASSUME NEW t \in Tills, Other(t) PROVE IInv'
    BY <1>3, <1>6 DEF Other
  <1>7. ASSUME NEW t \in Tills, CardIssue(t) PROVE IInv'
    BY <1>2, <1>7 DEF CardIssue
  <1>8. ASSUME NEW t \in Tills, CardRedeem(t) PROVE IInv'
    BY <1>2, <1>8 DEF CardRedeem
  <1>9. ASSUME NEW t \in Tills, Award(t) PROVE IInv'
    <2>1. PICK for \in SUBSET MemberKeys \ {{}} : Alone(t, "award", for)
      BY <1>9 DEF Award
    <2>2. for \in SUBSET Keys
      BY KeysAreKeys
    <2>3. QED
      BY <1>3, <2>1, <2>2
  <1>10. ASSUME NEW t \in Tills, Deploy(t) \/ Rotate(t) \/ DevBench(t) PROVE IInv'
    BY <1>10, DeployStep, RotateStep, DevBenchStep
  <1>11. ASSUME NEW t \in Tills, NEW flag \in Flags, CoSigned(t, flag) \/ Pay(t, flag) PROVE IInv'
    BY <1>11, CoSignedStep, PayStep
  <1>12. ASSUME NEW t \in Tills, SubmitRequest(t) \/ Send(t) PROVE IInv'
    BY <1>12, SubmitRequestStep, SendStep
  <1>13. ASSUME NEW m \in DevBenches \cup Devices, SignRequest(m) PROVE IInv'
    BY <1>13, SignRequestStep
  <1>14. QED
    BY <1>1, <1>4, <1>5, <1>6, <1>7, <1>8, <1>9, <1>10, <1>11, <1>12, <1>13 DEF Next

\* Every variable keeps its type: what a till holds and what is signed are
\* transactions over this ledger, and whoever operates the loyalty component, or
\* may say who does, is a key somebody can have.
THEOREM TypeCorrect == Spec => []TypeOK
  <1>1. IInv => TypeOK
    BY DEF IInv
  <1>2. QED
    BY <1>1, InitStep, NextStep, PTL DEF Spec

-------------------------------------------------------------------------------
\* What a till holds would land

\* All a transaction will touch is wanted, or declared if it is there.
LEMMA TouchedIsWanted ==
    ASSUME NEW tx
    PROVE  Touched(tx) \subseteq Required(tx.verb, tx.for) \cup Optional(tx.verb, tx.for)
  BY DEF Touched, Required, Optional

\* Fresh, a transaction lacks only signatures this machine could not give.
LEMMA SoundLands ==
    ASSUME NEW t \in Tills, NEW h \in Held, Sound(t, h), h.fresh
    PROVE  /\ ~SubstateNotFound(h)
           /\ NoPayer(h) => h.sealer \in {Till(t), Bench(t)}
           /\ SignerMissing(h) =>
                 \/ h.tx.verb \in {"award", "enrol", "redeem"} /\ operating # Till(t)
                 \/ h.tx.verb = "rotate" /\ recovery \notin h.signers
                 \/ h.tx.verb \in {"enrol", "redeem"} /\ h.tx.for # {Bench(t)}
                 \/ h.tx.verb = "pay" /\ h.tx.for # {Till(t)}
  <1>1. DrawnUp(t, h) /\ Declares(h)
    BY DEF Sound
  <1>2. ~SubstateNotFound(h)
    BY <1>1, TouchedIsWanted DEF Declares, SubstateNotFound
  <1>3. NoPayer(h) => h.sealer \in {Till(t), Bench(t)}
    BY <1>1 DEF DrawnUp
  <1>4. SUFFICES ASSUME ~(h.tx.verb \in {"award", "enrol", "redeem"} /\ operating # Till(t)),
                        ~(h.tx.verb = "rotate" /\ recovery \notin h.signers),
                        ~(h.tx.verb \in {"enrol", "redeem"} /\ h.tx.for # {Bench(t)}),
                        ~(h.tx.verb = "pay" /\ h.tx.for # {Till(t)})
                 PROVE  Badges(h.tx) \subseteq h.signers \cup {h.sealer}
    BY <1>2, <1>3 DEF SignerMissing
  <1>5. ASSUME NEW k \in Badges(h.tx)
        PROVE  k \in h.signers \cup {h.sealer}
    <2>1. CASE k = operating /\ h.tx.verb \in {"award", "enrol", "redeem"}
      BY <1>1, <1>4, <2>1 DEF DrawnUp
    <2>2. CASE k = recovery /\ h.tx.verb = "rotate"
      BY <1>4, <2>2
    <2>3. CASE k \in h.tx.for /\ h.tx.verb \in {"enrol", "redeem"}
      BY <1>1, <1>4, <2>3 DEF DrawnUp
    <2>4. CASE k \in h.tx.for /\ h.tx.verb \in {"pay", "devbench pay", "card redeem"}
      BY <1>1, <1>4, <2>4 DEF DrawnUp
    <2>5. QED
      BY <1>5, <2>1, <2>2, <2>3, <2>4 DEF Badges
  <1>6. QED
    BY <1>5

\* main.rs: "Getting it wrong is a fee".  While no other transaction has landed
\* since it was prepared, no till on any number of them is about to pay a fee
\* for want of a substate, of a payer or of a signature it could have given.
THEOREM PreparedWouldLand == Spec => []PreparedLands
  <1>1. ASSUME IInv PROVE PreparedLands
    <2>1. \A t \in Tills : ~Idle(t) => hand[t] \in Held /\ Sound(t, hand[t])
      BY <1>1 DEF IInv, TypeOK, Idle
    <2>2. QED
      BY <2>1, SoundLands DEF PreparedLands
  <1>2. QED
    BY <1>1, InitStep, NextStep, PTL DEF Spec

-------------------------------------------------------------------------------
\* Who signed

\* Preparing says nothing yet of who has signed.
LEMMA HoldSaysNothing ==
    ASSUME IInv, SignedByIsTrue, NEW t \in Tills,
           NEW sealer, NEW signers, NEW verb, NEW for, NEW named,
           Hold(t, sealer, signers, verb, for, named),
           signatures \subseteq signatures'
    PROVE  SignedByIsTrue'
  <1> DEFINE h == [tx |-> Prepared(verb, for, named), sealer |-> sealer, signers |-> signers,
                   fresh |-> TRUE, said |-> {}]
  <1>1. hand'[t] = h /\ \A u \in Tills \ {t} : hand'[u] = hand[u]
    BY DEF Hold, IInv, TypeOK
  <1>2. h.said = {}
    OBVIOUS
  <1> HIDE DEF h
  <1>3. QED
    BY <1>1, <1>2 DEF SignedByIsTrue, Idle

\* Nor does leaving what is held alone.
LEMMA FrameSaysNothing ==
    ASSUME SignedByIsTrue, UNCHANGED hand, signatures \subseteq signatures'
    PROVE  SignedByIsTrue'
  BY DEF SignedByIsTrue, Idle

\* What submit-request says has been signed is checked, field by field.
LEMMA SubmitSaysTheTruth ==
    ASSUME IInv, SignedByIsTrue, NEW t \in Tills, SubmitRequest(t)
    PROVE  SignedByIsTrue'
  <1>1. PICK r \in HandedOver, label \in MemberKeys, signature \in signatures :
            /\ r.seal_signer = Till(t)
            /\ check_signing_response(r, label, signature)
            /\ hand' = [hand EXCEPT ![t] =
                [tx |-> r.tx, sealer |-> Till(t), signers |-> {signature.by}, fresh |-> FALSE,
                 said |-> {[by |-> label, tx |-> r.tx, sealer |-> Till(t)]}]]
    BY DEF SubmitRequest
  <1> DEFINE h == [tx |-> r.tx, sealer |-> Till(t), signers |-> {signature.by}, fresh |-> FALSE,
                   said |-> {[by |-> label, tx |-> r.tx, sealer |-> Till(t)]}]
  <1>2. signature \in Signature /\ signature \in signatures /\ UNCHANGED signatures
    BY DEF IInv, TypeOK, SubmitRequest
  <1>3. signature.by = label /\ signature.tx = r.tx /\ signature.sealer = Till(t)
    BY <1>1 DEF check_signing_response
  <1>4. signature = [by |-> label, tx |-> r.tx, sealer |-> Till(t)]
    BY <1>2, <1>3 DEF Signature
  <1>5. h.said \subseteq signatures
    BY <1>2, <1>4
  <1>6. hand'[t] = h /\ \A u \in Tills \ {t} : hand'[u] = hand[u]
    BY <1>1 DEF IInv, TypeOK
  <1> HIDE DEF h
  <1>7. QED
    BY <1>2, <1>5, <1>6 DEF SignedByIsTrue, Idle

\* Sending leaves what is said by the others alone.
LEMMA SendSaysNothing ==
    ASSUME IInv, SignedByIsTrue, NEW t \in Tills, Send(t)
    PROVE  SignedByIsTrue'
  <1>1. UNCHANGED signatures
    BY DEF Send
  <1>2. ASSUME NEW u \in Tills, ~Idle(u)'
        PROVE  ~Idle(u) /\ hand'[u].said = hand[u].said
    <2>1. ~Idle(u) => hand[u] \in Held
      BY DEF IInv, TypeOK, Idle
    <2>2. PICK executed \in BOOLEAN :
             \/ hand' = [hand EXCEPT ![t] = None]
             \/ hand' = [v \in Tills |->
                           IF v = t \/ Idle(v) THEN IF v = t THEN None ELSE hand[v]
                           ELSE [hand[v] EXCEPT !.fresh = @ /\ ~executed]]
      BY DEF Send
    <2>3. u # t /\ ~Idle(u)
      BY <1>2, <2>2 DEF IInv, TypeOK, Idle
    <2>4. hand'[u] = hand[u] \/ hand'[u] = [hand[u] EXCEPT !.fresh = @ /\ ~executed]
      BY <2>2, <2>3 DEF IInv, TypeOK
    <2>5. QED
      BY <2>1, <2>3, <2>4 DEF Held
  <1>3. QED
    BY <1>1, <1>2 DEF SignedByIsTrue

\* Every step keeps what the tills say true.
LEMMA SignedStep == IInv /\ SignedByIsTrue /\ [Next]_vars => SignedByIsTrue'
  <1> SUFFICES ASSUME IInv, SignedByIsTrue, [Next]_vars PROVE SignedByIsTrue'
    OBVIOUS
  <1>1. CASE UNCHANGED vars
    BY <1>1, FrameSaysNothing DEF vars
  <1>2. ASSUME NEW t \in Tills,
               Faucet(t) \/ OpenAccount(t) \/ Other(t) \/ CardIssue(t) \/ CardRedeem(t) \/ Award(t)
        PROVE  SignedByIsTrue'
    <2>1. ASSUME NEW verb, NEW for, Alone(t, verb, for) PROVE SignedByIsTrue'
      BY <2>1, HoldSaysNothing DEF Alone
    <2>2. QED
      BY <1>2, <2>1 DEF Faucet, OpenAccount, Other, CardIssue, CardRedeem, Award
  <1>3. ASSUME NEW t \in Tills, Deploy(t) \/ Rotate(t) PROVE SignedByIsTrue'
    BY <1>3, HoldSaysNothing DEF Deploy, Rotate
  <1>4. ASSUME NEW t \in Tills, DevBench(t) PROVE SignedByIsTrue'
    <2>1. CASE UNCHANGED hand
      BY <1>4, <2>1, FrameSaysNothing DEF DevBench
    <2>2. ASSUME NEW verb, Hold(t, Bench(t), {}, verb, {Bench(t)}, None) PROVE SignedByIsTrue'
      BY <1>4, <2>2, HoldSaysNothing DEF DevBench
    <2>3. QED
      BY <1>4, <2>1, <2>2 DEF DevBench
  <1>5. ASSUME NEW t \in Tills, NEW flag \in Flags, CoSigned(t, flag) PROVE SignedByIsTrue'
    <2>1. UNCHANGED signatures
      BY <1>5 DEF CoSigned
    <2>2. CASE UNCHANGED hand
      BY <2>1, <2>2, FrameSaysNothing
    <2>3. ASSUME NEW verb, NEW k, Hold(t, Till(t), {Bench(t)}, verb, {k}, None)
          PROVE  SignedByIsTrue'
      BY <2>1, <2>3, HoldSaysNothing
    <2>4. QED
      BY <1>5, <2>2, <2>3 DEF CoSigned, WriteRequest
  <1>6. ASSUME NEW t \in Tills, NEW flag \in Flags, Pay(t, flag) PROVE SignedByIsTrue'
    <2>1. UNCHANGED signatures
      BY <1>6 DEF Pay
    <2>2. CASE UNCHANGED hand
      BY <2>1, <2>2, FrameSaysNothing
    <2>3. ASSUME NEW k, Hold(t, Till(t), {}, "pay", {k}, None) PROVE SignedByIsTrue'
      BY <2>1, <2>3, HoldSaysNothing
    <2>4. QED
      BY <1>6, <2>2, <2>3 DEF Pay, WriteRequest
  <1>7. ASSUME NEW m, SignRequest(m) PROVE SignedByIsTrue'
    BY <1>7, FrameSaysNothing DEF SignRequest
  <1>8. ASSUME NEW t \in Tills, SubmitRequest(t) \/ Send(t) PROVE SignedByIsTrue'
    BY <1>8, SubmitSaysTheTruth, SendSaysNothing
  <1>9. QED
    BY <1>1, <1>2, <1>3, <1>4, <1>5, <1>6, <1>7, <1>8 DEF Next

\* main.rs: "A sentence that has to be true when it is printed".  Whoever
\* submit-request says has signed has signed this transaction for this sealer,
\* whatever mixture of request and signature files it was given.
THEOREM WhoIsSaidToSignSigned == Spec => []SignedByIsTrue
  <1>1. Init => SignedByIsTrue
    BY DEF Init, SignedByIsTrue, Idle
  <1>2. QED
    BY <1>1, InitStep, NextStep, SignedStep, PTL DEF Spec

-------------------------------------------------------------------------------
\* Whose keys are where

\* main.rs, on --compose: "A handoff whose first step mints the other party's
\* key is not a handoff".  However the flag is typed, and whatever is composed,
\* signed and submitted, a till on which enrolments and redemptions are only ever
\* handed over has no customer's key: of the runs of enrol and redeem that
\* take_flag lets through, those that load a key were not given the flag.
THEOREM NoKeyIsMintedForAHandoff == Spec => []HandoffMintsNothing
  <1>1. Init => HandoffMintsNothing
    BY MachinesAreApart DEF Init, HandoffMintsNothing
  <1>2. ASSUME HandoffMintsNothing, [Next]_vars
        PROVE  HandoffMintsNothing'
    <2>1. UNCHANGED benched => HandoffMintsNothing'
      BY <1>2 DEF HandoffMintsNothing
    <2>2. ASSUME NEW m \in DevBenches \cup Devices, LoadBench(m) PROVE HandoffMintsNothing'
      BY <1>2, <2>2, MachinesAreApart DEF LoadBench, HandoffMintsNothing
    <2>3. ASSUME NEW t \in Tills, NEW flag \in Flags, CoSigned(t, flag)
          PROVE  HandoffMintsNothing'
      BY <2>1, <2>2, <2>3, OnlyBenchesLoad
    <2>4. ASSUME NEW t \in Tills, DevBench(t) PROVE HandoffMintsNothing'
      BY <2>2, <2>4 DEF DevBench
    <2>5. ASSUME NEW m \in DevBenches \cup Devices, SignRequest(m) PROVE HandoffMintsNothing'
      BY <2>2, <2>5 DEF SignRequest
    <2>6. ASSUME NEW t \in Tills,
                 Faucet(t) \/ OpenAccount(t) \/ Other(t) \/ CardIssue(t) \/ CardRedeem(t) \/ Award(t)
          PROVE  UNCHANGED benched
      BY <2>6 DEF Alone, Faucet, OpenAccount, Other, CardIssue, CardRedeem, Award
    <2>7. ASSUME NEW t \in Tills, Deploy(t) \/ Rotate(t) \/ SubmitRequest(t) \/ Send(t)
          PROVE  UNCHANGED benched
      BY <2>7 DEF Deploy, Rotate, SubmitRequest, Send
    <2>8. ASSUME NEW t \in Tills, NEW flag \in Flags, Pay(t, flag) PROVE UNCHANGED benched
      BY <2>8 DEF Pay
    <2>9. QED
      BY <1>2, <2>1, <2>3, <2>4, <2>5, <2>6, <2>7, <2>8 DEF Next, vars
  <1>3. QED
    BY <1>1, <1>2, PTL DEF Spec
===============================================================================
