---------------------------- MODULE ReplicasProofs ----------------------------
(***************************************************************************)
(* Proofs about Replicas, for any nodes, subscribers, envelopes and        *)
(* documents.  Replicas!TypeOK and HoldsTheBest are inductive together;    *)
(* convergence and the absence of downgrades follow from them.  That a     *)
(* state can be written in the order of its keys also takes that a node    *)
(* was only ever given finitely many envelopes.                            *)
(***************************************************************************)
EXTENDS Replicas, Collections

IInv == TypeOK /\ HoldsTheBest

\* A register is the best of a set of envelopes.
BestOf(reg, S) ==
    /\ reg \in Register
    /\ S \subseteq Entitlement
    /\ \A s \in Held(reg) : reg[s].sub = s /\ reg[s] \in S
    /\ \A e \in S : reg[e.sub] # NoEntitlement /\ Keeps(reg[e.sub], e)

-------------------------------------------------------------------------------
\* The order the merge maximises

\* Keeps orders the envelopes of one subscriber totally, and two that keep
\* each other are one.
LEMMA KeepsIsTotalOrder ==
    ASSUME NEW a \in Entitlement, NEW b \in Entitlement, NEW c \in Entitlement
    PROVE  /\ Keeps(a, a)
           /\ Keeps(a, b) \/ Keeps(b, a)
           /\ Keeps(a, b) /\ Keeps(b, c) => Keeps(a, c)
           /\ Keeps(a, b) /\ Keeps(b, a) => a.sig = b.sig
  <1>1. /\ a.seq \in Nat /\ b.seq \in Nat /\ c.seq \in Nat
        /\ a.sig \in Nat /\ b.sig \in Nat /\ c.sig \in Nat
    BY SigsAreOrdered DEF Entitlement
  <1>2. QED
    BY <1>1 DEF Keeps

\* NoEntitlement is not an envelope.
LEMMA NoEntitlementIsNone == NoEntitlement \notin Entitlement
  <1>1. ASSUME NoEntitlement \in Entitlement PROVE FALSE
    <2>1. DOMAIN NoEntitlement = {"sub", "seq", "sealed", "sig"}
      BY <1>1 DEF Entitlement
    <2>2. DOMAIN NoEntitlement = {"sub"}
      BY DEF NoEntitlement
    <2>3. QED
      BY <2>1, <2>2
  <1>2. QED
    BY <1>1

-------------------------------------------------------------------------------
\* The contract's functions

\* What join returns for one subscriber.
LEMMA JoinAt ==
    ASSUME NEW a \in Register, NEW b \in Register, NEW s \in Subs
    PROVE  /\ b[s] = NoEntitlement => join(a, b)[s] = a[s]
           /\ a[s] = NoEntitlement => join(a, b)[s] = b[s]
           /\ a[s] # NoEntitlement /\ b[s] # NoEntitlement /\ Keeps(a[s], b[s])
                  => join(a, b)[s] = a[s]
           /\ b[s] # NoEntitlement /\ ~ Keeps(a[s], b[s]) => join(a, b)[s] \in {a[s], b[s]}
           /\ a[s] # NoEntitlement /\ b[s] # NoEntitlement /\ ~ Keeps(a[s], b[s])
                  => join(a, b)[s] = b[s]
  BY DEF join

LEMMA JoinType ==
    ASSUME NEW a \in Register, NEW b \in Register
    PROVE  join(a, b) \in Register
  BY DEF join, Register

\* The join of the best of two sets is the best of their union.
LEMMA JoinOfBests ==
    ASSUME NEW a, NEW b, NEW S, NEW T, BestOf(a, S), BestOf(b, T)
    PROVE  BestOf(join(a, b), S \cup T)
  <1> DEFINE j == join(a, b)
  <1>1. /\ a \in Register /\ b \in Register
        /\ S \subseteq Entitlement /\ T \subseteq Entitlement
    BY DEF BestOf
  <1>2. j \in Register /\ S \cup T \subseteq Entitlement
    BY <1>1, JoinType
  <1>3. ASSUME NEW s \in Held(j)
        PROVE  j[s].sub = s /\ j[s] \in S \cup T
    <2>1. s \in Subs /\ j[s] # NoEntitlement
      BY <1>3 DEF Held
    <2>2. \/ j[s] = a[s] /\ s \in Held(a)
          \/ j[s] = b[s] /\ s \in Held(b)
      BY <2>1, <1>1 DEF join, Held
    <2>3. QED
      BY <2>2 DEF BestOf
  <1>4. ASSUME NEW e \in S \cup T
        PROVE  j[e.sub] # NoEntitlement /\ Keeps(j[e.sub], e)
    <2> DEFINE s == e.sub
    <2>1. e \in Entitlement /\ s \in Subs
      BY <1>1 DEF Entitlement
    <2>2. \/ a[s] # NoEntitlement /\ Keeps(a[s], e)
          \/ b[s] # NoEntitlement /\ Keeps(b[s], e)
      BY DEF BestOf
    <2>3. /\ a[s] # NoEntitlement => a[s] \in Entitlement
          /\ b[s] # NoEntitlement => b[s] \in Entitlement
      BY <1>1, <2>1 DEF Register
    <2>4. CASE a[s] # NoEntitlement /\ b[s] # NoEntitlement
      <3>1. CASE Keeps(a[s], b[s])
        <4>1. j[s] = a[s]
          BY <2>4, <3>1, <1>1, <2>1, JoinAt
        <4>2. Keeps(a[s], e)
          BY <2>2, <2>3, <2>4, <2>1, <3>1, KeepsIsTotalOrder
        <4>3. QED
          BY <4>1, <4>2, <2>4
      <3>2. CASE ~ Keeps(a[s], b[s])
        <4>1. j[s] = b[s]
          BY <2>4, <3>2, <1>1, <2>1, JoinAt
        <4>2. Keeps(b[s], a[s])
          BY <2>3, <2>4, <3>2, KeepsIsTotalOrder
        <4>3. Keeps(b[s], e)
          BY <2>2, <2>3, <2>4, <2>1, <4>2, KeepsIsTotalOrder
        <4>4. QED
          BY <4>1, <4>3, <2>4
      <3>3. QED
        BY <3>1, <3>2
    <2>5. CASE b[s] = NoEntitlement
      BY <2>5, <2>2, <1>1, <2>1, JoinAt
    <2>6. CASE a[s] = NoEntitlement
      BY <2>6, <2>2, <1>1, <2>1, JoinAt
    <2>7. QED
      BY <2>4, <2>5, <2>6
  <1>5. QED
    BY <1>2, <1>3, <1>4 DEF BestOf

\* A set of envelopes has one best register.
LEMMA BestIsUnique ==
    ASSUME NEW a, NEW b, NEW S \in SUBSET Envelopes, BestOf(a, S), BestOf(b, S)
    PROVE  a = b
  <1>1. a \in Register /\ b \in Register /\ S \subseteq Entitlement
    BY DEF BestOf
  <1>2. ASSUME NEW s \in Subs PROVE a[s] = b[s]
    <2>1. CASE a[s] # NoEntitlement
      <3>1. a[s] \in S /\ a[s].sub = s
        BY <2>1, <1>2 DEF BestOf, Held
      <3>2. b[s] # NoEntitlement /\ Keeps(b[s], a[s])
        BY <3>1 DEF BestOf
      <3>3. b[s] \in S /\ b[s].sub = s
        BY <3>2, <1>2 DEF BestOf, Held
      <3>4. Keeps(a[s], b[s])
        BY <3>3 DEF BestOf
      <3>5. a[s].sig = b[s].sig
        BY <3>1, <3>2, <3>3, <3>4, <1>1, KeepsIsTotalOrder
      <3>6. QED
        BY <3>5, <3>1, <3>3, SignaturesCommit
    <2>2. CASE b[s] # NoEntitlement
      <3>1. b[s] \in S /\ b[s].sub = s
        BY <2>2, <1>2 DEF BestOf, Held
      <3>2. a[s] # NoEntitlement
        BY <3>1 DEF BestOf
      <3>3. QED
        BY <3>2, <2>1
    <2>3. QED
      BY <2>1, <2>2
  <1>3. QED
    BY <1>1, <1>2 DEF Register

\* A document parse_checked accepts carries signed envelopes only, and the
\* register it stands for is the best of them.
LEMMA ParsedIsBest ==
    ASSUME NEW ok \in SUBSET Envelopes, NEW doc \in Document, parse_checked(doc, ok)
    PROVE  /\ ToSet(doc.entitlements) \subseteq ok
           /\ BestOf(Parsed(doc), ToSet(doc.entitlements))
  <1> DEFINE list == doc.entitlements
             D == ToSet(list)
  <1>1. list \in Seq(Envelopes) /\ DOMAIN list = 1..Len(list)
    BY DEF Document
  <1>2. D \subseteq ok
    BY <1>1 DEF parse_checked, verify, ToSet
  <1>3. D \subseteq Entitlement
    BY <1>2, EnvelopesAreTyped
  <1>4. \A e, f \in D : e.sub = f.sub => e = f
    <2>1. SUFFICES ASSUME NEW i \in 1..Len(list), NEW j \in 1..Len(list),
                          list[i].sub = list[j].sub
                   PROVE  i = j
      BY <1>1 DEF ToSet
    <2>2. \A k \in 1..Len(list) : list[k].sub \in Nat
      <3>1. \A k \in 1..Len(list) : list[k] \in D
        BY <1>1 DEF ToSet
      <3>2. \A e \in D : e.sub \in Nat
        BY <1>3, SubsAreOrdered DEF Entitlement
      <3>3. QED
        BY <3>1, <3>2
    <2>3. ~ (i < j) /\ ~ (j < i)
      BY <2>1, <2>2 DEF parse_checked, StrictlyAscending
    <2>4. Len(list) \in Nat
      BY <1>1
    <2>5. QED
      BY <2>3, <2>4
  <1>5. ASSUME NEW e \in D PROVE Parsed(doc)[e.sub] = e
    BY <1>5, <1>4, <1>3 DEF Parsed, Entitlement
  <1>6. ASSUME NEW s \in Held(Parsed(doc))
        PROVE  \E e \in D : e.sub = s /\ Parsed(doc)[s] = e
    BY <1>6, <1>5 DEF Parsed, Held
  <1>7. Parsed(doc) \in Register
    <2>1. \A s \in Subs : Parsed(doc)[s] \in Entitlement \cup {NoEntitlement}
      BY <1>6, <1>3 DEF Held
    <2>2. Parsed(doc) = [s \in Subs |-> Parsed(doc)[s]]
      BY DEF Parsed
    <2>3. QED
      BY <2>1, <2>2 DEF Register
  <1>8. \A e \in D : Parsed(doc)[e.sub] # NoEntitlement /\ Keeps(Parsed(doc)[e.sub], e)
    BY <1>5, <1>3, NoEntitlementIsNone, KeepsIsTotalOrder
  <1>9. QED
    BY <1>2, <1>3, <1>6, <1>7, <1>8 DEF BestOf

\* A delta is the best of its own entries, all of them the sender's.
LEMMA DeltaIsBest ==
    ASSUME NEW reg, NEW S, BestOf(reg, S), NEW summary
    PROVE  /\ Entries(get_state_delta(reg, summary)) \subseteq S
           /\ BestOf(get_state_delta(reg, summary), Entries(get_state_delta(reg, summary)))
  <1> DEFINE delta == get_state_delta(reg, summary)
             sent == Entries(delta)
  <1>1. reg \in Register /\ S \subseteq Entitlement
    BY DEF BestOf
  <1>2. delta \in Register
    BY <1>1 DEF get_state_delta, Register
  <1>3. \A s \in Held(delta) : s \in Held(reg) /\ delta[s] = reg[s]
    BY DEF get_state_delta, Held
  <1>4. \A s \in Held(delta) : delta[s].sub = s /\ delta[s] \in S
    BY <1>3 DEF BestOf
  <1>5. \A e \in sent : delta[e.sub] # NoEntitlement /\ Keeps(delta[e.sub], e)
    <2>1. SUFFICES ASSUME NEW s \in Held(delta)
                   PROVE  Keeps(delta[s], delta[s])
      BY <1>4 DEF Held, Entries
    <2>2. QED
      BY <1>4, <1>1, KeepsIsTotalOrder
  <1>6. QED
    BY <1>1, <1>2, <1>4, <1>5 DEF BestOf, Entries

\* A join never loses what the register held.
LEMMA JoinNeverDowngrades ==
    ASSUME NEW a \in Register, NEW b \in Register, NEW s \in Held(a)
    PROVE  join(a, b)[s] # NoEntitlement /\ Keeps(join(a, b)[s], a[s])
  <1>1. s \in Subs /\ a[s] # NoEntitlement
    BY DEF Held
  <1>2. a[s] \in Entitlement /\ (b[s] # NoEntitlement => b[s] \in Entitlement)
    BY <1>1 DEF Register
  <1>3. CASE b[s] = NoEntitlement \/ Keeps(a[s], b[s])
    BY <1>1, <1>2, <1>3, JoinAt, KeepsIsTotalOrder
  <1>4. CASE b[s] # NoEntitlement /\ ~ Keeps(a[s], b[s])
    BY <1>1, <1>2, <1>4, JoinAt, KeepsIsTotalOrder
  <1>5. QED
    BY <1>3, <1>4

-------------------------------------------------------------------------------
\* The invariant

\* IInv read node by node.
LEMMA IInvIsBest ==
    IInv <=> /\ signed \subseteq Envelopes
             /\ register \in [Nodes -> Register]
             /\ seen \in [Nodes -> SUBSET signed]
             /\ \A n \in Nodes : BestOf(register[n], seen[n])
  <1>1. signed \subseteq Envelopes /\ seen \in [Nodes -> SUBSET signed]
            => \A n \in Nodes : seen[n] \subseteq Entitlement
    BY EnvelopesAreTyped
  <1>2. QED
    BY <1>1 DEF IInv, TypeOK, HoldsTheBest, BestOf

LEMMA InitIInv == Init => IInv
  <1> SUFFICES ASSUME Init PROVE IInv
    OBVIOUS
  <1>1. EmptyRegister \in Register /\ Held(EmptyRegister) = {}
    BY DEF EmptyRegister, Register, Held
  <1>2. QED
    BY <1>1 DEF Init, IInv, TypeOK, HoldsTheBest

\* A node that moves to the best of what it has seen and of T, and adds T to
\* what it has seen, keeps the invariant.
LEMMA MoveUp ==
    ASSUME IInv, NEW n \in Nodes, NEW reg, NEW T \in SUBSET signed,
           BestOf(reg, seen[n] \cup T),
           register' = [register EXCEPT ![n] = reg],
           seen' = [seen EXCEPT ![n] = @ \cup T],
           UNCHANGED signed
    PROVE  IInv'
  <1>1. reg \in Register
    BY DEF BestOf
  <1>2. /\ register' \in [Nodes -> Register] /\ seen' \in [Nodes -> SUBSET signed']
        /\ signed' \subseteq Envelopes
    BY <1>1, IInvIsBest
  <1>3. \A m \in Nodes : BestOf(register'[m], seen'[m])
    BY IInvIsBest
  <1>4. QED
    BY <1>2, <1>3 DEF IInv, TypeOK, HoldsTheBest, BestOf

\* Every step of Replicas preserves the invariant.
LEMMA StepIInv == IInv /\ [Next]_vars => IInv'
  <1> SUFFICES ASSUME IInv, [Next]_vars PROVE IInv'
    OBVIOUS
  <1>1. CASE \E e \in Envelopes : Sign(e)
    <2>1. /\ UNCHANGED <<register, seen>>
          /\ signed \subseteq signed' /\ signed' \subseteq Envelopes
      BY <1>1 DEF Sign, IInv, TypeOK
    <2>2. QED
      BY <2>1 DEF IInv, TypeOK, HoldsTheBest
  <1>2. CASE \E n \in Nodes : Deliver(n)
    <2>1. PICK n \in Nodes, first \in Document, second \in Document :
              Update(n, first, second)
      BY <1>2, BatchesAreTyped DEF Deliver
    <2> DEFINE S == ToSet(first.entitlements)
               T == ToSet(second.entitlements)
    <2>2. signed \in SUBSET Envelopes
      BY IInvIsBest
    <2>3. parse_checked(first, signed) /\ parse_checked(second, signed)
      BY <2>1 DEF Update, UpdateAccepted
    <2>4. /\ S \subseteq signed /\ BestOf(Parsed(first), S)
          /\ T \subseteq signed /\ BestOf(Parsed(second), T)
      BY <2>2, <2>3, ParsedIsBest
    <2>5. BestOf(register[n], seen[n])
      BY IInvIsBest
    <2>6. BestOf(update_state(register[n], first, second), (seen[n] \cup S) \cup T)
      BY <2>4, <2>5, JoinOfBests DEF update_state
    <2>7. BestOf(update_state(register[n], first, second), seen[n] \cup (S \cup T))
      <3>1. (seen[n] \cup S) \cup T = seen[n] \cup (S \cup T)
        OBVIOUS
      <3>2. QED
        BY <2>6, <3>1
    <2>8. /\ register' = [register EXCEPT ![n] = update_state(register[n], first, second)]
          /\ seen' = [seen EXCEPT ![n] = @ \cup (S \cup T)]
          /\ UNCHANGED signed
      <3>1. seen' = [seen EXCEPT ![n] = (@ \cup S) \cup T]
        BY <2>1 DEF Update
      <3>2. \A A : (A \cup S) \cup T = A \cup (S \cup T)
        OBVIOUS
      <3>3. QED
        BY <3>1, <3>2, <2>1 DEF Update
    <2> DEFINE given == S \cup T
               reg == update_state(register[n], first, second)
    <2>9. /\ given \in SUBSET signed /\ BestOf(reg, seen[n] \cup given)
          /\ register' = [register EXCEPT ![n] = reg]
          /\ seen' = [seen EXCEPT ![n] = @ \cup given]
          /\ UNCHANGED signed
      BY <2>4, <2>7, <2>8
    <2> HIDE DEF S, T, given, reg
    <2>10. QED
      BY <2>9, MoveUp
  <1>3. CASE \E from, to \in Nodes : Synchronise(from, to)
    <2>1. PICK from \in Nodes, to \in Nodes : Synchronise(from, to)
      BY <1>3
    <2> DEFINE delta == get_state_delta(register[from], summarize_state(register[to]))
               sent == Entries(delta)
    <2>2. BestOf(register[from], seen[from]) /\ seen[from] \subseteq signed
      BY IInvIsBest
    <2>3. sent \subseteq seen[from] /\ BestOf(delta, sent)
      BY <2>2, DeltaIsBest
    <2>4. BestOf(register[to], seen[to])
      BY IInvIsBest
    <2>5. BestOf(join(register[to], delta), seen[to] \cup sent)
      BY <2>3, <2>4, JoinOfBests
    <2>6. /\ register' = [register EXCEPT ![to] = join(register[to], delta)]
          /\ seen' = [seen EXCEPT ![to] = @ \cup sent]
          /\ UNCHANGED signed
      BY <2>1 DEF Synchronise
    <2>7. sent \in SUBSET signed
      BY <2>2, <2>3
    <2> DEFINE reg == join(register[to], delta)
    <2>8. BestOf(reg, seen[to] \cup sent) /\ register' = [register EXCEPT ![to] = reg]
      BY <2>5, <2>6
    <2> HIDE DEF delta, sent, reg
    <2>9. QED
      BY <2>6, <2>7, <2>8, MoveUp
  <1>4. CASE UNCHANGED vars
    BY <1>4 DEF vars, IInv, TypeOK, HoldsTheBest
  <1>5. QED
    BY <1>1, <1>2, <1>3, <1>4 DEF Next

LEMMA AlwaysIInv == Spec => []IInv
  BY InitIInv, StepIInv, PTL DEF Spec

-------------------------------------------------------------------------------
\* Writing a state

\* A document carries finitely many envelopes.
LEMMA DocumentsAreFinite ==
    ASSUME NEW doc \in Document
    PROVE  IsFiniteSet(ToSet(doc.entitlements))
  <1>1. DOMAIN doc.entitlements = 1..Len(doc.entitlements) /\ Len(doc.entitlements) \in Nat
    BY DEF Document
  <1>2. IsFiniteSet(DOMAIN doc.entitlements)
    BY <1>1, FS_Interval
  <1> QED
    BY <1>2, ImageIsFinite DEF ToSet

Finitely == \A n \in Nodes : IsFiniteSet(seen[n])

\* A step gives a node finitely many envelopes more.
LEMMA StepFinitely ==
    ASSUME IInv, Finitely, [Next]_vars
    PROVE  Finitely'
  <1>1. ASSUME NEW n \in Nodes, Deliver(n)
        PROVE  \E more : IsFiniteSet(more) /\ seen' = [seen EXCEPT ![n] = seen[n] \cup more]
    <2>1. PICK batch \in Batches : Update(n, batch[1], batch[2])
      BY <1>1 DEF Deliver
    <2> DEFINE first == ToSet(batch[1].entitlements)
               second == ToSet(batch[2].entitlements)
    <2>2. seen' = [seen EXCEPT ![n] = seen[n] \cup (first \cup second)]
      BY <2>1 DEF Update
    <2>3. batch[1] \in Document /\ batch[2] \in Document
      BY BatchesAreTyped
    <2>4. IsFiniteSet(first \cup second)
      BY <2>3, DocumentsAreFinite, FS_Union
    <2> QED
      BY <2>2, <2>4
  <1>2. ASSUME NEW from \in Nodes, NEW to \in Nodes, Synchronise(from, to)
        PROVE  \E more : IsFiniteSet(more) /\ seen' = [seen EXCEPT ![to] = seen[to] \cup more]
    <2> DEFINE sent == Entries(get_state_delta(register[from], summarize_state(register[to])))
    <2>1. seen' = [seen EXCEPT ![to] = seen[to] \cup sent]
      BY <1>2 DEF Synchronise
    <2>2. sent \subseteq seen[from]
      BY IInvIsBest, DeltaIsBest
    <2>3. IsFiniteSet(sent)
      BY <2>2, FS_Subset DEF Finitely
    <2> QED
      BY <2>1, <2>3
  <1>3. ASSUME NEW n \in Nodes, NEW more, IsFiniteSet(more),
               seen' = [seen EXCEPT ![n] = seen[n] \cup more]
        PROVE  Finitely'
    <2>1. IsFiniteSet(seen[n] \cup more)
      BY <1>3, FS_Union DEF Finitely
    <2>2. \A m \in Nodes : seen'[m] = IF m = n THEN seen[n] \cup more ELSE seen[m]
      BY <1>3 DEF IInv, TypeOK
    <2> QED
      BY <2>1, <2>2 DEF Finitely
  <1>4. CASE \E n \in Nodes : Deliver(n)
    BY <1>1, <1>3, <1>4
  <1>5. CASE \E from, to \in Nodes : Synchronise(from, to)
    BY <1>2, <1>3, <1>5
  <1>6. CASE UNCHANGED vars \/ \E e \in Envelopes : Sign(e)
    BY <1>6 DEF vars, Sign, Finitely
  <1> QED
    BY <1>4, <1>5, <1>6 DEF Next

\* A register that files signed envelopes each under its own subscriber, and
\* finitely many of them, is written as a document that is accepted: the order
\* of the keys is the order of the entries.
LEMMA WrittenIsRead ==
    ASSUME NEW reg \in Register, NEW ok, IsFiniteSet(Held(reg)),
           \A s \in Held(reg) : reg[s].sub = s /\ reg[s] \in ok
    PROVE  validate_state(serialize(reg), ok)
  <1> DEFINE InOrder(list) == \A i, j \in DOMAIN list : i < j => list[i] < list[j]
             keys == KeysOf(reg)
  <1>1. keys \in SetToSeqs(Held(reg)) /\ InOrder(keys)
    <2> DEFINE K == [s \in Held(reg) |-> s]
    <2>1. /\ \A s \in Held(reg) : K[s] = s /\ K[s] \in Int
          /\ \A s, t \in Held(reg) : K[s] = K[t] => s = t
      BY SubsAreOrdered DEF Held
    <2> HIDE DEF K
    <2>2. PICK list \in SetToSeqs(Held(reg)) :
              \A i, j \in DOMAIN list : i < j => K[list[i]] < K[list[j]]
      BY <2>1, ListingExists
    <2>3. \A i \in DOMAIN list : list[i] \in Held(reg)
      BY ListingFacts
    <2>4. InOrder(list)
      BY <2>1, <2>2, <2>3
    <2> QED
      BY <2>2, <2>4 DEF KeysOf
  <1> HIDE DEF keys
  <1> DEFINE written == [i \in DOMAIN keys |-> reg[keys[i]]]
  <1>2. /\ DOMAIN keys = 1..Len(keys) /\ Len(keys) \in Nat
        /\ \A i \in 1..Len(keys) : keys[i] \in Held(reg)
    BY <1>1, ListingFacts
  <1>3. Len(written) = Len(keys)
    BY <1>2
  <1>4. \A i \in 1..Len(keys) : written[i].sub = keys[i] /\ written[i] \in ok
    BY <1>2
  <1> HIDE DEF written
  <1>5. StrictlyAscending(written) /\ \A i \in 1..Len(written) : verify(written[i], ok)
    BY <1>1, <1>2, <1>3, <1>4 DEF StrictlyAscending, verify
  <1>6. serialize(reg) = [v |-> FORMAT_VERSION, entitlements |-> written]
    BY DEF serialize, written, keys
  <1> QED
    BY <1>5, <1>6 DEF validate_state, parse_checked

-------------------------------------------------------------------------------
\* The theorems

\* Every variable keeps its type, and only envelopes the gatekeeper signed are
\* ever held, each under its own subscriber.
THEOREM TypeCorrect == Spec => []TypeOK
  <1>1. IInv => TypeOK
    BY DEF IInv
  <1>2. QED
    BY <1>1, AlwaysIInv, PTL

\* A node holds, for each subscriber, the best of the envelopes it was given.
THEOREM BestIsHeld == Spec => []HoldsTheBest
  <1>1. IInv => HoldsTheBest
    BY DEF IInv
  <1>2. QED
    BY <1>1, AlwaysIInv, PTL

\* Nodes given the same envelopes hold the same register, whatever the order,
\* the grouping and the repetitions they arrived in.
THEOREM Converges == Spec => []Convergence
  <1>1. IInv => Convergence
    <2> SUFFICES ASSUME IInv, NEW n \in Nodes, NEW m \in Nodes, seen[n] = seen[m]
                 PROVE  register[n] = register[m]
      BY DEF Convergence
    <2>1. /\ BestOf(register[n], seen[n]) /\ BestOf(register[m], seen[n])
          /\ seen[n] \in SUBSET Envelopes
      BY IInvIsBest
    <2>2. QED
      BY <2>1, BestIsUnique
  <1>2. QED
    BY <1>1, AlwaysIInv, PTL

\* No step makes a node forget a subscriber or hold a losing envelope.
THEOREM NoDowngrade == Spec => DowngradeFree
  <1>1. IInv /\ [Next]_vars => [NeverDowngraded]_vars
    <2> SUFFICES ASSUME IInv, Next, NEW n \in Nodes, NEW s \in Held(register[n])
                 PROVE  /\ register'[n][s] # NoEntitlement
                        /\ Keeps(register'[n][s], register[n][s])
      BY DEF NeverDowngraded
    <2>1. register \in [Nodes -> Register] /\ s \in Subs /\ register[n][s] # NoEntitlement
      BY DEF IInv, TypeOK, Held
    <2>2. register[n] \in Register /\ register[n][s] \in Entitlement
      BY <2>1 DEF Register
    <2>3. CASE register' = register
      BY <2>1, <2>2, <2>3, KeepsIsTotalOrder
    <2>4. CASE \E m \in Nodes : Deliver(m)
      <3>1. PICK m \in Nodes, first \in Document, second \in Document :
                Update(m, first, second)
        BY <2>4, BatchesAreTyped DEF Deliver
      <3>2. /\ Parsed(first) \in Register /\ Parsed(second) \in Register
        <4>1. signed \in SUBSET Envelopes /\ parse_checked(first, signed)
              /\ parse_checked(second, signed)
          BY <3>1, IInvIsBest DEF Update, UpdateAccepted
        <4>2. QED
          BY <4>1, ParsedIsBest DEF BestOf
      <3> DEFINE mid == join(register[n], Parsed(first))
                 end == join(mid, Parsed(second))
      <3>3. /\ mid \in Register
            /\ mid[s] # NoEntitlement /\ Keeps(mid[s], register[n][s])
        BY <3>2, <2>2, JoinType, JoinNeverDowngrades
      <3>4. end[s] # NoEntitlement /\ Keeps(end[s], mid[s]) /\ end \in Register
        <4>1. s \in Held(mid)
          BY <3>3, <2>1 DEF Held
        <4>2. QED
          BY <4>1, <3>2, <3>3, JoinType, JoinNeverDowngrades
      <3>5. mid[s] \in Entitlement /\ end[s] \in Entitlement
        BY <3>3, <3>4, <2>1 DEF Register
      <3>6. Keeps(end[s], register[n][s])
        BY <3>3, <3>4, <3>5, <2>2, KeepsIsTotalOrder
      <3>7. register'[n] = IF n = m THEN end ELSE register[n]
        BY <3>1, <2>1 DEF Update, update_state
      <3>8. QED
        BY <3>4, <3>6, <3>7, <2>1, <2>2, KeepsIsTotalOrder
    <2>5. CASE \E from, to \in Nodes : Synchronise(from, to)
      <3>1. PICK from \in Nodes, to \in Nodes : Synchronise(from, to)
        BY <2>5
      <3> DEFINE delta == get_state_delta(register[from], summarize_state(register[to]))
      <3>2. delta \in Register
        BY <2>1 DEF get_state_delta, Register
      <3>3. register'[n] = IF n = to THEN join(register[n], delta) ELSE register[n]
        BY <3>1, <2>1 DEF Synchronise
      <3>4. QED
        BY <3>2, <3>3, <2>1, <2>2, JoinNeverDowngrades, KeepsIsTotalOrder
    <2>6. QED
      BY <2>3, <2>4, <2>5 DEF Next, Sign
  <1>2. QED
    BY <1>1, AlwaysIInv, PTL DEF Spec, DowngradeFree

\* A delta that answers a node's summary leaves it, for every subscriber, at
\* least at the sender's seq.
THEOREM SummaryLosesOnlyTies == Spec => SummariesCatchUp
  <1>1. IInv => [\A from, to \in Nodes : Synchronise(from, to) => CaughtUp(from, to)]_vars
    <2> SUFFICES ASSUME IInv, NEW from \in Nodes, NEW to \in Nodes,
                        Synchronise(from, to), NEW s \in Held(register[from])
                 PROVE  /\ register'[to][s] # NoEntitlement
                        /\ register'[to][s].seq >= register[from][s].seq
      BY DEF CaughtUp
    <2> DEFINE mine == register[to]
               theirs == register[from]
               delta == get_state_delta(theirs, summarize_state(mine))
               got == join(mine, delta)
    <2>1. /\ mine \in Register /\ theirs \in Register /\ delta \in Register
          /\ got \in Register
      <3>1. mine \in Register /\ theirs \in Register
        BY DEF IInv, TypeOK
      <3>2. delta \in Register
        BY <3>1 DEF get_state_delta, Register
      <3>3. QED
        BY <3>1, <3>2, JoinType
    <2>2. register'[to] = got
      BY <2>1, IInvIsBest DEF Synchronise
    <2>3. s \in Subs /\ theirs[s] # NoEntitlement /\ theirs[s] \in Entitlement
      BY <2>1 DEF Held, Register
    <2>4. \/ delta[s] = theirs[s]
          \/ mine[s] # NoEntitlement /\ ~ (theirs[s].seq > mine[s].seq)
      BY <2>3 DEF get_state_delta, summarize_state, Held
    <2>5. mine[s] # NoEntitlement => mine[s] \in Entitlement
      BY <2>1, <2>3 DEF Register
    <2>6. CASE delta[s] = theirs[s]
      <3>1. got[s] # NoEntitlement /\ Keeps(got[s], theirs[s])
        BY <2>6, <2>1, <2>3, <2>5, JoinAt, KeepsIsTotalOrder
      <3>2. got[s] \in Entitlement
        BY <3>1, <2>1, <2>3 DEF Register
      <3>3. QED
        BY <3>1, <3>2, <2>2, <2>3 DEF Keeps, Entitlement
    <2>7. CASE mine[s] # NoEntitlement /\ ~ (theirs[s].seq > mine[s].seq)
      <3>1. got[s] # NoEntitlement /\ Keeps(got[s], mine[s])
        BY <2>7, <2>1, <2>3, JoinNeverDowngrades DEF Held
      <3>2. got[s] \in Entitlement
        BY <3>1, <2>1, <2>3 DEF Register
      <3>3. QED
        BY <3>1, <3>2, <2>2, <2>3, <2>5, <2>7 DEF Keeps, Entitlement
    <2>8. QED
      BY <2>4, <2>6, <2>7
  <1>2. QED
    BY <1>1, AlwaysIInv, PTL DEF Spec, SummariesCatchUp

\* Everything a node writes is a state that parse_checked and validate_state
\* accept again: no sequence of updates and rounds leaves a node with a register
\* that itself or any other node would refuse.
THEOREM StatesDoValidate == Spec => []StatesValidate
  <1>1. Init => Finitely
    BY FS_EmptySet DEF Init, Finitely
  <1>2. IInv /\ Finitely => StatesValidate
    <2> SUFFICES ASSUME IInv, Finitely, NEW n \in Nodes
                 PROVE  validate_state(serialize(register[n]), signed)
      BY DEF StatesValidate
    <2> DEFINE reg == register[n]
    <2>1. BestOf(reg, seen[n]) /\ seen[n] \subseteq signed /\ IsFiniteSet(seen[n])
      BY IInvIsBest DEF Finitely
    <2>2. reg \in Register /\ \A s \in Held(reg) : reg[s].sub = s /\ reg[s] \in seen[n]
      BY <2>1 DEF BestOf
    <2> DEFINE sub == [e \in seen[n] |-> e.sub]
    <2>3. \A s \in Held(reg) : \E e \in seen[n] : s = sub[e]
      BY <2>2
    <2>4. IsFiniteSet(Held(reg))
      <3> HIDE DEF sub, reg
      <3>1. IsFiniteSet({sub[e] : e \in seen[n]})
        BY <2>1, ImageIsFinite
      <3> QED
        BY <2>3, <3>1, FS_Subset
    <2> HIDE DEF reg
    <2>5. validate_state(serialize(reg), signed)
      BY <2>1, <2>2, <2>4, WrittenIsRead
    <2> QED
      BY <2>5 DEF reg
  <1> QED
    BY <1>1, <1>2, AlwaysIInv, StepFinitely, PTL DEF Spec
===============================================================================
