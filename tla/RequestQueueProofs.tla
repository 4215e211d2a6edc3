-------------------------- MODULE RequestQueueProofs --------------------------
(***************************************************************************)
(* Proofs about RequestQueue, for any nodes, references, documents and cap.*)
(* RequestQueue!TypeOK and KeepsAllThatFits are inductive, the second on   *)
(* top of the first; that a round catches up, and that whatever is written *)
(* can be read again, follow from the types.                               *)
(***************************************************************************)
EXTENDS RequestQueue, Collections

\* References somebody may pay, few enough to be written as a state.
Payable(set) == set \subseteq References /\ \A r \in set : well_formed(r)

-------------------------------------------------------------------------------
\* Sets of references

\* A subset of a set of references within the cap is within the cap too.
LEMMA SubsetsFit ==
    ASSUME NEW S \in SUBSET References, NEW T \in SUBSET S
    PROVE  /\ Cardinality(S) \in Nat /\ Cardinality(T) \in Nat
           /\ Cardinality(S) <= MAX_ENTRIES => Cardinality(T) <= MAX_ENTRIES
  <1>1. IsFiniteSet(S)
    BY ReferencesAreTyped, FS_Subset
  <1>2. IsFiniteSet(T) /\ Cardinality(T) <= Cardinality(S)
    BY <1>1, FS_Subset
  <1>3. Cardinality(S) \in Nat /\ Cardinality(T) \in Nat
    BY <1>1, <1>2, FS_CardinalityType
  <1>4. QED
    BY <1>2, <1>3, CapIsNatural

\* What a document that parses brings can be paid.
LEMMA ParsedIsPayable ==
    ASSUME NEW doc \in Document, parse(doc)
    PROVE  Payable(ToSet(doc.refs))
  <1>1. doc.refs \in Seq(References)
    BY DEF Document
  <1>2. \A i \in 1..Len(doc.refs) : doc.refs[i] \in References /\ well_formed(doc.refs[i])
    BY <1>1 DEF parse
  <1>3. DOMAIN doc.refs = 1..Len(doc.refs)
    BY <1>1
  <1>4. QED
    BY <1>2, <1>3 DEF Payable, ToSet

\* Whoever calls it, an update is handed references that can be paid.
LEMMA HandedIsPayable ==
    ASSUME TypeOK, Next
    PROVE  \E n \in Nodes, more \in SUBSET References : Payable(more) /\ Take(n, more)
  <1>1. ASSUME NEW n \in Nodes, Deliver(n)
        PROVE  \E more \in SUBSET References : Payable(more) /\ Take(n, more)
    <2>1. PICK batch \in Batches :
              /\ parse(batch[1]) /\ parse(batch[2])
              /\ Take(n, ToSet(batch[1].refs) \cup ToSet(batch[2].refs))
      BY <1>1 DEF Deliver
    <2>2. batch[1] \in Document /\ batch[2] \in Document
      BY BatchesAreTyped
    <2>3. Payable(ToSet(batch[1].refs)) /\ Payable(ToSet(batch[2].refs))
      BY <2>1, <2>2, ParsedIsPayable
    <2>4. Payable(ToSet(batch[1].refs) \cup ToSet(batch[2].refs))
      BY <2>3 DEF Payable
    <2>5. QED
      BY <2>1, <2>4 DEF Payable
  <1>2. ASSUME NEW from \in Nodes, NEW to \in Nodes, Synchronise(from, to)
        PROVE  \E more \in SUBSET References : Payable(more) /\ Take(to, more)
    <2>1. PICK summary \in {queue[to], {}} : Take(to, get_state_delta(queue[from], summary))
      BY <1>2 DEF Synchronise
    <2>2. Payable(queue[from])
      BY DEF TypeOK, Payable
    <2>3. Payable(get_state_delta(queue[from], summary))
      BY <2>2 DEF Payable, get_state_delta
    <2>4. QED
      BY <2>1, <2>3 DEF Payable
  <1>3. QED
    BY <1>1, <1>2 DEF Next

-------------------------------------------------------------------------------
\* Steps

\* An update leaves every queue payable and within the cap.
LEMMA TypeStep ==
    ASSUME TypeOK, NEW n \in Nodes, NEW more \in SUBSET References, Payable(more), Take(n, more)
    PROVE  TypeOK'
  <1>1. /\ queue' = [queue EXCEPT ![n] = update_state(queue[n], more)]
        /\ offered' = [offered EXCEPT ![n] = offered[n] \cup more]
    BY DEF Take
  <1>2. update_state(queue[n], more) \in SUBSET References
    BY DEF TypeOK, update_state
  <1>3. /\ Cardinality(update_state(queue[n], more)) <= MAX_ENTRIES
        /\ \A r \in update_state(queue[n], more) : well_formed(r)
    BY DEF TypeOK, update_state, Fits, Payable
  <1>4. queue' \in [Nodes -> SUBSET References] /\ offered' \in [Nodes -> SUBSET References]
    BY <1>1, <1>2 DEF TypeOK
  <1>5. ASSUME NEW m \in Nodes
        PROVE  Cardinality(queue'[m]) <= MAX_ENTRIES /\ \A r \in queue'[m] : well_formed(r)
    <2>1. CASE m = n
      BY <1>1, <1>3, <2>1 DEF TypeOK
    <2>2. CASE m # n
      BY <1>1, <2>2 DEF TypeOK
    <2>3. QED
      BY <2>1, <2>2
  <1>6. QED
    BY <1>4, <1>5 DEF TypeOK

\* An update keeps what the node was handed before, and takes what is new if
\* everything it was ever handed fits.
LEMMA KeepsStep ==
    ASSUME TypeOK, KeepsAllThatFits,
           NEW n \in Nodes, NEW more \in SUBSET References, Take(n, more)
    PROVE  KeepsAllThatFits'
  <1>1. /\ queue' = [queue EXCEPT ![n] = update_state(queue[n], more)]
        /\ offered' = [offered EXCEPT ![n] = offered[n] \cup more]
    BY DEF Take
  <1>2. queue[n] \subseteq offered[n] /\ offered[n] \cup more \in SUBSET References
    BY DEF TypeOK, KeepsAllThatFits
  <1>3. update_state(queue[n], more) \subseteq offered[n] \cup more
    BY <1>2 DEF update_state
  <1>4. ASSUME Cardinality(offered[n] \cup more) <= MAX_ENTRIES
        PROVE  update_state(queue[n], more) = offered[n] \cup more
    <2>1. Cardinality(offered[n]) <= MAX_ENTRIES
      BY <1>2, <1>4, SubsetsFit
    <2>2. queue[n] = offered[n]
      BY <2>1 DEF KeepsAllThatFits
    <2>3. QED
      BY <1>4, <2>2 DEF update_state, Fits
  <1>5. ASSUME NEW m \in Nodes
        PROVE  /\ queue'[m] \subseteq offered'[m]
               /\ Cardinality(offered'[m]) <= MAX_ENTRIES => queue'[m] = offered'[m]
    <2>1. CASE m = n
      <3>1. queue'[m] = update_state(queue[n], more) /\ offered'[m] = offered[n] \cup more
        BY <1>1, <2>1 DEF TypeOK
      <3>2. QED
        BY <1>3, <1>4, <3>1
    <2>2. CASE m # n
      <3>1. queue'[m] = queue[m] /\ offered'[m] = offered[m]
        BY <1>1, <2>2 DEF TypeOK
      <3>2. QED
        BY <3>1 DEF KeepsAllThatFits
    <2>3. QED
      BY <2>1, <2>2
  <1>6. QED
    BY <1>5 DEF KeepsAllThatFits

\* One round brings the receiver all that the sender had if both queues fit
\* together, and takes nothing away.
LEMMA RoundStep ==
    ASSUME TypeOK, Next, NEW from \in Nodes, NEW to \in Nodes
    PROVE  /\ Synchronise(from, to) /\ Fits(queue[from], queue[to])
                => queue[from] \subseteq queue'[to]
           /\ queue[to] \subseteq queue'[to]
  <1>1. ASSUME Synchronise(from, to), Fits(queue[from], queue[to])
        PROVE  queue[from] \subseteq queue'[to]
    <2>1. PICK summary \in {queue[to], {}} : Take(to, get_state_delta(queue[from], summary))
      BY <1>1 DEF Synchronise
    <2>2. queue[to] \cup get_state_delta(queue[from], summary) = queue[from] \cup queue[to]
      BY DEF get_state_delta
    <2>3. update_state(queue[to], get_state_delta(queue[from], summary)) = queue[from] \cup queue[to]
      BY <1>1, <2>2 DEF update_state, Fits
    <2>4. queue'[to] = update_state(queue[to], get_state_delta(queue[from], summary))
      BY <2>1 DEF Take, TypeOK
    <2>5. QED
      BY <2>3, <2>4
  <1>2. queue[to] \subseteq queue'[to]
    <2>1. PICK n \in Nodes, more \in SUBSET References : Take(n, more)
      BY HandedIsPayable
    <2>2. queue' = [queue EXCEPT ![n] = update_state(queue[n], more)]
      BY <2>1 DEF Take
    <2>3. queue[n] \subseteq update_state(queue[n], more)
      BY DEF update_state
    <2>4. QED
      BY <2>2, <2>3 DEF TypeOK
  <1>3. QED
    BY <1>1, <1>2

-------------------------------------------------------------------------------
\* Writing a state

\* References that can be paid, within the cap, are written as a document that
\* is accepted: a reference's place among the strings tells it apart.
LEMMA WrittenIsRead ==
    ASSUME NEW set \in SUBSET References, Payable(set), Cardinality(set) <= MAX_ENTRIES
    PROVE  validate_state(serialize(set))
  <1> DEFINE InOrder(list) == \A i, j \in DOMAIN list : i < j => list[i].id < list[j].id
             list == serialize(set).refs
  <1>1. IsFiniteSet(set)
    BY ReferencesAreTyped, FS_Subset
  <1>2. list \in SetToSeqs(set) /\ InOrder(list)
    <2> DEFINE K == [r \in set |-> r.id]
    <2>1. /\ \A r \in set : K[r] = r.id /\ K[r] \in Int
          /\ \A r, s \in set : K[r] = K[s] => r = s
      BY ReferencesAreTyped, IdsAreStrings DEF Reference
    <2> HIDE DEF K
    <2>2. PICK l \in SetToSeqs(set) : \A i, j \in DOMAIN l : i < j => K[l[i]] < K[l[j]]
      BY <1>1, <2>1, ListingExists
    <2>3. \A i \in DOMAIN l : l[i] \in set
      BY <1>1, ListingFacts
    <2>4. InOrder(l)
      BY <2>1, <2>2, <2>3
    <2> QED
      BY <2>2, <2>4 DEF serialize
  <1>3. serialize(set).v = FORMAT_VERSION
    BY DEF serialize
  <1> HIDE DEF list
  <1>4. /\ DOMAIN list = 1..Len(list) /\ Len(list) = Cardinality(set)
        /\ \A i \in 1..Len(list) : list[i] \in set
    BY <1>1, <1>2, ListingFacts
  <1>5. \A i \in 1..Len(list) : well_formed(list[i])
    BY <1>4 DEF Payable
  <1>6. serialize(set).refs = list
    BY DEF list
  <1> QED
    BY <1>2, <1>3, <1>4, <1>5, <1>6 DEF validate_state, parse

-------------------------------------------------------------------------------
\* Theorems

\* Whoever writes, and however nodes synchronise, a queue holds only
\* references that can be paid, and never more than the cap.
THEOREM TypeCorrect == Spec => []TypeOK
  <1>1. Init => TypeOK
    <2>1. Cardinality({}) = 0
      BY FS_EmptySet
    <2>2. QED
      BY <2>1, CapIsNatural DEF Init, TypeOK
  <1>2. TypeOK /\ [Next]_vars => TypeOK'
    <2>1. CASE Next
      BY <2>1, HandedIsPayable, TypeStep
    <2>2. CASE UNCHANGED vars
      BY <2>2 DEF vars, TypeOK
    <2>3. QED
      BY <2>1, <2>2
  <1>3. QED
    BY <1>1, <1>2, PTL DEF Spec

\* A node holds nothing it was not handed, and all it was handed as long as
\* that fits under the cap.
THEOREM NothingThatFitsIsLost == Spec => []KeepsAllThatFits
  <1>1. Init => KeepsAllThatFits
    BY DEF Init, KeepsAllThatFits
  <1>2. TypeOK /\ KeepsAllThatFits /\ [Next]_vars => KeepsAllThatFits'
    <2>1. CASE Next
      BY <2>1, HandedIsPayable, KeepsStep
    <2>2. CASE UNCHANGED vars
      BY <2>2 DEF vars, KeepsAllThatFits
    <2>3. QED
      BY <2>1, <2>2
  <1>3. QED
    BY <1>1, <1>2, TypeCorrect, PTL DEF Spec

\* After one round two nodes whose queues fit together agree on all the sender
\* had, even if the summary could not be read, and no step removes anything.
THEOREM RoundsDoCatchUp == Spec => RoundsCatchUp
  <1>1. TypeOK /\ [Next]_vars =>
          [\A from, to \in Nodes :
              /\ Synchronise(from, to) /\ Fits(queue[from], queue[to])
                    => queue[from] \subseteq queue'[to]
              /\ queue[to] \subseteq queue'[to]]_vars
    BY RoundStep
  <1>2. QED
    BY <1>1, TypeCorrect, PTL DEF Spec, RoundsCatchUp

\* What update_state writes, parse and validate_state accept again, on every
\* node and whatever it was handed: a full queue stays readable.
THEOREM QueuesDoValidate == Spec => []QueuesValidate
  <1>1. TypeOK => QueuesValidate
    BY WrittenIsRead DEF TypeOK, QueuesValidate, Payable
  <1> QED
    BY <1>1, TypeCorrect, PTL
===============================================================================
