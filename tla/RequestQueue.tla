---------------------------- MODULE RequestQueue ----------------------------
(***************************************************************************)
(* The request queue contract, contract-requests/src/lib.rs, on several    *)
(* Freenet nodes: a grow-only set of references to orders that strangers   *)
(* would like the house to pay, with a cap.                                *)
(*                                                                         *)
(* A reference is a string.  What well_formed asks of it is kept as        *)
(* fields; `id' is its place in the order of strings.  A document is the   *)
(* JSON of a Queue: the empty byte string is the document without          *)
(* references, and bytes serde cannot read are a document of another       *)
(* version, since both are refused alike.                                  *)
(*                                                                         *)
(* As in Replicas, the network may hand any node anything at any time, and *)
(* any two nodes may run one round of summary and delta.                   *)
(***************************************************************************)
EXTENDS Naturals, Sequences, FiniteSets, SequencesExt

CONSTANTS
    Nodes,         \* peers that cache the contract
    References,    \* every string anybody may write
    Batches,       \* the pairs of documents an update call may be handed
    MAX_ENTRIES    \* 2000 in the code

MAX_REFERENCE == 128

FORMAT_VERSION == 1

Reference == [id : Nat, len : Nat, prefixed : BOOLEAN, parts : Nat, clean : BOOLEAN]

Document == [v : Nat, refs : Seq(References)]

ASSUME ReferencesAreTyped == References \subseteq Reference /\ IsFiniteSet(References)
ASSUME IdsAreStrings == \A r, s \in References : r.id = s.id => r = s
ASSUME BatchesAreTyped == Batches \subseteq Document \X Document
ASSUME CapIsNatural == MAX_ENTRIES \in Nat

VARIABLES
    queue,         \* each node's copy of the contract state
    offered        \* history: the references of every readable update a node was handed

vars == <<queue, offered>>

-------------------------------------------------------------------------------
\* The contract

well_formed(r) ==
    /\ r.len <= MAX_REFERENCE
    /\ r.prefixed
    /\ r.parts = 4
    /\ r.clean

EmptyDocument == [v |-> FORMAT_VERSION, refs |-> <<>>]

parse(doc) ==
    /\ doc.v = FORMAT_VERSION
    /\ Len(doc.refs) <= MAX_ENTRIES
    /\ \A i, j \in 1..Len(doc.refs) : i < j => doc.refs[i].id < doc.refs[j].id
    /\ \A i \in 1..Len(doc.refs) : well_formed(doc.refs[i])

\* Mutant: the set is written in no particular order.
SerializeBackwards(set) ==
    [v |-> FORMAT_VERSION,
     refs |-> CHOOSE list \in SetToSeqs(set) :
                \A i, j \in DOMAIN list : i < j => list[i].id > list[j].id]

\* A BTreeSet iterates in order.
serialize(set) ==
    [v |-> FORMAT_VERSION,
     refs |-> CHOOSE list \in SetToSeqs(set) :
                \A i, j \in DOMAIN list : i < j => list[i].id < list[j].id]

validate_state(doc) == parse(doc)

\* Mutant: only what is new is counted against the cap.
FitsByItself(set, more) == Cardinality(more) <= MAX_ENTRIES

\* Mutant: the cap is one too low for a queue somebody already wrote.
FitsWithRoom(set, more) == Cardinality(set \cup more) < MAX_ENTRIES

\* The cap, which serialize enforces on the merged set.
Fits(set, more) == Cardinality(set \cup more) <= MAX_ENTRIES

\* update_state, for references that were parsed: the union, or a refusal
\* that leaves the state as it was.
update_state(set, more) == IF Fits(set, more) THEN set \cup more ELSE set

\* Mutant: a delta carries only the first of what is missing.
DeltaOfFirst(set, theirs) == {r \in set \ theirs : \A s \in set \ theirs : r.id <= s.id}

\* A summary that cannot be read counts as the empty one.
get_state_delta(set, theirs) == set \ theirs

-------------------------------------------------------------------------------
\* The nodes

Init ==
    /\ queue = [n \in Nodes |-> {}]
    /\ offered = [n \in Nodes |-> {}]

Take(n, more) ==
    /\ queue' = [queue EXCEPT ![n] = update_state(@, more)]
    /\ offered' = [offered EXCEPT ![n] = @ \cup more]

\* One document, or two in one call: a StateAndDelta or two updates.  One that
\* does not parse refuses the call.
Deliver(n) ==
    \E batch \in Batches :
        /\ parse(batch[1]) /\ parse(batch[2])
        /\ Take(n, ToSet(batch[1].refs) \cup ToSet(batch[2].refs))

\* `to' sends its summary, perhaps garbled, and `from' answers with a delta,
\* which is in order because the state it is filtered from is.
Synchronise(from, to) ==
    \E summary \in {queue[to], {}} :
        Take(to, get_state_delta(queue[from], summary))

Next ==
    \/ \E n \in Nodes : Deliver(n)
    \/ \E from, to \in Nodes : Synchronise(from, to)

Spec == Init /\ [][Next]_vars

-------------------------------------------------------------------------------
\* Properties

\* A queue holds only references that can be paid, and never more than the cap
\* (contract-requests/src/lib.rs:31-36), whoever writes.
TypeOK ==
    /\ queue \in [Nodes -> SUBSET References]
    /\ offered \in [Nodes -> SUBSET References]
    /\ \A n \in Nodes :
        /\ Cardinality(queue[n]) <= MAX_ENTRIES
        /\ \A r \in queue[n] : well_formed(r)

\* What update_state writes, parse and validate_state accept again, so that a
\* full queue stays readable and a later update still merges into it.
QueuesValidate == \A n \in Nodes : validate_state(serialize(queue[n]))

\* A node holds nothing it was not handed, and all it was handed as long as
\* that fits: what a visitor wrote is there for the house to read, whatever
\* else arrives.
KeepsAllThatFits ==
    \A n \in Nodes :
        /\ queue[n] \subseteq offered[n]
        /\ Cardinality(offered[n]) <= MAX_ENTRIES => queue[n] = offered[n]

\* "Union. Never removal -- that is what makes arrival order and duplicate
\* delivery irrelevant, which is what the network needs"
\* (contract-requests/src/lib.rs:158-159): nodes that were handed the same
\* references hold the same queue.
OrderIrrelevant ==
    \A n, m \in Nodes : offered[n] = offered[m] => queue[n] = queue[m]

\* After one round two nodes whose queues fit together agree on all the sender
\* had, even if the summary could not be read, and nothing was removed.
RoundsCatchUp ==
    [][\A from, to \in Nodes :
          /\ Synchronise(from, to) /\ Fits(queue[from], queue[to])
                => queue[from] \subseteq queue'[to]
          /\ queue[to] \subseteq queue'[to]]_vars
===============================================================================
