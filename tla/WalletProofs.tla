----------------------------- MODULE WalletProofs -----------------------------
(***************************************************************************)
(* What AgentWallet promises for every number of identities, sales, slots  *)
(* and calls: its types, one payment per decision, true records, the       *)
(* faucet's budget and, in orderly use, the keys.  And what House, which   *)
(* pays through that wallet, promises for every number of references,      *)
(* sweeps and deaths: no reference is paid twice, a row that says paid is  *)
(* true, and what the rows say was paid is within the budget.              *)
(*                                                                         *)
(* The argument about payments counts the calls that may still pay or have *)
(* paid: each was allowed by the absence of a record, which it then wrote, *)
(* or by an operator's force.  A record is only dropped by a call that is  *)
(* itself dropped from the count.                                          *)
(*                                                                         *)
(* Every step of the house is a step of the wallet or none, so the         *)
(* wallet's invariant holds there as well.  The house never forces a       *)
(* payment, which makes the wallet's one-per-decision one at all.  A row   *)
(* is written from the exit of a process; that this process is the one     *)
(* that was started for this reference is what the invariant adds.         *)
(*                                                                         *)
(* The budget is counted twice, in `spent' and in the table; a sweep reads *)
(* the table once and counts on by itself.  Budgeted says that the two     *)
(* agree as long as the sweep lives, and that the payment it waits for was *)
(* within the budget when it began.                                        *)
(***************************************************************************)
EXTENDS House, Collections

\* What a call, its child and its transaction have to do with each other.
InStep(c) ==
    /\ step[c] = "new" <=> call[c] = NoCall
    /\ step[c] \in {"new", "opened"} => child[c] = "none" /\ answer[c] = NoAnswer
    /\ answer[c] = "unlaunched" => child[c] = "none"
    /\ answer[c] # NoAnswer => child[c] \in {"none", "gone"}
    /\ step[c] = "waiting" => answer[c] = NoAnswer
    /\ child[c] \in {"none", "started", "creating", "holding"} => tx[c] = "none"
    /\ answer[c] = "success" /\ call[c].verb = "pay-sale" => tx[c] = "committed"
    /\ call[c].verb = "pay-sale" <=> call[c].ref # NoRef

InvTypes == TypeOK /\ \A c \in Calls : InStep(c)

-------------------------------------------------------------------------------
\* Types

\* The first transaction of a call keeps the types of the processes.
LEMMA BeginTypes ==
    ASSUME InvTypes,
           NEW c \in Calls, NEW verb \in Verbs, NEW a \in Agents, NEW r \in Refs \cup {NoRef},
           NEW force \in BOOLEAN, NEW slot \in Slots, NEW named \in Calls \cup {NoKey},
           verb = "pay-sale" <=> r # NoRef,
           Begin(c, verb, a, r, force, slot, named)
    PROVE  /\ call' \in [Calls -> Arguments \cup {NoCall}]
           /\ step' \in [Calls -> {"new", "opened", "waiting", "answered", "ended"}]
           /\ (\A d \in Calls : InStep(d))'
           /\ orderly' \in BOOLEAN
  <1>1. /\ call' \in [Calls -> Arguments \cup {NoCall}]
        /\ step' \in [Calls -> {"new", "opened", "waiting", "answered", "ended"}]
    BY DEF Begin, InvTypes, TypeOK, Arguments
  <1>2. (\A d \in Calls : InStep(d))'
    BY DEF Begin, InvTypes, TypeOK, InStep, NoCall, NoAnswer, Verbs
  <1>3. orderly' \in BOOLEAN
    BY DEF Begin, InvTypes, TypeOK
  <1> QED
    BY <1>1, <1>2, <1>3

LEMMA InitTypes == Init => InvTypes
  BY DEF Init, InvTypes, TypeOK, InStep, Minted, NoCall, NoKey, NoAnswer, AttemptStates

\* A step that changes an entry but not its slot keeps the types of entries.
LEMMA EntryTypes ==
    ASSUME InvTypes, NEW a \in Agents, Minted(a),
           NEW entry \in Identity, entry.slot = identities[a].slot,
           identities' = [identities EXCEPT ![a] = entry]
    PROVE  /\ identities' \in [Agents -> Identity \cup {Unminted}]
           /\ (\A b \in Agents : Minted(b) => Usable(b))'
  BY DEF InvTypes, TypeOK, Minted, Usable

LEMMA LandingTypes ==
    ASSUME InvTypes, NEW a \in Agents, NEW c \in Calls, identities' = Landing(a, c)
    PROVE  /\ identities' \in [Agents -> Identity \cup {Unminted}]
           /\ (\A b \in Agents : Minted(b) => Usable(b))'
  <1>1. CASE Minted(a)
    <2> DEFINE entry == [identities[a] EXCEPT !.in_flight = @ \ {c}]
    <2>1. identities[a] \in Identity
      BY <1>1 DEF InvTypes, TypeOK, Minted
    <2>2. entry \in Identity /\ entry.slot = identities[a].slot
      BY <2>1 DEF Identity
    <2>3. identities' = [identities EXCEPT ![a] = entry]
      BY <1>1 DEF Landing
    <2> HIDE DEF entry
    <2> QED
      BY <1>1, <2>2, <2>3, EntryTypes
  <1>2. CASE ~ Minted(a)
    BY <1>2 DEF Landing, InvTypes, TypeOK, Minted, Usable
  <1> QED
    BY <1>1, <1>2

LEMMA FlyingTypes ==
    ASSUME InvTypes, NEW a \in Agents, NEW c \in Calls, Minted(a)
    PROVE  /\ Flying(a, c) \in Identity
           /\ Flying(a, c).slot = identities[a].slot
           /\ Flying(a, c).faucet_calls \in Nat
  <1>1. identities[a] \in Identity
    BY DEF InvTypes, TypeOK, Minted
  <1> QED
    BY <1>1 DEF Flying, Identity

\* Every step keeps the types, action by action.
LEMMA StepTypes ==
    ASSUME InvTypes, [Next]_vars
    PROVE  InvTypes'
  <1> USE DEF registry, process
  <1>1. CASE UNCHANGED vars
    BY <1>1 DEF vars, InvTypes, TypeOK, InStep, Minted, Usable
  <1>2. ASSUME NEW c \in Calls, NEW a \in Agents, MintNew(c, a)
        PROVE  InvTypes'
    <2>1. PICK slot \in FreeSlots :
              /\ identities' = [identities EXCEPT ![a] = NewIdentity(slot)]
              /\ Begin(c, "account", a, NoRef, FALSE, slot, NoKey)
      BY <1>2 DEF MintNew
    <2>2. NewIdentity(slot) \in Identity /\ NewIdentity(slot).slot = slot
      BY DEF NewIdentity, Identity, FreeSlots, NoKey
    <2>3. /\ identities' \in [Agents -> Identity \cup {Unminted}]
          /\ (\A b \in Agents : Minted(b) => Usable(b))'
      BY <1>2, <2>1, <2>2 DEF InvTypes, TypeOK, Minted, Usable, FreeSlots
    <2>4. /\ call' \in [Calls -> Arguments \cup {NoCall}]
          /\ step' \in [Calls -> {"new", "opened", "waiting", "answered", "ended"}]
          /\ (\A d \in Calls : InStep(d))'
          /\ orderly' \in BOOLEAN
      BY <2>1, BeginTypes DEF FreeSlots, Verbs, NoKey
    <2> QED
      BY <1>2, <2>1, <2>3, <2>4 DEF MintNew, Begin, InvTypes, TypeOK
  <1>3. ASSUME NEW c \in Calls, NEW a \in Agents, MintAgain(c, a)
        PROVE  InvTypes'
    <2>1. identities[a] \in Identity
      BY <1>3 DEF MintAgain, Usable, Minted, InvTypes, TypeOK
    <2>2. /\ call' \in [Calls -> Arguments \cup {NoCall}]
          /\ step' \in [Calls -> {"new", "opened", "waiting", "answered", "ended"}]
          /\ (\A d \in Calls : InStep(d))'
          /\ orderly' \in BOOLEAN
      BY <1>3, <2>1, BeginTypes DEF MintAgain, Identity, Verbs
    <2> QED
      BY <1>3, <2>2 DEF MintAgain, Begin, InvTypes, TypeOK, Minted, Usable
  <1>4. ASSUME NEW c \in Calls, NEW a \in Agents, Fund(c, a)
        PROVE  InvTypes'
    <2>1. Minted(a) /\ identities[a] \in Identity
      BY <1>4 DEF Fund, Usable, Minted, InvTypes, TypeOK
    <2> DEFINE entry == [Flying(a, c) EXCEPT !.faucet_calls = @ + 1]
    <2>2. entry \in Identity /\ entry.slot = identities[a].slot
      BY <2>1, FlyingTypes DEF Identity
    <2>3. identities' = [identities EXCEPT ![a] = entry]
      BY <1>4 DEF Fund
    <2>4. /\ call' \in [Calls -> Arguments \cup {NoCall}]
          /\ step' \in [Calls -> {"new", "opened", "waiting", "answered", "ended"}]
          /\ (\A d \in Calls : InStep(d))'
          /\ orderly' \in BOOLEAN
      BY <1>4, <2>1, BeginTypes DEF Fund, Identity, Verbs, NoKey
    <2> HIDE DEF entry
    <2>5. /\ identities' \in [Agents -> Identity \cup {Unminted}]
          /\ (\A b \in Agents : Minted(b) => Usable(b))'
      BY <2>1, <2>2, <2>3, EntryTypes
    <2> QED
      BY <1>4, <2>4, <2>5 DEF Fund, Begin, InvTypes, TypeOK
  <1>5. ASSUME NEW c \in Calls, NEW a \in Agents, NEW r \in Refs, NEW force \in BOOLEAN,
               Pay(c, a, r, force)
        PROVE  InvTypes'
    <2>1. Minted(a) /\ identities[a] \in Identity
      BY <1>5 DEF Pay, Usable, Minted, InvTypes, TypeOK
    <2>2. identities' = [identities EXCEPT ![a] = Flying(a, c)]
      BY <1>5 DEF Pay
    <2>3. /\ identities' \in [Agents -> Identity \cup {Unminted}]
          /\ (\A b \in Agents : Minted(b) => Usable(b))'
      BY <2>1, <2>2, FlyingTypes, EntryTypes
    <2>4. /\ call' \in [Calls -> Arguments \cup {NoCall}]
          /\ step' \in [Calls -> {"new", "opened", "waiting", "answered", "ended"}]
          /\ (\A d \in Calls : InStep(d))'
          /\ orderly' \in BOOLEAN
      BY <1>5, <2>1, BeginTypes, NamesAreNames DEF Pay, Identity, Verbs, NoKey
    <2> QED
      BY <1>5, <2>3, <2>4 DEF Pay, Begin, InvTypes, TypeOK, AttemptStates
  <1>6. ASSUME NEW a \in Agents, Retire(a)
        PROVE  InvTypes'
    BY <1>6 DEF Retire, InvTypes, TypeOK, InStep, Minted, Usable, Unminted, NoKey
  <1>7. ASSUME NEW c \in Calls, Launch(c)
        PROVE  InvTypes'
    BY <1>7 DEF Launch, InvTypes, TypeOK, InStep, Minted, Usable, NoAnswer, Alive
  <1>8. ASSUME NEW c \in Calls, LaunchFails(c)
        PROVE  InvTypes'
    BY <1>8 DEF LaunchFails, InvTypes, TypeOK, InStep, Minted, Usable, NoAnswer, Alive
  <1>9. ASSUME NEW c \in Calls, ChildOpens(c)
        PROVE  InvTypes'
    <2>1. call[c].slot \in Slots
      BY <1>9 DEF ChildOpens, InvTypes, TypeOK, InStep, Arguments
    <2> QED
      BY <1>9, <2>1 DEF ChildOpens, InvTypes, TypeOK, InStep, Minted, Usable, NoAnswer, Alive
  <1>10. ASSUME NEW c \in Calls, ChildCreates(c)
         PROVE  InvTypes'
    BY <1>10 DEF ChildCreates, InvTypes, TypeOK, InStep, Minted, Usable, NoAnswer, Alive
  <1>11. ASSUME NEW c \in Calls, ChildSubmits(c)
         PROVE  InvTypes'
    BY <1>11 DEF ChildSubmits, InvTypes, TypeOK, InStep, Minted, Usable, NoAnswer, Alive
  <1>12. ASSUME NEW c \in Calls, NEW outcome \in {"committed", "none"}, Decided(c, outcome)
         PROVE  InvTypes'
    BY <1>12 DEF Decided, InvTypes, TypeOK, InStep, Minted, Usable, NoAnswer, Alive
  <1>13. ASSUME NEW c \in Calls, AccountShown(c)
         PROVE  InvTypes'
    BY <1>13 DEF AccountShown, Answered, InvTypes, TypeOK, InStep, Minted, Usable, NoAnswer, Alive
  <1>14. ASSUME NEW c \in Calls, CommitShown(c)
         PROVE  InvTypes'
    BY <1>14, SMTT(20) DEF CommitShown, Answered, InvTypes, TypeOK, InStep, Minted, Usable,
                 NoAnswer, NoKey, Alive
  <1>15. ASSUME NEW c \in Calls, ChildFails(c)
         PROVE  InvTypes'
    BY <1>15 DEF ChildFails, Answered, InvTypes, TypeOK, InStep, Minted, Usable, NoAnswer,
                 NoKey, Alive
  <1>16. ASSUME NEW c \in Calls, FinishMint(c)
         PROVE  InvTypes'
    <2> DEFINE a == call[c].agent
    <2>1. a \in Agents /\ held[c] \in Calls \cup {NoKey}
      BY <1>16 DEF FinishMint, InvTypes, TypeOK, Arguments, NoCall
    <2>2. /\ identities' \in [Agents -> Identity \cup {Unminted}]
          /\ (\A b \in Agents : Minted(b) => Usable(b))'
      <3>1. CASE identities' = identities
        BY <3>1 DEF InvTypes, TypeOK, Minted, Usable
      <3>2. CASE Minted(a) /\ identities' = [identities EXCEPT ![a].account = held[c]]
        <4> DEFINE entry == [identities[a] EXCEPT !.account = held[c]]
        <4>1. identities[a] \in Identity
          BY <2>1, <3>2 DEF InvTypes, TypeOK, Minted
        <4>2. entry \in Identity /\ entry.slot = identities[a].slot
          BY <2>1, <4>1 DEF Identity
        <4>3. identities' = [identities EXCEPT ![a] = entry]
          BY <3>2
        <4> HIDE DEF entry, a
        <4> QED
          BY <2>1, <3>2, <4>2, <4>3, EntryTypes
      <3> QED
        BY <1>16, <3>1, <3>2 DEF FinishMint
    <2> QED
      BY <1>16, <2>2 DEF FinishMint, InvTypes, TypeOK, InStep, NoAnswer
  <1>17. ASSUME NEW c \in Calls, FinishFund(c)
         PROVE  InvTypes'
    <2>1. call[c].agent \in Agents
      BY <1>17 DEF FinishFund, InvTypes, TypeOK, Arguments, NoCall
    <2>2. /\ identities' \in [Agents -> Identity \cup {Unminted}]
          /\ (\A b \in Agents : Minted(b) => Usable(b))'
      BY <1>17, <2>1, LandingTypes DEF FinishFund
    <2> QED
      BY <1>17, <2>2 DEF FinishFund, InvTypes, TypeOK, InStep, NoAnswer
  <1>18. ASSUME NEW c \in Calls, FinishPay(c)
         PROVE  InvTypes'
    <2>1. call[c].agent \in Agents
      BY <1>18 DEF FinishPay, InvTypes, TypeOK, Arguments, NoCall
    <2>2. /\ identities' \in [Agents -> Identity \cup {Unminted}]
          /\ (\A b \in Agents : Minted(b) => Usable(b))'
      BY <1>18, <2>1, LandingTypes DEF FinishPay
    <2>3. payments' \in [Refs -> AttemptStates]
      BY <1>18 DEF FinishPay, InvTypes, TypeOK, Recorded, AttemptStates
    <2> QED
      BY <1>18, <2>2, <2>3 DEF FinishPay, InvTypes, TypeOK, InStep, NoAnswer
  <1>19. ASSUME NEW c \in Calls, Killed(c)
         PROVE  InvTypes'
    BY <1>19 DEF Killed, InvTypes, TypeOK, InStep, Minted, Usable, NoAnswer, Alive
  <1>20. ASSUME NEW c \in Calls, LeaseLapses(c)
         PROVE  InvTypes'
    <2>1. CASE call[c].agent \in Agents
      <3>1. /\ identities' \in [Agents -> Identity \cup {Unminted}]
            /\ (\A b \in Agents : Minted(b) => Usable(b))'
        BY <1>20, <2>1, LandingTypes DEF LeaseLapses
      <3> QED
        BY <1>20, <3>1 DEF LeaseLapses, InvTypes, TypeOK, InStep
    <2>2. CASE call[c].agent \notin Agents
      BY <1>20, <2>2 DEF LeaseLapses, InvTypes, TypeOK, InStep, Arguments
    <2> QED
      BY <2>1, <2>2
  <1> QED
    BY <1>1, <1>2, <1>3, <1>4, <1>5, <1>6, <1>7, <1>8, <1>9, <1>10, <1>11, <1>12, <1>13, <1>14,
       <1>15, <1>16, <1>17, <1>18, <1>19, <1>20 DEF Next, Caller, Work

\* The registry, the key directory and the processes keep their types, and no
\* two identities ever claim one slot.
THEOREM TypeCorrect == Spec => []TypeOK
  <1>1. InvTypes => TypeOK
    BY DEF InvTypes
  <1> QED
    BY <1>1, InitTypes, StepTypes, PTL DEF Spec

-------------------------------------------------------------------------------
\* Payments

\* The calls that have started a payment for a sale, may still start it, or
\* are about to take their record back.
Counted(r) ==
    {c \in Calls : /\ call[c].ref = r
                   /\ \/ Launched(c) \/ step[c] = "opened"
                      \/ step[c] = "answered" /\ answer[c] = "unlaunched"}

OnRecord(r) == IF payments[r] = "none" THEN 0 ELSE 1

InvCount ==
    \A r \in Refs : Cardinality(Counted(r)) <= Cardinality(Forced(r)) + OnRecord(r)

InvCommitted ==
    \A r \in Refs : payments[r] = "committed" => \E c \in PaymentsFor(r) : tx[c] = "committed"

IInv == InvTypes /\ InvCount /\ InvCommitted

LEMMA CallsAreFinite == IsFiniteSet(Calls)
  BY FS_Interval, BoundsAreNumbers DEF Calls

LEMMA CountsAreNumbers ==
    ASSUME NEW S, S \subseteq Calls
    PROVE  IsFiniteSet(S) /\ Cardinality(S) \in Nat
  BY CallsAreFinite, FS_Subset, FS_CardinalityType

\* A step that counts no new call, keeps the forced ones and drops no record.
LEMMA CountFallsOrStays ==
    ASSUME NEW r \in Refs, InvCount,
           Counted(r)' \subseteq Counted(r), Forced(r)' = Forced(r), OnRecord(r)' >= OnRecord(r)
    PROVE  Cardinality(Counted(r)') <= Cardinality(Forced(r)') + OnRecord(r)'
  <1>1. Cardinality(Counted(r)') <= Cardinality(Counted(r))
    BY CountsAreNumbers, FS_Subset DEF Counted
  <1>2. Cardinality(Counted(r)') \in Nat /\ Cardinality(Counted(r)) \in Nat
    BY CountsAreNumbers DEF Counted
  <1>3. Cardinality(Forced(r)) \in Nat
    BY CountsAreNumbers DEF Forced
  <1> QED
    BY <1>1, <1>2, <1>3 DEF InvCount, OnRecord

\* A payment that begins is counted, and is forced or goes on record.
LEMMA PayCounts ==
    ASSUME IInv, NEW c \in Calls, NEW a \in Agents, NEW q \in Refs, NEW force \in BOOLEAN,
           Pay(c, a, q, force)
    PROVE  InvCount'
  <1> SUFFICES ASSUME NEW r \in Refs
               PROVE  Cardinality(Counted(r)') <= Cardinality(Forced(r)') + OnRecord(r)'
    BY DEF InvCount
  <1>1. /\ call[c] = NoCall /\ step[c] = "new" /\ child[c] = "none"
        /\ call' = [call EXCEPT ![c] = [verb |-> "pay-sale", agent |-> a, ref |-> q,
                             force |-> force, slot |-> identities[a].slot, named |-> NoKey]]
        /\ step' = [step EXCEPT ![c] = "opened"]
        /\ answer' = answer /\ child' = child
        /\ payments' = [payments EXCEPT ![q] = "submitted-unknown"]
    BY DEF Pay, Begin, IInv, InvTypes, InStep
  <1>2. /\ call \in [Calls -> Arguments \cup {NoCall}]
        /\ step \in [Calls -> {"new", "opened", "waiting", "answered", "ended"}]
        /\ payments \in [Refs -> AttemptStates]
    BY DEF IInv, InvTypes, TypeOK
  <1>3. c \notin Counted(r) /\ c \notin Forced(r)
    BY <1>1, NamesAreNames DEF Counted, Forced, NoCall
  <1>4. /\ Cardinality(Counted(r)) \in Nat /\ Cardinality(Forced(r)) \in Nat
        /\ IsFiniteSet(Counted(r)) /\ IsFiniteSet(Forced(r))
    BY CountsAreNumbers DEF Counted, Forced
  <1>5. CASE r # q
    <2>1. Counted(r)' = Counted(r) /\ Forced(r)' = Forced(r)
      BY <1>1, <1>2, <1>3, <1>5 DEF Counted, Forced, Launched
    <2>2. OnRecord(r)' = OnRecord(r)
      BY <1>1, <1>2, <1>5 DEF OnRecord
    <2> QED
      BY <2>1, <2>2, <1>4 DEF IInv, InvCount
  <1>6. CASE r = q
    <2>1. Counted(r)' = Counted(r) \cup {c}
      BY <1>1, <1>2, <1>6 DEF Counted, Launched
    <2>2. Cardinality(Counted(r)') = Cardinality(Counted(r)) + 1
      BY <2>1, <1>3, <1>4, FS_AddElement
    <2>3. OnRecord(r)' = 1
      BY <1>1, <1>2, <1>6 DEF OnRecord
    <2>4. CASE force
      <3>1. Forced(r)' = Forced(r) \cup {c}
        BY <1>1, <1>2, <1>6, <2>4 DEF Forced
      <3>2. Cardinality(Forced(r)') = Cardinality(Forced(r)) + 1
        BY <3>1, <1>3, <1>4, FS_AddElement
      <3> QED
        BY <2>2, <2>3, <3>2, <1>4 DEF IInv, InvCount, OnRecord
    <2>5. CASE ~ force
      <3>1. Forced(r)' = Forced(r)
        BY <1>1, <1>2, <1>3, <2>5 DEF Forced
      <3>2. OnRecord(r) = 0
        BY <1>6, <2>5 DEF Pay, OnRecord
      <3> QED
        BY <2>2, <2>3, <3>1, <3>2, <1>4 DEF IInv, InvCount
    <2> QED
      BY <2>4, <2>5
  <1> QED
    BY <1>5, <1>6

\* A result that takes a record back belongs to a call that was counted.
LEMMA FinishPayCounts ==
    ASSUME IInv, NEW c \in Calls, FinishPay(c)
    PROVE  InvCount'
  <1> SUFFICES ASSUME NEW r \in Refs
               PROVE  Cardinality(Counted(r)') <= Cardinality(Forced(r)') + OnRecord(r)'
    BY DEF InvCount
  <1>1. /\ Forced(r)' = Forced(r)
        /\ Counted(r)' \subseteq Counted(r)
        /\ payments \in [Refs -> AttemptStates]
    BY DEF FinishPay, Forced, Counted, Launched, IInv, InvTypes, TypeOK
  <1>2. CASE r = call[c].ref /\ answer[c] = "unlaunched"
    <2>1. c \in Counted(r) /\ c \notin Counted(r)'
      BY <1>2 DEF FinishPay, Counted, Launched, IInv, InvTypes, TypeOK, InStep
    <2>2. Counted(r)' \subseteq Counted(r) \ {c}
      BY <1>1, <2>1
    <2>3. /\ Cardinality(Counted(r) \ {c}) = Cardinality(Counted(r)) - 1
          /\ Cardinality(Counted(r)) \in Nat /\ Cardinality(Counted(r)') \in Nat
          /\ IsFiniteSet(Counted(r) \ {c})
      BY <2>1, CountsAreNumbers, FS_RemoveElement DEF Counted
    <2>4. Cardinality(Counted(r)') <= Cardinality(Counted(r)) - 1
      BY <2>2, <2>3, FS_Subset
    <2>5. OnRecord(r) <= 1 /\ OnRecord(r)' \in 0..1 /\ OnRecord(r) \in 0..1
      BY DEF OnRecord
    <2>6. Cardinality(Forced(r)) \in Nat
      BY CountsAreNumbers DEF Forced
    <2> QED
      BY <1>1, <2>3, <2>4, <2>5, <2>6 DEF IInv, InvCount
  <1>3. CASE ~ (r = call[c].ref /\ answer[c] = "unlaunched")
    <2>1. OnRecord(r)' >= OnRecord(r)
      BY <1>1, <1>3 DEF FinishPay, Recorded, OnRecord
    <2> QED
      BY <1>1, <2>1, CountFallsOrStays DEF IInv
  <1> QED
    BY <1>2, <1>3

\* No other step counts a call or touches a record.
LEMMA OthersCount ==
    ASSUME IInv, [Next]_vars,
           \A c \in Calls : ~ FinishPay(c),
           \A c \in Calls, a \in Agents, r \in Refs, force \in BOOLEAN : ~ Pay(c, a, r, force)
    PROVE  /\ payments' = payments
           /\ \A r \in Refs : Counted(r)' \subseteq Counted(r) /\ Forced(r)' = Forced(r)
  <1> USE DEF registry, process
  <1>1. CASE UNCHANGED vars
    BY <1>1 DEF vars, Counted, Forced, Launched
  <1>2. ASSUME NEW c \in Calls, NEW a \in Agents, NEW verb, NEW slot, NEW named,
               Begin(c, verb, a, NoRef, FALSE, slot, named)
        PROVE  \A r \in Refs : Counted(r)' \subseteq Counted(r) /\ Forced(r)' = Forced(r)
    <2>1. call[c] = NoCall /\ child[c] = "none"
      BY <1>2 DEF Begin, IInv, InvTypes, InStep
    <2> QED
      BY <1>2, <2>1, NamesAreNames
         DEF Begin, IInv, InvTypes, TypeOK, Counted, Forced, Launched, NoCall
  <1>3. ASSUME NEW c \in Calls, NEW a \in Agents,
               MintNew(c, a) \/ MintAgain(c, a) \/ Fund(c, a)
        PROVE  /\ payments' = payments
               /\ \A r \in Refs : Counted(r)' \subseteq Counted(r) /\ Forced(r)' = Forced(r)
    BY <1>2, <1>3 DEF MintNew, MintAgain, Fund
  <1>4. ASSUME NEW a \in Agents, Retire(a)
        PROVE  /\ payments' = payments
               /\ \A r \in Refs : Counted(r)' \subseteq Counted(r) /\ Forced(r)' = Forced(r)
    BY <1>4 DEF Retire, Counted, Forced, Launched
  <1>5. ASSUME NEW c \in Calls,
               \/ Launch(c) \/ LaunchFails(c) \/ ChildOpens(c) \/ ChildCreates(c)
               \/ ChildSubmits(c) \/ Decided(c, "committed") \/ Decided(c, "none")
               \/ AccountShown(c) \/ CommitShown(c) \/ ChildFails(c)
        PROVE  /\ payments' = payments
               /\ \A r \in Refs : Counted(r)' \subseteq Counted(r) /\ Forced(r)' = Forced(r)
    BY <1>5 DEF Launch, LaunchFails, ChildOpens, ChildCreates, ChildSubmits, Decided,
                AccountShown, CommitShown, ChildFails, Answered, Alive, Counted, Forced, Launched,
                IInv, InvTypes, TypeOK, InStep
  <1>6. ASSUME NEW c \in Calls,
               FinishMint(c) \/ FinishFund(c) \/ Killed(c) \/ LeaseLapses(c)
        PROVE  /\ payments' = payments
               /\ \A r \in Refs : Counted(r)' \subseteq Counted(r) /\ Forced(r)' = Forced(r)
    BY <1>6 DEF FinishMint, FinishFund, Killed, LeaseLapses, Counted, Forced, Launched,
                IInv, InvTypes, TypeOK, InStep
  <1> QED
    BY <1>1, <1>3, <1>4, <1>5, <1>6 DEF Next, Caller, Work

\* What has landed stays landed.
LEMMA LandedStays ==
    ASSUME IInv, [Next]_vars, NEW d \in Calls, tx[d] = "committed"
    PROVE  tx'[d] = "committed" /\ Launched(d) /\ Launched(d)' /\ call'[d] = call[d]
  <1> USE DEF registry, process
  <1> DEFINE Stays == tx'[d] = "committed" /\ child'[d] # "none" /\ call'[d] = call[d]
  <1>1. child[d] \in {"submitted", "gone"} /\ child[d] # "none" /\ step[d] # "new"
    BY DEF IInv, InvTypes, TypeOK, InStep, Alive
  <1>2. /\ tx \in [Calls -> {"none", "submitted", "committed"}]
        /\ child \in [Calls -> Alive \cup {"none", "gone"}]
    BY DEF IInv, InvTypes, TypeOK
  <1> SUFFICES Stays
    BY <1>1 DEF Launched
  <1>3. ASSUME NEW c \in Calls, NEW verb, NEW a, NEW r, NEW force, NEW slot, NEW named,
               Begin(c, verb, a, r, force, slot, named)
        PROVE  Stays
    BY <1>1, <1>3 DEF Begin, IInv, InvTypes, TypeOK
  <1>4. CASE Caller
    <2>1. ASSUME NEW c \in Calls, NEW a \in Agents, MintNew(c, a) \/ MintAgain(c, a) \/ Fund(c, a)
          PROVE  Stays
      BY <2>1, <1>3 DEF MintNew, MintAgain, Fund
    <2>2. ASSUME NEW c \in Calls, NEW a \in Agents, NEW r \in Refs, NEW force \in BOOLEAN,
                 Pay(c, a, r, force)
          PROVE  Stays
      BY <2>2, <1>3 DEF Pay
    <2>3. ASSUME NEW a \in Agents, Retire(a)
          PROVE  Stays
      BY <2>3, <1>1 DEF Retire
    <2> QED
      BY <1>4, <2>1, <2>2, <2>3 DEF Caller
  <1>5. ASSUME NEW c \in Calls, Launch(c) \/ LaunchFails(c)
        PROVE  Stays
    BY <1>1, <1>2, <1>5 DEF Launch, LaunchFails
  <1>6. ASSUME NEW c \in Calls, ChildOpens(c) \/ ChildCreates(c) \/ ChildSubmits(c)
        PROVE  Stays
    BY <1>1, <1>2, <1>6 DEF ChildOpens, ChildCreates, ChildSubmits
  <1>7. ASSUME NEW c \in Calls, Decided(c, "committed") \/ Decided(c, "none")
        PROVE  Stays
    BY <1>1, <1>2, <1>7 DEF Decided
  <1>8. ASSUME NEW c \in Calls, AccountShown(c) \/ CommitShown(c) \/ ChildFails(c)
        PROVE  Stays
    BY <1>1, <1>2, <1>8 DEF AccountShown, CommitShown, ChildFails, Answered
  <1>9. ASSUME NEW c \in Calls,
               FinishMint(c) \/ FinishFund(c) \/ FinishPay(c) \/ Killed(c) \/ LeaseLapses(c)
        PROVE  Stays
    BY <1>1, <1>9 DEF FinishMint, FinishFund, FinishPay, Killed, LeaseLapses
  <1>10. CASE UNCHANGED vars
    BY <1>1, <1>10 DEF vars
  <1> QED
    BY <1>4, <1>5, <1>6, <1>7, <1>8, <1>9, <1>10 DEF Next, Work

\* Only a landed payment closes a record.
LEMMA CommittedStays ==
    ASSUME IInv, [Next]_vars
    PROVE  InvCommitted'
  <1>1. \A c \in Calls : tx[c] = "committed" =>
            tx'[c] = "committed" /\ Launched(c) /\ Launched(c)' /\ call'[c] = call[c]
    BY LandedStays
  <1>2. \A r \in Refs : PaymentsFor(r) # {} /\ (\E c \in PaymentsFor(r) : tx[c] = "committed")
            => \E c \in PaymentsFor(r)' : tx'[c] = "committed"
    BY <1>1 DEF PaymentsFor
  <1>3. CASE \E c \in Calls : FinishPay(c)
    <2>1. PICK c \in Calls : FinishPay(c)
      BY <1>3
    <2> SUFFICES ASSUME NEW r \in Refs, payments'[r] = "committed"
                 PROVE  \E d \in PaymentsFor(r)' : tx'[d] = "committed"
      BY DEF InvCommitted
    <2>2. CASE r = call[c].ref /\ answer[c] = "success"
      <3>1. tx[c] = "committed"
        BY <2>1, <2>2 DEF FinishPay, IInv, InvTypes, InStep
      <3>2. c \in PaymentsFor(r)
        BY <1>1, <2>2, <3>1 DEF PaymentsFor
      <3> QED
        BY <1>2, <3>1, <3>2
    <2>3. CASE ~ (r = call[c].ref /\ answer[c] = "success")
      <3>1. payments[r] = "committed"
        BY <2>1, <2>3 DEF FinishPay, Recorded, IInv, InvTypes, TypeOK
      <3> QED
        BY <1>2, <3>1 DEF IInv, InvCommitted
    <2> QED
      BY <2>2, <2>3
  <1>4. CASE \E c \in Calls, a \in Agents, r \in Refs, force \in BOOLEAN : Pay(c, a, r, force)
    <2> SUFFICES ASSUME NEW r \in Refs, payments'[r] = "committed"
                 PROVE  \E d \in PaymentsFor(r)' : tx'[d] = "committed"
      BY DEF InvCommitted
    <2>1. payments[r] = "committed"
      BY <1>4 DEF Pay, IInv, InvTypes, TypeOK
    <2> QED
      BY <1>2, <2>1 DEF IInv, InvCommitted
  <1>5. CASE payments' = payments
    BY <1>2, <1>5 DEF IInv, InvCommitted
  <1> QED
    BY <1>3, <1>4, <1>5, OthersCount

LEMMA InitIInv == Init => IInv
  <1> SUFFICES ASSUME Init PROVE IInv
    OBVIOUS
  <1>1. InvTypes
    BY InitTypes
  <1>2. InvCount
    <2> SUFFICES ASSUME NEW r \in Refs
                 PROVE  Cardinality(Counted(r)) <= Cardinality(Forced(r)) + OnRecord(r)
      BY DEF InvCount
    <2>1. Counted(r) = {} /\ Forced(r) = {}
      BY DEF Init, Counted, Forced, Launched, NoCall
    <2> QED
      BY <2>1, FS_EmptySet DEF OnRecord
  <1>3. InvCommitted
    BY DEF Init, InvCommitted
  <1> QED
    BY <1>1, <1>2, <1>3 DEF IInv

LEMMA StepIInv ==
    ASSUME IInv, [Next]_vars
    PROVE  IInv'
  <1>1. InvTypes'
    BY StepTypes DEF IInv
  <1>2. InvCommitted'
    BY CommittedStays
  <1>3. InvCount'
    <2>1. CASE \E c \in Calls : FinishPay(c)
      BY <2>1, FinishPayCounts
    <2>2. CASE \E c \in Calls, a \in Agents, r \in Refs, force \in BOOLEAN : Pay(c, a, r, force)
      BY <2>2, PayCounts
    <2>3. CASE /\ \A c \in Calls : ~ FinishPay(c)
               /\ \A c \in Calls, a \in Agents, r \in Refs, force \in BOOLEAN :
                    ~ Pay(c, a, r, force)
      <3>1. /\ payments' = payments
            /\ \A r \in Refs : Counted(r)' \subseteq Counted(r) /\ Forced(r)' = Forced(r)
        BY <2>3, OthersCount
      <3> SUFFICES ASSUME NEW r \in Refs
                   PROVE  Cardinality(Counted(r)') <= Cardinality(Forced(r)') + OnRecord(r)'
        BY DEF InvCount
      <3>2. OnRecord(r)' >= OnRecord(r)
        BY <3>1 DEF OnRecord
      <3> QED
        BY <3>1, <3>2, CountFallsOrStays DEF IInv
    <2> QED
      BY <2>1, <2>2, <2>3
  <1> QED
    BY <1>1, <1>2, <1>3 DEF IInv

LEMMA IInvImplies == IInv => PaidOncePerDecision /\ RecordsAreTrue
  <1> SUFFICES ASSUME IInv, NEW r \in Refs
               PROVE  /\ Cardinality(PaymentsFor(r)) <= 1 + Cardinality(Forced(r))
                      /\ PaymentsFor(r) # {} /\ Forced(r) = {} => payments[r] # "none"
                      /\ payments[r] = "committed" =>
                            \E c \in PaymentsFor(r) : tx[c] = "committed"
    BY DEF PaidOncePerDecision, RecordsAreTrue
  <1>1. PaymentsFor(r) \subseteq Counted(r)
    BY DEF PaymentsFor, Counted
  <1>2. /\ Cardinality(PaymentsFor(r)) \in Nat /\ Cardinality(Counted(r)) \in Nat
        /\ Cardinality(Forced(r)) \in Nat
        /\ IsFiniteSet(Counted(r)) /\ IsFiniteSet(PaymentsFor(r))
    BY CountsAreNumbers DEF PaymentsFor, Counted, Forced
  <1>3. Cardinality(PaymentsFor(r)) <= Cardinality(Counted(r))
    BY <1>1, <1>2, FS_Subset
  <1>4. Cardinality(Counted(r)) <= Cardinality(Forced(r)) + OnRecord(r)
    BY DEF IInv, InvCount
  <1>5. Cardinality(PaymentsFor(r)) <= 1 + Cardinality(Forced(r))
    BY <1>2, <1>3, <1>4 DEF OnRecord
  <1>6. PaymentsFor(r) # {} /\ Forced(r) = {} => payments[r] # "none"
    <2> SUFFICES ASSUME PaymentsFor(r) # {}, Forced(r) = {}, payments[r] = "none"
                 PROVE  FALSE
      OBVIOUS
    <2>1. Cardinality(Forced(r)) = 0
      BY FS_EmptySet
    <2>2. Cardinality(PaymentsFor(r)) # 0
      BY <1>2, FS_EmptySet
    <2> QED
      BY <1>2, <1>3, <1>4, <2>1, <2>2 DEF OnRecord
  <1>7. payments[r] = "committed" => \E c \in PaymentsFor(r) : tx[c] = "committed"
    BY DEF IInv, InvCommitted
  <1> QED
    BY <1>5, <1>6, <1>7

\* A sale is paid at most once, and once more for each payment an operator
\* forced, whatever dies, times out or answers late.
THEOREM PaidOnce == Spec => []PaidOncePerDecision
  BY InitIInv, StepIInv, IInvImplies, PTL DEF Spec

\* A started payment is on record, and a record that says committed is true.
THEOREM TrueRecords == Spec => []RecordsAreTrue
  BY InitIInv, StepIInv, IInvImplies, PTL DEF Spec

-------------------------------------------------------------------------------
\* The faucet

Grants == {c \in Calls : call[c].verb = "faucet"}

InvFaucet ==
    /\ Cardinality(Grants) = faucet_grants_total
    /\ faucet_grants_total <= GLOBAL_FAUCET_MAX

\* A grant is counted before it is asked for, and no other call is one.
LEMMA StepFaucet ==
    ASSUME InvTypes, InvFaucet, [Next]_vars
    PROVE  InvFaucet'
  <1> USE DEF registry, process
  <1>1. ASSUME NEW c \in Calls, NEW a \in Agents, Fund(c, a)
        PROVE  InvFaucet'
    <2>1. c \notin Grants
      BY <1>1 DEF Fund, Begin, InvTypes, InStep, NoCall, Grants
    <2>2. Grants' = Grants \cup {c}
      BY <1>1 DEF Fund, Begin, InvTypes, TypeOK, Grants
    <2>3. IsFiniteSet(Grants)
      BY CountsAreNumbers DEF Grants
    <2>4. Cardinality(Grants') = Cardinality(Grants) + 1
      BY <2>1, <2>2, <2>3, FS_AddElement
    <2> QED
      BY <1>1, <2>4, BoundsAreNumbers DEF Fund, InvFaucet, InvTypes, TypeOK
  <1>2. ASSUME NEW c \in Calls, NEW a \in Agents, NEW verb \in {"account", "pay-sale"}, NEW r,
               NEW force, NEW slot, NEW named,
               Begin(c, verb, a, r, force, slot, named), faucet_grants_total' = faucet_grants_total
        PROVE  InvFaucet'
    <2>1. Grants' = Grants
      BY <1>2 DEF Begin, InvTypes, TypeOK, InStep, NoCall, Grants
    <2> QED
      BY <1>2, <2>1 DEF InvFaucet
  <1>3. ASSUME NEW c \in Calls, NEW a \in Agents, MintNew(c, a) \/ MintAgain(c, a)
        PROVE  InvFaucet'
    BY <1>2, <1>3 DEF MintNew, MintAgain
  <1>4. ASSUME NEW c \in Calls, NEW a \in Agents, NEW r \in Refs, NEW force \in BOOLEAN,
               Pay(c, a, r, force)
        PROVE  InvFaucet'
    BY <1>2, <1>4 DEF Pay
  <1>5. CASE \/ \E a \in Agents : Retire(a)
             \/ Work
             \/ UNCHANGED vars
    <2>1. call' = call /\ faucet_grants_total' = faucet_grants_total
      BY <1>5 DEF Work, Retire, Launch, LaunchFails, ChildOpens, ChildCreates, ChildSubmits, Decided,
              AccountShown, CommitShown, ChildFails, Answered, FinishMint, FinishFund, FinishPay,
              Killed, LeaseLapses, vars
    <2> QED
      BY <2>1 DEF InvFaucet, Grants
  <1> QED
    BY <1>1, <1>3, <1>4, <1>5 DEF Next, Caller

\* The grants asked of the faucet never exceed the workstation's budget.
THEOREM FaucetBudget == Spec => []FaucetWithinBudget
  <1>1. Init => InvFaucet
    <2> SUFFICES ASSUME Init PROVE InvFaucet
      OBVIOUS
    <2>1. Grants = {}
      BY DEF Init, Grants, NoCall
    <2> QED
      BY <2>1, FS_EmptySet, BoundsAreNumbers DEF Init, InvFaucet
  <1>2. InvTypes /\ InvFaucet => FaucetWithinBudget
    <2> SUFFICES ASSUME InvTypes, InvFaucet PROVE FaucetWithinBudget
      OBVIOUS
    <2> DEFINE asked == {c \in Calls : call[c].verb = "faucet" /\ Launched(c)}
    <2>1. asked \subseteq Grants
      BY DEF Grants
    <2>2. IsFiniteSet(Grants) /\ Cardinality(Grants) \in Nat /\ Cardinality(asked) \in Nat
      BY CountsAreNumbers DEF Grants
    <2>3. Cardinality(asked) <= Cardinality(Grants)
      BY <2>1, <2>2, FS_Subset
    <2> HIDE DEF asked
    <2>4. Cardinality(asked) <= GLOBAL_FAUCET_MAX
      BY <2>2, <2>3, BoundsAreNumbers DEF InvFaucet
    <2> QED
      BY <2>4 DEF FaucetWithinBudget, asked
  <1> QED
    BY <1>1, <1>2, InitTypes, StepTypes, StepFaucet, PTL DEF Spec

-------------------------------------------------------------------------------
\* Keys in orderly use: a key outlives whoever works with it, and no identity
\* works with the key of another.  The toolkit opens whatever key is in the
\* slot, and makes one when there is none, so the argument is about slots:
\* while a call is busy its identity is there and keeps its slot (Sheltered),
\* because a lease spares it from retire, or, for a mint, because nothing
\* overlaps it.  A key is made only by a mint that found the slot empty
\* (Works), and a mint is alone with its identity (MintsAlone), so the slot
\* holds one key until it is retired (Doors).

Busy(c) == step[c] = "opened" \/ child[c] \in Alive

\* Where a call's process, its child and its key are, at any time.
Phase(c) ==
    /\ step[c] = "new" => held[c] = NoKey
    /\ step[c] = "waiting" => child[c] \in Alive
    /\ step[c] = "answered" => child[c] \notin Alive
    /\ child[c] = "submitted" => call[c].verb # "account"

Known(k) == k # NoKey => call[k] # NoCall

\* A key is named after a call that began.
Named ==
    /\ \A s \in Slots : Known(keys[s])
    /\ \A c \in Calls : Known(held[c])
    /\ \A a \in Agents : Minted(a) => Known(identities[a].account)

Housed(c) ==
    /\ Minted(call[c].agent)
    /\ identities[call[c].agent].slot = call[c].slot

Sheltered(c) ==
    Busy(c) =>
        /\ Housed(c)
        /\ call[c].verb # "account" =>
             /\ c \in identities[call[c].agent].in_flight
             /\ keys[call[c].slot] # NoKey

Works(c) ==
    /\ child[c] \in {"holding", "submitted"} =>
         held[c] # NoKey /\ keys[call[c].slot] = held[c]
    /\ child[c] = "creating" =>
         call[c].verb = "account" /\ keys[call[c].slot] = NoKey
    /\ step[c] = "answered" /\ call[c].verb = "account" /\ answer[c] = "success" =>
         Housed(c) /\ keys[call[c].slot] = held[c]

MintsAlone ==
    \A c, d \in Calls :
        c # d /\ call[c].agent = call[d].agent /\ Running(c) /\ Running(d)
            => call[c].verb # "account"

\* Whose key is in the slot of an identity, and what account its entry names.
Doors ==
    \A a \in Agents : Minted(a) =>
        /\ keys[identities[a].slot] # NoKey => call[keys[identities[a].slot]].agent = a
        /\ identities[a].account # NoKey => identities[a].account = keys[identities[a].slot]

Owns == \A c \in Calls : held[c] # NoKey => call[held[c]].agent = call[c].agent

InOrder ==
    /\ \A c \in Calls : Sheltered(c) /\ Works(c)
    /\ MintsAlone /\ Doors /\ Owns

KeysInv ==
    /\ InvTypes
    /\ \A c \in Calls : Phase(c)
    /\ Named
    /\ orderly => InOrder


-------------------------------------------------------------------------------
\* Names of keys

\* A key that is copied, from a slot, a child or an entry, stays known.
LEMMA NamesKept ==
    ASSUME KeysInv,
           \A d \in Calls : call[d] # NoCall => call'[d] # NoCall,
           \A s \in Slots : \/ keys'[s] = keys[s] \/ keys'[s] = NoKey
                            \/ keys'[s] \in Calls /\ call'[keys'[s]] # NoCall,
           \A c \in Calls : \/ held'[c] = held[c] \/ held'[c] = NoKey
                            \/ \E s \in Slots : held'[c] = keys[s]
                            \/ held'[c] \in Calls /\ call'[held'[c]] # NoCall,
           \A a \in Agents : Minted(a)' =>
               \/ identities'[a].account = NoKey
               \/ Minted(a) /\ identities'[a].account = identities[a].account
               \/ \E c \in Calls : identities'[a].account = held[c]
    PROVE  Named'
  <1>2. ASSUME NEW s \in Slots PROVE Known(keys[s])'
    <2>1. keys[s] \in Calls \cup {NoKey} /\ Known(keys[s])
      BY DEF KeysInv, InvTypes, TypeOK, Named
    <2> QED
      BY <2>1 DEF Known
  <1>3. ASSUME NEW c \in Calls PROVE Known(held[c])'
    <2>1. held[c] \in Calls \cup {NoKey} /\ Known(held[c])
      BY DEF KeysInv, InvTypes, TypeOK, Named
    <2>2. \A s \in Slots : keys[s] \in Calls \cup {NoKey} /\ Known(keys[s])
      BY DEF KeysInv, InvTypes, TypeOK, Named
    <2> QED
      BY <2>1, <2>2 DEF Known
  <1>4. ASSUME NEW a \in Agents, Minted(a)' PROVE Known(identities[a].account)'
    <2>1. \A c \in Calls : held[c] \in Calls \cup {NoKey} /\ Known(held[c])
      BY DEF KeysInv, InvTypes, TypeOK, Named
    <2>2. Minted(a) => identities[a].account \in Calls \cup {NoKey} /\ Known(identities[a].account)
      BY DEF KeysInv, InvTypes, TypeOK, Named, Minted, Identity
    <2> QED
      BY <1>4, <2>1, <2>2 DEF Known
  <1> QED
    BY <1>2, <1>3, <1>4 DEF Named

\* What the beginning of a call changes.
Began(c, verb, a, slot) ==
    /\ ~ Running(c) /\ ~ Busy(c) /\ held[c] = NoKey /\ Running(c)' /\ child[c] = "none"
    /\ call'[c].agent = a /\ call'[c].verb = verb /\ call'[c].slot = slot
    /\ call'[c] # NoCall /\ step'[c] = "opened"
    /\ \A d \in Calls \ {c} : call'[d] = call[d] /\ step'[d] = step[d]
    /\ \A d \in Calls \ {c} : Running(d)' = Running(d) /\ Busy(d)' = Busy(d)
    /\ keys' = keys /\ held' = held /\ child' = child /\ answer' = answer
    /\ \A s \in Slots : keys[s] # c
    /\ \A d \in Calls : held[d] # c
    /\ orderly' => orderly /\ Asked(verb, a)

\* The call that begins is nobody's, and no key is named after it.
LEMMA BeginFacts ==
    ASSUME KeysInv, NEW c \in Calls, NEW verb \in Verbs, NEW a \in Agents, NEW r, NEW force,
           NEW slot, NEW named, Begin(c, verb, a, r, force, slot, named)
    PROVE  Began(c, verb, a, slot)
  <1>1. /\ call[c] = NoCall /\ step[c] = "new" /\ child[c] = "none" /\ held[c] = NoKey
        /\ call \in [Calls -> Arguments \cup {NoCall}]
        /\ step \in [Calls -> {"new", "opened", "waiting", "answered", "ended"}]
    BY DEF Begin, KeysInv, InvTypes, TypeOK, InStep, Phase
  <1>2. (\A s \in Slots : keys[s] # c) /\ (\A d \in Calls : held[d] # c)
    BY <1>1 DEF KeysInv, Named, Known, NoKey, Calls
  <1>3. /\ call' = [call EXCEPT ![c] = [verb |-> verb, agent |-> a, ref |-> r, force |-> force,
                                        slot |-> slot, named |-> named]]
        /\ step' = [step EXCEPT ![c] = "opened"]
        /\ keys' = keys /\ held' = held /\ child' = child /\ answer' = answer
        /\ orderly' = (orderly /\ Asked(verb, a))
    BY DEF Begin
  <1>4. /\ call'[c].agent = a /\ call'[c].verb = verb /\ call'[c].slot = slot
        /\ step'[c] = "opened"
        /\ \A d \in Calls \ {c} : call'[d] = call[d] /\ step'[d] = step[d]
    BY <1>1, <1>3
  <1>5. ~ Running(c) /\ ~ Busy(c) /\ Running(c)'
    BY <1>1, <1>4 DEF Running, Busy, Alive
  <1>6. call'[c] # NoCall
    BY <1>4 DEF NoCall, Verbs
  <1>7. \A d \in Calls \ {c} : Running(d)' = Running(d) /\ Busy(d)' = Busy(d)
    BY <1>3, <1>4 DEF Running, Busy
  <1> QED
    BY <1>1, <1>2, <1>3, <1>4, <1>5, <1>6, <1>7 DEF Began

\* What a beginning call leaves as it was, and that its mint is alone.
LEMMA BeginKept ==
    ASSUME KeysInv, NEW c \in Calls, NEW verb \in Verbs, NEW a \in Agents, NEW r, NEW force,
           NEW slot, NEW named, Begin(c, verb, a, r, force, slot, named), orderly'
    PROVE  orderly /\ InOrder /\ MintsAlone' /\ Owns'
  <1>0. Began(c, verb, a, slot)
    BY BeginFacts
  <1>1. orderly /\ InOrder /\ Asked(verb, a)
    BY <1>0 DEF KeysInv, Began
  <1>2. MintsAlone'
    <2> SUFFICES ASSUME NEW d \in Calls, NEW e \in Calls, d # e, call'[d].agent = call'[e].agent,
                        Running(d)', Running(e)'
                 PROVE  call'[d].verb # "account"
      BY DEF MintsAlone
    <2>1. CASE d # c /\ e # c
      BY <1>1, <2>1, <1>0 DEF Began, InOrder, MintsAlone
    <2>2. CASE d = c
      <3>1. e \in Calls \ {c} /\ call[e].agent = a /\ Running(e)
        BY <2>2, <1>0 DEF Began
      <3> QED
        BY <1>1, <2>2, <3>1, <1>0 DEF Began, Asked
    <2>3. CASE e = c
      <3>1. d \in Calls \ {c} /\ call[d].agent = a /\ Running(d) /\ call'[d] = call[d]
        BY <2>3, <1>0 DEF Began
      <3> QED
        BY <1>1, <3>1 DEF Asked
    <2> QED
      BY <2>1, <2>2, <2>3
  <1>3. Owns'
    <2> SUFFICES ASSUME NEW d \in Calls, held'[d] # NoKey
                 PROVE  call'[held'[d]].agent = call'[d].agent
      BY DEF Owns
    <2>1. held'[d] = held[d] /\ held[d] \in Calls \ {c} /\ d # c
      BY <1>0 DEF Began, KeysInv, InvTypes, TypeOK
    <2>2. call'[held[d]] = call[held[d]] /\ call'[d] = call[d]
      BY <2>1, <1>0 DEF Began
    <2> QED
      BY <1>1, <2>1, <2>2 DEF InOrder, Owns
  <1> QED
    BY <1>1, <1>2, <1>3

\* An entry that stays as it was keeps its door; so does one that is new, its
\* slot being empty.
LEMMA BeginDoors ==
    ASSUME KeysInv, NEW c \in Calls, NEW verb \in Verbs, NEW a \in Agents, NEW r, NEW force,
           NEW slot, NEW named, Begin(c, verb, a, r, force, slot, named), InOrder,
           \A b \in Agents : Minted(b)' =>
               \/ /\ Minted(b) /\ identities'[b].slot = identities[b].slot
                  /\ identities'[b].account = identities[b].account
               \/ keys[identities'[b].slot] = NoKey /\ identities'[b].account = NoKey
    PROVE  Doors'
  <1> SUFFICES ASSUME NEW b \in Agents, Minted(b)'
               PROVE  /\ keys'[identities'[b].slot] # NoKey =>
                             call'[keys'[identities'[b].slot]].agent = b
                      /\ identities'[b].account # NoKey =>
                             identities'[b].account = keys'[identities'[b].slot]
    BY DEF Doors
  <1>0. Began(c, verb, a, slot)
    BY BeginFacts
  <1>1. keys' = keys
    BY <1>0 DEF Began
  <1>2. CASE keys[identities'[b].slot] = NoKey /\ identities'[b].account = NoKey
    BY <1>1, <1>2
  <1>3. CASE /\ Minted(b) /\ identities'[b].slot = identities[b].slot
             /\ identities'[b].account = identities[b].account
    <2>1. identities[b].slot \in Slots
      BY <1>3 DEF KeysInv, InvTypes, TypeOK, Minted, Identity
    <2>2. /\ keys[identities[b].slot] # NoKey => call[keys[identities[b].slot]].agent = b
          /\ identities[b].account # NoKey => identities[b].account = keys[identities[b].slot]
      BY <1>3 DEF InOrder, Doors
    <2>3. keys[identities[b].slot] \in (Calls \cup {NoKey}) \ {c}
      BY <2>1, <1>0 DEF Began, KeysInv, InvTypes, TypeOK
    <2>4. keys[identities[b].slot] # NoKey =>
              call'[keys[identities[b].slot]] = call[keys[identities[b].slot]]
      BY <2>3, <1>0 DEF Began
    <2> QED
      BY <1>1, <1>3, <2>2, <2>4
  <1> QED
    BY <1>2, <1>3

-------------------------------------------------------------------------------
\* Calls begin

\* A new identity takes an empty slot.
LEMMA MintNewKept ==
    ASSUME KeysInv, NEW c \in Calls, NEW a \in Agents, MintNew(c, a)
    PROVE  /\ (\A k \in Calls : Phase(k))' /\ Named'
           /\ orderly' => InOrder'
  <1>1. PICK slot \in FreeSlots :
            /\ identities' = [identities EXCEPT ![a] = NewIdentity(slot)]
            /\ Begin(c, "account", a, NoRef, FALSE, slot, NoKey)
    BY DEF MintNew
  <1>2. slot \in Slots /\ keys[slot] = NoKey /\ ~ Minted(a)
    BY DEF FreeSlots, MintNew
  <1> "account" \in Verbs
    BY DEF Verbs
  <1>3. /\ identities \in [Agents -> Identity \cup {Unminted}]
        /\ child \in [Calls -> Alive \cup {"none", "gone"}]
    BY DEF KeysInv, InvTypes, TypeOK
  <1>4. /\ \A b \in Agents \ {a} : identities'[b] = identities[b]
        /\ Minted(a)' /\ identities'[a].slot = slot /\ identities'[a].account = NoKey
        /\ identities'[a].in_flight = {}
    BY <1>1, <1>2, <1>3 DEF NewIdentity, Minted, Unminted
  <1>0. Began(c, "account", a, slot)
    BY <1>1, BeginFacts
  <1>5. (\A k \in Calls : Phase(k))'
    BY <1>0 DEF Began, KeysInv, Phase, Alive
  <1>6. Named'
    <2>1. \A d \in Calls : call[d] # NoCall => call'[d] # NoCall
      BY <1>0 DEF Began
    <2>2. keys' = keys /\ held' = held
      BY <1>0 DEF Began
    <2>3. \A b \in Agents : Minted(b)' =>
              \/ identities'[b].account = NoKey
              \/ Minted(b) /\ identities'[b].account = identities[b].account
      BY <1>2, <1>4 DEF Minted
    <2> QED
      BY <2>1, <2>2, <2>3, NamesKept
  <1>7. SUFFICES ASSUME orderly' PROVE InOrder'
    BY <1>5, <1>6
  <1>8. orderly /\ InOrder /\ MintsAlone' /\ Owns'
    BY <1>1, <1>7, BeginKept
  <1>9. Doors'
    BY <1>1, <1>2, <1>4, <1>8, BeginDoors DEF Minted
  <1>10. ASSUME NEW k \in Calls PROVE Sheltered(k)'
    <2>1. CASE k = c
      BY <1>0, <1>4, <1>7, <2>1 DEF Began, Sheltered, Housed
    <2>2. CASE k # c
      <3>1. call'[k] = call[k] /\ Busy(k)' = Busy(k) /\ keys' = keys
        BY <1>0, <2>2 DEF Began
      <3>2. Busy(k) => call[k].agent \in Agents
        BY DEF KeysInv, InvTypes, TypeOK, InStep, Arguments, Busy, Alive
      <3>3. Busy(k) => Sheltered(k) /\ Housed(k)
        BY <1>8 DEF InOrder, Sheltered
      <3>4. Busy(k) /\ Housed(k) =>
                /\ Housed(k)'
                /\ identities[call[k].agent].in_flight \subseteq identities'[call[k].agent].in_flight
        BY <1>2, <1>4, <3>1, <3>2 DEF Housed, Minted
      <3> QED
        BY <3>1, <3>3, <3>4 DEF Sheltered
    <2> QED
      BY <2>1, <2>2
  <1>11. ASSUME NEW k \in Calls PROVE Works(k)'
    <2>1. CASE k = c
      BY <1>0, <2>1 DEF Began, Works, Alive
    <2>2. CASE k # c
      <3>1. /\ call'[k] = call[k] /\ step'[k] = step[k] /\ answer' = answer /\ child' = child
            /\ keys' = keys /\ held' = held
        BY <1>0, <2>2 DEF Began
      <3>2. step[k] = "answered" => call[k].agent \in Agents
        BY DEF KeysInv, InvTypes, TypeOK, InStep, Arguments, NoCall
      <3> QED
        BY <1>2, <1>4, <1>8, <3>1, <3>2 DEF InOrder, Works, Housed, Minted
    <2> QED
      BY <2>1, <2>2
  <1> QED
    BY <1>8, <1>9, <1>10, <1>11 DEF InOrder

\* Minting again changes no entry.
LEMMA MintAgainKept ==
    ASSUME KeysInv, NEW c \in Calls, NEW a \in Agents, MintAgain(c, a)
    PROVE  /\ (\A k \in Calls : Phase(k))' /\ Named'
           /\ orderly' => InOrder'
  <1>1. Begin(c, "account", a, NoRef, FALSE, identities[a].slot, identities[a].account)
    BY DEF MintAgain
  <1>2. Minted(a)
    BY DEF MintAgain, Usable
  <1> "account" \in Verbs
    BY DEF Verbs
  <1>3. /\ identities \in [Agents -> Identity \cup {Unminted}]
        /\ child \in [Calls -> Alive \cup {"none", "gone"}]
    BY DEF KeysInv, InvTypes, TypeOK
  <1>4. /\ \A b \in Agents \ {a} : identities'[b] = identities[b]
        /\ Minted(a)' /\ identities'[a].slot = identities[a].slot
        /\ identities'[a].account = identities[a].account
        /\ identities[a].in_flight \subseteq identities'[a].in_flight
    BY <1>2, <1>3 DEF MintAgain, Minted, registry
  <1>0. Began(c, "account", a, identities[a].slot)
    BY <1>1, BeginFacts
  <1>5. (\A k \in Calls : Phase(k))'
    BY <1>0 DEF Began, KeysInv, Phase, Alive
  <1>6. Named'
    <2>1. \A d \in Calls : call[d] # NoCall => call'[d] # NoCall
      BY <1>0 DEF Began
    <2>2. keys' = keys /\ held' = held
      BY <1>0 DEF Began
    <2>3. \A b \in Agents : Minted(b)' =>
              \/ identities'[b].account = NoKey
              \/ Minted(b) /\ identities'[b].account = identities[b].account
      BY <1>2, <1>4 DEF Minted
    <2> QED
      BY <2>1, <2>2, <2>3, NamesKept
  <1>7. SUFFICES ASSUME orderly' PROVE InOrder'
    BY <1>5, <1>6
  <1>8. orderly /\ InOrder /\ MintsAlone' /\ Owns'
    BY <1>1, <1>7, BeginKept
  <1>9. Doors'
    BY <1>1, <1>2, <1>4, <1>8, BeginDoors DEF Minted
  <1>10. ASSUME NEW k \in Calls PROVE Sheltered(k)'
    <2>1. CASE k = c
      BY <1>0, <1>4, <1>7, <2>1 DEF Began, Sheltered, Housed
    <2>2. CASE k # c
      <3>1. call'[k] = call[k] /\ Busy(k)' = Busy(k) /\ keys' = keys
        BY <1>0, <2>2 DEF Began
      <3>2. Busy(k) => call[k].agent \in Agents
        BY DEF KeysInv, InvTypes, TypeOK, InStep, Arguments, Busy, Alive
      <3>3. Busy(k) => Sheltered(k) /\ Housed(k)
        BY <1>8 DEF InOrder, Sheltered
      <3>4. Busy(k) /\ Housed(k) =>
                /\ Housed(k)'
                /\ identities[call[k].agent].in_flight \subseteq identities'[call[k].agent].in_flight
        BY <1>2, <1>4, <3>1, <3>2 DEF Housed, Minted
      <3> QED
        BY <3>1, <3>3, <3>4 DEF Sheltered
    <2> QED
      BY <2>1, <2>2
  <1>11. ASSUME NEW k \in Calls PROVE Works(k)'
    <2>1. CASE k = c
      BY <1>0, <2>1 DEF Began, Works, Alive
    <2>2. CASE k # c
      <3>1. /\ call'[k] = call[k] /\ step'[k] = step[k] /\ answer' = answer /\ child' = child
            /\ keys' = keys /\ held' = held
        BY <1>0, <2>2 DEF Began
      <3>2. step[k] = "answered" => call[k].agent \in Agents
        BY DEF KeysInv, InvTypes, TypeOK, InStep, Arguments, NoCall
      <3> QED
        BY <1>2, <1>4, <1>8, <3>1, <3>2 DEF InOrder, Works, Housed, Minted
    <2> QED
      BY <2>1, <2>2
  <1> QED
    BY <1>8, <1>9, <1>10, <1>11 DEF InOrder

\* A grant takes a lease on a key that is there.
LEMMA FundKept ==
    ASSUME KeysInv, NEW c \in Calls, NEW a \in Agents, Fund(c, a)
    PROVE  /\ (\A k \in Calls : Phase(k))' /\ Named'
           /\ orderly' => InOrder'
  <1>1. Begin(c, "faucet", a, NoRef, FALSE, identities[a].slot, NoKey)
    BY DEF Fund
  <1>2. Minted(a)
    BY DEF Fund, Usable
  <1> "faucet" \in Verbs
    BY DEF Verbs
  <1>3. /\ identities \in [Agents -> Identity \cup {Unminted}]
        /\ child \in [Calls -> Alive \cup {"none", "gone"}]
    BY DEF KeysInv, InvTypes, TypeOK
  <1>4. /\ \A b \in Agents \ {a} : identities'[b] = identities[b]
        /\ Minted(a)' /\ identities'[a].slot = identities[a].slot
        /\ identities'[a].account = identities[a].account
        /\ identities[a].in_flight \subseteq identities'[a].in_flight
        /\ c \in identities'[a].in_flight
    BY <1>2, <1>3 DEF Fund, Flying, Minted, Identity, Unminted
  <1>0. Began(c, "faucet", a, identities[a].slot)
    BY <1>1, BeginFacts
  <1>5. (\A k \in Calls : Phase(k))'
    BY <1>0 DEF Began, KeysInv, Phase, Alive
  <1>6. Named'
    <2>1. \A d \in Calls : call[d] # NoCall => call'[d] # NoCall
      BY <1>0 DEF Began
    <2>2. keys' = keys /\ held' = held
      BY <1>0 DEF Began
    <2>3. \A b \in Agents : Minted(b)' =>
              \/ identities'[b].account = NoKey
              \/ Minted(b) /\ identities'[b].account = identities[b].account
      BY <1>2, <1>4 DEF Minted
    <2> QED
      BY <2>1, <2>2, <2>3, NamesKept
  <1>7. SUFFICES ASSUME orderly' PROVE InOrder'
    BY <1>5, <1>6
  <1>8. orderly /\ InOrder /\ MintsAlone' /\ Owns'
    BY <1>1, <1>7, BeginKept
  <1>9. Doors'
    BY <1>1, <1>2, <1>4, <1>8, BeginDoors DEF Minted
  <1>10. ASSUME NEW k \in Calls PROVE Sheltered(k)'
    <2>1. CASE k = c
      BY <1>0, <1>4, <1>7, <2>1 DEF Began, Sheltered, Housed, Asked
    <2>2. CASE k # c
      <3>1. call'[k] = call[k] /\ Busy(k)' = Busy(k) /\ keys' = keys
        BY <1>0, <2>2 DEF Began
      <3>2. Busy(k) => call[k].agent \in Agents
        BY DEF KeysInv, InvTypes, TypeOK, InStep, Arguments, Busy, Alive
      <3>3. Busy(k) => Sheltered(k) /\ Housed(k)
        BY <1>8 DEF InOrder, Sheltered
      <3>4. Busy(k) /\ Housed(k) =>
                /\ Housed(k)'
                /\ identities[call[k].agent].in_flight \subseteq identities'[call[k].agent].in_flight
        BY <1>2, <1>4, <3>1, <3>2 DEF Housed, Minted
      <3> QED
        BY <3>1, <3>3, <3>4 DEF Sheltered
    <2> QED
      BY <2>1, <2>2
  <1>11. ASSUME NEW k \in Calls PROVE Works(k)'
    <2>1. CASE k = c
      BY <1>0, <2>1 DEF Began, Works, Alive
    <2>2. CASE k # c
      <3>1. /\ call'[k] = call[k] /\ step'[k] = step[k] /\ answer' = answer /\ child' = child
            /\ keys' = keys /\ held' = held
        BY <1>0, <2>2 DEF Began
      <3>2. step[k] = "answered" => call[k].agent \in Agents
        BY DEF KeysInv, InvTypes, TypeOK, InStep, Arguments, NoCall
      <3> QED
        BY <1>2, <1>4, <1>8, <3>1, <3>2 DEF InOrder, Works, Housed, Minted
    <2> QED
      BY <2>1, <2>2
  <1> QED
    BY <1>8, <1>9, <1>10, <1>11 DEF InOrder

\* So does a payment.
LEMMA PayKept ==
    ASSUME KeysInv, NEW c \in Calls, NEW a \in Agents,
           NEW r \in Refs, NEW force \in BOOLEAN, Pay(c, a, r, force)
    PROVE  /\ (\A k \in Calls : Phase(k))' /\ Named'
           /\ orderly' => InOrder'
  <1>1. Begin(c, "pay-sale", a, r, force, identities[a].slot, NoKey)
    BY DEF Pay
  <1>2. Minted(a)
    BY DEF Pay, Usable
  <1> "pay-sale" \in Verbs
    BY DEF Verbs
  <1>3. /\ identities \in [Agents -> Identity \cup {Unminted}]
        /\ child \in [Calls -> Alive \cup {"none", "gone"}]
    BY DEF KeysInv, InvTypes, TypeOK
  <1>4. /\ \A b \in Agents \ {a} : identities'[b] = identities[b]
        /\ Minted(a)' /\ identities'[a].slot = identities[a].slot
        /\ identities'[a].account = identities[a].account
        /\ identities[a].in_flight \subseteq identities'[a].in_flight
        /\ c \in identities'[a].in_flight
    BY <1>2, <1>3 DEF Pay, Flying, Minted, Identity, Unminted
  <1>0. Began(c, "pay-sale", a, identities[a].slot)
    BY <1>1, BeginFacts
  <1>5. (\A k \in Calls : Phase(k))'
    BY <1>0 DEF Began, KeysInv, Phase, Alive
  <1>6. Named'
    <2>1. \A d \in Calls : call[d] # NoCall => call'[d] # NoCall
      BY <1>0 DEF Began
    <2>2. keys' = keys /\ held' = held
      BY <1>0 DEF Began
    <2>3. \A b \in Agents : Minted(b)' =>
              \/ identities'[b].account = NoKey
              \/ Minted(b) /\ identities'[b].account = identities[b].account
      BY <1>2, <1>4 DEF Minted
    <2> QED
      BY <2>1, <2>2, <2>3, NamesKept
  <1>7. SUFFICES ASSUME orderly' PROVE InOrder'
    BY <1>5, <1>6
  <1>8. orderly /\ InOrder /\ MintsAlone' /\ Owns'
    BY <1>1, <1>7, BeginKept
  <1>9. Doors'
    BY <1>1, <1>2, <1>4, <1>8, BeginDoors DEF Minted
  <1>10. ASSUME NEW k \in Calls PROVE Sheltered(k)'
    <2>1. CASE k = c
      BY <1>0, <1>4, <1>7, <2>1 DEF Began, Sheltered, Housed, Asked
    <2>2. CASE k # c
      <3>1. call'[k] = call[k] /\ Busy(k)' = Busy(k) /\ keys' = keys
        BY <1>0, <2>2 DEF Began
      <3>2. Busy(k) => call[k].agent \in Agents
        BY DEF KeysInv, InvTypes, TypeOK, InStep, Arguments, Busy, Alive
      <3>3. Busy(k) => Sheltered(k) /\ Housed(k)
        BY <1>8 DEF InOrder, Sheltered
      <3>4. Busy(k) /\ Housed(k) =>
                /\ Housed(k)'
                /\ identities[call[k].agent].in_flight \subseteq identities'[call[k].agent].in_flight
        BY <1>2, <1>4, <3>1, <3>2 DEF Housed, Minted
      <3> QED
        BY <3>1, <3>3, <3>4 DEF Sheltered
    <2> QED
      BY <2>1, <2>2
  <1>11. ASSUME NEW k \in Calls PROVE Works(k)'
    <2>1. CASE k = c
      BY <1>0, <2>1 DEF Began, Works, Alive
    <2>2. CASE k # c
      <3>1. /\ call'[k] = call[k] /\ step'[k] = step[k] /\ answer' = answer /\ child' = child
            /\ keys' = keys /\ held' = held
        BY <1>0, <2>2 DEF Began
      <3>2. step[k] = "answered" => call[k].agent \in Agents
        BY DEF KeysInv, InvTypes, TypeOK, InStep, Arguments, NoCall
      <3> QED
        BY <1>2, <1>4, <1>8, <3>1, <3>2 DEF InOrder, Works, Housed, Minted
    <2> QED
      BY <2>1, <2>2
  <1> QED
    BY <1>8, <1>9, <1>10, <1>11 DEF InOrder

-------------------------------------------------------------------------------
\* Calls go on

\* What retire leaves to the others: their entries, and the keys of their slots.
LEMMA RetireSpares ==
    ASSUME KeysInv, NEW a \in Agents, Retire(a), NEW b \in Agents, b # a, Minted(b)
    PROVE  identities'[b] = identities[b] /\ keys'[identities[b].slot] = keys[identities[b].slot]
  <1>1. /\ identities[a].slot # identities[b].slot
        /\ identities[b].slot \in Slots
        /\ keys \in [Slots -> Calls \cup {NoKey}]
        /\ identities \in [Agents -> Identity \cup {Unminted}]
    BY DEF Retire, Usable, KeysInv, InvTypes, TypeOK, Minted, Identity
  <1> QED
    BY <1>1 DEF Retire

\* A lease that ends leaves the rest of the registry alone.
LEMMA LandingKeeps ==
    ASSUME KeysInv, NEW a, NEW c, a \in Agents \/ ~ Minted(a), identities' = Landing(a, c)
    PROVE  \A b \in Agents :
               /\ Minted(b)' = Minted(b)
               /\ Minted(b) => /\ identities'[b].slot = identities[b].slot
                               /\ identities'[b].account = identities[b].account
                               /\ identities[b].in_flight \subseteq identities'[b].in_flight \cup {c}
  <1>1. identities \in [Agents -> Identity \cup {Unminted}]
    BY DEF KeysInv, InvTypes, TypeOK
  <1> QED
    BY <1>1 DEF Landing, Minted, Identity, Unminted

\* What retire takes away was nobody's: a lease would have stopped it, and a mint
\* beside it would not have been orderly.
LEMMA RetireKept ==
    ASSUME KeysInv, NEW a \in Agents, Retire(a)
    PROVE  /\ (\A k \in Calls : Phase(k))' /\ Named'
           /\ orderly' => InOrder'
  <1> USE DEF KeysInv
  <1>1. (\A k \in Calls : Phase(k))'
    BY DEF Phase, Retire, Usable, NoAnswer, Alive, process
  <1>2. Named'
    BY NamesKept DEF Retire, InvTypes, TypeOK, Minted, process
  <1>3. SUFFICES ASSUME orderly' PROVE InOrder'
    BY <1>1, <1>2
  <1>4. orderly /\ InOrder
    BY <1>3 DEF Retire, Usable, InvTypes
  <1>5. (\A k \in Calls : Sheltered(k))'
    <2> SUFFICES ASSUME NEW k \in Calls, Busy(k)'
                 PROVE  /\ Housed(k)'
                        /\ call'[k].verb # "account" =>
                             /\ k \in identities'[call'[k].agent].in_flight
                             /\ keys'[call'[k].slot] # NoKey
      BY DEF Sheltered
    <2> DEFINE b == call[k].agent
    <2>1. Busy(k) /\ call'[k] = call[k]
      BY DEF Busy, Retire, process
    <2>2. Housed(k) /\ (call[k].verb # "account" => k \in identities[b].in_flight /\ keys[call[k].slot] # NoKey)
      BY <1>4, <2>1 DEF InOrder, Sheltered
    <2>3. b # a
      BY <1>3, <2>1, <2>2 DEF Retire, Busy, Running
    <2>4. b \in Agents
      BY <2>1 DEF InvTypes, TypeOK, InStep, Arguments, Busy, Alive
    <2>5. identities'[b] = identities[b] /\ keys'[call[k].slot] = keys[call[k].slot]
      BY <2>2, <2>3, <2>4, RetireSpares DEF Housed
    <2> QED
      BY <2>1, <2>2, <2>5 DEF Housed, Minted
  <1>6. (\A k \in Calls : Works(k))'
    <2> SUFFICES ASSUME NEW k \in Calls
                 PROVE  Works(k)'
      OBVIOUS
    <2> DEFINE b == call[k].agent
    <2>1. /\ call'[k] = call[k] /\ step'[k] = step[k] /\ answer'[k] = answer[k]
          /\ child'[k] = child[k] /\ held'[k] = held[k]
      BY DEF Retire, process
    <2>2. Works(k) /\ Sheltered(k)
      BY <1>4 DEF InOrder
    <2> DEFINE Shown == step[k] = "answered" /\ call[k].verb = "account" /\ answer[k] = "success"
    <2>3. ASSUME Shown \/ child[k] \in Alive
          PROVE  Housed(k) /\ b # a /\ b \in Agents
      <3>1. Housed(k)
        BY <2>2, <2>3 DEF Works, Sheltered, Busy
      <3>2. b # a
        BY <1>3, <2>2, <2>3 DEF Retire, Sheltered, Busy, Running
      <3>3. b \in Agents
        BY <2>3 DEF InvTypes, TypeOK, InStep, Arguments, NoCall, Alive
      <3> QED
        BY <3>1, <3>2, <3>3
    <2>4. ASSUME Shown \/ child[k] \in Alive
          PROVE  identities'[b] = identities[b] /\ keys'[call[k].slot] = keys[call[k].slot]
      BY <2>3, <2>4, RetireSpares DEF Housed
    <2> QED
      BY <2>1, <2>2, <2>3, <2>4 DEF Works, Housed, Minted, Alive
  <1>7. MintsAlone'
    BY <1>3, <1>4 DEF InOrder, MintsAlone, Running, Retire, process
  <1>8. Doors'
    BY <1>3, <1>4 DEF InOrder, Doors, Retire, Usable, InvTypes, TypeOK, Identity,
       Minted, process
  <1>9. Owns'
    BY <1>3, <1>4 DEF InOrder, Owns, Retire, process
  <1> QED
    BY <1>1, <1>2, <1>5, <1>6, <1>7, <1>8, <1>9 DEF InOrder

\* A launch, or its failure, touches no key.
LEMMA LaunchKept ==
    ASSUME KeysInv, NEW c \in Calls, Launch(c) \/ LaunchFails(c)
    PROVE  /\ (\A k \in Calls : Phase(k))' /\ Named'
           /\ orderly' => InOrder'
  <1> USE DEF KeysInv
  <1>1. (\A k \in Calls : Phase(k))'
    BY DEF Phase, Launch, LaunchFails, InvTypes, TypeOK, InStep, Alive
  <1>2. Named'
    BY NamesKept DEF Launch, LaunchFails, Minted, registry
  <1>3. SUFFICES ASSUME orderly' PROVE InOrder'
    BY <1>1, <1>2
  <1>4. orderly /\ InOrder
    BY <1>3 DEF Launch, LaunchFails, InvTypes
  <1>5. (\A k \in Calls : Sheltered(k))'
    BY <1>3, <1>4 DEF InOrder, Sheltered, Busy, Housed, Launch, LaunchFails,
       InvTypes, TypeOK, Minted, registry
  <1>6. (\A k \in Calls : Works(k))'
    BY <1>3, <1>4 DEF InOrder, Works, Housed, Launch, LaunchFails, InvTypes, TypeOK,
       Minted, registry
  <1>7. MintsAlone'
    BY <1>3, <1>4 DEF InOrder, MintsAlone, Running, Launch, LaunchFails, InvTypes,
       TypeOK
  <1>8. Doors'
    BY <1>3, <1>4 DEF InOrder, Doors, Launch, LaunchFails, Minted, registry
  <1>9. Owns'
    BY <1>3, <1>4 DEF InOrder, Owns, Launch, LaunchFails
  <1> QED
    BY <1>1, <1>2, <1>5, <1>6, <1>7, <1>8, <1>9 DEF InOrder

\* Only a mint finds its slot empty.
LEMMA ChildOpensKept ==
    ASSUME KeysInv, NEW c \in Calls, ChildOpens(c)
    PROVE  /\ (\A k \in Calls : Phase(k))' /\ Named'
           /\ orderly' => InOrder'
  <1> USE DEF KeysInv
  <1>1. (\A k \in Calls : Phase(k))'
    BY DEF Phase, ChildOpens, InvTypes, InStep, Alive, process
  <1>2. Named'
    BY NamesKept DEF ChildOpens, InvTypes, TypeOK, InStep, Arguments, Minted,
       process, registry
  <1>3. SUFFICES ASSUME orderly' PROVE InOrder'
    BY <1>1, <1>2
  <1>4. orderly /\ InOrder
    BY <1>3 DEF ChildOpens, InvTypes, TypeOK
  <1>5. (\A k \in Calls : Sheltered(k))'
    BY <1>3, <1>4 DEF InOrder, Sheltered, Busy, Housed, ChildOpens, Minted, Alive,
       process, registry
  <1>6. (\A k \in Calls : Works(k))'
    BY <1>3, <1>4 DEF InOrder, Sheltered, Works, Busy, Housed, ChildOpens, InvTypes,
       TypeOK, Minted, process, registry
  <1>7. MintsAlone'
    BY <1>3, <1>4 DEF InOrder, MintsAlone, Running, ChildOpens, Alive, process
  <1>8. Doors'
    BY <1>3, <1>4 DEF InOrder, Doors, ChildOpens, Minted, process, registry
  <1>9. Owns'
    BY <1>3, <1>4 DEF InOrder, Sheltered, Busy, Housed, Doors, Owns, ChildOpens,
       InvTypes, TypeOK, InStep, Arguments, process
  <1> QED
    BY <1>1, <1>2, <1>5, <1>6, <1>7, <1>8, <1>9 DEF InOrder

\* A mint fills the slot it found empty, alone.
LEMMA ChildCreatesKept ==
    ASSUME KeysInv, NEW c \in Calls, ChildCreates(c)
    PROVE  /\ (\A k \in Calls : Phase(k))' /\ Named'
           /\ orderly' => InOrder'
  <1> USE DEF KeysInv
  <1>1. (\A k \in Calls : Phase(k))'
    BY DEF Phase, ChildCreates, InvTypes, InStep, Alive, process
  <1>2. Named'
    BY NamesKept DEF ChildCreates, InvTypes, InStep, Minted, process, registry
  <1>3. SUFFICES ASSUME orderly' PROVE InOrder'
    BY <1>1, <1>2
  <1>4. orderly /\ InOrder
    BY <1>3 DEF ChildCreates, Usable, InvTypes
  <1>5. (\A k \in Calls : Sheltered(k))'
    BY <1>3, <1>4 DEF InOrder, Sheltered, Works, Busy, Housed, ChildCreates, Minted,
       Alive, process, registry
  <1>6. (\A k \in Calls : Works(k))'
    <2>1. call[c].verb = "account" /\ Housed(c) /\ Running(c) /\ call[c].slot \in Slots
      BY <1>4 DEF InOrder, Works, Sheltered, Busy, Running, Alive, ChildCreates,
                  InvTypes, TypeOK, InStep, Arguments, NoCall
    <2> SUFFICES ASSUME NEW k \in Calls
                 PROVE  Works(k)'
      OBVIOUS
    <2>2. CASE k = c
      BY <2>1, <2>2 DEF Works, ChildCreates, process, InvTypes, TypeOK, Phase,
         Alive, NoKey, Calls
    <2>3. CASE k # c
      <3> DEFINE Shown == step[k] = "answered" /\ call[k].verb = "account" /\ answer[k] = "success"
      <3>1. /\ call'[k] = call[k] /\ step'[k] = step[k] /\ answer'[k] = answer[k]
            /\ child'[k] = child[k] /\ held'[k] = held[k] /\ identities' = identities
        BY <2>3 DEF ChildCreates, process, registry, InvTypes, TypeOK
      <3>2. Works(k) /\ Sheltered(k)
        BY <1>4 DEF InOrder
      <3>3. ASSUME Shown \/ child[k] \in Alive
            PROVE  call[k].slot # call[c].slot
        <4>1. Housed(k) /\ Running(k)
          BY <3>2, <3>3 DEF Works, Sheltered, Busy, Running
        <4>2. call[k].agent # call[c].agent
          BY <1>4, <2>1, <2>3, <4>1 DEF InOrder, MintsAlone
        <4>3. call[k].agent \in Agents /\ call[c].agent \in Agents
          BY <2>1, <3>3 DEF InvTypes, TypeOK, InStep, Arguments, NoCall, Alive
        <4> QED
          BY <2>1, <4>1, <4>2, <4>3 DEF Housed, Usable, InvTypes, TypeOK
      <3>4. ASSUME Shown \/ child[k] \in Alive
            PROVE  keys'[call[k].slot] = keys[call[k].slot]
        BY <3>3, <3>4 DEF ChildCreates, InvTypes, TypeOK
      <3> QED
        BY <3>1, <3>2, <3>4 DEF Works, Housed, Minted, Alive
    <2> QED
      BY <2>2, <2>3
  <1>7. MintsAlone'
    BY <1>3, <1>4 DEF InOrder, MintsAlone, Running, ChildCreates, Alive, process
  <1>8. Doors'
    BY <1>3, <1>4 DEF InOrder, Sheltered, Works, Busy, Housed, Doors, ChildCreates,
       Usable, InvTypes, TypeOK, InStep, Arguments, Minted, process, registry
  <1>9. Owns'
    BY <1>3, <1>4 DEF InOrder, Owns, ChildCreates, process
  <1> QED
    BY <1>1, <1>2, <1>5, <1>6, <1>7, <1>8, <1>9 DEF InOrder

\* A transaction is submitted, or decided.
LEMMA ChildSubmitsKept ==
    ASSUME KeysInv, NEW c \in Calls, ChildSubmits(c) \/ Decided(c, "committed") \/ Decided(c, "none")
    PROVE  /\ (\A k \in Calls : Phase(k))' /\ Named'
           /\ orderly' => InOrder'
  <1> USE DEF KeysInv
  <1>1. (\A k \in Calls : Phase(k))'
    BY DEF Phase, ChildSubmits, Decided, InvTypes, TypeOK, Alive, process
  <1>2. Named'
    BY NamesKept DEF ChildSubmits, Decided, Minted, process, registry
  <1>3. SUFFICES ASSUME orderly' PROVE InOrder'
    BY <1>1, <1>2
  <1>4. orderly /\ InOrder
    BY <1>3 DEF ChildSubmits, Decided, InvTypes
  <1>5. (\A k \in Calls : Sheltered(k))'
    BY <1>3, <1>4 DEF InOrder, Sheltered, Busy, Housed, ChildSubmits, Decided,
       InvTypes, TypeOK, Minted, process, registry
  <1>6. (\A k \in Calls : Works(k))'
    BY <1>3, <1>4 DEF InOrder, Works, Housed, ChildSubmits, Decided, InvTypes,
       TypeOK, Minted, process, registry
  <1>7. MintsAlone'
    BY <1>3, <1>4 DEF InOrder, MintsAlone, Running, ChildSubmits, Decided, InvTypes,
       TypeOK, process
  <1>8. Doors'
    BY <1>3, <1>4 DEF InOrder, Doors, ChildSubmits, Decided, Minted, process, registry
  <1>9. Owns'
    BY <1>3, <1>4 DEF InOrder, Owns, ChildSubmits, Decided, process
  <1> QED
    BY <1>1, <1>2, <1>5, <1>6, <1>7, <1>8, <1>9 DEF InOrder

\* A child is gone; its parent may have heard.
LEMMA AnswersKept ==
    ASSUME KeysInv, NEW c \in Calls, AccountShown(c) \/ CommitShown(c) \/ ChildFails(c)
    PROVE  /\ (\A k \in Calls : Phase(k))' /\ Named'
           /\ orderly' => InOrder'
  <1> USE DEF KeysInv
  <1>1. (\A k \in Calls : Phase(k))'
    BY DEF Phase, AccountShown, CommitShown, ChildFails, Answered, InvTypes, TypeOK,
       Alive
  <1>2. Named'
    BY NamesKept DEF AccountShown, CommitShown, ChildFails, Answered, InvTypes,
       TypeOK, Minted, registry
  <1>3. SUFFICES ASSUME orderly' PROVE InOrder'
    BY <1>1, <1>2
  <1>4. orderly /\ InOrder
    BY <1>3 DEF AccountShown, CommitShown, ChildFails, Answered, InvTypes, TypeOK
  <1>5. (\A k \in Calls : Sheltered(k))'
    BY <1>3, <1>4 DEF InOrder, Sheltered, Busy, Housed, AccountShown, CommitShown,
       ChildFails, Answered, InvTypes, TypeOK, Minted, registry
  <1>6. (\A k \in Calls : Works(k))'
    <2> SUFFICES ASSUME NEW k \in Calls
                 PROVE  Works(k)'
      OBVIOUS
    <2>1. Works(k) /\ Sheltered(k) /\ Phase(k)
      BY <1>4 DEF InOrder
    <2>2. /\ call' = call /\ keys' = keys /\ identities' = identities
          /\ child' = [child EXCEPT ![c] = "gone"] /\ child[c] \in Alive
      BY DEF AccountShown, CommitShown, ChildFails, Answered, registry, Alive
    <2>3. CASE k # c
      <3>1. /\ step'[k] = step[k] /\ answer'[k] = answer[k] /\ child'[k] = child[k]
            /\ held'[k] = held[k]
        BY <2>3 DEF AccountShown, CommitShown, ChildFails, Answered, InvTypes, TypeOK
      <3> QED
        BY <2>1, <2>2, <3>1 DEF Works, Housed, Minted
    <2>4. CASE k = c
      <3>1. child'[k] = "gone"
        BY <2>2, <2>4 DEF InvTypes, TypeOK
      <3>2. ASSUME step'[k] = "answered", call[k].verb = "account", answer'[k] = "success"
            PROVE  child[k] = "holding" /\ held' = held
        BY <2>1, <2>4, <3>2 DEF AccountShown, CommitShown, ChildFails, Answered,
           Phase, Alive,
                                InvTypes, TypeOK
      <3> QED
        BY <2>1, <2>2, <2>4, <3>1, <3>2 DEF Works, Sheltered, Busy, Housed, Minted
    <2> QED
      BY <2>3, <2>4
  <1>7. MintsAlone'
    BY <1>3, <1>4 DEF InOrder, MintsAlone, Running, AccountShown, CommitShown,
       ChildFails, Answered, InvTypes, TypeOK
  <1>8. Doors'
    BY <1>3, <1>4 DEF InOrder, Doors, AccountShown, CommitShown, ChildFails,
       Answered, Minted, registry
  <1>9. Owns'
    BY <1>3, <1>4 DEF InOrder, Owns, AccountShown, CommitShown, ChildFails,
       Answered, InvTypes, TypeOK
  <1> QED
    BY <1>1, <1>2, <1>5, <1>6, <1>7, <1>8, <1>9 DEF InOrder

\* The entry names the key that was shown, which is the one in the slot.
LEMMA FinishMintKept ==
    ASSUME KeysInv, NEW c \in Calls, FinishMint(c)
    PROVE  /\ (\A k \in Calls : Phase(k))' /\ Named'
           /\ orderly' => InOrder'
  <1> USE DEF KeysInv
  <1>1. (\A k \in Calls : Phase(k))'
    BY DEF Phase, FinishMint, InvTypes
  <1>2. Named'
    BY NamesKept DEF FinishMint, InvTypes, TypeOK, Minted, Unminted, NoCall
  <1>3. SUFFICES ASSUME orderly' PROVE InOrder'
    BY <1>1, <1>2
  <1>4. orderly /\ InOrder
    BY <1>3 DEF FinishMint, InvTypes, TypeOK
  <1>5. (\A k \in Calls : Sheltered(k))'
    BY <1>3, <1>4 DEF Phase, InOrder, Sheltered, Busy, Housed, MintsAlone, Running,
       FinishMint, Minted
  <1>6. (\A k \in Calls : Works(k))'
    BY <1>3, <1>4 DEF InOrder, Works, Housed, MintsAlone, Running, FinishMint,
       InvTypes, TypeOK, Minted
  <1>7. MintsAlone'
    BY <1>3, <1>4 DEF InOrder, MintsAlone, Running, FinishMint
  <1>8. Doors'
    <2>1. ASSUME NEW b \in Agents, Minted(b)'
          PROVE  /\ Minted(b) /\ identities'[b].slot = identities[b].slot
                 /\ \/ identities'[b].account = identities[b].account
                    \/ /\ b = call[c].agent /\ answer[c] = "success"
                       /\ identities'[b].account = held[c]
      BY <2>1 DEF FinishMint, InvTypes, TypeOK, Identity, Minted, Unminted
    <2>2. keys' = keys /\ call' = call
      BY DEF FinishMint
    <2>3. answer[c] = "success" => Housed(c) /\ keys[call[c].slot] = held[c]
      BY <1>4 DEF InOrder, Works, FinishMint
    <2> QED
      BY <1>4, <2>1, <2>2, <2>3 DEF InOrder, Doors, Housed
  <1>9. Owns'
    BY <1>3, <1>4 DEF InOrder, Owns, FinishMint
  <1> QED
    BY <1>1, <1>2, <1>5, <1>6, <1>7, <1>8, <1>9 DEF InOrder

\* A lease is given back by a call that is no longer busy.
LEMMA FinishKept ==
    ASSUME KeysInv, NEW c \in Calls, FinishFund(c) \/ FinishPay(c)
    PROVE  /\ (\A k \in Calls : Phase(k))' /\ Named'
           /\ orderly' => InOrder'
  <1> USE DEF KeysInv
  <1>1. (\A k \in Calls : Phase(k))'
    BY DEF Phase, FinishFund, FinishPay, Landing, InvTypes, TypeOK
  <1>2. Named'
    <2>1. identities' = Landing(call[c].agent, c) /\ call[c].agent \in Agents
      BY DEF FinishFund, FinishPay, InvTypes, TypeOK, Arguments, NoCall
    <2> QED
      BY <2>1, LandingKeeps, NamesKept DEF FinishFund, FinishPay
  <1>3. SUFFICES ASSUME orderly' PROVE InOrder'
    BY <1>1, <1>2
  <1>4. orderly /\ InOrder
    BY <1>3 DEF FinishFund, FinishPay, Landing
  <1>5. ASSUME NEW k \in Calls PROVE Sheltered(k)'
    <2>1. /\ Busy(k)' => k # c /\ Busy(k)
          /\ call' = call /\ keys' = keys
      BY DEF FinishFund, FinishPay, InvTypes, TypeOK, Busy, Phase, Alive
    <2>2. Busy(k) => Sheltered(k) /\ Housed(k) /\ call[k].agent \in Agents
      BY <1>4 DEF InOrder, Sheltered, Busy, InvTypes, TypeOK, InStep, Arguments, Alive
    <2>3. identities' = Landing(call[c].agent, c) /\ call[c].agent \in Agents
      BY DEF FinishFund, FinishPay, InvTypes, TypeOK, Arguments, NoCall
    <2>4. Busy(k) =>
              /\ Housed(k)'
              /\ identities[call[k].agent].in_flight
                    \subseteq identities'[call[k].agent].in_flight \cup {c}
      BY <2>1, <2>2, <2>3, LandingKeeps DEF Housed
    <2> QED
      BY <2>1, <2>2, <2>4 DEF Sheltered
  <1>6. (\A k \in Calls : Works(k))'
    BY <1>3, <1>4 DEF InOrder, Works, Housed, FinishFund, FinishPay, Landing,
       InvTypes, TypeOK, InStep, Identity, Arguments, Minted, Unminted
  <1>7. MintsAlone'
    BY <1>3, <1>4 DEF InOrder, MintsAlone, Running, FinishFund, FinishPay, InvTypes,
       TypeOK
  <1>8. Doors'
    <2>1. identities' = Landing(call[c].agent, c) /\ call[c].agent \in Agents
      BY DEF FinishFund, FinishPay, InvTypes, TypeOK, Arguments, NoCall
    <2>2. \A b \in Agents :
             /\ Minted(b)' = Minted(b)
             /\ Minted(b) => /\ identities'[b].slot = identities[b].slot
                             /\ identities'[b].account = identities[b].account
      BY <2>1, LandingKeeps
    <2>3. keys' = keys /\ call' = call
      BY DEF FinishFund, FinishPay
    <2> QED
      BY <1>4, <2>2, <2>3 DEF InOrder, Doors
  <1>9. Owns'
    BY <1>3, <1>4 DEF InOrder, Owns, FinishFund, FinishPay
  <1> QED
    BY <1>1, <1>2, <1>5, <1>6, <1>7, <1>8, <1>9 DEF InOrder

\* A killed caller leaves its child as it was.
LEMMA KilledKept ==
    ASSUME KeysInv, NEW c \in Calls, Killed(c)
    PROVE  /\ (\A k \in Calls : Phase(k))' /\ Named'
           /\ orderly' => InOrder'
  <1> USE DEF KeysInv
  <1>1. (\A k \in Calls : Phase(k))'
    BY DEF Phase, Killed, InvTypes
  <1>2. Named'
    BY NamesKept DEF Killed, Minted, registry
  <1>3. SUFFICES ASSUME orderly' PROVE InOrder'
    BY <1>1, <1>2
  <1>4. orderly /\ InOrder
    BY <1>3 DEF Killed, InvTypes, TypeOK
  <1>5. (\A k \in Calls : Sheltered(k))'
    BY <1>3, <1>4 DEF InOrder, Sheltered, Busy, Housed, Killed, Minted, registry
  <1>6. (\A k \in Calls : Works(k))'
    BY <1>3, <1>4 DEF InOrder, Works, Housed, Killed, Minted, NoAnswer, registry
  <1>7. MintsAlone'
    BY <1>3, <1>4 DEF InOrder, MintsAlone, Running, Killed
  <1>8. Doors'
    BY <1>3, <1>4 DEF InOrder, Doors, Killed, Minted, registry
  <1>9. Owns'
    BY <1>3, <1>4 DEF InOrder, Owns, Killed
  <1> QED
    BY <1>1, <1>2, <1>5, <1>6, <1>7, <1>8, <1>9 DEF InOrder

\* A lease that lapses in orderly use is one of a call that is not busy.
LEMMA LeaseLapsesKept ==
    ASSUME KeysInv, NEW c \in Calls, LeaseLapses(c)
    PROVE  /\ (\A k \in Calls : Phase(k))' /\ Named'
           /\ orderly' => InOrder'
  <1> USE DEF KeysInv
  <1>1. (\A k \in Calls : Phase(k))'
    BY DEF Phase, LeaseLapses, Landing, NoAnswer, Alive, process
  <1>2. Named'
    BY NamesKept DEF LeaseLapses, Landing, Minted, process
  <1>3. SUFFICES ASSUME orderly' PROVE InOrder'
    BY <1>1, <1>2
  <1>4. orderly /\ InOrder
    BY <1>3 DEF LeaseLapses, Landing, InvTypes
  <1>5. (\A k \in Calls : Sheltered(k))'
    <2> SUFFICES ASSUME NEW k \in Calls, Busy(k)'
                 PROVE  /\ Housed(k)'
                        /\ call'[k].verb # "account" =>
                             /\ k \in identities'[call'[k].agent].in_flight
                             /\ keys'[call'[k].slot] # NoKey
      BY DEF Sheltered
    <2>1. Busy(k) /\ call' = call /\ keys' = keys
      BY DEF Busy, LeaseLapses, process
    <2>2. k # c
      BY <1>3, <2>1 DEF LeaseLapses, Busy
    <2>3. /\ Housed(k) /\ call[k].agent \in Agents
          /\ call[k].verb # "account" =>
                 k \in identities[call[k].agent].in_flight /\ keys[call[k].slot] # NoKey
      BY <1>4, <2>1 DEF InOrder, Sheltered, InvTypes, TypeOK, InStep, Arguments,
         Busy, Alive
    <2>4. /\ identities' = Landing(call[c].agent, c)
          /\ call[c].agent \in Agents
      BY DEF LeaseLapses, InvTypes, TypeOK, InStep, Arguments
    <2>5. \A b \in Agents : Minted(b) =>
             /\ Minted(b)' /\ identities'[b].slot = identities[b].slot
             /\ identities[b].in_flight \subseteq identities'[b].in_flight \cup {c}
      BY <2>4, LandingKeeps
    <2> QED
      BY <2>1, <2>2, <2>3, <2>5 DEF Housed, Minted
  <1>6. (\A k \in Calls : Works(k))'
    BY <1>3, <1>4 DEF InOrder, Works, Housed, LeaseLapses, Landing, InvTypes,
       TypeOK, Identity, Minted, Unminted, process
  <1>7. MintsAlone'
    BY <1>3, <1>4 DEF InOrder, MintsAlone, Running, LeaseLapses, process
  <1>8. Doors'
    <2>1. call' = call /\ keys' = keys /\ identities' = Landing(call[c].agent, c)
      BY DEF LeaseLapses, process
    <2>2. call[c].agent \in Agents
      BY DEF LeaseLapses, InvTypes, TypeOK, InStep, Arguments
    <2>3. \A b \in Agents :
              /\ Minted(b)' = Minted(b)
              /\ Minted(b) => /\ identities'[b].slot = identities[b].slot
                              /\ identities'[b].account = identities[b].account
      BY <2>1, <2>2, LandingKeeps
    <2>4. Doors
      BY <1>4 DEF InOrder
    <2> QED
      BY <2>1, <2>3, <2>4 DEF Doors
  <1>9. Owns'
    BY <1>3, <1>4 DEF InOrder, Owns, LeaseLapses, process
  <1> QED
    BY <1>1, <1>2, <1>5, <1>6, <1>7, <1>8, <1>9 DEF InOrder

-------------------------------------------------------------------------------
\* The theorems

LEMMA InitKeysInv == Init => KeysInv
  BY InitTypes DEF Init, KeysInv, Phase, Named, Known, InOrder, Sheltered, Busy, Works,
                   MintsAlone, Running, Doors, Owns, Minted, Alive

LEMMA StepKeysInv ==
    ASSUME KeysInv, [Next]_vars
    PROVE  KeysInv'
  <1> DEFINE Kept == /\ (\A k \in Calls : Phase(k))' /\ Named'
                     /\ orderly' => InOrder'
  <1> SUFFICES Kept
    BY StepTypes DEF KeysInv
  <1>1. CASE UNCHANGED vars
    BY <1>1 DEF vars, KeysInv, Phase, Named, Known, InOrder, Sheltered, Housed,
       Busy, Works,
                MintsAlone, Running, Doors, Owns, Minted
  <1>2. CASE Caller
    BY <1>2, MintNewKept, MintAgainKept, FundKept, PayKept, RetireKept DEF Caller
  <1>3. CASE Work
    <2>1. PICK c \in Calls :
              \/ Launch(c) \/ LaunchFails(c)
              \/ ChildOpens(c) \/ ChildCreates(c) \/ ChildSubmits(c)
              \/ Decided(c, "committed") \/ Decided(c, "none")
              \/ AccountShown(c) \/ CommitShown(c) \/ ChildFails(c)
              \/ FinishMint(c) \/ FinishFund(c) \/ FinishPay(c)
              \/ Killed(c) \/ LeaseLapses(c)
      BY <1>3 DEF Work
    <2> QED
      BY <2>1, LaunchKept, ChildOpensKept, ChildCreatesKept, ChildSubmitsKept,
         AnswersKept,
         FinishMintKept, FinishKept, KilledKept, LeaseLapsesKept
  <1> QED
    BY <1>1, <1>2, <1>3 DEF Next

\* In orderly use the key a child works with stays the key of its slot until it
\* is done, so a grant cannot land in an account whose key is gone.
THEOREM KeysStay == Spec => []KeysOutliveTheirUsers
  <1>1. KeysInv => KeysOutliveTheirUsers
    BY DEF KeysInv, InOrder, Works, KeysOutliveTheirUsers
  <1> QED
    BY <1>1, InitKeysInv, StepKeysInv, PTL DEF Spec

\* In orderly use no child works with a key made for another identity, nor does
\* an entry name such an account, whatever was retired in between.
THEOREM OneKeyEach == Spec => []KeysAreSeparate
  <1>1. KeysInv => KeysAreSeparate
    <2> SUFFICES ASSUME KeysInv, orderly
                 PROVE  /\ \A c \in Calls : held[c] # NoKey => call[held[c]].agent = call[c].agent
                        /\ \A a \in Agents : Minted(a) /\ identities[a].account # NoKey =>
                              /\ call[identities[a].account].agent = a
                              /\ keys[identities[a].slot] = identities[a].account
      BY DEF KeysAreSeparate
    <2> QED
      BY DEF KeysInv, InOrder, Owns, Doors
  <1> QED
    BY <1>1, InitKeysInv, StepKeysInv, PTL DEF Spec

-------------------------------------------------------------------------------
\* The house's invariant

\* The sweep waits for the call it made for the first reference it wants.
Waits ==
    pc = "paying" =>
        /\ wanted # {} /\ paying \in Calls
        /\ call[paying].verb = "pay-sale" /\ call[paying].ref = Min(wanted)

HInv ==
    /\ IInv
    /\ \A c \in Calls : call[c].force = FALSE
    /\ queue \subseteq Refs /\ wanted \subseteq Refs
    /\ covered \in [Refs -> {"none", "paid", "refused"}]
    /\ Waits
    /\ PaidMeansLanded

\* A step of the house is one of the wallet, or leaves the wallet alone.
LEMMA HouseSteps ==
    ASSUME HInv, [HouseNext]_allVars
    PROVE  [Next]_vars
  <1>1. CASE Sweep \/ Skip \/ WalletRefuses \/ WalletReturns \/ SweepEnds \/ SweepDies
    BY <1>1 DEF Sweep, Skip, WalletRefuses, WalletReturns, Covered, SweepEnds, SweepDies
  <1>2. ASSUME NEW c \in Calls, NEW a \in Agents, PayForStranger(c, a)
        PROVE  Next
    <2>1. Min(wanted) \in Refs
      BY <1>2, LeastFacts, RefsAreSorted DEF PayForStranger, Affordable, HInv
    <2> QED
      BY <1>2, <2>1 DEF PayForStranger, Next, Caller
  <1>3. CASE \E r \in Refs : Request(r) \/ CreditOf(r)
    BY <1>3 DEF Request, CreditOf
  <1>4. CASE Operator \/ Work
    BY <1>4 DEF Operator, Next, Caller
  <1>5. CASE UNCHANGED allVars
    BY <1>5 DEF allVars, vars
  <1> QED
    BY <1>1, <1>2, <1>3, <1>4, <1>5 DEF HouseNext, House

\* The wallet's own steps neither force a call nor change one.
LEMMA WorkKeepsCalls == Work => call' = call
  BY DEF Work, Launch, LaunchFails, ChildOpens, ChildCreates, ChildSubmits, Decided, AccountShown,
         CommitShown, ChildFails, Answered, FinishMint, FinishFund, FinishPay, Killed,
         LeaseLapses, process

\* A call that begins is not forced, and is none that began before.
LEMMA BeginsUnforced ==
    ASSUME HInv, NEW c \in Calls, NEW verb, NEW a, NEW r, NEW slot, NEW named,
           Begin(c, verb, a, r, FALSE, slot, named)
    PROVE  /\ \A d \in Calls : call'[d].force = FALSE
           /\ \A d \in Calls : call[d].verb = "pay-sale" => call'[d] = call[d]
           /\ call'[c].verb = verb /\ call'[c].ref = r
  <1>1. call[c] = NoCall /\ call \in [Calls -> Arguments \cup {NoCall}]
    BY DEF Begin, HInv, IInv, InvTypes, TypeOK, InStep
  <1>2. call' = [call EXCEPT ![c] = [verb |-> verb, agent |-> a, ref |-> r, force |-> FALSE,
                                     slot |-> slot, named |-> named]]
    BY DEF Begin
  <1> QED
    BY <1>1, <1>2 DEF NoCall, HInv

\* No step of the house forces a call or touches a payment that began.
LEMMA CallsKept ==
    ASSUME HInv, [HouseNext]_allVars
    PROVE  /\ \A d \in Calls : call'[d].force = FALSE
           /\ \A d \in Calls : call[d].verb = "pay-sale" => call'[d] = call[d]
  <1>1. CASE call' = call
    BY <1>1 DEF HInv
  <1>2. ASSUME NEW c \in Calls, NEW a \in Agents, PayForStranger(c, a)
        PROVE  \E r, slot, named : Begin(c, "pay-sale", a, r, FALSE, slot, named)
    BY <1>2 DEF PayForStranger, Pay
  <1>3. ASSUME NEW c \in Calls, NEW a \in Agents, MintNew(c, a)
        PROVE  \E r, slot, named : Begin(c, "account", a, r, FALSE, slot, named)
    BY <1>3 DEF MintNew
  <1>4. CASE Operator \/ (\E c \in Calls, a \in Agents : PayForStranger(c, a))
    BY <1>2, <1>3, <1>4, BeginsUnforced DEF Operator
  <1>5. CASE Sweep \/ Skip \/ WalletRefuses \/ WalletReturns \/ SweepEnds \/ SweepDies
    BY <1>1, <1>5 DEF Sweep, Skip, WalletRefuses, WalletReturns, Covered, SweepEnds, SweepDies, vars
  <1>6. CASE (\E r \in Refs : Request(r) \/ CreditOf(r)) \/ UNCHANGED allVars
    BY <1>1, <1>6 DEF Request, CreditOf, allVars, vars
  <1>7. CASE Work
    BY <1>1, <1>7, WorkKeepsCalls
  <1> QED
    BY <1>4, <1>5, <1>6, <1>7 DEF HouseNext, House

\* What landed for a reference stays landed for it.
LEMMA LandedForStays ==
    ASSUME HInv, [HouseNext]_allVars, NEW r \in Refs,
           \E c \in PaymentsFor(r) : tx[c] = "committed"
    PROVE  \E c \in PaymentsFor(r)' : tx'[c] = "committed"
  <1>1. PICK c \in PaymentsFor(r) : tx[c] = "committed"
    OBVIOUS
  <1>2. c \in Calls /\ call[c].ref = r
    BY DEF PaymentsFor
  <1>3. tx'[c] = "committed" /\ Launched(c)' /\ call'[c] = call[c]
    BY <1>1, <1>2, HouseSteps, LandedStays DEF HInv
  <1> QED
    BY <1>2, <1>3 DEF PaymentsFor

\* The types of the house's own variables, and what a sweep waits for.
LEMMA SweepsKept ==
    ASSUME HInv, [HouseNext]_allVars
    PROVE  /\ queue' \subseteq Refs /\ wanted' \subseteq Refs
           /\ covered' \in [Refs -> {"none", "paid", "refused"}]
           /\ Waits'
  <1> USE DEF HInv
  <1>1. CASE Sweep
    BY <1>1 DEF Sweep, FirstOf, Unpaid, Waits
  <1>2. CASE Skip
    BY <1>2 DEF Skip, Waits
  <1>3. ASSUME NEW outcome \in {"paid", "refused"}, Covered(outcome)
        PROVE  /\ queue' \subseteq Refs /\ wanted' \subseteq Refs
               /\ covered' \in [Refs -> {"none", "paid", "refused"}]
               /\ Waits'
    BY <1>3 DEF Covered, Waits
  <1>4. CASE WalletRefuses \/ WalletReturns
    BY <1>3, <1>4 DEF WalletRefuses, WalletReturns
  <1>5. CASE SweepEnds \/ SweepDies
    BY <1>5 DEF SweepEnds, SweepDies, Waits
  <1>6. ASSUME NEW c \in Calls, NEW a \in Agents, PayForStranger(c, a)
        PROVE  /\ queue' \subseteq Refs /\ wanted' \subseteq Refs
               /\ covered' \in [Refs -> {"none", "paid", "refused"}]
               /\ Waits'
    <2>1. call'[c].verb = "pay-sale" /\ call'[c].ref = Min(wanted)
      BY <1>6, BeginsUnforced DEF PayForStranger, Pay
    <2>2. /\ wanted' = wanted /\ wanted # {} /\ paying' = c
          /\ queue' = queue /\ covered' = covered
      BY <1>6 DEF PayForStranger, Affordable
    <2> QED
      BY <2>1, <2>2 DEF Waits
  <1>7. CASE \E r \in Refs : Request(r) \/ CreditOf(r)
    BY <1>7 DEF Request, CreditOf, Waits, vars
  <1>8. CASE (Operator \/ Work) /\ UNCHANGED houseVars
    BY <1>8, CallsKept DEF houseVars, Waits
  <1>9. CASE UNCHANGED allVars
    BY <1>9 DEF allVars, vars, Waits
  <1> QED
    BY <1>1, <1>2, <1>4, <1>5, <1>6, <1>7, <1>8, <1>9 DEF HouseNext, House

\* A row says paid when the process for it came to success, and then the
\* payment is on the chain.
LEMMA RowsKept ==
    ASSUME HInv, [HouseNext]_allVars
    PROVE  PaidMeansLanded'
  <1> SUFFICES ASSUME NEW r \in Refs, covered'[r] = "paid"
               PROVE  \E c \in PaymentsFor(r)' : tx'[c] = "committed"
    BY DEF PaidMeansLanded, CoveredFor
  <1>1. CASE covered[r] = "paid"
    BY <1>1, LandedForStays DEF HInv, PaidMeansLanded, CoveredFor
  <1>2. CASE covered[r] # "paid"
    <2>1. WalletReturns
      BY <1>2 DEF HInv, HouseNext, House, Sweep, Skip, WalletRefuses, Covered, SweepEnds,
                  PayForStranger, Request, CreditOf, SweepDies, houseVars, allVars
    <2>2. r = Min(wanted) /\ answer[paying] = "success" /\ pc = "paying"
      BY <1>2, <2>1 DEF WalletReturns, Covered, HInv
    <2>3. paying \in Calls /\ call[paying].ref = r /\ call[paying].verb = "pay-sale"
      BY <2>2 DEF HInv, Waits
    <2>4. tx[paying] = "committed" /\ Launched(paying)
      BY <2>2, <2>3 DEF HInv, IInv, InvTypes, InStep, Launched
    <2> QED
      BY <2>3, <2>4, LandedForStays DEF PaymentsFor
  <1> QED
    BY <1>1, <1>2

LEMMA InitHInv == HouseInit => HInv
  BY InitIInv DEF HouseInit, HInv, Init, NoCall, Waits, PaidMeansLanded, CoveredFor

LEMMA StepHInv ==
    ASSUME HInv, [HouseNext]_allVars
    PROVE  HInv'
  <1>1. IInv'
    BY HouseSteps, StepIInv DEF HInv
  <1> QED
    BY <1>1, CallsKept, SweepsKept, RowsKept DEF HInv

-------------------------------------------------------------------------------
\* The budget

Budgeted ==
    /\ IsFiniteSet(queue) /\ wanted \subseteq queue
    /\ \A r \in Refs : covered[r] # "none" => r \in queue
    /\ pc # "stopped" => spent = SpentSoFar /\ \A r \in wanted : covered[r] = "none"
    /\ pc = "paying" => spent + Price[Min(wanted)] <= HOUSE_BUDGET
    /\ SpentSoFar <= HOUSE_BUDGET

\* The table sums up what Collections calls the total of the prices.
LEMMA PricesAddUp ==
    ASSUME NEW refs
    PROVE  TotalOf(refs) = Total(Price, refs)
  BY DEF TotalOf, MapThenSumSet, MapThenFoldSet, Total, Adds, Chosen

LEMMA SpentIsTotal ==
    /\ SpentSoFar = Total(Price, CoveredFor("paid"))
    /\ SpentSoFar' = Total(Price, CoveredFor("paid")')
  BY PricesAddUp DEF SpentSoFar

\* What the rows add up to is a number.
LEMMA SpentIsNatural ==
    ASSUME HInv, Budgeted
    PROVE  IsFiniteSet(CoveredFor("paid")) /\ SpentSoFar \in Nat
  <1>1. CoveredFor("paid") \subseteq queue
    BY DEF CoveredFor, Budgeted
  <1>2. IsFiniteSet(CoveredFor("paid"))
    BY <1>1, FS_Subset DEF Budgeted
  <1>3. \A r \in CoveredFor("paid") : Price[r] \in Nat
    BY PricesAreTyped DEF CoveredFor
  <1> QED
    BY <1>2, <1>3, SpentIsTotal, TotalType

\* While no row is written the rows add up to the same.
LEMMA SameRowsSameSum == covered' = covered => SpentSoFar' = SpentSoFar
  BY SpentIsTotal DEF CoveredFor

\* A row that says paid adds its price, and another row nothing.
LEMMA RowAdds ==
    ASSUME HInv, Budgeted, pc # "stopped", wanted # {},
           NEW outcome \in {"paid", "refused"}, Covered(outcome)
    PROVE  /\ SpentSoFar' = spent'
           /\ spent' = IF outcome = "paid" THEN spent + Price[Min(wanted)] ELSE spent
           /\ covered' = [covered EXCEPT ![Min(wanted)] = outcome]
           /\ wanted' = wanted \ {Min(wanted)} /\ Min(wanted) \in queue
           /\ pc' = "sweeping" /\ queue' = queue
  <1> DEFINE r == Min(wanted)
             paid == CoveredFor("paid")
  <1>1. /\ covered' = [covered EXCEPT ![r] = outcome]
        /\ spent' = IF outcome = "paid" THEN spent + Price[r] ELSE spent
        /\ wanted' = wanted \ {r} /\ pc' = "sweeping" /\ queue' = queue
    BY DEF Covered
  <1>2. r \in wanted
    BY LeastFacts, RefsAreSorted DEF HInv
  <1>3. r \in Refs /\ r \in queue /\ covered[r] = "none" /\ covered \in [Refs -> {"none", "paid", "refused"}]
    BY <1>2 DEF HInv, Budgeted
  <1> HIDE DEF r
  <1>4. r \notin paid
    BY <1>3 DEF CoveredFor
  <1>5. CASE outcome = "refused"
    <2>1. CoveredFor("paid")' = paid
      BY <1>1, <1>3, <1>5 DEF CoveredFor
    <2>2. SpentSoFar' = SpentSoFar
      BY <2>1, SpentIsTotal
    <2> QED
      BY <1>1, <1>3, <1>5, <2>2 DEF Budgeted, r
  <1>6. CASE outcome = "paid"
    <2>1. CoveredFor("paid")' = paid \cup {r}
      BY <1>1, <1>3, <1>6 DEF CoveredFor
    <2>2. Price[r] \in Nat /\ (\A q \in paid : Price[q] \in Nat) /\ IsFiniteSet(paid)
      BY <1>3, PricesAreTyped, SpentIsNatural DEF CoveredFor
    <2> HIDE DEF paid
    <2>3. Total(Price, paid \cup {r}) = Total(Price, paid) + Price[r]
      BY <1>4, <2>2, TotalOfOneMore
    <2>4. SpentSoFar' = SpentSoFar + Price[r]
      BY <2>1, <2>3, SpentIsTotal DEF paid
    <2> QED
      BY <1>1, <1>3, <1>6, <2>4 DEF Budgeted, r
  <1> QED
    BY <1>5, <1>6

LEMMA StepBudgeted ==
    ASSUME HInv, Budgeted, [HouseNext]_allVars
    PROVE  Budgeted'
  <1>1. /\ IsFiniteSet(queue) /\ wanted \subseteq queue /\ queue \subseteq Refs
        /\ covered \in [Refs -> {"none", "paid", "refused"}] /\ Waits
        /\ SpentSoFar \in Nat
    BY SpentIsNatural DEF Budgeted, HInv
  <1>2. CASE Sweep
    <2>1. wanted' \subseteq Unpaid /\ spent' = SpentSoFar /\ pc' = "sweeping"
          /\ queue' = queue /\ covered' = covered
      BY <1>2 DEF Sweep, FirstOf
    <2> QED
      BY <2>1, SameRowsSameSum DEF Budgeted, Unpaid
  <1>3. CASE Skip
    <2>1. wanted' \subseteq wanted /\ spent' = spent /\ pc' = "sweeping" /\ pc = "sweeping"
          /\ queue' = queue /\ covered' = covered
      BY <1>3 DEF Skip
    <2> QED
      BY <2>1, SameRowsSameSum DEF Budgeted
  <1>4. ASSUME NEW c \in Calls, NEW a \in Agents, PayForStranger(c, a)
        PROVE  Budgeted'
    <2>1. wanted' = wanted /\ spent' = spent /\ pc = "sweeping"
          /\ queue' = queue /\ covered' = covered /\ spent + Price[Min(wanted)] <= HOUSE_BUDGET
      BY <1>4 DEF PayForStranger, Affordable
    <2> QED
      BY <2>1, SameRowsSameSum DEF Budgeted
  <1>5. ASSUME NEW outcome \in {"paid", "refused"}, Covered(outcome), pc # "stopped", wanted # {},
               outcome = "paid" => pc = "paying"
        PROVE  Budgeted'
    <2>1. /\ SpentSoFar' = spent'
          /\ spent' = IF outcome = "paid" THEN spent + Price[Min(wanted)] ELSE spent
          /\ covered' = [covered EXCEPT ![Min(wanted)] = outcome]
          /\ wanted' = wanted \ {Min(wanted)} /\ Min(wanted) \in queue
          /\ pc' = "sweeping" /\ queue' = queue
      BY <1>5, RowAdds
    <2>2. spent' <= HOUSE_BUDGET
      BY <1>5, <2>1 DEF Budgeted
    <2>3. \A q \in wanted' : covered'[q] = "none"
      BY <1>1, <1>5, <2>1 DEF Budgeted
    <2>4. \A q \in Refs : covered'[q] # "none" => q \in queue'
      BY <1>1, <2>1 DEF Budgeted
    <2> QED
      BY <1>1, <2>1, <2>2, <2>3, <2>4 DEF Budgeted
  <1>6. CASE WalletRefuses
    BY <1>5, <1>6 DEF WalletRefuses, Affordable
  <1>7. CASE WalletReturns
    BY <1>1, <1>5, <1>7 DEF WalletReturns, Waits
  <1>8. CASE SweepEnds \/ SweepDies
    <2>1. wanted' \subseteq wanted /\ pc' = "stopped" /\ queue' = queue /\ covered' = covered
      BY <1>8 DEF SweepEnds, SweepDies
    <2> QED
      BY <2>1, SameRowsSameSum DEF Budgeted
  <1>9. CASE \E r \in Refs : Request(r)
    <2>1. PICK r \in Refs : queue' = queue \cup {r}
      BY <1>9 DEF Request
    <2>2. UNCHANGED <<covered, wanted, spent, pc>>
      BY <1>9 DEF Request
    <2>3. IsFiniteSet(queue')
      BY <1>1, <2>1, FS_AddElement
    <2> QED
      BY <2>1, <2>2, <2>3, SameRowsSameSum DEF Budgeted
  <1>10. CASE (\E r \in Refs : CreditOf(r)) \/ ((Operator \/ Work) /\ UNCHANGED houseVars)
              \/ UNCHANGED allVars
    <2>1. UNCHANGED <<queue, covered, wanted, spent, pc>>
      BY <1>10 DEF CreditOf, houseVars, allVars
    <2> QED
      BY <2>1, SameRowsSameSum DEF Budgeted
  <1> QED
    BY <1>2, <1>3, <1>4, <1>6, <1>7, <1>8, <1>9, <1>10 DEF HouseNext, House

LEMMA InitBudgeted == HouseInit => Budgeted
  <1> SUFFICES ASSUME HouseInit PROVE Budgeted
    OBVIOUS
  <1>1. /\ queue = {} /\ wanted = {} /\ pc = "stopped"
        /\ covered = [r \in Refs |-> "none"]
    BY DEF HouseInit
  <1>2. SpentSoFar = 0
    <2>1. CoveredFor("paid") = {}
      BY <1>1 DEF CoveredFor
    <2> QED
      BY <2>1, SpentIsTotal, TotalOfNothing
  <1> QED
    BY <1>1, <1>2, FS_EmptySet, BudgetIsNatural DEF Budgeted

-------------------------------------------------------------------------------
\* The theorems

\* "Never the same one twice": the house starts at most one payment for a
\* reference, in whatever sweep and however it died, for any number of them.
THEOREM NeverPaidTwice == HouseSpec => []NeverTheSameTwice
  <1>1. HInv => NeverTheSameTwice
    <2> SUFFICES ASSUME HInv, NEW r \in Refs
                 PROVE  Cardinality(PaymentsFor(r)) <= 1
      BY DEF NeverTheSameTwice
    <2>1. Forced(r) = {}
      BY DEF HInv, Forced
    <2>2. Cardinality(PaymentsFor(r)) <= 1 + Cardinality(Forced(r))
      BY IInvImplies DEF HInv, PaidOncePerDecision
    <2>3. Cardinality(Forced(r)) = 0
      BY <2>1, FS_EmptySet
    <2>4. Cardinality(PaymentsFor(r)) \in Nat
      BY CountsAreNumbers DEF PaymentsFor
    <2> QED
      BY <2>2, <2>3, <2>4
  <1> QED
    BY <1>1, InitHInv, StepHInv, PTL DEF HouseSpec

\* A row says paid only of a reference whose payment is on the chain.
THEOREM RowsAreTrue == HouseSpec => []PaidMeansLanded
  <1>1. HInv => PaidMeansLanded
    BY DEF HInv
  <1> QED
    BY <1>1, InitHInv, StepHInv, PTL DEF HouseSpec

\* "The ceiling must not be crossed by the last order in a sweep that started
\* under it", and a restart does not reset it: whatever the prices, and however
\* often a sweep or the wallet's process was stopped half way, what the table
\* says was paid is within the budget.
THEOREM BudgetIsKept == HouseSpec => []RecordedWithinBudget
  <1>1. Budgeted => RecordedWithinBudget
    BY DEF Budgeted, RecordedWithinBudget, SpentSoFar
  <1>2. HouseSpec => []HInv
    BY InitHInv, StepHInv, PTL DEF HouseSpec
  <1> QED
    BY <1>1, <1>2, InitBudgeted, StepBudgeted, PTL DEF HouseSpec
===============================================================================
