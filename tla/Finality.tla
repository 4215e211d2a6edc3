------------------------------- MODULE Finality -------------------------------
(***************************************************************************)
(* `toolkit finality' (payer/ootle/toolkit/src/main.rs): pairs of gift     *)
(* card transactions, an issue and a redeem, are timed against a network   *)
(* that commits on a cadence, and what was learnt is written to a dated    *)
(* file of its own.                                                        *)
(*                                                                         *)
(* Time is counted in units that divide the cycle; the network commits at  *)
(* every multiple of Cycle, and what is submitted at an offset into the    *)
(* cycle is committed at its end.  Work on this machine takes no time, but *)
(* an answer that is no commit may come at any moment.                     *)
(***************************************************************************)
EXTENDS Naturals, Sequences, FiniteSets, FiniteSetsExt, SequencesExt

CONSTANTS
    Cycle,       \* time between two commits
    MaxPairs,    \* bound on the pairs the day's records are made of
    MaxNames     \* the names one day has for a record: 99 in the code

ASSUME CycleIsPositive == Cycle \in Nat \ {0}
ASSUME BoundsAreNumbers == MaxPairs \in Nat /\ MaxNames \in Nat \ {0}

VARIABLES
    measurements,   \* each of the day's names, the record under it or none
    out,            \* the name this command will write to
    n,              \* the pairs it was asked for
    run,            \* the pair it is at
    pc,             \* what it does next
    samples,        \* what it has measured
    clock           \* how far into the cycle the network is

vars == <<measurements, out, n, run, pc, samples, clock>>

NoRecord == [verdict |-> "none", pairs |-> 0]

\* "unsent" stands for prepare_error, build_error and submit_error, "refused"
\* for what watch answers but commits and timeouts.
Failures == {"unsent", "refused", "timeout"}

FinalitySample(action, phase, stagger, outcome, wait) ==
    [run |-> run, action |-> action, phase |-> phase, stagger_ms |-> stagger,
     outcome |-> outcome, finality_ms |-> wait]

Committed(s) == s.outcome = "commit"
TimedOut(s) == s.outcome = "timeout"

-------------------------------------------------------------------------------
\* Arithmetic on samples

median_u64(sorted) ==
    LET mid == Len(sorted) \div 2
    IN  IF Len(sorted) % 2 = 1 THEN sorted[mid + 1] ELSE (sorted[mid] + sorted[mid + 1]) \div 2

\* Of samples, those that committed.
Committing(of) == {i \in of : Committed(samples[i])}

\* The finality times of some samples, in order.
Finals(of) ==
    CHOOSE times \in {[k \in 1..Cardinality(of) |-> samples[list[k]].finality_ms] :
                          list \in SetToSeqs(of)} :
        \A j, k \in 1..Cardinality(of) : j < k => times[j] <= times[k]

OfPhase(phase) == {i \in 1..Len(samples) : samples[i].phase = phase}

MedianOf(of) == IF of = {} THEN {} ELSE {median_u64(Finals(of))}

summarise(phase) ==
    LET committed == Committing(OfPhase(phase))
    IN  [n_committed |-> Cardinality(committed),
         n_failed |-> Cardinality(OfPhase(phase) \ committed),
         median |-> MedianOf(committed)]

\* Mutant: every committed sample measures the cycle.
PooledCycle == MedianOf(Committing(1..Len(samples)))

\* The cycle, if a locked sample has measured it.
cycle_hint == summarise("locked").median

\* Mutant: the midpoints of n parts, of which the first is never taken.
MidpointOfAll(cycle) == (cycle * (2 * run - 1)) \div (2 * n)

\* The midpoints of n - 1 parts, for the pairs after the first.
Offset(cycle) == (cycle * (2 * (run - 1) - 1)) \div (2 * (n - 1))

swept == IF run > 1 THEN {Offset(cycle) : cycle \in cycle_hint} ELSE {}

n_committed == Cardinality(Committing(1..Len(samples)))

\* Mutant: only a timeout makes a run partial.
VerdictOnTimeouts ==
    IF n_committed = 0 THEN "NO COMMITS"
    ELSE IF \E i \in 1..Len(samples) : TimedOut(samples[i]) THEN "PARTIAL"
    ELSE "MEASURED"

verdict ==
    IF n_committed = 0 THEN "NO COMMITS"
    ELSE IF n_committed < Len(samples) THEN "PARTIAL"
    ELSE "MEASURED"

-------------------------------------------------------------------------------
\* One command after another

Init ==
    /\ measurements = [name \in 1..MaxNames |-> NoRecord]
    /\ out = 0 /\ n = 0 /\ run = 0
    /\ pc = "idle"
    /\ samples = <<>>
    /\ clock = 0

\* Mutant: one name a day.
TheDate == 1

\* The first name not taken, and the day's first one when all are.
finality_out_path ==
    LET free == {name \in 1..MaxNames : measurements[name] = NoRecord}
    IN  IF free = {} THEN 1 ELSE Min(free)

PairsRecorded == MapThenSumSet(LAMBDA name : measurements[name].pairs, 1..MaxNames)

\* The name is resolved before anything is spent.
Start ==
    /\ pc = "idle"
    /\ out' = finality_out_path
    /\ n' \in {pairs \in 1..MaxPairs : pairs + PairsRecorded <= MaxPairs}
    /\ run' = 1
    /\ pc' = "issue"
    /\ samples' = <<>>
    /\ clock' \in 0..Cycle - 1
    /\ UNCHANGED measurements

NextPair ==
    /\ run' = run + 1
    /\ pc' = IF run < n THEN "issue" ELSE "report"

\* prepare, build, send_transaction and watch for what is sent at an offset
\* into the cycle: the sample is taken whatever the answer.
timed_call(action, phase, stagger, offset, outcome) ==
    IF outcome = "commit"
    THEN /\ samples' = Append(samples, FinalitySample(action, phase, stagger, outcome, Cycle - offset))
         /\ clock' = 0
    ELSE /\ samples' = Append(samples, FinalitySample(action, phase, stagger, outcome, 0))
         /\ clock' \in IF outcome = "unsent" THEN {offset} ELSE 0..Cycle - 1

Issue ==
    LET stagger == IF swept = {} THEN 0 ELSE Min(swept)
        phase == IF swept = {} THEN "unknown" ELSE "free"
    IN  /\ pc = "issue"
        /\ \/ /\ timed_call("issue", phase, stagger, (clock + stagger) % Cycle, "commit")
              /\ pc' = "redeem"
              /\ UNCHANGED run
           \/ /\ \E outcome \in Failures :
                     timed_call("issue", phase, stagger, (clock + stagger) % Cycle, outcome)
              /\ NextPair
        /\ UNCHANGED <<measurements, out, n>>

Redeem ==
    /\ pc = "redeem"
    /\ \E outcome \in Failures \cup {"commit"} :
           timed_call("redeem", "locked", 0, clock, outcome)
    /\ NextPair
    /\ UNCHANGED <<measurements, out, n>>

Record ==
    [verdict |-> verdict,
     pairs |-> n,
     samples_considered |-> n_committed,
     cycle |-> cycle_hint,
     expected_wait |-> {cycle \div 2 : cycle \in cycle_hint},
     free_phase |-> summarise("free")]

Report ==
    /\ pc = "report"
    /\ measurements' = [measurements EXCEPT ![out] = Record]
    /\ pc' = "done"
    /\ UNCHANGED <<out, n, run, samples, clock>>

\* The command has ended, at its end or at any other moment.
End ==
    /\ pc # "idle"
    /\ pc' = "idle"
    /\ out' = 0 /\ n' = 0 /\ run' = 0
    /\ samples' = <<>>
    /\ clock' = 0
    /\ UNCHANGED measurements

Next == Start \/ Issue \/ Redeem \/ Report \/ End

Spec == Init /\ [][Next]_vars

-------------------------------------------------------------------------------
\* Properties

\* "The verdict must not be able to say more than the samples do" (main.rs,
\* above verdict): MEASURED means that both transactions of every pair that was
\* asked for committed, whichever way a run may have skipped or failed one.
VerdictIsEarned ==
    \A name \in 1..MaxNames :
        LET r == measurements[name]
        IN  /\ r.verdict = "MEASURED" => r.samples_considered = 2 * r.pairs
            /\ r.verdict = "NO COMMITS" => r.cycle = {} /\ r.free_phase.median = {}

\* The cycle is measured only on transactions sent right after a commit, so it
\* is the cycle, and half of it is the wait that is quoted to a merchant.
CycleIsTheCycle ==
    \A name \in 1..MaxNames :
        measurements[name] # NoRecord =>
            /\ measurements[name].cycle \subseteq {Cycle}
            /\ measurements[name].expected_wait \subseteq {Cycle \div 2}

\* "So the sample median is an unbiased estimate" (main.rs, above cycle_hint):
\* when every sample committed, the sweep was even about the half cycle, and
\* the customer's median is the half cycle, to the rounding of whole numbers.
SweepIsUnbiased ==
    \A name \in 1..MaxNames :
        LET r == measurements[name]
        IN  r.verdict = "MEASURED" /\ r.pairs > 1 =>
               \E half \in {Cycle \div 2, (Cycle + 1) \div 2} : r.free_phase.median = {half}

\* "Never over an existing one" (the usage text): a record that was paid for is
\* not written over by a later run, nor one that ended early, while the day
\* has names left.
RecordsStay ==
    [][\A name \in 1..MaxNames :
          /\ measurements[name] # NoRecord
          /\ \E other \in 1..MaxNames : measurements[other] = NoRecord
          => measurements'[name] = measurements[name]]_vars

\* "Some(offset) only when this run is genuinely part of the sweep" (main.rs,
\* above swept): a free sample is sent where in the cycle its stagger says.
FreePhaseIsKnown ==
    \A i \in 1..Len(samples) :
        LET s == samples[i]
        IN  Committed(s) /\ s.phase = "free" => s.finality_ms = Cycle - s.stagger_ms
===============================================================================
