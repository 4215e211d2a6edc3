------------------------------ MODULE MCReplicas ------------------------------
(***************************************************************************)
(* Replicas on two nodes and two subscribers, with envelopes that tie on   *)
(* seq, envelopes that do not, and one nobody signed.                      *)
(***************************************************************************)
EXTENDS Replicas

\* Subscriber 1 is sold twice at seq 1 (the tie) and once at seq 2, with
\* signatures that sort against the order of issuance; subscriber 2 is sold
\* once at seq 1 and once at seq 2.
MCEnvelopes ==
    {[sub |-> 1, seq |-> 1, sealed |-> "a", sig |-> 4],
     [sub |-> 1, seq |-> 1, sealed |-> "b", sig |-> 3],
     [sub |-> 1, seq |-> 2, sealed |-> "c", sig |-> 1],
     [sub |-> 2, seq |-> 1, sealed |-> "a", sig |-> 5],
     [sub |-> 2, seq |-> 2, sealed |-> "b", sig |-> 2]}

\* Documents of up to two envelopes: sorted, unsorted, with a subscriber twice,
\* and of a version this contract does not know.
Sheets ==
    {[v |-> FORMAT_VERSION, entitlements |-> es] : es \in BoundedSeq(MCEnvelopes, 2)}
        \cup {[v |-> 2, entitlements |-> <<e>>] : e \in MCEnvelopes}

Singles == {d \in Sheets : Len(d.entitlements) = 1}

MCBatches ==
    (Sheets \X {EmptyDocument}) \cup (Singles \X Singles)
===============================================================================
