--------------------------- MODULE MCRequestQueue ---------------------------
(***************************************************************************)
(* RequestQueue on three nodes with a cap of two: three references that    *)
(* can be paid, so that the cap is met from different sides, one that is   *)
(* too long, one of three parts and one that is no reference at all.       *)
(***************************************************************************)
EXTENDS RequestQueue

Order(id, len, parts, shaped) ==
    [id |-> id, len |-> len, prefixed |-> shaped, parts |-> parts, clean |-> shaped]

MCReferences ==
    {Order(i, 128, 4, TRUE) : i \in {1, 2, 3}}
        \cup {Order(4, 129, 4, TRUE), Order(5, 80, 3, TRUE), Order(6, 80, 4, FALSE)}

\* Documents of up to three references, in any order, and one of a version
\* this contract does not know.
Sheets ==
    {[v |-> FORMAT_VERSION, refs |-> rs] : rs \in BoundedSeq(MCReferences, 3)}
        \cup {[v |-> 2, refs |-> <<r>>] : r \in MCReferences}

MCBatches ==
    (Sheets \X {EmptyDocument})
        \cup {b \in Sheets \X Sheets : Len(b[1].refs) = 1 /\ Len(b[2].refs) <= 2}
===============================================================================
