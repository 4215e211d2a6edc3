--------------------------------- MODULE Shop ---------------------------------
(***************************************************************************)
(* What the seller promises its customers, whatever it is made of: every   *)
(* order that is placed is settled at most once, served if it is worth its *)
(* goods and refused if it is not, and a customer has exactly what the     *)
(* served orders contained.  Orders are settled in batches, since a pass   *)
(* commits all that it did at once.                                        *)
(*                                                                         *)
(* No process, no crash and no retry shows here.  Module Gatekeeper, which *)
(* has them, is shown to implement it (Gatekeeper!SellsLikeAShop).         *)
(***************************************************************************)
CONSTANTS
    Customers,
    Orders,
    BuyerOf,       \* the customer of each order
    ContentsOf,    \* the goods each order asks for
    Outright,      \* the orders that buy them for good
    Worthy         \* the orders that deserve them

VARIABLES
    placed,        \* orders that were placed
    served, refused,
    owned,         \* what each customer has for good
    held           \* what each customer has, or had for a time

vars == <<placed, served, refused, owned, held>>

Init ==
    /\ placed = {} /\ served = {} /\ refused = {}
    /\ owned = [c \in Customers |-> {}]
    /\ held = [c \in Customers |-> {}]

Place(o) ==
    /\ o \in Orders \ placed
    /\ placed' = placed \cup {o}
    /\ UNCHANGED <<served, refused, owned, held>>

\* The goods of a customer's orders.
GoodsOf(orders, c) == UNION {ContentsOf[o] : o \in {p \in orders : BuyerOf[p] = c}}

Open == placed \ (served \cup refused)

\* Some of the open orders are served and some are refused.
Settle(good, bad) ==
    /\ good \subseteq Open \cap Worthy
    /\ bad \subseteq Open \ Worthy
    /\ served' = served \cup good
    /\ refused' = refused \cup bad
    /\ owned' = [c \in Customers |-> owned[c] \cup GoodsOf(good \cap Outright, c)]
    /\ held' = [c \in Customers |-> held[c] \cup GoodsOf(good, c)]
    /\ UNCHANGED placed

Next ==
    \/ \E o \in Orders : Place(o)
    \/ \E good, bad \in SUBSET Orders : Settle(good, bad)

Spec == Init /\ [][Next]_vars
===============================================================================
