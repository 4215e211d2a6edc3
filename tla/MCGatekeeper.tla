----------------------------- MODULE MCGatekeeper -----------------------------
(***************************************************************************)
(* Small shops for Gatekeeper: two titles, prices that make a rental of    *)
(* two days cost as much as a title, and the payments that matter.         *)
(***************************************************************************)
EXTENDS Gatekeeper

Sku(kind, names) == [kind |-> kind, names |-> names]
Paid(sub, sku, amount, outcome) ==
    [sub |-> sub, sku |-> sku, amount |-> amount, outcome |-> outcome]

\* One subscriber rents and renews; another buys a portrait.
Sales ==
    <<Paid(1, ALL_ACCESS, 2, "Commit"),
      Paid(2, Sku("titles", {"a"}), 2, "Commit"),
      Paid(1, ALL_ACCESS, 3, "Commit")>>

\* Two purchases of one subscriber; then somebody pays for a key to which
\* nothing can be sealed.
TwoGoodOneJams ==
    <<Paid(1, Sku("titles", {"a"}), 2, "Commit"),
      Paid(1, Sku("titles", {"b"}), 2, "Commit"),
      Paid(2, Sku("titles", {"a"}), 2, "Commit")>>

\* One subscriber rents, buys a portrait, and renews; and pays too little for
\* the other one.
RentBuyRent ==
    <<Paid(1, ALL_ACCESS, 2, "Commit"),
      Paid(1, Sku("titles", {"a"}), 2, "Commit"),
      Paid(1, Sku("titles", {"b"}), 1, "Commit"),
      Paid(1, ALL_ACCESS, 3, "Commit")>>
===============================================================================
