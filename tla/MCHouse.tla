-------------------------------- MODULE MCHouse --------------------------------
(***************************************************************************)
(* House with one identity and two strangers' orders, of which the budget  *)
(* pays for one.                                                           *)
(***************************************************************************)
EXTENDS House, TLC

\* The house's identity, and one process per payment it may come to start.
MintPayPay == <<{"account"}, {"pay-sale"}, {"pay-sale"}>>

MCPrice == (1 :> 2) @@ (2 :> 2)
===============================================================================
