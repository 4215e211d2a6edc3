----------------------------- MODULE MCAgentWallet -----------------------------
(***************************************************************************)
(* AgentWallet with two identities that compete for slots and sales.       *)
(***************************************************************************)
EXTENDS AgentWallet, TLC

MCSymmetry == Permutations(Agents)

\* An identity is made; then another, grants and payments in any order.
Day == <<{"account"}, {"faucet", "pay-sale"}, {"account", "pay-sale"},
         {"faucet", "pay-sale"}>>

\* An identity, and three calls that pay the same sale.
MintPayPayPay == <<{"account"}, {"pay-sale"}, {"pay-sale"}, {"pay-sale"}>>

\* State constraint: the properties of keys speak of orderly use only.
Orderly == orderly
===============================================================================
