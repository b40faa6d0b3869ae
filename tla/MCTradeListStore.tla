-------------------------- MODULE MCTradeListStore --------------------------
(* TLC instance of TradeListStore. *)
EXTENDS TradeListStore, TLC

Sym == Permutations(Client) \cup Permutations(Id) \cup Permutations(Ver)

\* Once every record has been hit by a double storage fault nothing is left to check.
SomeCovered == exposed # Id
=============================================================================
