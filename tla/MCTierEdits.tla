---------------------------- MODULE MCTierEdits ----------------------------
\* TierEdits on small sets of tiers, purchases and requests.
EXTENDS TierEdits, TLC

Symmetry == Permutations(Purchase)

\* Every purchase is made by the same user.
BuyerOf == [p \in Purchase |-> CHOOSE u \in User : TRUE]
=============================================================================
