--------------------------- MODULE MCTicketSales ---------------------------
\* TicketSales on small sets of tiers and purchases.
EXTENDS TicketSales, TLC

\* Purchases are interchangeable, and so are tiers: Init treats all alike.
Symmetry == Permutations(Purchase) \cup Permutations(Tier)

\* Every purchase is made by the same user.
BuyerOf == [p \in Purchase |-> CHOOSE u \in User : TRUE]
=============================================================================
