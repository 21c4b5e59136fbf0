------------------------------- MODULE MCDoor -------------------------------
\* Door with interchangeable tickets and scanners.
EXTENDS Door, TLC

Symmetry == Permutations(Ticket) \cup Permutations(Scan)
=============================================================================
