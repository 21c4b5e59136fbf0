----------------------------- MODULE MCAccounts -----------------------------
\* Accounts with interchangeable tokens, sessions and handlers.
EXTENDS Accounts, TLC

Symmetry == Permutations(Token) \cup Permutations(Session) \cup Permutations(Request)

\* Bound: a run is followed until a statement that nobody repeats is missed.
\* Every invariant but the types excuses what comes after.
Unharmed == ~mishap
=============================================================================
