----------------------------- MODULE SeatLedger -----------------------------
(***************************************************************************)
(* What selling and cancelling promise about seats, with every operation a *)
(* single step: a sale takes its seats from its tier if they are there, a  *)
(* return puts them back, and once the event is off its purchases may be   *)
(* written off, whose seats do not come back.  The transactions of         *)
(* module TicketSales implement it whatever their interleaving.            *)
(***************************************************************************)
EXTENDS Integers

CONSTANTS Tier, Purchase

VARIABLES
  free,     \* the seats each tier has to sell
  state,    \* of each purchase: "none", "confirmed", "cancelled"
  choice,   \* the tier of each purchase
  size,     \* the number of seats of each purchase
  off       \* whether the event is cancelled

ledgerVars == <<free, state, choice, size, off>>

LedgerInit ==
  /\ free \in [Tier -> Nat]
  /\ state = [p \in Purchase |-> "none"]
  /\ choice \in [Purchase -> Tier]
  /\ size \in [Purchase -> Nat \ {0}]
  /\ off = FALSE

Sell(p) ==
  /\ state[p] = "none"
  /\ size[p] <= free[choice[p]]
  /\ free' = [free EXCEPT ![choice[p]] = @ - size[p]]
  /\ state' = [state EXCEPT ![p] = "confirmed"]
  /\ UNCHANGED <<choice, size, off>>

Return(p) ==
  /\ state[p] = "confirmed"
  /\ free' = [free EXCEPT ![choice[p]] = @ + size[p]]
  /\ state' = [state EXCEPT ![p] = "cancelled"]
  /\ UNCHANGED <<choice, size, off>>

CallOff ==
  /\ ~off
  /\ off' = TRUE
  /\ UNCHANGED <<free, state, choice, size>>

WriteOff(P) ==
  /\ off
  /\ \A p \in P : state[p] = "confirmed"
  /\ state' = [p \in Purchase |-> IF p \in P THEN "cancelled" ELSE state[p]]
  /\ UNCHANGED <<free, choice, size, off>>

LedgerNext ==
  \/ \E p \in Purchase : Sell(p) \/ Return(p)
  \/ CallOff
  \/ \E P \in SUBSET Purchase : WriteOff(P)

LedgerSpec == LedgerInit /\ [][LedgerNext]_ledgerVars
=============================================================================
