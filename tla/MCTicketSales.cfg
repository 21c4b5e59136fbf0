CONSTANTS
  Tier = {t1, t2}
  Purchase = {p1, p2}
  User = {u1}
  Buyer <- BuyerOf
  MaxRequest = 3
  MaxQuantity = 2
  MaxPerPurchase = 2
  Faults = TRUE
SPECIFICATION Spec
SYMMETRY Symmetry
INVARIANTS
  TypeOK
  SeatInv
  SeatsConserved
  RestoreAlwaysFits
  CancelledWithTickets
PROPERTIES
  EventLifecycle
  RecordsOnlyAdvance
  ImplementsLedger
