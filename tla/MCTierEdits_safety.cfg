CONSTANTS
  Tier = {t1}
  Purchase = {p1, p2}
  User = {u1}
  Buyer <- BuyerOf
  MaxRequest = 1
  MaxQuantity = 2
  MaxPerPurchase = 1
  Faults = TRUE
  Editor = {e1}
  Capacity = 2
SPECIFICATION EditSpec
SYMMETRY Symmetry
INVARIANTS
  EditTypeOK
  EditInv
  TierStatusTruthful
PROPERTIES
  TimelyEditKeepsSold
  EventLifecycle
