CONSTANTS
  Tier = {t1, t2}
  Purchase = {p1, p2}
  User = {u1}
  Buyer <- BuyerOf
  MaxRequest = 1
  MaxQuantity = 1
  MaxPerPurchase = 1
  Faults = FALSE
SPECIFICATION Spec
INVARIANT NoStrandedPurchase
