CONSTANTS
  Tier = {t1}
  u1 = u1
  Purchase = {p1}
  User = {u1, u2}
  Buyer <- BuyerOf
  Organizer = u2
  Worker = {w1}
  MaxTasks = 1
  MaxRequest = 1
  MaxQuantity = 1
  MaxPerPurchase = 1
  Faults = FALSE
SPECIFICATION ScheduledWaitSpec
CONSTRAINTS
  InTime
  BeforeTheDoor
PROPERTY ExpiredOffersPassOn
