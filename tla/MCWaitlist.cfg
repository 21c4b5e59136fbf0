CONSTANTS
  Tier = {t1}
  u1 = u1
  Purchase = {p1, p2}
  User = {u1, u2}
  Buyer <- BuyerOf
  Organizer = u2
  Worker = {w1, w2}
  MaxTasks = 1
  MaxRequest = 1
  MaxQuantity = 1
  MaxPerPurchase = 1
  Faults = TRUE
SPECIFICATION FairWaitSpec
CONSTRAINTS
  InTime
  BeforeTheDoor
  OneReader
  Unharmed
INVARIANTS
  WaitTypeOK
  PromotionInv
  OffersBacked
  OffersAreMailed
PROPERTIES
  FirstComeFirstServed
  HeadGetsOffer
