CONSTANTS
  Event = {e1, e2}
  Purchase = {1, 2, 3, 4}
  Limit = 1
SPECIFICATION ListingSpec
INVARIANTS
  ListingTypeOK
  HistoryIsComplete
