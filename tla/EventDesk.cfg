CONSTANTS
  Tier = {t1}
  Buyer = {b1}
  Request = {r1, r2}
  Terms = {here, there}
  MaxQuantity = 1
  MaxCapacity = 1
  MaxStamps = 2
SPECIFICATION DeskSpec
INVARIANTS
  DeskTypeOK
  DeskInv
PROPERTIES
  StatusSurvivesUpdates
  GraceIsNotWiped
  TimelyUpdateStamps
CHECK_DEADLOCK FALSE
