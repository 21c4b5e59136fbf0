CONSTANTS
  Request = {r1, r2}
  Starts = {3, 5}
  Notices = {3, 5}
  Hour = 1
  HalfRange = 4
  Grace = 2
  Span = 1
  Horizon = 4
SPECIFICATION WindowSpec
INVARIANTS
  WindowInv
PROPERTIES
  NoSilentLoss
  TimeOnlyCloses
