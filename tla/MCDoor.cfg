CONSTANTS
  Ticket = {k1, k2}
  Scan = {s1, s2, s3}
SPECIFICATION DoorSpec
SYMMETRY Symmetry
INVARIANTS
  DoorInv
  AdmittedOnce
PROPERTIES
  VoidedStayShut
