CONSTANTS
  Email = {e1}
  Google = {g1}
  Token = {k1, k2, k3}
  Session = {s1}
  Request = {r1, r2}
  Calls = {"register", "resend", "forgot", "verify", "reset", "login", "google", "logout", "organize"}
  Limit = 2
  Window = 2
  Cooldown = 0
  VerifyLife = 2
  ResetLife = 1
  Faults = TRUE
SPECIFICATION AccountSpec
SYMMETRY Symmetry
CONSTRAINT Unharmed
INVARIANTS
  AccountTypeOK
  SessionsFollowPassword
  TokensBounded
  LinkedAreVerified
CHECK_DEADLOCK FALSE
