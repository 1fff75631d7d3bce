SPECIFICATION Spec
CONSTANTS
  Null = Null
  Tokens = {t1, t2, t3}
  ResetLinks = {l1}
  Handlers = {h1, h2}
  MAX_FAILED_LOGINS = 2
  LOCKOUT = 1
  TokenLifetime = 0
  LinkLifetime = 0
  MaxTime = 1
  MaxAttempts = 2
SYMMETRY SessionSymmetry
INVARIANT SweepEndsSessions
CHECK_DEADLOCK FALSE
