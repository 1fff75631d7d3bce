SPECIFICATION ConsoleSpec
CONSTANTS
  Null = Null
  Tokens = {t1, t2, t3}
  ResetLinks = {l1}
  Handlers = {h1, h2}
  MAX_FAILED_LOGINS = 2
  LOCKOUT = 1
  TokenLifetime = 1
  LinkLifetime = 0
  MaxTime = 1
  MaxAttempts = 1
INVARIANT RotatesSilently
CHECK_DEADLOCK FALSE
