SPECIFICATION WalletSpec
CONSTANTS
  Null = Null
  Payments = {p1}
  Orgs = {org}
  Amounts = {5}
  MinorPerShilling = 2
  MinimumMinor = 4
  Live = {"stk"}
  PAYPAL_CURRENCY = "USD"
  Handlers = {h1}
  OpeningBalance = 1
  Sources = {p1, t1}
  MaxFaults = 0
  TopUps = {t1}
  TopUpAmounts = {3}
  MinimumTopUp = 3
  Reviewers = {v1, v2}
INVARIANT InvoicesDecidedOnce
CHECK_DEADLOCK FALSE
