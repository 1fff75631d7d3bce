SPECIFICATION WalletSpec
CONSTANTS
  Null = Null
  Payments = {p1, p2}
  Orgs = {org}
  Amounts = {5}
  MinorPerShilling = 2
  MinimumMinor = 4
  Live = {"stk", "paypal"}
  PAYPAL_CURRENCY = "USD"
  Handlers = {h1, h2}
  OpeningBalance = 1
  Sources = {p1, p2, t1}
  MaxFaults = 1
  TopUps = {t1}
  TopUpAmounts = {3}
  MinimumTopUp = 3
  Reviewers = {v1}
SYMMETRY TopUpSymmetry
INVARIANTS
  CreditedOnce
  SettledAsTheRailDid
  CreditMatchesCollection
  InvoicesStayAtomic
PROPERTIES
  ImplementsAccount
  ImplementsStatus
CHECK_DEADLOCK FALSE
