SPECIFICATION FairSpec
CONSTANTS
  Null = Null
  Payments = {p1}
  Orgs = {org}
  Amounts = {5}
  MinorPerShilling = 2
  MinimumMinor = 4
  Live = {"stk", "paypal"}
  PAYPAL_CURRENCY = "USD"
  Handlers = {h1, h2}
  OpeningBalance = 1
  Sources = {p1}
  MaxFaults = 2
PROPERTY CheckingCredits
CHECK_DEADLOCK FALSE
