SPECIFICATION Spec
CONSTANTS
  Null = Null
  SCANNED_STATEMENT = scanned
  SCANNED_STATEMENT_BASE_MINOR = 2
  SCANNED_STATEMENT_PAGE_MINOR = 1
  PLATFORM_MARGIN_MINOR = 1
  Requests = {r1, r2}
  Orgs = {org}
  Products = {iprs}
  Unpriced = {}
  LastMonth = 1
  EnabledChecks = {iprs}
  BackupTypes = {iprs}
  Pages = {1}
  PriceInputs = {5}
  VolumeInputs = {2}
  CreditInputs = {3}
  OpeningBalance = 8
  MaxEvents = 0
  MaxEdits = 2
CONSTANT InitialPrices <- MCInitialPrices
CONSTANT InitialTiers <- MCInitialTiers
INVARIANTS
  BilledInBand
  LookupsAgree
SYMMETRY RequestSymmetry
CHECK_DEADLOCK FALSE
