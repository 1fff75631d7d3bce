SPECIFICATION FairSpec
CONSTANTS
  Null = Null
  SCANNED_STATEMENT = scanned
  SCANNED_STATEMENT_BASE_MINOR = 2
  SCANNED_STATEMENT_PAGE_MINOR = 1
  PLATFORM_MARGIN_MINOR = 1
  Requests = {r1, r2}
  Orgs = {org}
  Products = {iprs, scanned}
  Unpriced = {}
  LastMonth = 2
  EnabledChecks = {iprs, scanned}
  BackupTypes = {iprs}
  Pages = {1}
  PriceInputs = {5}
  VolumeInputs = {2}
  CreditInputs = {3}
  OpeningBalance = 4
  MaxEvents = 1
  MaxEdits = 0
CONSTANT InitialPrices <- MCInitialPrices
CONSTANT InitialTiers <- MCInitialTiers
PROPERTY EveryRunEnds
CHECK_DEADLOCK FALSE
