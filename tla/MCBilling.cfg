SPECIFICATION Spec
CONSTANTS
  Null = Null
  SCANNED_STATEMENT = scanned
  SCANNED_STATEMENT_BASE_MINOR = 2
  SCANNED_STATEMENT_PAGE_MINOR = 1
  PLATFORM_MARGIN_MINOR = 1
  Requests = {r1, r2, r3}
  Orgs = {org}
  Products = {iprs, unpriced, dormant}
  Unpriced = {unpriced, dormant}
  LastMonth = 2
  EnabledChecks = {iprs, unpriced}
  BackupTypes = {iprs}
  Pages = {1}
  PriceInputs = {5}
  VolumeInputs = {2}
  CreditInputs = {3}
  OpeningBalance = 7
  MaxEvents = 1
  MaxEdits = 0
CONSTANT InitialPrices <- MCInitialPrices
CONSTANT InitialTiers <- MCInitialTiers
SYMMETRY RequestSymmetry
INVARIANTS
  NoOverdraft
  LedgerChain
  UsageCountsSuccesses
  PositionsBilledOnce
  TransactionsAreIsolated
  WalletMatchesRecords
PROPERTIES
  ChargeWithRecord
  ChargedAsShown
  ImplementsAccount
CHECK_DEADLOCK FALSE
