SPECIFICATION Spec
CONSTANTS
  Null = Null
  SCANNED_STATEMENT = scanned
  SCANNED_STATEMENT_BASE_MINOR = 2
  SCANNED_STATEMENT_PAGE_MINOR = 1
  PLATFORM_MARGIN_MINOR = 1
  CONCURRENCY = 2
  MAX_ROWS = 3
  PROGRESS_EVERY = 2
  RowCounts = {0, 3, 4}
  HasBackup = TRUE
  Volumes = {0}
  LastMonth = 1
  Balances = {9, 12}
  Spends = {1}
  MaxEvents = 0
  MaxFaults = 1
CONSTANT PriceTables <- MCPriceTables
INVARIANT ProcessedWithinTotal
CHECK_DEADLOCK FALSE
