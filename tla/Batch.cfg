SPECIFICATION FairSpec
CONSTANTS
  Null = Null
  SCANNED_STATEMENT = scanned
  SCANNED_STATEMENT_BASE_MINOR = 2
  SCANNED_STATEMENT_PAGE_MINOR = 1
  PLATFORM_MARGIN_MINOR = 1
  CONCURRENCY = 2
  MAX_ROWS = 3
  PROGRESS_EVERY = 2
  RowCounts = {0, 3, 4}
  HasBackup = TRUE
  Volumes = {0, 1}
  LastMonth = 2
  Balances = {9, 12}
  Spends = {10}
  MaxEvents = 1
  MaxFaults = 2
CONSTANT PriceTables <- MCPriceTables
INVARIANTS
  EachRowOnce
  CompletedMatchesResults
  EstimateSuffices
PROPERTIES
  AbortStopsTheQueue
  EveryBatchEnds
CHECK_DEADLOCK FALSE
