\* Each page of the console on its own part of the server.
SPECIFICATION ConsoleSpec
CONSTANTS
    Unset = Unset
    p1 = p1
    p2 = p2
    Tracked = {p1, p2}
    Ways = {"stk", "card", "paypal", "bank"}
    FormsOf <- MCForms
    LiveForms = {"card"}
    MaxAnswers = 2
    Null = Null
    Types = {"iprs_standard", "alien_id"}
    Words = {"s"}
    Containing <- MCContaining
    Contents <- MCContents
    RecordsAtFirst <- MCRecordsAtFirst
    MaxRecords = 4
    TicksPerDay = 2
    MaxPage = 2
    MAX_ANALYTICS_ROWS = 3
    PdfRows = 1
    FilterChanges <- MCFilterChanges
    LimitOptions = {2}
    Nothing = Nothing
    MaxChanges = 2
    MaxLoads = 2
    NoRows = NoRows
    BulkTypes = {"iprs_standard", "motor_vehicle_ownership"}
    Sheets <- MCSheets
    ResultTables <- MCResultTables
    PageMaxRows = 2
    MaxBatches = 2
    Open = Open
    NoProduct = NoProduct
    Catalogues <- MCCatalogues
    FormTexts = {"malformed", "good"}
    MaxFetches = 1
    MaxRuns = 1
    Orgs = {o1, o2}
    o1 = o1
    o2 = o2
    Checks = {1, 2, 3}
    Locked = {3}
    Absent = Absent
    RowsAtFirst <- MCRowsAtFirst
    MaxOrgLoads = 2
    MaxReloads = 1
    MaxSaves = 1
    Edits <- MCEdits
INVARIANTS
    OutcomeShownHappened
    PageShowsItsFilters
    ListIsExported
    FiguresAgree
    CountedRowsAreRun
    CsvRoundTrip
    HintedRowsRun
    FormSuffices
    ConsentIsForTheCheck
    AdvertisedAsSeeded
    ToldAlike
    RecordsSayWhoServed
    TicksStayWithTheirOrg
PROPERTIES
    WaitingEnds
    CatalogueCatchesUp
\* A page may come to rest once payments, batches and changes are bounded.
CHECK_DEADLOCK FALSE
