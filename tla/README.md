# TLA+ models of Fleek IPRS

Fleek IPRS sells identity, tax, credit and vehicle checks. An organization
fills a prepaid wallet, runs checks one by one or in bulk, and pays for each
success at the price of its monthly volume band. This directory holds the TLA+
modules that model the server's core (`apps/api`), the pages of its dashboard
(`apps/dashboard`) and the prices the marketing site tells (`apps/web`), the TLC
configurations that check them, and the proofs that TLAPS checks. Paths below are
relative to `src/`.

## 1. Inventory of the system

| Part | State it keeps | Operations | Module |
| --- | --- | --- | --- |
| Billing pipeline, `apps/api/src/verifications/verifications.service.ts` | `wallets`, `transactions`, `organization_monthly_usage`, `verification_requests`, locals of each run | `run` | Billing |
| Prices and tiers, same file | `product_pricing`, `product_pricing_tier`, `org_pricing_tier`, `org_enabled_checks` | `getCurrentTier`, `products`, `selectTierInMemory` | Pricing, Catalog |
| Price administration, `apps/api/src/admin/admin.controller.ts` | the same tables | set and create prices, bands, overrides, opt-outs | Billing |
| Online payments, `apps/api/src/payments/` | `stk_payments`, sandbox timers, the rails' own state | initiate, callback, poll, confirm, capture, timer, administrator | Payments |
| Invoice top-ups, `apps/api/src/wallet/` | `top_up_requests` | `requestTopUp`, `reviewTopUp` | TopUpReview |
| Batches, `apps/api/src/verifications/batches.service.ts` | `verification_batches`; queue and counters in memory | `createBatch`, `processBatch` | Batch |
| Sessions, `apps/api/src/auth/auth.service.ts` | `refresh_tokens`, `password_reset_tokens`, failure count and lock of `users` | login, refresh, logout, reset | Sessions |
| Providers, `packages/providers/src` | configuration; the registers of the mock | `resolve`, `call`, the mock's 24 checks | Providers |
| Lists, exports, analytics, `verifications.service.ts`, `exports/`, `admin.service.ts` | none; they read `verification_requests` | `history`, `exportVerifications`, `analytics`, subjects, names and details | Reports, ResultTexts |
| Inputs of a check, in five places | none; tables of fields | form, bulk hints, decorators, `validateInput`, provider call | CheckInputs |
| Console session, `apps/dashboard/src/lib/auth.tsx` | session in localStorage and in React | `apiFetch`, silent refresh, login, logout, reset | ConsoleSession |
| Console pages, `app/console` | forms, pollers, filters, lists | pay and poll; filter, page, export; overview; read a file and follow a batch; run a check | WalletPage, HistoryPage, OverviewPage, BulkPage, Csv, VerifyPage |
| Administration page, `app/admin`, `components/org-management.tsx` | rows, ticks and loads of a panel | load, manage, tick, save | AdminPage |
| Prices of the deployment, `packages/database/prisma/tier-seed.ts`, `apps/web` | `product_pricing_tier`; text of the site | seed; cards, table, product pages | PriceSheet |
| Guards other than the JWT's, mailer, contact, health, UI kit | none of interest | - | not modelled |

**Interaction.** The parts share PostgreSQL rows, not messages. Runs debit the
wallets that payments, reviews and registration credit; they read the tables
that administrators edit. A batch calls `run` for each row. A payment
creates its row, calls a rail over HTTP, and is settled by whichever of a
callback, a poll, a timer or an administrator reaches `finalize` first. The
console polls payments and batches and renews its session silently; its pages
share nothing but the server.

**What is hard.** Every handler awaits between statements, so handlers
interleave at each of them; a transaction protects only what it locks. Provider
and rail calls sit between a read and the write that depends on it. Timers,
queues and batches live in memory and are lost on a restart. Callbacks come
late, twice or not at all. A page has several requests under way, is left or
re-mounted while they are, and gets their answers in any order. What is written
several times (prices, required inputs, subjects, filters, the routing decision)
can disagree with itself. Every such place is listed in `PROJECT.json` under
`hazards`, with the properties that watch it or a note on why none does.

**What makes the parts correct.**
- *Billing*: no overdraft; the ledger is a chain of running balances; a debit
  exists exactly with the success it paid for; a volume position is sold once,
  in its band, at the shown price; locks go with transactions; runs end.
- *Payments and reviews*: a payment is credited once, in full, as the rail
  decided, for good; a reviewed request is decided once; a payment that was
  taken is credited in the end; wallets gain what the rails collect.
- *Batch*: a row runs once; counters are those of the results; the admitted
  estimate pays for the rows; nothing is started after an abort; the batch ends.
- *Sessions*: what a reset or a reuse ended yields no further session; the console
  rotates silently.
- *Pages*: what is shown of a payment has happened, and waiting ends; a list, its
  figures and its file are those of the filters on the screen; the catalogue
  catches up; a file's rows are counted, sent and written as they are; a form
  that may be submitted suffices, with consents given for that check; ticks
  reach the organization they were made for.
- *Copies*: seed and site tell the same prices; list, batch and file tell the same
  of a check; a record says which provider served it.

## 2. Modules and the code

`map` in `PROJECT.json` names the lines of every definition.

**Pricing** holds the shapes of the price tables and the price of a check as
operators: `getCurrentTier` (the band with the largest start that covers a
volume), the override of an organization, the backup price and the margin.

**PrepaidLedger** is the abstract account: deposits, purchases paid in full from
what the account holds, purchases that cost nothing; each move writes one
ledger row in the same step. It knows no locks, prices or months.

**Billing** is `run()`. `pc[r]` says before which statement a run stands, `run[r]`
holds its locals, `usageLock` and `walletLock` the rows it has locked with FOR
UPDATE. `Start`, `ReadOverrides`, `ReadUsage` and `Quote` precede the
provider call; `ProviderAnswers` chooses among the answers that the code tells
apart; `LockUsage`, `ReadLockedTier`, `LockWallet` and `Commit` are the
transaction, and `Fail` its roll-back at any point. `Commit` is one step
because nothing is visible before PostgreSQL's commit. Administrators' edits
interleave with every statement; the opt-out is a delete and a create, as in
the code.

**Catalog** adds the catalogue that clients see (`products`) and the lookup in a list
of bands (`selectTierInMemory`).

**Payments**: `initiation[p]` says how far the request that creates a payment is,
`handlers[h]` is a request, callback or timer that has read a pending row and is about to
ask the rail or to settle. `rail[p]` is the rail's truth, kept apart from the
row. Callbacks are never consumed, so they can be late, repeated or unused.
`finalize` is one step: its conditional UPDATE claims the row. `CollectedMinor` is the
number that a rail is asked for, in hundredths of `CurrencyOf`: shillings, without
cents for Daraja, and for PayPal `PAYPAL_CURRENCY`.

**PaymentStatus** is what others see of a payment: it is created pending and decided
once. Payments implements it, and WalletPage runs on it.

**TopUpReview**: `ReadTopUp` is the unlocked read of the review's transaction and
`CommitReview` everything after it; two reviews wait for each other at the
UPDATE, which does not look at the status again.

**WalletTopUps** composes the two over the same wallets and ledger.

**Batch**: a step is what a worker does between two awaits, because JavaScript
runs nothing else there. `run` is two steps: what it reads of the prices before
the provider is asked (`ReadPrices`, `known`), and the purchase that Billing is
shown to implement (`RunReturns`), priced by the operators of Pricing: the band is
that of the volume at the commit (`usage`, `prices`), base price and override are those
read before. The estimate (`EstimatedPrice`) takes the band of the moment for all rows.
Other checks, edits of the prices and a new month come in between. Updates
that were sent (`sent`) reach the row in any order, and may throw.

**Sessions**: one user; a request goes statement by statement with what it read
(`handlers`). `parent`, `swept` and `overtaken` are history variables for the
property: the token one was exchanged for, whether it was there when all sessions were
ended, and whether that was done between the exchange's read and its write.

**ConsoleSession** composes Sessions with the browser: `fetches` are calls of
`apiFetch`, each at its request, at the 401, at its refresh or at the replay, with
the token pair it read; `stored` is localStorage, which the requests share.

**The pages** are modules over variables of their own, each with the part of the server
it talks to; an answer under way is an element of a set, so answers overtake each
other. *WalletPage*: a form per rail, the one shared interval `pollRef`, ticks that
wait for an answer after the interval was cleared, time as "late" (90 seconds
passed). *HistoryPage* over *Reports*: filters and debounced filters, the
load that aborts its predecessor, the analytics request that only ignores it,
the two reads of a list (rows and count). A record is the organization's `own` or
another's; analytics count both for a platform administrator. The database orders by
creation time only, so a query has a set of possible answers (`NewestFirst`), and every
page of a list is answered anew. *OverviewPage*: overlapping loads of
five requests that settle together. *BulkPage* over *Csv*: the sheet as a user
saved it, `parseCsv` and `toCsv` over tokens, the rows that page and server keep
(`RowsAt`), the poll of a batch. *VerifyPage* over *CheckInputs*: catalogue, selected product,
values, consents and the runs that were asked for. *AdminPage*: the whole-page
load that unmounts the panel, the panel's loads, and saves that go on without it.

**CheckInputs, PriceSheet, Providers, ResultTexts** are tables and operators: which
inputs five places ask for, what seed and site say of prices, how a check
is routed and what the mock answers, what a list or a file tells of it.

**Console** visits one page at a time. A page is mounted empty, so a visit
stands for every visit of it.

**MCBilling, MCBatch, MCWalletTopUps, MCSessions, MCConsole** give the small tables and
the symmetry sets. Payments and ConsoleSession are run directly.
**SumTheorems** has what is known of sums over finite sets; **PricingProofs,
BillingProofs, CatalogProofs, PaymentsProofs, SessionsProofs, BatchProofs,
ConsoleProofs** hold the proofs about the module of that name (PaymentsProofs: of
WalletTopUps too).

## 3. Runs

| Run | Question | Bounds, and why they are enough |
| --- | --- | --- |
| contention | Do concurrent runs keep money, counters, bands and prices exact? | 3 runs, a first band of one check, a wallet that pays for two; one top-up, failure or month change. Three runs give a holder, a waiter and a reader; the boundary and the empty wallet are both reached. |
| admin_edits | Do edits between any two steps break a price? | 2 runs, any 2 edits: one edit before and one after the quote of the same run. |
| runs_end | Does every started run end? | 2 runs of a tiered and a per-page product, a wallet that pays for one primary check, one top-up, failure or month change; a waiting cycle needs two runs. |
| top_ups | Are top-ups credited once, as the rail did, and decided once? | 2 payments over a live and a sandbox rail of each kind, 2 handlers, 1 fault, 1 invoice request. Two handlers race for one payment; the amount has cents; PayPal collects another currency. |
| checking_credits | Does checking settle what was taken? | 1 payment by M-Pesa (live), PayPal (live) or card (sandbox), 2 faults, no delivery of callbacks assumed. Stripe, when live, is asked by the same action as M-Pesa. |
| batch | Are rows, counters, prices and ends of a batch right? | 2 workers, sizes 0, 3 and 4 (limit 3), progress every 2 rows, 2 faults. The price tables have a band edge inside the batch, a gap with a dearer base price, and an override; wallets hold exactly and more than some estimates and less than others; one other check or edit, and one new month, between any two steps. |
| sessions | Is a token from before a sweep exchanged for a session after it, statement by statement? | 3 tokens, 1 link, 2 requests at a time, 2 wrong passwords, 2 instants: expiry lies between them. A refresh and a sweep overlap in every order, and a third request can still try a swept token. |
| console | Does each page show what belongs to what the user asked for, and do the copies agree? | 419,098 states over six pages. Wallet: 2 payments over all rails, 2 answers under way (one overtakes the other). History: a user with and without the whole platform; 2 own records of one instant and another organization's to begin with, a fourth by whom it may be, on both sides of a midnight; 2 rows a page, so that pages divide records of one instant; an analytics cut of 3 rows, reached and not; 4 changes of filters. Overview: 2 loads under way, 2 changes. Bulk: 3 sheets with blanks, missing identifiers and a foreign column, 3 result tables with quotes, commas and line ends, 2 batches. Verification: each of the 24 products alone and two with unlike forms, every field empty, malformed or good. Administration: 2 organizations, 3 checks (one without a row, one locked), 2 loads and 1 save under way, 1 reload. |
| taken_lost, review_race, batch_counters, silent_refresh | Does the code do what its comments and tests say? | The smallest instances that show that it does not, see section 6. |

The code's constants are scaled (1000 rows to 3, progress 25 to 2, KES 1,000
to 3, and 100 cents to 2); only comparisons and remainders depend on them.
`CHECK_DEADLOCK FALSE` stands in every configuration because each
instance has a bounded number of requests and stops when they are done.

Symmetry is used for identities that no definition orders (requests, payments,
handlers, reviewers, tokens, links), and in no run with a liveness property.

**Fairness.** Billing: weak fairness of each started run, because the server keeps
executing, PostgreSQL grants a lock when its holder ends and a provider call is
aborted after 30 s; nothing obliges a client to start one. Payments: weak
fairness of the steps of a served request; none for customers, callbacks or
faults. `EagerSpec`, used only for the violation taken_lost, adds strong
fairness of polling and delivery, so that the counterexample is not a mere lack
of asking. Batch: weak fairness of each worker and of the finisher. Wallet page:
answers to the request that starts a payment come, time passes, and as
intervals fire for ever, polls keep being made and answered, although each of them may fail. Overview: the
interval fires for ever and loads settle, and strongly, not every load fails to
read the catalogue.

## 4. What is proved

The theorems hold for all values of the constants that satisfy the named assumptions of
the modules. These say that amounts, prices, volumes and bounds are naturals and that
`Null` is neither a number nor a row (`PricingAssumption`, `BillingAssumption`,
`RowAssumption`, `PaymentsAssumption`, `PaymentRowAssumption`, `TopUpRowAssumption`,
`SessionsAssumption`, `SessionsRowAssumption`, `BatchAssumption`,
`BatchRowAssumption`, `FormsAssumption`, `VerifyAssumption`), and further:

- `TopUpAssumption`: payments and invoice requests are different sources of a credit; a
  ledger row's description names the one or the other.
- `ReportsAssumption`: "" is no product, as in the enumeration; it stands for a filter
  field that is not set.
- `PaymentsAssumption` also says that `PAYPAL_CURRENCY` is not KES, which PayPal does not
  take (`payments.service.ts:354`).
- `HistoryAssumption`: the filter bar sets what its inputs offer, and each page size it
  offers (10, 20, 50, 100) is at most the 200 rows the server gives
  (`verifications.service.ts:601`). With larger ones pages would overlap.
- `AdminAssumption`: the rows of `org_enabled_checks` hold a Boolean or do not exist.
- `BulkAssumption`: a cell is a text, a sheet a header and rows of cells, a stored result
  a subject and a detail; a file may hold at least one row.
- `PriceSheetAssumption`: an open cap (null in the database) is no number.

**Billing**, any number of runs, organizations, bands and edits:

1. `TypeCorrect`: each action keeps the types; a lemma per action.
2. `NeverOverdrawn`, `LocksAreSound`, `TransactionIsolation`: together, because
   none is inductive alone. The invariant is `Isolated`: `Settled` (a record
   exists exactly when its run is done), `LocksFollowTransactions`,
   `TransactionsAreIsolated` and `NoOverdraft`. The wallet stays non-negative
   because a commit finds its cost in the locked wallet; that cost stays covered
   because other steps that debit need the same lock; the lock is held because
   transactions keep it. Steps are classed as quiet (outside a
   transaction), aborting or outside of any run, so that most need one lemma.
3. `CounterIsExact`, `NoPositionBilledTwice`: the counter is the cardinality of
   the recorded successes, and each of them was priced below it, at a position
   of its own; a commit adds one to both, at the position it has locked.
4. `LedgerIsAChain`, `ChargesAreRecorded`: only `Commit` and `Credit` write, and
   both append the balance they leave.
5. `WalletsAgreeWithRecords`: opening balance plus credits less the price of every
   recorded success is the balance. A commit moves the balance and one record
   together; a credit moves the balance and one ledger row (`CreditRows`). The
   costs that a run carries are the vendor's part and the margin of its status.
6. `PipelineImplementsAccount`: `Billing` refines `PrepaidLedger`; a commit is a
   purchase or a waived one, a credit is a deposit, all else stutters.

**Catalog**, over the same runs and edits:

7. `LookupsChooseTheSame`: the lookup in memory and the one in the database choose the
   same band for every table and every volume that is not in a gap.
8. `BandCoversPosition`: an administrator may move a band between the quote and
   the transaction, and the transaction reads it again. The invariant `AllPriced` follows the
   tier, the override and the base price from the step that reads them to
   the record: the locked tier covers the locked position, or there is none.
9. `ShownPriceIsCharged`: a commit before any edit charges what `products` shows
   in the state it is made in, because the position it holds locked is the counter
   that the catalogue reads.

**Payments**, any number of payments, rails, callbacks, handlers and faults:

10. `PaymentsTypeCorrect`: with the types, `RowsFollowRequests` (a row exists
    exactly when its request has created it) and `HandlersHaveRows` (a handler
    works on a payment that has one); without them `finalize` could settle nothing.
11. `RailDecides`. The property alone is not inductive, for a handler carries the
    outcome it learnt across any number of other steps and a callback for ever.
    `RailIsKnown` adds that callbacks and handlers tell what the rail decided;
    they stay true because a rail that has taken or refused never changes its
    mind (`RailsLast`) and a row never changes its method (`RowsLast`).
12. `CreditedExactlyOnce`. The credits of a payment are a set of ledger positions,
    so the proof needs no counting (`CreditsMatch`): a paid payment's set
    is one position, any other's is empty. The claim of a pending row and the
    append are one step, and the position is new.
13. `PaymentsImplementStatus`, `PaymentsImplementAccount`: `Payments` refines
    `PaymentStatus` and `PrepaidLedger`; `Create` creates, `finalize` decides and,
    when it pays, deposits; all else stutters.

**WalletTopUps**, payments and invoice reviews over the same wallets:

14. `ReviewsAreAtomic`: nothing is credited for a request that is still open, or to another
    organization's wallet. `StillCreditedOnce` and `StillSettledByTheRail`: the rows of
    invoices are never taken for those of payments. The invariant is the one of
    Payments with its ledger positions restricted to payments, beside what a
    review has read.
15. `CreditsAreBacked`, per currency: what the wallets gained by M-Pesa and cards is at
    least the shillings these took of paid payments, and less than one per payment
    more; what they gained by PayPal is the same number of another currency's cents.
    Each credit is that of its own payment; the two sums run over ledger rows and
    over payments, and 12. pairs one with the other (`SumAcross`, `SumsApart`).
16. `WalletsImplementAccount`, `WalletsImplementStatus`: the composition refines both
    abstract specifications.

**Sessions**, any number of tokens, links and requests at once:

17. `EndedSessionsStayEnded`: of the tokens that a sweep found, none is exchanged later,
    unless by a refresh that had read it before. The invariant follows such a
    refresh from its read to its write: a request about to exchange a swept token is
    marked as overtaken, a swept token is revoked, and a token whose parent was swept
    was swept with it or issued by a marked request (`SweepsSeen`); the row that a request
    works on still exists, and its successor is another (`CallsHaveRows`).

**Batch**, any number of workers, rows, bands, faults, edits and other spending:

18. `BatchTypeCorrect`, `RowsRunOnce`, `CompletedIsComplete`, `AdmittedBatchIsPaid`
    and `AbortedTakesNoRow`, all from one invariant of what holds between two
    awaits. `RowsApart`: the queue, the rows in work and the rows with a result
    are disjoint. `Covered`: what was processed and what is left are all rows.
    `Payable`: as long as nothing else spends, edits or changes the month, and no band that
    the batch can reach is dearer, the wallet holds the estimated price of
    what is left (`Left`, the queue and the rows in work). A row is priced at a volume
    that the batch alone has moved (`VolumesAhead`), thus in a band no dearer than the
    estimate's (`ChargeWithinEstimate`), and what a run has read before is still the table. `Tallied`: the counters in memory are those of the results.
    `Drained`: without an abort a worker ends on an empty queue only, hence nothing
    is left when all have ended. A step that runs a row moves one from `Left` to
    `processed`; one that only reports moves none (`LeftMoves`, `StepCounts`).

**Console**, any number of answers, loads, saves and requests under way:

19. `OutcomesAreTrue`: a page tells an outcome only of a payment that has it. An answer
    under way tells what was true when it was read, so the invariant says it of answers
    and forms too; it stays true because a decided payment is decided for good.
20. `TableAndCardsAreOfTheFilters`: a table that has settled is a page its filters ask
    for, of the records of some moment, and the cards are about the same
    filters; the number announced with the downloads was once that of the records that
    match, those of every organization if a report told it to a platform
    administrator. Rows and total are read by two statements between which records are
    written; aborting leaves no request of older filters (`ListWell`, `CardsWell`).
21. `QueriesChooseTheSame`, `ReportsAreOfTheList`: list and file choose the same
    records, and so do the totals for a user of an organization. For a platform
    administrator the totals are of what the list would choose if every record were
    the organization's own (`Counted`). A report that is not cut off is of exactly these.
22. `ListAndFileAgree`: each page and the file are queried for themselves, and each query
    may order records of one instant as it likes. Two such orders have the same
    instants at the same places, and differ only where an instant has several
    records (`OrdersAlike`); the pieces of a sequence that a monotone cut makes join
    to the sequence (`PiecesJoined`, `PagesJoined`); `PagerWell` says that the pager asks only
    for what it offers.
23. `ConsoleAddsLikeTheServer`: the console adds the rows of a page in their order, the
    report is a sum over the set of records. Both are the sum over the set
    because a page holds no record twice (`RowsOnce`, `RowsOfPage`) and a sum does not
    depend on the order (`SumInAnyOrder`); what has no latency adds nothing (`SumOfSome`).
24. `ConsentsStayWithTheirCheck`, `TicksAreSavedForTheirOrg`: the consents a run is sent
    with, and the ticks a save writes, were given for that check and that organization,
    whatever is loaded, re-mounted or selected in between. The invariants follow them
    from the form (`TicksAreAgreed`, `PanelMeant`) into the request (`SaveMeant`).

25. `CountedAreRun`: for any file, what the page counts the server admits in full. The
    invariant `BulkIsGood` follows the rows: those that `RowsOf` keeps of a file are good
    (`FileRowsAreGood`: filled texts, each row with an identifier), a posted request
    has the rows and the consent of its product, and the server drops none of
    such rows (`GoodRowsAdmitted`). Underneath, the scan of any text gives rows of
    texts and one record per row below the header (`ScanTyped`, `RecordsNumbered`).
26. `FileGivesResultsBack`: the console reads back the file it writes of any table of
    results. The scan of two texts one after the other is the scan of the second from where
    the first ended (`ScanAppend`), and of any number of them likewise (`ScanFlatten`).
    What `esc` writes of a cell is read as that cell, bare (`BareCell`) or
    quoted, each doubled quote as one (`QuotedCell`), both by an invariant over the tokens
    read so far (`ScanInvariant`); from cells to lines (`LineRead`), the file
    (`FileRead`) and the records below its header (`RecordsRead`, `TableRead`). The proof
    showed a precondition that the runs had missed: `toCsv` looks for quotes, commas
    and line feeds only, so a cell with a carriage return and none of these ends its
    row when read. `HasBareCR` names such cells, and the property leaves them out.
27. `FormsAreEnough`, `HintsSuffice`: the five tables of inputs agree on every product. The
    invariant (`FormTyped`) says that the form holds texts for the fields of the product
    it shows; what follows then depends only on the required fields, which are
    compared product by product. A file with one hinted row is a file as in 25.
28. `RecordsTellWhoServed`: over every environment of the registry and every answer.
29. `TextsAreAlike`: list, batch and file take the first of several fields that is there,
    in orders of their own; for fields that a product's check has they agree
    (`SubjectsAlike`, `NamesAlike`, `DetailsAreTold`).
30. `SitePricesAreSeeded`: contiguous bands, however many, tile all volumes, so the lookup
    finds the one band that holds a volume (`BandsTile`, `TierOfBand`); seeding over
    edited caps leaves the bands of the seed (`SeedStays`). What is left is to compare
    the rows of the seed with the cards and the table, product by product. Of the
    prices on a product's own page that is said of the first band, and of all six for
    the five standard identity checks; for the others the page is wrong (section 6).

**How sums and orders are proved.** Induction over data is out of reach, because the library's
induction theorems take an operator as a parameter. Where it is needed, the proof takes
a smallest exception instead: of the subsets of a finite set for which the claim fails
one is minimal (`SmallestException`, from the well-foundedness of strict inclusion), and taking
an element out of it contradicts that. A recursive definition by CHOOSE is first shown to
have exactly one solution (`SumsExist`, `SumsUnique`, `JoinsUnique`, `ScansExist`,
`ScansUnique`). That is how the reader of CSV, a fold over tokens, is reasoned about.
The prover cannot expand `SelectSeq`; where the code filters *rows*, the model says
which positions are kept (`RowsAt`) and the proofs count them (`RowsAtAre`,
`RowsAtOneMore`).

**Only model-checked.** Liveness, which needs fairness and ENABLED: `EveryRunEnds`,
`CheckingCredits`, `EveryBatchEnds`, `WaitingEnds`, `CatalogueCatchesUp`. Every safety
property and action property that a run checks is stated by a theorem.

## 5. What is not modelled

- *Guards.* `JwtAuthGuard` is in ConsoleSession; roles, API keys and
  rate limits decide on one request each. The clock of access tokens is the
  action `AccessExpires` of ConsoleSession.
- *Administration.* Users and organizations are plain rows. In the browser the
  price editor, the queue of top-ups and the API keys are left out; what their
  requests do to the tables is in Billing and TopUpReview.
- *Audit log and encryption at rest.* Nothing here reads them back.
- *Formatting.* Layout of PDF, XLSX and certificates, wording of messages, cards,
  charts and the UI kit. What lists and files *tell* is in Reports and ResultTexts.
- *A single check's page* (`app/console/history/[id]`): it reads one record.
- *The upstream registers.* Only what the code makes of their answers is here.
- *Mailer, contact form, health check and configuration*: input and output alone.

## 6. Where code and documentation disagree

Shown by a run that expects a violation:

- **taken_lost.** The checkout identifier is stored after the gateway
  answered (`payments.service.ts:102`). If that answer is lost or the server
  stops, the callback does not match and a poll returns at once: the money is
  taken and the wallet not credited, against `schema.prisma:358`.
- **review_race.** Two reviews that read "pending" both commit
  (`wallet.service.ts:83-90`): a double credit, or a rejected request that was credited.
- **batch_counters.** A failed progress update counts its row twice
  (`batches.service.ts:178-191`).
- **silent_refresh.** Every request that gets a 401 refreshes by itself
  (`apps/dashboard/src/lib/auth.tsx:126`). Two that expire together send the same
  token, the second exchange looks like reuse, and the user is thrown out of all sessions.

Observed while modelling, not the subject of a run. Sessions and payments:

- Refresh tokens are "single-use" (`auth.service.ts:115-119`), but two exchanges of one at
  once both succeed. A reset treats "all existing sessions as compromised"
  (`auth.service.ts:194`), but a refresh that has read its token before issues a
  usable one after the sweep; the same holds for the sweep of a reuse.
  `SweepEndsSessions` excepts these refreshes by name. Parallel wrong passwords lose counts; `rotatedToId` of the new token points to the old one
  (`auth.service.ts:257`); a refresh in flight undoes a logout in the browser.
- `paybillRef` of a bank transfer must be a string and at least the number 5
  (`payments.controller.ts:34-36`), so every such request is refused.
- A payment that PayPal captured and whose `finalize` failed stays pending.
- A live PayPal order has the number of shillings as its value in `PAYPAL_CURRENCY`,
  USD unless configured (`payments.service.ts:354-357, 445-453`): 100 shillings are collected
  as 100 dollars, and credited as 100 shillings. Comment and documentation say that
  another currency is charged, and none says at what rate.
- Wallet page: an answer that is still under way for an older payment ends the
  waiting for a newer one; starting a second rail leaves the first form busy;
  polls that fail never reach the time limit.

Checks and prices:

- The batch estimate is "the same tier path the per-row run() will charge"
  (`batches.service.ts:83-84`), but it ignores the backup route and takes the first row's
  band for all, so a gap or a dearer band ahead empties the wallet mid-batch; in a gap
  between bands the in-memory lookup and the database lookup differ.
- A product's page shows the base price times 0.93, 0.87, 0.80, 0.73 and 0.67 for the
  bands after the first (`apps/web/src/app/products/[slug]/page.tsx:167-205`). That
  is what the seed charges for the five standard identity checks only. For the other
  products the page tells less than is billed (`alien_id`, second band: 70 for 73),
  and more for the utility checks (19, 17, 16, 15, 13 for 18, 16, 14, 12, 10).
- The transaction takes a backup price of 0 for none and charges the unit price
  (`verifications.service.ts:374`), while the catalogue shows it as the margin alone;
  administrators cannot enter it, the DTOs ask for at least 1.
- The seed overwrites prices and re-activates products, and leaves rows with
  other lower bounds. The site publishes the vendor's prices without the
  margin of KES 5; its bands for SPIN overlap and stop at 100,000; it says that
  counters reset in East African Time, the code uses the server's month; product
  pages compare hyphenated slugs with underscored names
  (`apps/web/src/app/products/[slug]/page.tsx:127`), so some show a generic range.
- Backup rates are told to apply after a failure of the primary source, but
  `useBackup: true` is accepted at once; and as no detail carries
  `backupAvailable`, the console never offers the retry.
- The API accepts `consent: false`; site and bulk page ask for consents to
  checks for which the server asks none.
- A KRA check by ID number alone is always `INVALID_INPUT` at the mock; the
  detail of `metropol_standard_report` counts accounts its result does not have.
- The form says "Verification failed" when a check was billed and only reading
  its record failed; it can show the result of a product that is no longer selected;
  a catalogue that is fetched again unmounts it.

Batches, lists and administration:

- A platform administrator's analytics count every organization
  (`admin.controller.ts:214-225`, `admin.service.ts:33-34`), while the list and the files
  beside them on the history page are of one: cards, charts and the number of
  "matching" records are of more than the table and the download.
- List, export and analytics are ordered by `createdAt` alone
  (`verifications.service.ts:598-602`, `export.service.ts:85-87`). Records of one instant
  may come in another order for every page, so that the pager shows one of them twice
  and another never.
- The bulk page lets a second start be sent while the first is; an answer
  "processing" that arrives after "completed" sticks; an answer for the previous
  batch clears the next one's interval; a failing poll is not caught, and a
  stuck batch is polled for ever. A file with a column for a
  face, a statement or a consent is refused as a whole. The parser
  strips blanks inside employers' names; `toCsv` does not quote a carriage
  return (`HasBareCR`), `lib/exports.ts` does.
- The history search promises subjects and never searches them; `to` means
  the midnight at which its day begins; a failed load keeps the old rows; the PDF shows at
  most 500 rows and announces all; a certificate is fetched without the bearer
  token (`history/[id]/page.tsx:46-65`); analytics refuse a range that is upside
  down, the history is empty for it.
- Administration: a reload unmounts the panels and loses what was edited; saving
  availability writes a row for every check without one; the opt-out is deleted
  before it is created; two edits of a price sheet overwrite each other.

## 7. Plan

1. Done: server core (Pricing, Billing, PrepaidLedger, Catalog, Payments, TopUpReview,
   WalletTopUps, Batch, Sessions), modelled and checked; each safety
   property of it proved.
2. Done: the console (ConsoleSession and the six pages), providers and their
   mock, reports and exports, inputs, the price sheet, modelled and checked; the
   safety properties of the pages proved.
3. Done: every safety property of the runs proved, the copies of tables and the reader
   of CSV included. Liveness stays with TLC.
4. Next to model: guards as a decision table; the price editor with its two
   writers; the API keys.
