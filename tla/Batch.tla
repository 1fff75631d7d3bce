--------------------------------- MODULE Batch ---------------------------------
(***************************************************************************)
(* Bulk verification: BatchesService.createBatch admits a batch whose      *)
(* estimated cost the wallet holds, and processBatch runs its rows in the  *)
(* server process, CONCURRENCY at a time, each through the billing         *)
(* pipeline; its progress is written to the batch row for clients to poll. *)
(*                                                                         *)
(* JavaScript runs one worker at a time between two awaits, so what a      *)
(* worker does from the return of run() to its next await is one step.     *)
(* run() is the abstract account's purchase: a success is paid from what   *)
(* the wallet holds at that moment, or the run throws InsufficientFunds.   *)
(* Its price is that of the month's volume at that moment, so rows of one  *)
(* batch may be charged in different bands (Pricing), while the estimate   *)
(* took the band of the first.                                             *)
(***************************************************************************)
EXTENDS Pricing, Sequences

CONSTANTS
    CONCURRENCY,      \* workers of a batch
    MAX_ROWS,         \* largest batch
    PROGRESS_EVERY,   \* rows between two progress updates
    RowCounts,        \* batch sizes a client may submit
    PriceTables,      \* prices that may be set for the check and organization
    HasBackup,        \* whether a backup provider is routed for the check
    Volumes,          \* successes of the month before the batch
    LastMonth,        \* bound on the calendar
    Balances,         \* what the wallet may hold at the start
    Spends,           \* amounts other activity may spend
    MaxEvents,        \* bound on other checks and edits of the prices
    MaxFaults         \* bound on failed updates and crashes

Workers == 1 .. CONCURRENCY
Rows == 1 .. MAX_ROWS
Months == 1 .. LastMonth

\* The rows that price the check: product_pricing, the organization's override
\* if it has one, and the bands.
PriceTable == [base : Nat, override : Nullable(OrgTier), tiers : SUBSET Tier]

ASSUME BatchAssumption ==
    /\ CONCURRENCY \in Nat \ {0}
    /\ MAX_ROWS \in Nat \ {0}
    /\ PROGRESS_EVERY \in Nat \ {0}
    /\ RowCounts \subseteq Nat
    /\ PriceTables \subseteq PriceTable
    /\ HasBackup \in BOOLEAN
    /\ Volumes \subseteq Nat
    /\ LastMonth \in Nat \ {0}
    /\ Balances \subseteq Nat
    /\ Spends \subseteq Nat
    /\ MaxEvents \in Nat
    /\ MaxFaults \in Nat

Counters == [processed : Nat, success : Nat, failed : Nat, notFound : Nat]

\* A row of verification_batches; outOfCredit stands for the error message.
BatchRow == [status : {"processing", "completed", "failed"}, totalRows : Nat,
             counters : Counters, outOfCredit : BOOLEAN]

\* A request, with the volume and month its estimate was made for.
Request == [rows : Nat, useBackup : BOOLEAN, volume : Nat, month : Months]

\* What a run knows before it asks its provider: the base price, the override
\* and the month whose counter it will lock.
RunPrices == [base : Nat, override : Nullable(OrgTier), month : Months]

ASSUME BatchRowAssumption ==
    /\ Null \notin Counters
    /\ Null \notin BatchRow
    /\ Null \notin Request
    /\ Null \notin RunPrices
    /\ Null \notin Tier
    /\ Null \notin OrgTier
    /\ Null \notin Rows
    /\ Null \notin {"success", "not_found", "failed"}

VARIABLES
    stage,      \* the request that submits the batch
    request,    \* what it asks for
    batch,      \* verification_batches
    queue,      \* rows no worker has taken
    at,         \* where each worker is
    taken,      \* the row each worker is running
    known,      \* what its run has read of the prices
    sent,       \* the counters each worker's progress update carries
    counters,   \* the counters in memory
    aborted,    \* a run threw InsufficientFunds
    finisher,   \* the end of processBatch
    records,    \* verification_requests of the batch
    balance,    \* wallets.balanceMinor
    prices,     \* the prices of the check
    month,      \* the calendar
    usage,      \* successes counted in each month
    spends,     \* how often other activity spent
    edits,      \* how often an administrator changed the prices
    faults      \* how many faults happened

processVars == <<queue, at, taken, known, sent, counters, aborted, finisher>>
outsideVars == <<prices, month, spends, edits>>
vars == <<stage, request, batch, processVars, records, balance, usage, outsideVars, faults>>

TypeOK ==
    /\ stage \in {"new", "estimated", "refused", "created"}
    /\ request \in Request \cup {Null}
    /\ batch \in BatchRow \cup {Null}
    /\ queue \in Seq(Rows)
    /\ at \in [Workers -> {"running", "progress", "done"}]
    /\ taken \in [Workers -> Rows \cup {Null}]
    /\ known \in [Workers -> RunPrices \cup {Null}]
    /\ sent \in [Workers -> Counters \cup {Null}]
    /\ counters \in Counters
    /\ aborted \in BOOLEAN
    /\ finisher \in {"none", "waiting", "rescue", "ended", "lost"}
    /\ records \in [Rows -> {Null, "success", "not_found", "failed"}]
    /\ balance \in Nat
    /\ prices \in PriceTables
    /\ month \in Months
    /\ usage \in [Months -> Nat]
    /\ spends \in Nat
    /\ edits \in Nat
    /\ faults \in Nat

Zero == [processed |-> 0, success |-> 0, failed |-> 0, notFound |-> 0]

Init ==
    /\ stage = "new"
    /\ request = Null
    /\ batch = Null
    /\ queue = << >>
    /\ at = [w \in Workers |-> "done"]
    /\ taken = [w \in Workers |-> Null]
    /\ known = [w \in Workers |-> Null]
    /\ sent = [w \in Workers |-> Null]
    /\ counters = Zero
    /\ aborted = FALSE
    /\ finisher = "none"
    /\ records = [r \in Rows |-> Null]
    /\ balance \in Balances
    /\ prices \in PriceTables
    /\ month = 1
    /\ \E volume \in Volumes : usage = [m \in Months |-> IF m = 1 THEN volume ELSE 0]
    /\ spends = 0
    /\ edits = 0
    /\ faults = 0

Fault == faults < MaxFaults /\ faults' = faults + 1

-----------------------------------------------------------------------------
(* Submitting a batch.                                                     *)

\* What a check on the primary route is priced at a volume, without the margin.
UnitAt(volume) ==
    UnitPrice(prices.override, getCurrentTier(prices.tiers, volume), prices.base)

\* Mutant of EstimatedPrice: the band that the last row reaches.
PriceOfLastRow(n) == UnitAt(usage[month] + n - 1) + PLATFORM_MARGIN_MINOR

\* The estimate of a row is the total at the month's volume now, for all of
\* the n rows; it does not look at useBackup.
EstimatedPrice(n) == UnitAt(usage[month]) + PLATFORM_MARGIN_MINOR

\* createBatch up to the estimate; an unknown, inactive or file-based check
\* and a missing consent are refused like a batch of the wrong size.
Estimate(n, useBackup) ==
    /\ stage = "new"
    /\ \/ /\ n \in 1 .. MAX_ROWS
          /\ balance >= EstimatedPrice(n) * n
          /\ stage' = "estimated"
          /\ request' = [rows |-> n, useBackup |-> useBackup,
                         volume |-> usage[month], month |-> month]
       \/ stage' = "refused" /\ UNCHANGED request
    /\ UNCHANGED <<batch, processVars, records, balance, usage, outsideVars, faults>>

\* The batch row is created, and the workers take their first rows before
\* anything else can run.
Create ==
    /\ stage = "estimated"
    /\ stage' = "created"
    /\ batch' = [status |-> "processing", totalRows |-> request.rows,
                 counters |-> Zero, outOfCredit |-> FALSE]
    /\ LET n == request.rows
       IN  /\ at' = [w \in Workers |-> IF w <= n THEN "running" ELSE "done"]
           /\ taken' = [w \in Workers |-> IF w <= n THEN w ELSE Null]
           /\ queue' = [i \in 1 .. (IF n > CONCURRENCY THEN n - CONCURRENCY ELSE 0)
                          |-> i + CONCURRENCY]
    /\ finisher' = "waiting"
    /\ UNCHANGED <<request, known, sent, counters, aborted, records, balance, usage,
                   outsideVars, faults>>

-----------------------------------------------------------------------------
(* A worker.                                                               *)

\* Mutant of TakeNext: the row stays in the queue.
TakeNextShared(w, stop) ==
    IF queue # << >> /\ ~stop
    THEN /\ at' = [at EXCEPT ![w] = "running"]
         /\ taken' = [taken EXCEPT ![w] = Head(queue)]
         /\ UNCHANGED queue
    ELSE /\ at' = [at EXCEPT ![w] = "done"]
         /\ taken' = [taken EXCEPT ![w] = Null]
         /\ UNCHANGED queue

\* Mutant of TakeNext: the loop does not look at aborted.
TakeNextRegardless(w, stop) ==
    IF queue # << >>
    THEN /\ at' = [at EXCEPT ![w] = "running"]
         /\ taken' = [taken EXCEPT ![w] = Head(queue)]
         /\ queue' = Tail(queue)
    ELSE /\ at' = [at EXCEPT ![w] = "done"]
         /\ taken' = [taken EXCEPT ![w] = Null]
         /\ UNCHANGED queue

\* The loop condition and queue.shift().
TakeNext(w, stop) ==
    IF queue # << >> /\ ~stop
    THEN /\ at' = [at EXCEPT ![w] = "running"]
         /\ taken' = [taken EXCEPT ![w] = Head(queue)]
         /\ queue' = Tail(queue)
    ELSE /\ at' = [at EXCEPT ![w] = "done"]
         /\ taken' = [taken EXCEPT ![w] = Null]
         /\ UNCHANGED queue

\* Mutant of Counted: a row without a match counts as failed.
CountedAsFailed(status) ==
    [counters EXCEPT !.processed = @ + 1,
                     !.success = IF status = "success" THEN @ + 1 ELSE @,
                     !.failed = IF status # "success" THEN @ + 1 ELSE @]

Counted(status) ==
    [counters EXCEPT !.processed = @ + 1,
                     !.success = IF status = "success" THEN @ + 1 ELSE @,
                     !.notFound = IF status = "not_found" THEN @ + 1 ELSE @,
                     !.failed = IF status = "failed" THEN @ + 1 ELSE @]

\* The reads of run() before its provider is asked.
ReadPrices(w) ==
    /\ at[w] = "running"
    /\ known[w] = Null
    /\ known' = [known EXCEPT ![w] =
          [base |-> prices.base, override |-> prices.override, month |-> month]]
    /\ UNCHANGED <<stage, request, batch, queue, at, taken, sent, counters, aborted,
                   finisher, records, balance, usage, outsideVars, faults>>

\* What run() charges for a success: the band, primary or backup, is that of
\* the volume locked when it commits; base price and override are those it
\* has read before.
ChargeMinor(w) ==
    LET tier == getCurrentTier(prices.tiers, usage[known[w].month])
        unit == UnitPrice(known[w].override, tier, known[w].base)
        backup == BackupPrice(known[w].override, tier)
    IN  CostMinor("success",
            VendorMinor("success", request.useBackup /\ HasBackup, unit, backup))

\* run() returns: its record exists, and a success is paid and counted.  Every
\* PROGRESS_EVERY rows, and whenever the queue is empty, the worker sends the
\* counters of this moment and waits for the update; otherwise it loops.
RunReturns(w, status) ==
    /\ at[w] = "running"
    /\ known[w] # Null
    /\ IF status = "success"
       THEN /\ balance >= ChargeMinor(w)
            /\ balance' = balance - ChargeMinor(w)
            /\ usage' = [usage EXCEPT ![known[w].month] = @ + 1]
       ELSE UNCHANGED <<balance, usage>>
    /\ records' = [records EXCEPT ![taken[w]] = status]
    /\ counters' = Counted(status)
    /\ known' = [known EXCEPT ![w] = Null]
    /\ IF counters'.processed % PROGRESS_EVERY = 0 \/ queue = << >>
       THEN /\ at' = [at EXCEPT ![w] = "progress"]
            /\ taken' = [taken EXCEPT ![w] = Null]
            /\ sent' = [sent EXCEPT ![w] = counters']
            /\ UNCHANGED queue
       ELSE TakeNext(w, aborted) /\ UNCHANGED sent
    /\ UNCHANGED <<stage, request, batch, aborted, finisher, outsideVars, faults>>

FailedRow == [counters EXCEPT !.processed = @ + 1, !.failed = @ + 1]

\* run() throws InsufficientFunds: the worker stops the batch and leaves.
RunOutOfCredit(w) ==
    /\ at[w] = "running"
    /\ known[w] # Null
    /\ balance < ChargeMinor(w)
    /\ counters' = FailedRow
    /\ aborted' = TRUE
    /\ known' = [known EXCEPT ![w] = Null]
    /\ TakeNext(w, TRUE)
    /\ UNCHANGED <<stage, request, batch, sent, finisher, records, balance, usage,
                   outsideVars, faults>>

\* run() throws anything else (invalid input, a failed query): the row is
\* counted as failed, with no record.
RunThrows(w) ==
    /\ at[w] = "running"
    /\ counters' = FailedRow
    /\ known' = [known EXCEPT ![w] = Null]
    /\ TakeNext(w, aborted)
    /\ UNCHANGED <<stage, request, batch, sent, aborted, finisher, records, balance, usage,
                   outsideVars, faults>>

\* Updates of different workers may reach the row in any order.
ProgressStored(w) ==
    /\ at[w] = "progress"
    /\ batch' = [batch EXCEPT !.counters = sent[w]]
    /\ sent' = [sent EXCEPT ![w] = Null]
    /\ TakeNext(w, aborted)
    /\ UNCHANGED <<stage, request, known, counters, aborted, finisher, records, balance,
                   usage, outsideVars, faults>>

\* The update throws inside the same try as run(): the row that was counted
\* is counted again, as failed.
ProgressFails(w) ==
    /\ at[w] = "progress"
    /\ Fault
    /\ counters' = FailedRow
    /\ sent' = [sent EXCEPT ![w] = Null]
    /\ TakeNext(w, aborted)
    /\ UNCHANGED <<stage, request, batch, known, aborted, finisher, records, balance,
                   usage, outsideVars>>

-----------------------------------------------------------------------------
(* The end of processBatch.                                                *)

AllDone == \A w \in Workers : at[w] = "done"

\* Mutant of FinalUpdate: only a batch that was not aborted gets its status.
FinalUpdateUnlessAborted ==
    /\ finisher = "waiting"
    /\ AllDone
    /\ finisher' = "ended"
    /\ batch' = [batch EXCEPT !.status = IF aborted THEN @ ELSE "completed",
                              !.counters = counters, !.outOfCredit = aborted]
    /\ UNCHANGED <<stage, request, queue, at, taken, known, sent, counters, aborted,
                   records, balance, usage, outsideVars, faults>>

FinalUpdate ==
    /\ finisher = "waiting"
    /\ AllDone
    /\ finisher' = "ended"
    /\ batch' = [batch EXCEPT !.status = IF aborted THEN "failed" ELSE "completed",
                              !.counters = counters, !.outOfCredit = aborted]
    /\ UNCHANGED <<stage, request, queue, at, taken, known, sent, counters, aborted,
                   records, balance, usage, outsideVars, faults>>

FinalUpdateFails ==
    /\ finisher = "waiting"
    /\ AllDone
    /\ Fault
    /\ finisher' = "rescue"
    /\ UNCHANGED <<stage, request, batch, queue, at, taken, known, sent, counters, aborted,
                   records, balance, usage, outsideVars>>

\* The catch block marks the batch failed and leaves its counters; when that
\* update fails too, nothing is left that would end the batch.
Rescue ==
    /\ finisher = "rescue"
    /\ \/ /\ finisher' = "ended"
          /\ batch' = [batch EXCEPT !.status = "failed"]
          /\ UNCHANGED faults
       \/ /\ Fault
          /\ finisher' = "lost"
          /\ UNCHANGED batch
    /\ UNCHANGED <<stage, request, queue, at, taken, known, sent, counters, aborted,
                   records, balance, usage, outsideVars>>

\* The server restarts: the queue was in memory, so the batch is never
\* continued and its row stays as it is.
Crash ==
    /\ finisher \in {"waiting", "rescue"}
    /\ Fault
    /\ finisher' = "lost"
    /\ queue' = << >>
    /\ at' = [w \in Workers |-> "done"]
    /\ taken' = [w \in Workers |-> Null]
    /\ known' = [w \in Workers |-> Null]
    /\ sent' = [w \in Workers |-> Null]
    /\ UNCHANGED <<stage, request, batch, counters, aborted, records, balance, usage,
                   outsideVars>>

-----------------------------------------------------------------------------
(* What happens besides: after the estimate, as what came before is part of *)
(* the initial state.                                                       *)

\* Another check of the organization is paid from the same wallet; a success of
\* the batch's check counts in the month's volume.
OthersSpend(amount, sameCheck) ==
    /\ stage # "new"
    /\ spends + edits < MaxEvents
    /\ amount <= balance
    /\ balance' = balance - amount
    /\ usage' = IF sameCheck THEN [usage EXCEPT ![month] = @ + 1] ELSE usage
    /\ spends' = spends + 1
    /\ UNCHANGED <<stage, request, batch, processVars, records, prices, month, edits, faults>>

\* An administrator changes the base price, the override or the bands.
EditPrices(table) ==
    /\ stage # "new"
    /\ spends + edits < MaxEvents
    /\ prices' = table
    /\ edits' = edits + 1
    /\ UNCHANGED <<stage, request, batch, processVars, records, balance, usage, month,
                   spends, faults>>

NextMonth ==
    /\ stage # "new"
    /\ month < LastMonth
    /\ month' = month + 1
    /\ UNCHANGED <<stage, request, batch, processVars, records, balance, usage, prices,
                   spends, edits, faults>>

-----------------------------------------------------------------------------

WorkerStep(w) ==
    \/ ReadPrices(w)
    \/ \E status \in {"success", "not_found", "failed"} : RunReturns(w, status)
    \/ RunOutOfCredit(w)
    \/ RunThrows(w)
    \/ ProgressStored(w)
    \/ ProgressFails(w)

FinisherStep == FinalUpdate \/ FinalUpdateFails \/ Rescue

Next ==
    \/ \E n \in RowCounts, useBackup \in BOOLEAN : Estimate(n, useBackup)
    \/ Create
    \/ \E w \in Workers : WorkerStep(w)
    \/ FinisherStep
    \/ Crash
    \/ \E amount \in Spends, sameCheck \in BOOLEAN : OthersSpend(amount, sameCheck)
    \/ \E table \in PriceTables : EditPrices(table)
    \/ NextMonth

Spec == Init /\ [][Next]_vars

\* The server keeps executing what is ready: every run ends (Billing), every
\* update returns or throws.
FairSpec ==
    /\ Spec
    /\ \A w \in Workers : WF_vars(WorkerStep(w))
    /\ WF_vars(FinisherStep)

-----------------------------------------------------------------------------
(* Properties.                                                             *)

Results(status) == Cardinality({r \in Rows : records[r] = status})

\* However workers share the queue, no row is run by two of them or again
\* after it has a result.
EachRowOnce ==
    \A w \in Workers : at[w] = "running" =>
        /\ records[taken[w]] = Null
        /\ \A v \in Workers \ {w} : taken[v] # taken[w]
        /\ \A i \in DOMAIN queue : queue[i] # taken[w]

\* A completed batch has been through all its rows, and its counters are
\* those of the results that the client can download, even if progress
\* updates were lost or stored out of order.
CompletedMatchesResults ==
    batch # Null /\ batch.status = "completed" =>
        /\ queue = << >>
        /\ batch.counters.processed >= batch.totalRows
        /\ batch.counters.success = Results("success")
        /\ batch.counters.notFound = Results("not_found")
        /\ batch.counters.failed >= Results("failed")

\* One of the bands that the rows of the batch alone can reach is dearer than
\* the one it was estimated in.
DearerAhead ==
    \E volume \in request.volume .. request.volume + request.rows - 1 :
        UnitAt(volume) > UnitAt(request.volume)

\* An admitted batch can pay for all its rows, although each is priced at the
\* volume locked at its commit and the estimate took the first one's band, as
\* long as later bands are not dearer, the backup is not used, nothing else
\* spends from the wallet, and neither an edit nor a new month moves the prices.
EstimateSuffices ==
    aborted => \/ request.useBackup /\ HasBackup
               \/ DearerAhead
               \/ spends > 0 \/ edits > 0 \/ month # request.month

\* From the step in which a row finds the wallet empty no further row is taken:
\* only the runs in flight can still be billed.
AbortStopsTheQueue ==
    [][aborted' => \A w \in Workers : taken'[w] \in {taken[w], Null}]_vars

\* A batch ends, completed or failed, unless the process or both of its last
\* updates are lost.
EveryBatchEnds ==
    finisher = "waiting" ~> \/ finisher = "lost"
                            \/ finisher = "ended" /\ batch.status # "processing"

\* What the batch tests expect of the counters: each row is processed once,
\* so no more rows are processed than there are.
ProcessedWithinTotal ==
    batch # Null => batch.counters.processed <= batch.totalRows
=============================================================================
