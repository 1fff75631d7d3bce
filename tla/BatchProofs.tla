------------------------------- MODULE BatchProofs -------------------------------
(***************************************************************************)
(* Bulk batches, for any number of workers, rows and faults: rows are run  *)
(* once, a completed batch tells what happened to its rows, an aborted one *)
(* takes no more, and the estimate of an admitted one is enough.           *)
(*                                                                         *)
(* All four follow from what holds between two awaits of any worker: the   *)
(* queue and the rows in work are disjoint and without a result, and what  *)
(* is left of the batch is covered by the counters and by the wallet.  For *)
(* the wallet the month's volume matters too: it grows by the batch's own  *)
(* successes only, so each row is priced in a band the estimate looked     *)
(* over.                                                                   *)
(***************************************************************************)
EXTENDS Batch, PricingProofs, FiniteSetTheorems, SequenceTheorems, TLAPS

-----------------------------------------------------------------------------
(* The invariant.                                                          *)

\* Before the batch is created there is nothing of it, and after its end no
\* worker is left.
Stages ==
    /\ stage # "created" =>
           /\ queue = << >> /\ batch = Null /\ counters = Zero /\ ~aborted
           /\ \A w \in Workers : at[w] = "done" /\ known[w] = Null
           /\ \A r \in Rows : records[r] = Null
    /\ stage \in {"estimated", "created"} => 
           request \in Request /\ request.rows \in Rows /\ request.month <= month
    /\ stage = "created" => batch # Null /\ batch.totalRows = request.rows
    /\ finisher = "none" <=> stage # "created"
    /\ finisher \in {"rescue", "ended", "lost"} => \A w \in Workers : at[w] = "done"

\* What a worker holds at its await.
WorkersHold ==
    \A w \in Workers :
        /\ at[w] = "running" <=> taken[w] # Null
        /\ at[w] = "progress" => sent[w] # Null

\* The queue and the rows in work do not overlap, and none of them has a result.
RowsApart ==
    /\ \A i, j \in DOMAIN queue : queue[i] = queue[j] => i = j
    /\ \A i \in DOMAIN queue : records[queue[i]] = Null
    /\ \A w \in Workers : at[w] = "running" =>
           /\ records[taken[w]] = Null
           /\ \A i \in DOMAIN queue : queue[i] # taken[w]
           /\ \A v \in Workers \ {w} : taken[v] # taken[w]

\* A worker ends when the queue is empty, or the batch aborted.
Drained ==
    stage = "created" /\ ~aborted /\ finisher # "lost" =>
        \A w \in Workers : at[w] = "done" => queue = << >>

Running == {w \in Workers : at[w] = "running"}

\* How many rows are still to be run.
Left == Len(queue) + Cardinality(Running)

\* Every row that is not left has been processed.
Covered ==
    stage = "created" /\ finisher # "lost" => counters.processed + Left >= batch.totalRows

\* What a row of the batch was estimated at.
RowPrice == UnitAt(request.volume) + PLATFORM_MARGIN_MINOR

\* The prices are still those of the estimate, and none of the bands ahead is
\* dearer.
AsEstimated ==
    /\ ~(request.useBackup /\ HasBackup)
    /\ ~DearerAhead
    /\ spends = 0 /\ edits = 0 /\ month = request.month

\* Then every row left is priced at a volume of the batch, by what the
\* estimate saw.
VolumesAhead ==
    stage = "created" /\ AsEstimated =>
        /\ usage[request.month] >= request.volume
        /\ usage[request.month] + Left <= request.volume + request.rows
        /\ \A w \in Workers : known[w] # Null =>
               known[w] = [base |-> prices.base, override |-> prices.override,
                           month |-> request.month]

\* And the wallet holds the price of what is left.
Payable ==
    /\ stage = "estimated" /\ AsEstimated =>
           /\ balance >= RowPrice * request.rows
           /\ usage[request.month] = request.volume
    /\ stage = "created" /\ AsEstimated => balance >= RowPrice * Left

\* The counters in memory are those of the results.
Tallied ==
    /\ counters.success = Results("success")
    /\ counters.notFound = Results("not_found")
    /\ counters.failed >= Results("failed")

\* A completed batch got the counters in memory when nothing was left.
CompletedAtEnd ==
    batch # Null /\ batch.status = "completed" =>
        /\ finisher = "ended"
        /\ queue = << >>
        /\ batch.counters = counters
        /\ counters.processed >= batch.totalRows

Inv ==
    /\ TypeOK /\ Stages /\ WorkersHold /\ RowsApart /\ Drained
    /\ Covered /\ VolumesAhead /\ Payable /\ Tallied /\ EstimateSuffices /\ CompletedAtEnd

-----------------------------------------------------------------------------
(* What a worker's step does to the rows.                                  *)

Moves(w, step, row) ==
    /\ at' = [at EXCEPT ![w] = step]
    /\ taken' = [taken EXCEPT ![w] = row]

\* It goes on with the head of the queue, or stops: done or at its report.
Takes(w) == queue # << >> /\ Moves(w, "running", Head(queue)) /\ queue' = Tail(queue)
Stops(w, step) == Moves(w, step, Null) /\ UNCHANGED queue

\* A worker ends because the queue is empty or because it was told to stop.
LEMMA TakeNextMoves ==
    ASSUME NEW w \in Workers, NEW stop \in BOOLEAN, TakeNext(w, stop)
    PROVE  \/ Takes(w) /\ ~stop
           \/ Stops(w, "done") /\ (queue = << >> \/ stop)
  BY DEF TakeNext, Takes, Stops, Moves

\* The steps of a worker that end a run or a report.
RunStep(w) ==
    \/ \E status \in {"success", "not_found", "failed"} : RunReturns(w, status)
    \/ RunOutOfCredit(w)
    \/ RunThrows(w)
    \/ ProgressStored(w)
    \/ ProgressFails(w)

LEMMA WorkerSteps ==
    \A w \in Workers : WorkerStep(w) <=> ReadPrices(w) \/ RunStep(w)
  BY DEF WorkerStep, RunStep

LEMMA StepMoves ==
    ASSUME NEW w \in Workers, TypeOK, RunStep(w)
    PROVE  /\ at[w] \in {"running", "progress"}
           /\ \/ Takes(w) /\ ~aborted /\ ~aborted'
              \/ Stops(w, "done") /\ (queue = << >> \/ aborted')
              \/ Stops(w, "progress")
           /\ aborted => aborted'
           /\ UNCHANGED <<stage, request, finisher, outsideVars>>
  <1>1. CASE \E status \in {"success", "not_found", "failed"} : RunReturns(w, status)
    BY <1>1, TakeNextMoves DEF RunReturns, Stops, Moves, TypeOK
  <1>2. CASE RunOutOfCredit(w)
    BY <1>2, TakeNextMoves DEF RunOutOfCredit
  <1>3. CASE RunThrows(w)
    BY <1>3, TakeNextMoves DEF RunThrows, TypeOK
  <1>4. CASE ProgressStored(w)
    BY <1>4, TakeNextMoves DEF ProgressStored, TypeOK
  <1>5. CASE ProgressFails(w)
    BY <1>5, TakeNextMoves DEF ProgressFails, TypeOK
  <1> QED
    BY <1>1, <1>2, <1>3, <1>4, <1>5 DEF RunStep

LEMMA QueueFacts ==
    ASSUME TypeOK
    PROVE  /\ Len(queue) \in Nat
           /\ DOMAIN queue = 1 .. Len(queue)
           /\ \A i \in DOMAIN queue : queue[i] \in Rows
           /\ queue = << >> <=> Len(queue) = 0
           /\ queue # << >> =>
                  /\ Head(queue) = queue[1] /\ 1 \in DOMAIN queue
                  /\ Tail(queue) \in Seq(Rows)
                  /\ Len(Tail(queue)) = Len(queue) - 1
                  /\ DOMAIN Tail(queue) = 1 .. (Len(queue) - 1)
                  /\ \A i \in DOMAIN Tail(queue) : Tail(queue)[i] = queue[i + 1]
  BY DEF TypeOK

LEMMA RunningFacts ==
    IsFiniteSet(Running) /\ Cardinality(Running) \in Nat
  <1>1. IsFiniteSet(Workers)
    BY FS_Interval, BatchAssumption DEF Workers
  <1>2. Running \in SUBSET Workers
    BY DEF Running
  <1>3. IsFiniteSet(Running)
    BY <1>1, <1>2, FS_Subset
  <1> QED
    BY <1>3, FS_CardinalityType

\* A worker that has run its row leaves one less to run; one that has reported
\* may take a row, which was left before.
LEMMA LeftMoves ==
    ASSUME TypeOK, NEW w \in Workers, at[w] \in {"running", "progress"},
           Takes(w) \/ Stops(w, "done") \/ Stops(w, "progress")
    PROVE  /\ Left \in Nat /\ Left' \in Nat
           /\ Left = IF at[w] = "running" THEN Left' + 1 ELSE Left'
  <1> DEFINE others == Running \ {w}
  <1>1. /\ IsFiniteSet(Running) /\ Cardinality(Running) \in Nat
        /\ Len(queue) \in Nat
    BY RunningFacts, QueueFacts
  <1>2. at \in [Workers -> {"running", "progress", "done"}]
    BY DEF TypeOK
  <1>3. /\ IsFiniteSet(others)
        /\ Cardinality(others) \in Nat
        /\ Cardinality(Running) = Cardinality(others) + (IF at[w] = "running" THEN 1 ELSE 0)
    <2>1. w \in Running <=> at[w] = "running"
      BY DEF Running
    <2>2. IsFiniteSet(others)
          /\ Cardinality(others) = IF w \in Running THEN Cardinality(Running) - 1
                                                   ELSE Cardinality(Running)
      BY <1>1, FS_RemoveElement
    <2>3. Cardinality(others) \in Nat
      BY <2>2, FS_CardinalityType
    <2> QED
      BY <1>1, <2>1, <2>2, <2>3
  <1>4. CASE Takes(w)
    <2>1. Running' = others \cup {w}
      BY <1>2, <1>4 DEF Takes, Moves, Running
    <2>2. Cardinality(Running') = Cardinality(others) + 1
      BY <1>3, <2>1, FS_AddElement
    <2>3. Len(queue') = Len(queue) - 1 /\ Len(queue) > 0
      BY <1>1, <1>4, QueueFacts DEF Takes
    <2> QED
      BY <1>1, <1>3, <2>2, <2>3 DEF Left
  <1>5. CASE Stops(w, "done") \/ Stops(w, "progress")
    <2>1. Running' = others /\ queue' = queue
      BY <1>2, <1>5 DEF Stops, Moves, Running
    <2> QED
      BY <1>1, <1>3, <2>1 DEF Left
  <1> QED
    BY <1>4, <1>5

\* A result is one result more of its kind.
LEMMA ResultAdded ==
    ASSUME TypeOK, NEW r \in Rows, records[r] = Null,
           NEW status \in {"success", "not_found", "failed"},
           records' = [records EXCEPT ![r] = status],
           NEW other \in {"success", "not_found", "failed"}
    PROVE  /\ Results(other) \in Nat
           /\ Results(other)' = IF other = status THEN Results(other) + 1 ELSE Results(other)
  <1> DEFINE before == {q \in Rows : records[q] = other}
             after == {q \in Rows : records'[q] = other}
  <1>0. records \in [Rows -> {Null, "success", "not_found", "failed"}]
    BY DEF TypeOK
  <1>1. IsFiniteSet(before) /\ Cardinality(before) \in Nat
    <2>1. IsFiniteSet(Rows)
      BY FS_Interval, BatchAssumption DEF Rows
    <2>2. before \in SUBSET Rows
      OBVIOUS
    <2>3. IsFiniteSet(before)
      BY <2>1, <2>2, FS_Subset
    <2> QED
      BY <2>3, FS_CardinalityType
  <1>2. after = (before \ {r}) \cup (IF other = status THEN {r} ELSE {})
    BY <1>0
  <1>3. r \notin before \/ records[r] = other
    OBVIOUS
  <1>4. CASE r \notin before
    <2>1. after = before \cup (IF other = status THEN {r} ELSE {})
      BY <1>2, <1>4
    <2>2. Cardinality(before \cup {r}) = Cardinality(before) + 1
      BY <1>1, <1>4, FS_AddElement
    <2>3. Cardinality(after) = IF other = status THEN Cardinality(before) + 1
                                                ELSE Cardinality(before)
      BY <2>1, <2>2
    <2> QED
      BY <1>1, <2>3 DEF Results
  <1>5. Null # other
    BY BatchRowAssumption
  <1> QED
    BY <1>3, <1>4, <1>5

-----------------------------------------------------------------------------
(* What a worker's step preserves.                                         *)

\* Which rows may get a result in a worker's step: the row it runs.
Writes(w) ==
    \/ UNCHANGED records
    \/ /\ at[w] = "running"
       /\ \E status \in {"success", "not_found", "failed"} :
              records' = [records EXCEPT ![taken[w]] = status]

LEMMA StepWrites ==
    ASSUME NEW w \in Workers, RunStep(w)
    PROVE  Writes(w)
  BY DEF RunStep, RunReturns, RunOutOfCredit, RunThrows, ProgressStored, ProgressFails, Writes

LEMMA RowsStayApart ==
    ASSUME TypeOK, WorkersHold, RowsApart, NEW w \in Workers, Writes(w),
           at[w] \in {"running", "progress"},
           Takes(w) \/ Stops(w, "done") \/ Stops(w, "progress")
    PROVE  RowsApart'
  <1>1. /\ at \in [Workers -> {"running", "progress", "done"}]
        /\ taken \in [Workers -> Rows \cup {Null}]
        /\ records \in [Rows -> {Null, "success", "not_found", "failed"}]
        /\ \A v \in Workers : at[v] = "running" => taken[v] \in Rows
    BY DEF TypeOK, WorkersHold
  <1>2. ASSUME NEW r \in Rows, records[r] = Null, at[w] = "running" => r # taken[w]
        PROVE  records'[r] = Null
    BY <1>1, <1>2 DEF Writes
  <1>3. CASE Takes(w)
    <2>1. /\ 1 \in DOMAIN queue
          /\ \A v \in Workers : at'[v] = IF v = w THEN "running" ELSE at[v]
          /\ \A v \in Workers : taken'[v] = IF v = w THEN queue[1] ELSE taken[v]
          /\ \A i \in DOMAIN queue' : i + 1 \in DOMAIN queue /\ i + 1 # 1
                                      /\ queue'[i] = queue[i + 1]
          /\ \A i, j \in DOMAIN queue' : i + 1 = j + 1 => i = j
          /\ \A i \in DOMAIN queue : queue[i] \in Rows
      BY <1>1, <1>3, QueueFacts DEF Takes, Moves
    <2>2. \A i \in DOMAIN queue : records'[queue[i]] = Null
      BY <1>2, <2>1 DEF RowsApart
    <2>3. /\ \A i, j \in DOMAIN queue' : queue'[i] = queue'[j] => i = j
          /\ \A i \in DOMAIN queue' : records'[queue'[i]] = Null
      BY <2>1, <2>2 DEF RowsApart
    <2>4. ASSUME NEW v \in Workers, at'[v] = "running"
          PROVE  /\ records'[taken'[v]] = Null
                 /\ \A i \in DOMAIN queue' : queue'[i] # taken'[v]
                 /\ \A u \in Workers \ {v} : taken'[u] # taken'[v]
      <3>1. CASE v = w
        <4>1. taken'[v] = queue[1] /\ queue[1] \in Rows /\ queue[1] # Null
          BY <2>1, <3>1, BatchRowAssumption
        <4>2. \A i \in DOMAIN queue' : queue'[i] # taken'[v]
          BY <2>1, <4>1 DEF RowsApart
        <4>3. \A u \in Workers \ {v} : taken[u] # queue[1]
          BY <2>1, <4>1 DEF RowsApart, WorkersHold
        <4> QED
          BY <2>1, <2>2, <3>1, <4>1, <4>2, <4>3
      <3>2. CASE v # w
        <4>1. at[v] = "running" /\ taken'[v] = taken[v] /\ taken[v] \in Rows
          BY <1>1, <2>1, <2>4, <3>2
        <4>2. records'[taken[v]] = Null
          BY <1>2, <3>2, <4>1 DEF RowsApart
        <4> QED
          BY <2>1, <3>2, <4>1, <4>2 DEF RowsApart
      <3> QED
        BY <3>1, <3>2
    <2> QED
      BY <2>3, <2>4 DEF RowsApart
  <1>4. CASE Stops(w, "done") \/ Stops(w, "progress")
    <2>1. /\ queue' = queue
          /\ at'[w] # "running" /\ taken'[w] = Null
          /\ \A v \in Workers : v # w => at'[v] = at[v] /\ taken'[v] = taken[v]
          /\ \A i \in DOMAIN queue : queue[i] \in Rows
      BY <1>1, <1>4, QueueFacts DEF Stops, Moves
    <2>2. \A i \in DOMAIN queue : records'[queue[i]] = Null
      BY <1>2, <2>1 DEF RowsApart
    <2>3. ASSUME NEW v \in Workers, at'[v] = "running"
          PROVE  /\ records'[taken'[v]] = Null
                 /\ \A i \in DOMAIN queue' : queue'[i] # taken'[v]
                 /\ \A u \in Workers \ {v} : taken'[u] # taken'[v]
      <3>1. v # w /\ at[v] = "running" /\ taken'[v] = taken[v] /\ taken[v] \in Rows
        BY <1>1, <2>1, <2>3
      <3>2. records'[taken[v]] = Null
        BY <1>2, <3>1 DEF RowsApart
      <3>3. \A u \in Workers \ {v} : taken'[u] # taken[v]
        BY <2>1, <3>1, BatchRowAssumption DEF RowsApart
      <3> QED
        BY <2>1, <3>1, <3>2, <3>3 DEF RowsApart
    <2> QED
      BY <2>1, <2>2, <2>3 DEF RowsApart
  <1> QED
    BY <1>3, <1>4

LEMMA CountersType ==
    ASSUME TypeOK
    PROVE  /\ counters \in Counters
           /\ counters.processed \in Nat /\ counters.success \in Nat
           /\ counters.failed \in Nat /\ counters.notFound \in Nat
  BY DEF TypeOK, Counters

LEMMA CountedType ==
    ASSUME TypeOK, NEW status \in {"success", "not_found", "failed"}
    PROVE  /\ Counted(status) \in Counters
           /\ Counted(status).processed = counters.processed + 1
           /\ Counted(status).success
                  = IF status = "success" THEN counters.success + 1 ELSE counters.success
           /\ Counted(status).notFound
                  = IF status = "not_found" THEN counters.notFound + 1 ELSE counters.notFound
           /\ Counted(status).failed
                  = IF status = "failed" THEN counters.failed + 1 ELSE counters.failed
  <1>1. /\ counters \in Counters
        /\ counters.processed \in Nat /\ counters.success \in Nat
        /\ counters.failed \in Nat /\ counters.notFound \in Nat
    BY CountersType
  <1> DEFINE p == counters.processed + 1
             s == IF status = "success" THEN counters.success + 1 ELSE counters.success
             n == IF status = "not_found" THEN counters.notFound + 1 ELSE counters.notFound
             f == IF status = "failed" THEN counters.failed + 1 ELSE counters.failed
             row == [counters EXCEPT !.processed = p, !.success = s, !.notFound = n,
                                     !.failed = f]
  <1>2. p \in Nat /\ s \in Nat /\ n \in Nat /\ f \in Nat
    BY <1>1
  <1>3. Counted(status) = row
    BY DEF Counted
  <1> HIDE DEF p, s, n, f
  <1>4. /\ row \in Counters
        /\ row.processed = p /\ row.success = s /\ row.notFound = n /\ row.failed = f
    BY <1>1, <1>2 DEF Counters
  <1> QED
    BY <1>3, <1>4 DEF p, s, n, f

LEMMA FailedRowType ==
    ASSUME TypeOK
    PROVE  /\ FailedRow \in Counters
           /\ FailedRow.processed = counters.processed + 1
           /\ FailedRow.success = counters.success
           /\ FailedRow.notFound = counters.notFound
           /\ FailedRow.failed = counters.failed + 1
  <1>1. /\ counters \in Counters
        /\ counters.processed \in Nat /\ counters.failed \in Nat
    BY CountersType
  <1>2. PICK p, f \in Nat : p = counters.processed + 1 /\ f = counters.failed + 1
    BY <1>1
  <1>3. FailedRow = [counters EXCEPT !.processed = p, !.failed = f]
    BY <1>2 DEF FailedRow
  <1> QED
    BY <1>1, <1>2, <1>3 DEF Counters

\* A processed row is counted once, or, when its report fails, twice.
LEMMA StepCounts ==
    ASSUME TypeOK, NEW w \in Workers, RunStep(w)
    PROVE  /\ counters \in Counters /\ counters' \in Counters
           /\ at[w] = "running" => counters'.processed = counters.processed + 1
           /\ counters'.processed >= counters.processed
  <1>1. counters \in Counters /\ counters.processed \in Nat
    BY CountersType
  <1>2. ASSUME NEW status \in {"success", "not_found", "failed"}, RunReturns(w, status)
        PROVE  counters' \in Counters /\ counters'.processed = counters.processed + 1
    BY <1>2, CountedType DEF RunReturns
  <1>3. ASSUME counters' = FailedRow
        PROVE  counters' \in Counters /\ counters'.processed = counters.processed + 1
    BY <1>3, FailedRowType
  <1>4. \/ \E status \in {"success", "not_found", "failed"} : RunReturns(w, status)
        \/ counters' = FailedRow
        \/ counters' = counters /\ at[w] # "running"
    BY DEF RunStep, RunOutOfCredit, RunThrows, ProgressStored, ProgressFails
  <1>5. \/ counters' \in Counters /\ counters'.processed = counters.processed + 1
        \/ counters' = counters /\ at[w] # "running"
    BY <1>2, <1>3, <1>4
  <1> QED
    BY <1>1, <1>5

LEMMA MonthFacts ==
    ASSUME TypeOK
    PROVE  /\ \A m \in Months : usage[m] \in Nat
           /\ month \in Months /\ month \in Nat
           /\ prices \in PriceTable
           /\ prices.tiers \in SUBSET Tier /\ prices.base \in Nat
           /\ prices.override \in Nullable(OrgTier)
  <1>1. prices \in PriceTable
    BY BatchAssumption DEF TypeOK
  <1> QED
    BY <1>1, BatchAssumption DEF TypeOK, PriceTable, Months

\* The band of a volume is one of the table's, or there is none.
LEMMA TierType ==
    ASSUME TypeOK, NEW volume \in Nat
    PROVE  getCurrentTier(prices.tiers, volume) \in Nullable(Tier)
  BY MonthFacts, TierLookup DEF Nullable

LEMMA UnitType ==
    ASSUME TypeOK, NEW volume \in Nat
    PROVE  UnitAt(volume) \in Nat
  <1> DEFINE tier == getCurrentTier(prices.tiers, volume)
  <1>1. tier \in Nullable(Tier) /\ prices.override \in Nullable(OrgTier) /\ prices.base \in Nat
    BY TierType, MonthFacts
  <1> HIDE DEF tier
  <1>2. UnitPrice(prices.override, tier, prices.base) \in Nat
    BY <1>1, PriceTypes, BatchRowAssumption
  <1> QED
    BY <1>2 DEF UnitAt, tier

LEMMA ChargeType ==
    ASSUME TypeOK, Stages, stage = "created", NEW w \in Workers, known[w] # Null
    PROVE  ChargeMinor(w) \in Nat
  <1>1. known[w] \in RunPrices /\ request.useBackup \in BOOLEAN
    BY DEF TypeOK, Stages, Request
  <1>2. /\ known[w].base \in Nat /\ known[w].override \in Nullable(OrgTier)
        /\ known[w].month \in Months
    BY <1>1 DEF RunPrices
  <1> DEFINE tier == getCurrentTier(prices.tiers, usage[known[w].month])
             unit == UnitPrice(known[w].override, tier, known[w].base)
             backup == BackupPrice(known[w].override, tier)
             isBackup == request.useBackup /\ HasBackup
  <1>3. tier \in Nullable(Tier)
    BY <1>2, MonthFacts, TierType
  <1>4. unit \in Nat /\ backup \in Nullable(Nat)
    <2> HIDE DEF tier
    <2> QED
      BY <1>2, <1>3, PriceTypes, BatchRowAssumption
  <1>5. isBackup \in BOOLEAN
    BY <1>1, BatchAssumption
  <1> HIDE DEF unit, backup, isBackup
  <1>6. CostMinor("success", VendorMinor("success", isBackup, unit, backup)) \in Nat
    BY <1>4, <1>5, CostTypes DEF Status
  <1> QED
    BY <1>6 DEF ChargeMinor, unit, backup, isBackup

LEMMA MovesType ==
    ASSUME TypeOK, NEW w \in Workers, Takes(w) \/ Stops(w, "done") \/ Stops(w, "progress")
    PROVE  /\ queue' \in Seq(Rows)
           /\ at' \in [Workers -> {"running", "progress", "done"}]
           /\ taken' \in [Workers -> Rows \cup {Null}]
  <1>1. CASE Takes(w)
    BY <1>1, QueueFacts DEF Takes, Moves, TypeOK
  <1>2. CASE Stops(w, "done") \/ Stops(w, "progress")
    BY <1>2 DEF Stops, Moves, TypeOK
  <1> QED
    BY <1>1, <1>2

\* What a worker's step does to the batch row and to the wallet.
LEMMA StepTypes ==
    ASSUME TypeOK, Stages, WorkersHold, NEW w \in Workers, stage = "created", RunStep(w)
    PROVE  TypeOK'
  <1>1. /\ queue' \in Seq(Rows)
        /\ at' \in [Workers -> {"running", "progress", "done"}]
        /\ taken' \in [Workers -> Rows \cup {Null}]
        /\ UNCHANGED <<stage, request, finisher, outsideVars>>
    BY StepMoves, MovesType
  <1>2. counters' \in Counters
    BY StepCounts
  <1>3. records' \in [Rows -> {Null, "success", "not_found", "failed"}]
    BY StepWrites DEF Writes, TypeOK
  <1>4. balance' \in Nat /\ usage' \in [Months -> Nat]
    <2>1. ASSUME NEW status, RunReturns(w, status)
          PROVE  balance' \in Nat /\ usage' \in [Months -> Nat]
      <3>1. ChargeMinor(w) \in Nat
        BY <2>1, ChargeType DEF RunReturns
      <3>2. known[w].month \in Months /\ usage[known[w].month] \in Nat
        BY <2>1 DEF RunReturns, TypeOK, RunPrices
      <3>3. balance' \in Nat
        BY <2>1, <3>1 DEF RunReturns, TypeOK
      <3>4. UNCHANGED usage \/ usage' = [usage EXCEPT ![known[w].month] = @ + 1]
        BY <2>1 DEF RunReturns
      <3>5. usage \in [Months -> Nat]
        BY DEF TypeOK
      <3>6. usage' \in [Months -> Nat]
        BY <3>2, <3>4, <3>5
      <3> QED
        BY <3>3, <3>6
    <2>2. ASSUME RunOutOfCredit(w) \/ RunThrows(w) \/ ProgressStored(w) \/ ProgressFails(w)
          PROVE  UNCHANGED <<balance, usage>>
      BY <2>2 DEF RunOutOfCredit, RunThrows, ProgressStored, ProgressFails
    <2>3. UNCHANGED <<balance, usage>> => balance' \in Nat /\ usage' \in [Months -> Nat]
      BY DEF TypeOK
    <2>4. \/ \E status \in {"success", "not_found", "failed"} : RunReturns(w, status)
          \/ RunOutOfCredit(w) \/ RunThrows(w) \/ ProgressStored(w) \/ ProgressFails(w)
      BY DEF RunStep
    <2> QED
      BY <2>1, <2>2, <2>3, <2>4, Zenon
  <1>5. batch' \in BatchRow \cup {Null}
    <2>1. CASE ProgressStored(w)
      <3>1. sent[w] \in Counters /\ batch \in BatchRow
        BY <2>1 DEF ProgressStored, WorkersHold, Stages, TypeOK
      <3> QED
        BY <2>1, <3>1 DEF ProgressStored, BatchRow
    <2>2. CASE ~ProgressStored(w)
      BY <2>2 DEF RunStep, RunReturns, RunOutOfCredit, RunThrows, ProgressFails, TypeOK
    <2> QED
      BY <2>1, <2>2
  <1>6. sent' \in [Workers -> Counters \cup {Null}]
    <2>1. \/ UNCHANGED sent
          \/ \E value \in {counters', Null} : sent' = [sent EXCEPT ![w] = value]
      BY DEF RunStep, RunReturns, RunOutOfCredit, RunThrows, ProgressStored, ProgressFails
    <2>2. sent \in [Workers -> Counters \cup {Null}]
      BY DEF TypeOK
    <2> QED
      BY <1>2, <2>1, <2>2
  <1>7. faults' \in Nat
    <2>1. faults' = faults \/ faults' = faults + 1
      BY DEF RunStep, RunReturns, RunOutOfCredit, RunThrows, ProgressStored,
             ProgressFails, Fault
    <2> QED
      BY <2>1 DEF TypeOK
  <1>8. aborted' \in BOOLEAN
    <2>1. aborted' = aborted \/ aborted' = TRUE
      BY DEF RunStep, RunReturns, RunOutOfCredit, RunThrows, ProgressStored, ProgressFails
    <2> QED
      BY <2>1 DEF TypeOK
  <1>9. known' \in [Workers -> RunPrices \cup {Null}]
    BY DEF RunStep, RunReturns, RunOutOfCredit, RunThrows, ProgressStored, ProgressFails,
           TypeOK
  <1> QED
    BY <1>1, <1>2, <1>3, <1>4, <1>5, <1>6, <1>7, <1>8, <1>9 DEF TypeOK, outsideVars

LEMMA StepHolds ==
    ASSUME TypeOK, WorkersHold, NEW w \in Workers, RunStep(w)
    PROVE  WorkersHold'
  <1>1. /\ at \in [Workers -> {"running", "progress", "done"}]
        /\ taken \in [Workers -> Rows \cup {Null}]
        /\ sent \in [Workers -> Counters \cup {Null}]
    BY DEF TypeOK
  <1>2. ASSUME NEW v \in Workers, v # w
        PROVE  at'[v] = at[v] /\ taken'[v] = taken[v] /\ sent'[v] = sent[v]
    <2>1. at'[v] = at[v] /\ taken'[v] = taken[v]
      BY <1>1, <1>2, StepMoves DEF Takes, Stops, Moves
    <2>2. sent'[v] = sent[v]
      BY <1>1, <1>2 DEF RunStep, RunReturns, RunOutOfCredit, RunThrows, ProgressStored,
                        ProgressFails
    <2> QED
      BY <2>1, <2>2
  <1>3. at'[w] = "running" <=> taken'[w] # Null
    <2>1. CASE Takes(w)
      BY <1>1, <2>1, QueueFacts, BatchRowAssumption DEF Takes, Moves
    <2>2. CASE Stops(w, "done") \/ Stops(w, "progress")
      BY <1>1, <2>2 DEF Stops, Moves
    <2> QED
      BY <2>1, <2>2, StepMoves
  <1>4. at'[w] = "progress" => sent'[w] # Null
    <2>1. ASSUME NEW status \in {"success", "not_found", "failed"}, RunReturns(w, status),
                 at'[w] = "progress"
          PROVE  sent'[w] # Null
      <3>1. counters' \in Counters /\ counters' # Null
        BY <2>1, CountedType, BatchRowAssumption DEF RunReturns
      <3> QED
        BY <1>1, <2>1, <3>1 DEF RunReturns, TakeNext
    <2>2. CASE RunOutOfCredit(w) \/ RunThrows(w) \/ ProgressStored(w) \/ ProgressFails(w)
      BY <1>1, <2>2 DEF RunOutOfCredit, RunThrows, ProgressStored, ProgressFails, TakeNext
    <2> QED
      BY <2>1, <2>2 DEF RunStep
  <1> QED
    BY <1>2, <1>3, <1>4 DEF WorkersHold

LEMMA StepStages ==
    ASSUME TypeOK, Stages, WorkersHold, NEW w \in Workers, RunStep(w)
    PROVE  /\ stage = "created" /\ finisher = "waiting" /\ batch \in BatchRow
           /\ batch' \in BatchRow /\ batch'.status = batch.status
           /\ batch'.totalRows = batch.totalRows
           /\ Stages'
  <1>1. /\ at[w] \in {"running", "progress"}
        /\ UNCHANGED <<stage, request, finisher, outsideVars>>
    BY StepMoves
  <1>2. /\ stage = "created" /\ finisher = "waiting"
        /\ batch # Null /\ batch.totalRows = request.rows
        /\ request \in Request /\ request.rows \in Rows
    BY <1>1 DEF Stages, TypeOK
  <1>3. batch \in BatchRow
    BY <1>2 DEF TypeOK
  <1>4. UNCHANGED batch \/ batch' = [batch EXCEPT !.counters = sent[w]]
    BY DEF RunStep, RunReturns, RunOutOfCredit, RunThrows, ProgressStored, ProgressFails
  <1>5. /\ batch'.status = batch.status /\ batch'.totalRows = batch.totalRows
    BY <1>3, <1>4 DEF BatchRow
  <1>6. batch' \in BatchRow
    <2>1. CASE UNCHANGED batch
      BY <1>3, <2>1
    <2>2. CASE ~UNCHANGED batch
      <3>1. ProgressStored(w)
        BY <2>2 DEF RunStep, RunReturns, RunOutOfCredit, RunThrows, ProgressFails
      <3>2. sent[w] \in Counters
        BY <3>1 DEF ProgressStored, WorkersHold, TypeOK
      <3> QED
        BY <1>3, <1>4, <2>2, <3>2 DEF BatchRow
    <2> QED
      BY <2>1, <2>2
  <1> QED
    BY <1>1, <1>2, <1>3, <1>5, <1>6, BatchRowAssumption DEF Stages, outsideVars

LEMMA StepDrains ==
    ASSUME TypeOK, Stages, WorkersHold, Drained, NEW w \in Workers, RunStep(w)
    PROVE  Drained'
  <1> SUFFICES ASSUME ~aborted', NEW v \in Workers, at'[v] = "done"
               PROVE  queue' = << >>
    BY DEF Drained
  <1>1. /\ stage = "created" /\ finisher = "waiting"
        /\ at \in [Workers -> {"running", "progress", "done"}]
    BY StepStages DEF TypeOK
  <1>2. ~aborted
    BY StepMoves
  <1>3. CASE v = w
    <2>1. Stops(w, "done") /\ queue = << >>
      BY <1>1, <1>3, StepMoves DEF Takes, Stops, Moves
    <2> QED
      BY <2>1 DEF Stops
  <1>4. CASE v # w
    <2>1. at[v] = "done"
      BY <1>1, <1>4, StepMoves DEF Takes, Stops, Moves
    <2>2. queue = << >>
      BY <1>1, <1>2, <2>1 DEF Drained
    <2> QED
      BY <2>2, StepMoves DEF Takes, Stops
  <1> QED
    BY <1>3, <1>4

LEMMA StepCovers ==
    ASSUME TypeOK, Stages, WorkersHold, Covered, NEW w \in Workers, RunStep(w)
    PROVE  Covered'
  <1>1. /\ stage = "created" /\ finisher = "waiting" /\ batch \in BatchRow
        /\ batch'.totalRows = batch.totalRows
    BY StepStages
  <1>2. batch.totalRows \in Nat
    BY <1>1 DEF BatchRow
  <1>3. counters.processed + Left >= batch.totalRows
    BY <1>1 DEF Covered
  <1>4. /\ Left \in Nat /\ Left' \in Nat
        /\ Left = IF at[w] = "running" THEN Left' + 1 ELSE Left'
    BY StepMoves, LeftMoves
  <1>5. /\ counters.processed \in Nat /\ counters'.processed \in Nat
        /\ at[w] = "running" => counters'.processed = counters.processed + 1
        /\ counters'.processed >= counters.processed
    BY StepCounts DEF Counters
  <1>6. counters'.processed + Left' >= batch.totalRows
    BY <1>2, <1>3, <1>4, <1>5
  <1> QED
    BY <1>1, <1>6 DEF Covered

\* One row more costs its price more.
LEMMA PriceOfOneMore ==
    ASSUME NEW price \in Nat, NEW n \in Nat
    PROVE  /\ price * n \in Nat
           /\ price * (n + 1) = price * n + price
  OBVIOUS

\* The estimate's row price is an amount.
LEMMA RowPriceType ==
    ASSUME TypeOK, Stages, stage \in {"estimated", "created"}
    PROVE  RowPrice \in Nat /\ request.volume \in Nat /\ request.rows \in Nat
  <1>1. request.volume \in Nat /\ request.rows \in Nat
    BY DEF Stages, Request
  <1>2. UnitAt(request.volume) \in Nat
    BY <1>1, UnitType
  <1> QED
    BY <1>1, <1>2, PricingAssumption DEF RowPrice

\* As long as the prices are those of the estimate, a run is charged no more
\* than a row was estimated at.
LEMMA ChargeWithinEstimate ==
    ASSUME TypeOK, Stages, VolumesAhead, stage = "created", AsEstimated, Left >= 1,
           Left \in Nat, NEW w \in Workers, known[w] # Null
    PROVE  ChargeMinor(w) <= RowPrice
  <1> DEFINE volume == usage[request.month]
             tier == getCurrentTier(prices.tiers, volume)
             unit == UnitPrice(prices.override, tier, prices.base)
             backup == BackupPrice(prices.override, tier)
  <1>1. /\ known[w].base = prices.base /\ known[w].override = prices.override
        /\ known[w].month = request.month
    BY DEF VolumesAhead
  <1>2. request.volume \in Nat /\ request.rows \in Nat /\ request.month \in Months
        /\ request.useBackup \in BOOLEAN
    BY DEF Stages, Request
  <1>3. volume \in Nat
    BY <1>2, MonthFacts
  <1>4. volume >= request.volume /\ volume + Left <= request.volume + request.rows
    BY DEF VolumesAhead
  <1>5. volume \in request.volume .. request.volume + request.rows - 1
    <2> HIDE DEF volume
    <2> QED
      BY <1>2, <1>3, <1>4
  <1>6. ~(UnitAt(volume) > UnitAt(request.volume))
    BY <1>5 DEF AsEstimated, DearerAhead
  <1>7. UnitAt(volume) \in Nat /\ UnitAt(request.volume) \in Nat
    BY <1>2, <1>3, UnitType
  <1>8. UnitAt(volume) <= UnitAt(request.volume)
    BY <1>6, <1>7
  <1>9. unit = UnitAt(volume)
    BY DEF UnitAt
  <1>10. ChargeMinor(w) = CostMinor("success",
             VendorMinor("success", request.useBackup /\ HasBackup, unit, backup))
    BY <1>1 DEF ChargeMinor
  <1>11. ~(request.useBackup /\ HasBackup)
    BY DEF AsEstimated
  <1>12. ChargeMinor(w) = unit + PLATFORM_MARGIN_MINOR
    <2> HIDE DEF unit, backup
    <2> QED
      BY <1>10, <1>11 DEF CostMinor, VendorMinor
  <1>13. ChargeMinor(w) = UnitAt(volume) + PLATFORM_MARGIN_MINOR
    BY <1>9, <1>12
  <1> QED
    BY <1>7, <1>8, <1>13, PricingAssumption DEF RowPrice

\* What is left and the month's volume move together.
LEMMA StepVolumes ==
    ASSUME TypeOK, Stages, WorkersHold, VolumesAhead, NEW w \in Workers, RunStep(w)
    PROVE  VolumesAhead'
  <1>1. /\ stage = "created" /\ stage' = "created"
        /\ UNCHANGED <<request, prices, month, spends, edits>>
        /\ request \in Request
    BY StepStages, StepMoves DEF Stages, outsideVars
  <1>2. AsEstimated' <=> AsEstimated
    BY <1>1 DEF AsEstimated, DearerAhead, UnitAt
  <1> SUFFICES ASSUME AsEstimated
               PROVE  /\ usage'[request.month] >= request.volume
                      /\ usage'[request.month] + Left' <= request.volume + request.rows
                      /\ \A v \in Workers : known'[v] # Null =>
                             known'[v] = [base |-> prices.base, override |-> prices.override,
                                          month |-> request.month]
    BY <1>1, <1>2 DEF VolumesAhead
  <1>3. /\ usage[request.month] >= request.volume
        /\ usage[request.month] + Left <= request.volume + request.rows
        /\ \A v \in Workers : known[v] # Null =>
               known[v] = [base |-> prices.base, override |-> prices.override,
                           month |-> request.month]
    BY <1>1 DEF VolumesAhead
  <1>4. /\ Left \in Nat /\ Left' \in Nat
        /\ Left = IF at[w] = "running" THEN Left' + 1 ELSE Left'
    BY StepMoves, LeftMoves
  <1>5. /\ request.volume \in Nat /\ request.rows \in Nat /\ request.month \in Months
        /\ usage[request.month] \in Nat /\ usage \in [Months -> Nat]
    BY <1>1, MonthFacts DEF Request, TypeOK
  <1>6. \/ UNCHANGED usage
        \/ at[w] = "running" /\ usage' = [usage EXCEPT ![request.month] = @ + 1]
    <2>1. ASSUME NEW status \in {"success", "not_found", "failed"}, RunReturns(w, status)
          PROVE  \/ UNCHANGED usage
                 \/ at[w] = "running" /\ usage' = [usage EXCEPT ![request.month] = @ + 1]
      <3>1. known[w].month = request.month
        BY <1>3, <2>1 DEF RunReturns
      <3> QED
        BY <2>1, <3>1 DEF RunReturns
    <2> QED
      BY <2>1 DEF RunStep, RunOutOfCredit, RunThrows, ProgressStored, ProgressFails
  <1>7. usage'[request.month] \in Nat
        /\ \/ usage'[request.month] = usage[request.month]
           \/ at[w] = "running" /\ usage'[request.month] = usage[request.month] + 1
    BY <1>5, <1>6
  <1>8. usage'[request.month] + Left' <= request.volume + request.rows
        /\ usage'[request.month] >= request.volume
    BY <1>3, <1>4, <1>5, <1>7
  <1>9. \A v \in Workers : known'[v] # Null => known'[v] = known[v] /\ known[v] # Null
    BY DEF RunStep, RunReturns, RunOutOfCredit, RunThrows, ProgressStored, ProgressFails, TypeOK
  <1> QED
    BY <1>3, <1>8, <1>9

\* A row is paid from what was set aside for it, or not at all.
LEMMA StepPays ==
    ASSUME TypeOK, Stages, WorkersHold, VolumesAhead, Payable,
           NEW w \in Workers, RunStep(w)
    PROVE  Payable'
  <1>1. /\ stage = "created" /\ stage' = "created"
        /\ UNCHANGED <<request, prices, month, spends, edits>>
        /\ request \in Request
    BY StepStages, StepMoves DEF Stages, outsideVars
  <1>2. (AsEstimated' <=> AsEstimated) /\ RowPrice' = RowPrice
    BY <1>1 DEF AsEstimated, DearerAhead, RowPrice, UnitAt
  <1> SUFFICES ASSUME AsEstimated
               PROVE  balance' >= RowPrice * Left'
    BY <1>1, <1>2 DEF Payable
  <1>3. balance >= RowPrice * Left
    BY <1>1 DEF Payable
  <1>4. /\ Left \in Nat /\ Left' \in Nat
        /\ Left = IF at[w] = "running" THEN Left' + 1 ELSE Left'
    BY StepMoves, LeftMoves
  <1>5. RowPrice \in Nat /\ balance \in Nat
    BY <1>1, RowPriceType DEF TypeOK
  <1>6. \/ /\ at[w] = "running" /\ known[w] # Null
           /\ balance' = balance - ChargeMinor(w)
        \/ balance' = balance
    BY DEF RunStep, RunReturns, RunOutOfCredit, RunThrows, ProgressStored, ProgressFails
  <1>7. CASE at[w] = "running"
    <2>1. Left = Left' + 1 /\ Left >= 1
      <3>1. ASSUME NEW a \in Nat, NEW b \in Nat, a = b + 1 PROVE a >= 1
        BY <3>1
      <3>2. Left = Left' + 1
        BY <1>4, <1>7
      <3> QED
        BY <1>4, <3>1, <3>2
    <2> DEFINE price == RowPrice
               left == Left'
               rest == price * left
    <2>2. price \in Nat /\ left \in Nat
      BY <1>4, <1>5
    <2>3. rest \in Nat /\ price * (left + 1) = rest + price
      <3> HIDE DEF price, left
      <3> QED
        BY <2>2, PriceOfOneMore
    <2>4. balance >= rest + price
      BY <1>3, <2>1, <2>3
    <2>5. ASSUME known[w] # Null, balance' = balance - ChargeMinor(w)
          PROVE  balance' >= rest
      <3>1. ChargeMinor(w) <= price /\ ChargeMinor(w) \in Nat
        BY <1>1, <1>4, <2>1, <2>5, ChargeWithinEstimate, ChargeType
      <3> DEFINE charge == ChargeMinor(w)
      <3>2. charge <= price /\ charge \in Nat /\ balance' = balance - charge
        BY <2>5, <3>1
      <3> HIDE DEF charge, price, rest
      <3> QED
        BY <1>5, <2>2, <2>3, <2>4, <3>2
    <2>6. ASSUME balance' = balance PROVE balance' >= rest
      <3> HIDE DEF price, rest
      <3> QED
        BY <1>5, <2>2, <2>3, <2>4, <2>6
    <2> QED
      BY <1>6, <2>5, <2>6
  <1>8. CASE at[w] # "running"
    BY <1>3, <1>4, <1>6, <1>8
  <1> QED
    BY <1>7, <1>8

LEMMA StepTallies ==
    ASSUME TypeOK, WorkersHold, RowsApart, Tallied, NEW w \in Workers, RunStep(w)
    PROVE  Tallied'
  <1>1. /\ counters.success = Results("success") /\ counters.success \in Nat
        /\ counters.notFound = Results("not_found") /\ counters.notFound \in Nat
        /\ counters.failed >= Results("failed") /\ counters.failed \in Nat
    BY CountersType DEF Tallied
  <1>2. ASSUME NEW status \in {"success", "not_found", "failed"}, RunReturns(w, status)
        PROVE  Tallied'
    <2>1. /\ taken[w] \in Rows /\ records[taken[w]] = Null
          /\ records' = [records EXCEPT ![taken[w]] = status]
      BY <1>2 DEF RunReturns, RowsApart, WorkersHold, TypeOK
    <2>2. ASSUME NEW other \in {"success", "not_found", "failed"}
          PROVE  /\ Results(other) \in Nat
                 /\ Results(other)' = IF other = status THEN Results(other) + 1
                                                        ELSE Results(other)
      BY <2>1, ResultAdded
    <2>3. /\ counters'.success
                 = IF status = "success" THEN counters.success + 1 ELSE counters.success
          /\ counters'.notFound
                 = IF status = "not_found" THEN counters.notFound + 1 ELSE counters.notFound
          /\ counters'.failed
                 = IF status = "failed" THEN counters.failed + 1 ELSE counters.failed
      BY <1>2, CountedType DEF RunReturns
    <2>4. counters'.success = Results("success")'
      BY <1>1, <2>2, <2>3
    <2>5. counters'.notFound = Results("not_found")'
      BY <1>1, <2>2, <2>3
    <2>6. counters'.failed >= Results("failed")'
      BY <1>1, <2>2, <2>3
    <2> QED
      BY <2>4, <2>5, <2>6 DEF Tallied
  <1>3. CASE UNCHANGED records /\ (counters' = FailedRow \/ counters' = counters)
    <2>1. /\ Results("success")' = Results("success")
          /\ Results("not_found")' = Results("not_found")
          /\ Results("failed")' = Results("failed")
      BY <1>3 DEF Results
    <2>2. Results("failed") \in Nat
      <3>1. IsFiniteSet(Rows)
        BY FS_Interval, BatchAssumption DEF Rows
      <3>2. IsFiniteSet({r \in Rows : records[r] = "failed"})
        BY <3>1, FS_Subset
      <3> QED
        BY <3>2, FS_CardinalityType DEF Results
    <2>3. /\ counters'.success = counters.success
          /\ counters'.notFound = counters.notFound
          /\ counters'.failed \in {counters.failed, counters.failed + 1}
      BY <1>3, FailedRowType
    <2> QED
      BY <1>1, <2>1, <2>2, <2>3 DEF Tallied
  <1>4. \/ \E status \in {"success", "not_found", "failed"} : RunReturns(w, status)
        \/ UNCHANGED records /\ (counters' = FailedRow \/ counters' = counters)
    BY DEF RunStep, RunOutOfCredit, RunThrows, ProgressStored, ProgressFails
  <1> QED
    BY <1>2, <1>3, <1>4

\* A run finds the wallet empty only if something moved the prices or spent
\* from it, a later band is dearer, or the backup is used.
LEMMA StepSuffices ==
    ASSUME TypeOK, Stages, WorkersHold, VolumesAhead, Payable, EstimateSuffices,
           NEW w \in Workers, RunStep(w)
    PROVE  EstimateSuffices'
  <1>1. /\ stage = "created" /\ request \in Request
        /\ UNCHANGED <<request, prices, month, spends, edits>>
        /\ spends \in Nat /\ edits \in Nat
    BY StepStages, StepMoves DEF Stages, TypeOK, outsideVars
  <1>2. CASE aborted' = aborted
    BY <1>1, <1>2 DEF EstimateSuffices, DearerAhead, UnitAt
  <1>3. CASE RunOutOfCredit(w)
    <2>0. DearerAhead' <=> DearerAhead
      BY <1>1 DEF DearerAhead, UnitAt
    <2> SUFFICES ASSUME AsEstimated
                 PROVE  FALSE
      BY <1>1, <2>0 DEF EstimateSuffices, AsEstimated
    <2>1. at[w] = "running" /\ known[w] # Null /\ balance < ChargeMinor(w)
      BY <1>3 DEF RunOutOfCredit
    <2>2. balance >= RowPrice * Left
      BY <1>1 DEF Payable
    <2>3. Left \in Nat /\ Left' \in Nat /\ Left = Left' + 1 /\ Left >= 1
      BY <2>1, StepMoves, LeftMoves
    <2>4. ChargeMinor(w) <= RowPrice /\ ChargeMinor(w) \in Nat /\ RowPrice \in Nat
          /\ balance \in Nat
      BY <1>1, <2>1, <2>3, ChargeWithinEstimate, ChargeType, RowPriceType DEF TypeOK
    <2> DEFINE price == RowPrice
               left == Left'
               charge == ChargeMinor(w)
    <2>5. price * left \in Nat /\ price * (left + 1) = price * left + price
      <3>1. price \in Nat /\ left \in Nat
        BY <2>3, <2>4
      <3> HIDE DEF price, left
      <3> QED
        BY <3>1, PriceOfOneMore
    <2>6. balance >= price * (left + 1) /\ balance < charge /\ charge <= price
      BY <2>1, <2>2, <2>3, <2>4
    <2>7. price \in Nat /\ charge \in Nat /\ balance \in Nat
      BY <2>4
    <2> HIDE DEF price, left, charge
    <2> QED
      BY <2>5, <2>6, <2>7
  <1> QED
    BY <1>2, <1>3 DEF RunStep, RunReturns, RunThrows, ProgressStored, ProgressFails

\* A run's first reads move nothing; while the prices are those of the
\* estimate they are what it reads.
LEMMA ReadPreserves ==
    ASSUME Inv, NEW w \in Workers, ReadPrices(w)
    PROVE  Inv'
  <1>1. /\ at[w] = "running"
        /\ known' = [known EXCEPT ![w] =
               [base |-> prices.base, override |-> prices.override, month |-> month]]
        /\ UNCHANGED <<stage, request, batch, queue, at, taken, sent, counters, aborted,
                       finisher, records, balance, usage, prices, month, spends, edits, faults>>
    BY DEF ReadPrices, outsideVars
  <1>2. stage = "created"
    BY <1>1 DEF Inv, Stages
  <1>3. known \in [Workers -> RunPrices \cup {Null}]
    BY DEF Inv, TypeOK
  <1>4. TypeOK'
    <2>1. [base |-> prices.base, override |-> prices.override, month |-> month] \in RunPrices
      BY MonthFacts DEF Inv, RunPrices
    <2>2. known' \in [Workers -> RunPrices \cup {Null}]
      BY <1>1, <1>3, <2>1
    <2> QED
      BY <1>1, <2>2 DEF Inv, TypeOK
  <1>5. Stages' /\ WorkersHold' /\ RowsApart' /\ Drained' /\ CompletedAtEnd'
    BY <1>1, <1>2 DEF Inv, Stages, WorkersHold, RowsApart, Drained, CompletedAtEnd
  <1>6. Left' = Left
    BY <1>1 DEF Left, Running
  <1>7. /\ AsEstimated' <=> AsEstimated
        /\ RowPrice' = RowPrice
    BY <1>1 DEF AsEstimated, DearerAhead, RowPrice, UnitAt
  <1>8. Covered' /\ Payable'
    BY <1>1, <1>6, <1>7 DEF Inv, Covered, Payable
  <1>9. VolumesAhead'
    <2> SUFFICES ASSUME AsEstimated, NEW v \in Workers, known'[v] # Null
                 PROVE  known'[v] = [base |-> prices.base, override |-> prices.override,
                                     month |-> request.month]
      BY <1>1, <1>6, <1>7 DEF Inv, VolumesAhead
    <2>1. CASE v = w
      BY <1>1, <1>3, <2>1 DEF AsEstimated
    <2>2. CASE v # w
      BY <1>1, <1>2, <1>3, <2>2 DEF Inv, VolumesAhead
    <2> QED
      BY <2>1, <2>2
  <1>10. Tallied' /\ EstimateSuffices'
    BY <1>1 DEF Inv, Tallied, Results, EstimateSuffices, DearerAhead, UnitAt
  <1> QED
    BY <1>4, <1>5, <1>8, <1>9, <1>10 DEF Inv

LEMMA StepPreserves ==
    ASSUME Inv, NEW w \in Workers, RunStep(w)
    PROVE  Inv'
  <1>1. TypeOK /\ Stages /\ WorkersHold /\ RowsApart
    BY DEF Inv
  <1>2. stage = "created" /\ finisher = "waiting" /\ Stages' /\ batch'.status = batch.status
        /\ batch \in BatchRow
    BY <1>1, StepStages
  <1>3. TypeOK' /\ WorkersHold'
    BY <1>1, <1>2, StepTypes, StepHolds
  <1>4. RowsApart'
    BY <1>1, StepMoves, StepWrites, RowsStayApart
  <1>5. Drained' /\ Covered' /\ VolumesAhead' /\ Payable'
    BY <1>1, StepDrains, StepCovers, StepVolumes, StepPays DEF Inv
  <1>6. Tallied' /\ EstimateSuffices'
    BY <1>1, StepTallies, StepSuffices DEF Inv
  <1>7. CompletedAtEnd'
    BY <1>2, BatchRowAssumption DEF Inv, CompletedAtEnd
  <1> QED
    BY <1>2, <1>3, <1>4, <1>5, <1>6, <1>7 DEF Inv

-----------------------------------------------------------------------------
(* The other steps.                                                        *)

LEMMA InitInv == Init => Inv
  <1> SUFFICES ASSUME Init PROVE Inv
    OBVIOUS
  <1>1. TypeOK
    <2>1. balance \in Nat
      BY BatchAssumption DEF Init
    <2>2. counters \in Counters
      BY DEF Init, Counters, Zero
    <2>3. queue \in Seq(Rows)
      BY DEF Init
    <2>4. records \in [Rows -> {Null, "success", "not_found", "failed"}]
      BY DEF Init
    <2>5. /\ at \in [Workers -> {"running", "progress", "done"}]
          /\ taken \in [Workers -> Rows \cup {Null}]
          /\ sent \in [Workers -> Counters \cup {Null}]
      BY DEF Init
    <2>6. known \in [Workers -> RunPrices \cup {Null}]
      BY DEF Init
    <2>7. month \in Months /\ usage \in [Months -> Nat]
      <3>1. 1 \in Months
        BY BatchAssumption DEF Months
      <3>2. PICK volume \in Volumes : usage = [m \in Months |-> IF m = 1 THEN volume ELSE 0]
        BY DEF Init
      <3>3. volume \in Nat
        BY BatchAssumption
      <3> QED
        BY <3>1, <3>2, <3>3 DEF Init
    <2> QED
      BY <2>1, <2>2, <2>3, <2>4, <2>5, <2>6, <2>7 DEF Init, TypeOK
  <1>2. /\ Stages /\ WorkersHold /\ RowsApart /\ Drained /\ Covered
        /\ VolumesAhead /\ Payable
    BY BatchRowAssumption DEF Init, Stages, WorkersHold, RowsApart, Drained, Covered,
                              VolumesAhead, Payable
  <1>3. Tallied
    <2>1. ASSUME NEW status \in {"success", "not_found", "failed"}
          PROVE  Results(status) = 0
      <3>1. {r \in Rows : records[r] = status} = {}
        BY BatchRowAssumption DEF Init
      <3> QED
        BY <3>1, FS_EmptySet DEF Results
    <2> QED
      BY <2>1 DEF Init, Tallied, Zero
  <1>4. EstimateSuffices /\ CompletedAtEnd
    BY DEF Init, EstimateSuffices, CompletedAtEnd
  <1> QED
    BY <1>1, <1>2, <1>3, <1>4 DEF Inv

LEMMA EstimatePreserves ==
    ASSUME Inv, NEW n \in RowCounts, NEW useBackup \in BOOLEAN, Estimate(n, useBackup)
    PROVE  Inv'
  <1>1. /\ stage = "new" /\ stage' \in {"estimated", "refused"}
        /\ UNCHANGED <<batch, queue, at, taken, known, sent, counters, aborted, finisher,
                       records, balance, usage, prices, month, spends, edits, faults>>
    BY DEF Estimate, processVars, outsideVars
  <1>2. stage' = "estimated" =>
            /\ request' = [rows |-> n, useBackup |-> useBackup,
                           volume |-> usage[month], month |-> month]
            /\ n \in Rows /\ n \in Nat
            /\ balance >= EstimatedPrice(n) * n
    BY <1>1, BatchAssumption DEF Estimate, Rows
  <1>3. month \in Months /\ month \in Nat /\ usage[month] \in Nat
    BY MonthFacts DEF Inv
  <1>4. stage' = "estimated" => request' \in Request
    BY <1>2, <1>3 DEF Request
  <1>5. TypeOK'
    <2>1. request' \in Request \cup {Null}
      BY <1>1, <1>4 DEF Estimate, Inv, TypeOK
    <2> QED
      BY <1>1, <2>1 DEF Inv, TypeOK
  <1>6. Stages'
    BY <1>1, <1>2, <1>3, <1>4 DEF Inv, Stages
  <1>7. WorkersHold' /\ RowsApart' /\ Drained' /\ Covered' /\ VolumesAhead' /\ CompletedAtEnd'
    BY <1>1 DEF Inv, WorkersHold, RowsApart, Drained, Covered, VolumesAhead, CompletedAtEnd
  <1>8. Payable'
    <2> SUFFICES ASSUME stage' = "estimated"
                 PROVE  /\ balance' >= RowPrice' * request'.rows
                        /\ usage'[request'.month] = request'.volume
      BY <1>1 DEF Payable
    <2>1. request'.rows = n /\ request'.volume = usage[month] /\ request'.month = month
      BY <1>2
    <2>2. RowPrice' = EstimatedPrice(n)
      BY <1>1, <2>1 DEF RowPrice, EstimatedPrice, UnitAt
    <2> QED
      BY <1>1, <1>2, <2>1, <2>2
  <1>9. Tallied'
    BY <1>1 DEF Inv, Tallied, Results
  <1>10. EstimateSuffices'
    BY <1>1 DEF Inv, EstimateSuffices, Stages
  <1> QED
    BY <1>5, <1>6, <1>7, <1>8, <1>9, <1>10 DEF Inv

\* The first rows go to the workers, the rest into the queue: together all of them.
LEMMA CreateSplits ==
    ASSUME Inv, Create
    PROVE  /\ request.rows \in Rows
           /\ Left' = request.rows
           /\ queue' \in Seq(Rows)
           /\ \A i \in DOMAIN queue' : i \in Nat \ {0} /\ queue'[i] = i + CONCURRENCY
           /\ (\E w \in Workers : at'[w] = "done") => queue' = << >>
  <1> DEFINE n == request.rows
             rest == IF n > CONCURRENCY THEN n - CONCURRENCY ELSE 0
  <1>1. n \in Rows /\ n \in Nat /\ CONCURRENCY \in Nat \ {0} /\ MAX_ROWS \in Nat
    BY BatchAssumption DEF Create, Inv, Stages, Rows
  <1>2. queue' = [i \in 1 .. rest |-> i + CONCURRENCY]
    BY DEF Create
  <1>3. rest \in Nat /\ n <= MAX_ROWS
    BY <1>1 DEF Rows
  <1>4. \A i \in 1 .. rest : i \in Nat \ {0} /\ i + CONCURRENCY \in Rows
    BY <1>1, <1>3 DEF Rows
  <1>5. queue' \in Seq(Rows) /\ Len(queue') = rest /\ DOMAIN queue' = 1 .. rest
    BY <1>2, <1>3, <1>4
  <1>6. Running' = 1 .. (IF n > CONCURRENCY THEN CONCURRENCY ELSE n)
    BY <1>1 DEF Create, Running, Workers
  <1>7. Cardinality(Running') = IF n > CONCURRENCY THEN CONCURRENCY ELSE n
    <2>1. PICK k \in Nat : k = IF n > CONCURRENCY THEN CONCURRENCY ELSE n
      BY <1>1
    <2>2. Cardinality(1 .. k) = k
      BY FS_Interval
    <2> QED
      BY <1>6, <2>1, <2>2
  <1>8. Left' = n
    BY <1>1, <1>5, <1>7 DEF Left
  <1>9. ASSUME NEW w \in Workers, at'[w] = "done" PROVE queue' = << >>
    <2>1. ~(w <= n) /\ w <= CONCURRENCY /\ w \in Nat
      BY <1>1, <1>9 DEF Create, Workers
    <2>2. rest = 0
      BY <1>1, <2>1
    <2> QED
      BY <1>5, <2>2
  <1> QED
    BY <1>1, <1>2, <1>4, <1>5, <1>8, <1>9

LEMMA CreatePreserves ==
    ASSUME Inv, Create
    PROVE  Inv'
  <1> DEFINE n == request.rows
  <1>1. /\ stage = "estimated" /\ stage' = "created" /\ finisher' = "waiting"
        /\ request \in Request /\ n \in Rows /\ n \in Nat /\ MAX_ROWS \in Nat
        /\ request.month <= month
        /\ UNCHANGED <<request, known, sent, counters, aborted, records, balance, usage,
                       prices, month, spends, edits, faults>>
    BY BatchAssumption DEF Create, Inv, Stages, Rows, outsideVars
  <1>2. /\ counters = Zero /\ ~aborted /\ \A r \in Rows : records[r] = Null
        /\ \A w \in Workers : known[w] = Null
    BY <1>1 DEF Inv, Stages
  <1>3. /\ Left' = n
        /\ queue' \in Seq(Rows)
        /\ \A i \in DOMAIN queue' : i \in Nat \ {0} /\ queue'[i] = i + CONCURRENCY
        /\ (\E w \in Workers : at'[w] = "done") => queue' = << >>
    BY CreateSplits
  <1>4. /\ at' = [w \in Workers |-> IF w <= n THEN "running" ELSE "done"]
        /\ taken' = [w \in Workers |-> IF w <= n THEN w ELSE Null]
        /\ CONCURRENCY \in Nat
        /\ \A w \in Workers : w \in Nat /\ w <= CONCURRENCY /\ (w <= n => w \in Rows)
    BY <1>1, BatchAssumption DEF Create, Workers, Rows
  <1>5. batch' \in BatchRow /\ batch'.status = "processing" /\ batch'.totalRows = n
    <2>1. batch' = [status |-> "processing", totalRows |-> n, counters |-> Zero,
                    outOfCredit |-> FALSE]
      BY DEF Create
    <2>2. Zero \in Counters
      BY DEF Zero, Counters
    <2> QED
      BY <1>1, <2>1, <2>2 DEF BatchRow
  <1>6. TypeOK'
    <2>1. at' \in [Workers -> {"running", "progress", "done"}]
          /\ taken' \in [Workers -> Rows \cup {Null}]
      BY <1>4
    <2> QED
      BY <1>1, <1>3, <1>5, <2>1 DEF Inv, TypeOK
  <1>7. Stages'
    BY <1>1, <1>5, BatchRowAssumption DEF Stages
  <1>8. WorkersHold'
    BY <1>4, BatchRowAssumption DEF WorkersHold
  <1>9. RowsApart'
    <2>1. \A i, j \in DOMAIN queue' : queue'[i] = queue'[j] => i = j
      BY <1>3, <1>4
    <2>2. \A i \in DOMAIN queue' : queue'[i] \in Rows
      BY <1>3
    <2>3. ASSUME NEW w \in Workers, at'[w] = "running"
          PROVE  /\ taken'[w] = w /\ w \in Rows /\ w # Null
                 /\ \A i \in DOMAIN queue' : queue'[i] # w
                 /\ \A v \in Workers \ {w} : taken'[v] # w
      <3>1. w <= n /\ taken'[w] = w /\ w \in Rows
        BY <1>4, <2>3
      <3>2. w # Null
        BY <3>1, BatchRowAssumption
      <3>3. ASSUME NEW i \in DOMAIN queue' PROVE queue'[i] # w
        <4>1. i \in Nat \ {0} /\ queue'[i] = i + CONCURRENCY
          BY <1>3
        <4>2. w \in Nat /\ w <= CONCURRENCY /\ CONCURRENCY \in Nat
          BY <1>4
        <4> QED
          BY <4>1, <4>2
      <3>4. \A v \in Workers \ {w} : taken'[v] # w
        BY <1>4, <3>2
      <3> QED
        BY <3>1, <3>2, <3>3, <3>4
    <2> QED
      BY <1>1, <1>2, <1>3, <2>1, <2>2, <2>3 DEF RowsApart
  <1>10. Drained'
    BY <1>3 DEF Drained
  <1>11. Covered'
    BY <1>1, <1>2, <1>3, <1>5 DEF Covered, Zero
  <1>12. Payable' /\ VolumesAhead'
    <2>1. (AsEstimated' <=> AsEstimated) /\ RowPrice' = RowPrice
      BY <1>1 DEF AsEstimated, DearerAhead, RowPrice, UnitAt
    <2>2. AsEstimated => balance >= RowPrice * n /\ usage[request.month] = request.volume
      BY <1>1 DEF Inv, Payable
    <2>3. Payable'
      BY <1>1, <1>3, <2>1, <2>2 DEF Payable
    <2>4. request.volume \in Nat
      BY <1>1 DEF Request
    <2>5. AsEstimated => /\ usage[request.month] >= request.volume
                         /\ usage[request.month] + n <= request.volume + n
      BY <1>1, <2>2, <2>4
    <2>6. VolumesAhead'
      BY <1>1, <1>2, <1>3, <2>1, <2>5 DEF VolumesAhead
    <2> QED
      BY <2>3, <2>6
  <1>13. Tallied' /\ EstimateSuffices'
    BY <1>1, <1>2 DEF Inv, Tallied, Results, EstimateSuffices
  <1>14. CompletedAtEnd'
    BY <1>5 DEF CompletedAtEnd
  <1> QED
    BY <1>6, <1>7, <1>8, <1>9, <1>10, <1>11, <1>12, <1>13, <1>14 DEF Inv

\* The end of processBatch touches the batch row only.
LEMMA FinisherPreserves ==
    ASSUME Inv, FinisherStep
    PROVE  Inv'
  <1>1. /\ finisher \in {"waiting", "rescue"} /\ finisher' \in {"rescue", "ended", "lost"}
        /\ finisher = "rescue" => finisher' \in {"ended", "lost"}
        /\ UNCHANGED <<stage, request, queue, at, taken, known, sent, counters, aborted,
                       records, balance, usage, prices, month, spends, edits>>
    BY DEF outsideVars, FinisherStep, FinalUpdate, FinalUpdateFails, Rescue
  <1>2. /\ stage = "created" /\ batch # Null /\ batch \in BatchRow
        /\ \A w \in Workers : at[w] = "done"
        /\ batch.totalRows = request.rows
    BY <1>1 DEF FinisherStep, FinalUpdate, FinalUpdateFails, Rescue, AllDone, Inv, Stages, TypeOK
  <1>3. faults' \in Nat
    <2>1. faults' = faults \/ faults' = faults + 1
      BY DEF FinisherStep, FinalUpdate, FinalUpdateFails, Rescue, Fault
    <2> QED
      BY <2>1 DEF Inv, TypeOK
  <1>4. /\ batch' \in BatchRow /\ batch'.totalRows = batch.totalRows
        /\ batch'.status = "completed" =>
               \/ FinalUpdate /\ ~aborted /\ batch'.counters = counters
               \/ batch.status = "completed"
    <2>1. CASE FinalUpdate
      BY <1>2, <2>1 DEF FinalUpdate, BatchRow, Inv, TypeOK
    <2>2. CASE Rescue \/ FinalUpdateFails
      BY <1>1, <1>2, <2>2 DEF Rescue, FinalUpdateFails, BatchRow
    <2> QED
      BY <2>1, <2>2 DEF FinisherStep
  <1>5. TypeOK'
    BY <1>1, <1>3, <1>4 DEF Inv, TypeOK
  <1>6. Stages'
    BY <1>1, <1>2, <1>4, BatchRowAssumption DEF Inv, Stages
  <1>7. WorkersHold' /\ RowsApart' /\ EstimateSuffices'
    BY <1>1 DEF Inv, WorkersHold, RowsApart, EstimateSuffices, DearerAhead, UnitAt
  <1>8. Drained'
    BY <1>1 DEF Inv, Drained
  <1>9. Left' = Left
    BY <1>1 DEF Left, Running
  <1>10. Covered' /\ VolumesAhead' /\ Payable'
    BY <1>1, <1>4, <1>9 DEF Inv, Covered, VolumesAhead, Payable, AsEstimated, DearerAhead,
                            RowPrice, UnitAt
  <1>11. Tallied'
    BY <1>1 DEF Inv, Tallied, Results
  <1>12. CompletedAtEnd'
    <2> SUFFICES ASSUME batch'.status = "completed"
                 PROVE  /\ finisher' = "ended" /\ queue' = << >>
                        /\ batch'.counters = counters'
                        /\ counters'.processed >= batch'.totalRows
      BY DEF CompletedAtEnd
    <2>1. FinalUpdate /\ ~aborted /\ batch'.counters = counters
      BY <1>1, <1>2, <1>4 DEF Inv, CompletedAtEnd
    <2>2. finisher = "waiting" /\ finisher' = "ended"
      BY <2>1 DEF FinalUpdate
    <2>3. queue = << >>
      <3>1. 1 \in Workers
        BY BatchAssumption DEF Workers
      <3> QED
        BY <1>2, <2>1, <2>2, <3>1 DEF Inv, Drained
    <2>4. Left = 0
      <3>1. Running = {}
        BY <1>2 DEF Running
      <3> QED
        BY <2>3, <3>1, FS_EmptySet DEF Left
    <2>5. counters.processed >= batch.totalRows
      <3>1. counters.processed + 0 >= batch.totalRows
        BY <1>2, <2>2, <2>4 DEF Inv, Covered
      <3>2. counters.processed \in Nat
        BY CountersType DEF Inv
      <3> QED
        BY <3>1, <3>2
    <2> QED
      BY <1>1, <1>4, <2>1, <2>2, <2>3, <2>5
  <1> QED
    BY <1>5, <1>6, <1>7, <1>8, <1>10, <1>11, <1>12 DEF Inv

LEMMA CrashPreserves ==
    ASSUME Inv, Crash
    PROVE  Inv'
  <1>1. /\ finisher \in {"waiting", "rescue"} /\ finisher' = "lost" /\ queue' = << >>
        /\ at' = [w \in Workers |-> "done"]
        /\ taken' = [w \in Workers |-> Null] /\ sent' = [w \in Workers |-> Null]
        /\ known' = [w \in Workers |-> Null]
        /\ UNCHANGED <<stage, request, batch, counters, aborted, records, balance, usage,
                       prices, month, spends, edits>>
        /\ faults' = faults + 1
    BY DEF Crash, Fault, outsideVars
  <1>2. stage = "created"
    BY <1>1 DEF Inv, Stages
  <1>3. TypeOK'
    <2>1. /\ queue' \in Seq(Rows)
          /\ at' \in [Workers -> {"running", "progress", "done"}]
          /\ taken' \in [Workers -> Rows \cup {Null}]
          /\ known' \in [Workers -> RunPrices \cup {Null}]
          /\ sent' \in [Workers -> Counters \cup {Null}]
          /\ faults' \in Nat
      BY <1>1 DEF Inv, TypeOK
    <2> QED
      BY <1>1, <2>1 DEF Inv, TypeOK
  <1>4. Stages' /\ WorkersHold' /\ RowsApart' /\ Drained' /\ Covered'
    BY <1>1, <1>2 DEF Inv, Stages, WorkersHold, RowsApart, Drained, Covered
  <1>5. Payable' /\ VolumesAhead'
    <2>1. Left' = 0
      <3>1. Running' = {}
        BY <1>1 DEF Running
      <3> QED
        BY <1>1, <3>1, FS_EmptySet DEF Left
    <2>2. (AsEstimated' <=> AsEstimated) /\ RowPrice' = RowPrice
      BY <1>1 DEF AsEstimated, DearerAhead, RowPrice, UnitAt
    <2>3. RowPrice \in Nat /\ request.volume \in Nat /\ request.rows \in Nat
      BY <1>2, RowPriceType DEF Inv
    <2>4. balance' \in Nat /\ RowPrice' * Left' = 0
      BY <1>3, <2>1, <2>2, <2>3 DEF TypeOK
    <2>5. Payable'
      BY <1>1, <1>2, <2>4 DEF Payable
    <2>6. request.month \in Months /\ usage[request.month] \in Nat
      BY <1>2, MonthFacts DEF Inv, Stages, Request
    <2>7. Left \in Nat
      BY RunningFacts, QueueFacts DEF Inv, Left
    <2>8. AsEstimated => /\ usage[request.month] >= request.volume
                         /\ usage[request.month] + Left <= request.volume + request.rows
      BY <1>2 DEF Inv, VolumesAhead
    <2>9. AsEstimated => usage[request.month] + 0 <= request.volume + request.rows
      BY <2>3, <2>6, <2>7, <2>8
    <2>10. VolumesAhead'
      BY <1>1, <2>1, <2>2, <2>8, <2>9 DEF VolumesAhead
    <2> QED
      BY <2>5, <2>10
  <1>6. Tallied' /\ EstimateSuffices'
    BY <1>1 DEF Inv, Tallied, Results, EstimateSuffices, DearerAhead, UnitAt
  <1>7. CompletedAtEnd'
    BY <1>1 DEF Inv, CompletedAtEnd
  <1> QED
    BY <1>3, <1>4, <1>5, <1>6, <1>7 DEF Inv

\* What happens besides leaves the batch alone; it may end that the prices
\* are those of the estimate.
LEMMA OutsidePreserves ==
    ASSUME Inv, stage # "new",
           UNCHANGED <<stage, request, batch, queue, at, taken, known, sent, counters,
                       aborted, finisher, records, faults>>,
           TypeOK', month' >= month, ~AsEstimated',
           spends' > 0 \/ edits' > 0 \/ month' # request.month
    PROVE  Inv'
  <1>1. Stages'
    <2>1. ASSUME stage \in {"estimated", "created"}
          PROVE  request.month <= month'
      <3>1. request.month \in Nat /\ month \in Nat /\ month' \in Nat /\ request.month <= month
        BY <2>1, MonthFacts DEF Inv, Stages, Request, Months, TypeOK
      <3> QED
        BY <3>1
    <2> QED
      BY <2>1 DEF Inv, Stages
  <1>2. WorkersHold' /\ RowsApart' /\ Drained' /\ CompletedAtEnd'
    BY DEF Inv, WorkersHold, RowsApart, Drained, CompletedAtEnd
  <1>3. Covered'
    <2>1. Left' = Left
      BY DEF Left, Running
    <2> QED
      BY <2>1 DEF Inv, Covered
  <1>4. VolumesAhead' /\ Payable' /\ EstimateSuffices'
    BY DEF VolumesAhead, Payable, EstimateSuffices
  <1>5. Tallied'
    BY DEF Inv, Tallied, Results
  <1> QED
    BY <1>1, <1>2, <1>3, <1>4, <1>5 DEF Inv

LEMMA SpendPreserves ==
    ASSUME Inv, NEW amount \in Spends, NEW sameCheck \in BOOLEAN,
           OthersSpend(amount, sameCheck)
    PROVE  Inv'
  <1>1. /\ amount <= balance /\ balance' = balance - amount /\ spends' = spends + 1
        /\ usage' = usage \/ usage' = [usage EXCEPT ![month] = @ + 1]
        /\ stage # "new"
        /\ UNCHANGED <<stage, request, batch, queue, at, taken, known, sent, counters,
                       aborted, finisher, records, prices, month, edits, faults>>
    BY DEF OthersSpend, processVars
  <1>2. balance' \in Nat /\ spends' \in Nat /\ spends' > 0
    BY <1>1, BatchAssumption DEF Inv, TypeOK
  <1>3. usage' \in [Months -> Nat] /\ month \in Nat
    BY <1>1, MonthFacts DEF Inv, TypeOK
  <1>4. TypeOK'
    BY <1>1, <1>2, <1>3 DEF Inv, TypeOK
  <1>5. ~AsEstimated' /\ month' >= month
    BY <1>1, <1>2, <1>3 DEF AsEstimated
  <1> QED
    BY <1>1, <1>2, <1>4, <1>5, OutsidePreserves

LEMMA EditPreserves ==
    ASSUME Inv, NEW table \in PriceTables, EditPrices(table)
    PROVE  Inv'
  <1>1. /\ prices' = table /\ edits' = edits + 1 /\ stage # "new"
        /\ UNCHANGED <<stage, request, batch, queue, at, taken, known, sent, counters,
                       aborted, finisher, records, balance, usage, month, spends, faults>>
    BY DEF EditPrices, processVars
  <1>2. edits' \in Nat /\ edits' > 0
    BY <1>1 DEF Inv, TypeOK
  <1>3. TypeOK'
    BY <1>1, <1>2 DEF Inv, TypeOK
  <1>4. ~AsEstimated' /\ month' >= month
    BY <1>1, <1>2, MonthFacts DEF AsEstimated, Inv
  <1> QED
    BY <1>1, <1>2, <1>3, <1>4, OutsidePreserves

LEMMA MonthPreserves ==
    ASSUME Inv, NextMonth
    PROVE  Inv'
  <1>1. /\ month < LastMonth /\ month' = month + 1 /\ stage # "new"
        /\ UNCHANGED <<stage, request, batch, queue, at, taken, known, sent, counters,
                       aborted, finisher, records, balance, usage, prices, spends, edits,
                       faults>>
    BY DEF NextMonth, processVars
  <1>2. month \in Nat /\ month >= 1 /\ LastMonth \in Nat
    BY BatchAssumption DEF Inv, TypeOK, Months
  <1>3. month' \in Months /\ month' >= month
    BY <1>1, <1>2 DEF Months
  <1>4. TypeOK'
    BY <1>1, <1>3 DEF Inv, TypeOK
  <1>5. CASE stage \in {"estimated", "created"}
    <2>1. month' # request.month
      BY <1>1, <1>2, <1>5 DEF Inv, Stages, Request, Months
    <2>2. ~AsEstimated'
      BY <1>1, <2>1 DEF AsEstimated
    <2> QED
      BY <1>1, <1>3, <1>4, <2>1, <2>2, OutsidePreserves
  <1>6. CASE stage = "refused"
    BY <1>1, <1>4, <1>6 DEF Inv, Stages, WorkersHold, RowsApart, Drained, Covered,
       VolumesAhead, Payable, Tallied, Results, EstimateSuffices, CompletedAtEnd
  <1> QED
    BY <1>1, <1>5, <1>6 DEF Inv, TypeOK

LEMMA NextPreserves == Inv /\ [Next]_vars => Inv'
  <1> SUFFICES ASSUME Inv, [Next]_vars PROVE Inv'
    OBVIOUS
  <1>1. CASE UNCHANGED vars
    BY <1>1 DEF vars, processVars, Inv, TypeOK, Stages, WorkersHold, RowsApart, Drained,
                Covered, Left, Running, VolumesAhead, Payable, AsEstimated, DearerAhead,
                RowPrice, UnitAt, Tallied, Results, EstimateSuffices, CompletedAtEnd,
                outsideVars
  <1>2. CASE Next
    BY <1>2, EstimatePreserves, CreatePreserves, WorkerSteps, ReadPreserves, StepPreserves,
       FinisherPreserves, CrashPreserves, SpendPreserves, EditPreserves, MonthPreserves
       DEF Next
  <1> QED
    BY <1>1, <1>2

LEMMA BatchInvariant == Spec => []Inv
  BY InitInv, NextPreserves, PTL DEF Spec

-----------------------------------------------------------------------------
(* Theorems.                                                               *)

\* BatchesService: requests, batch rows, counters and the wallet keep their
\* types; the counters never lose a field and the balance is never negative.
THEOREM BatchTypeCorrect == Spec => []TypeOK
  <1>1. Inv => TypeOK
    BY DEF Inv
  <1> QED
    BY <1>1, BatchInvariant, PTL

\* BatchesService.processBatch: whatever the batch size, the number of workers
\* and the order in which runs and updates end, a row that is being run has no
\* result and is neither with another worker nor still in the queue.
THEOREM RowsRunOnce == Spec => []EachRowOnce
  <1>1. Inv => EachRowOnce
    BY DEF Inv, RowsApart, EachRowOnce
  <1> QED
    BY <1>1, BatchInvariant, PTL

\* BatchesService.processBatch: a batch marked completed has been through all
\* of its rows, and its counters are those of the stored results, whatever
\* progress updates were lost or stored late.
THEOREM CompletedIsComplete == Spec => []CompletedMatchesResults
  <1>1. Inv => CompletedMatchesResults
    BY DEF Inv, CompletedAtEnd, Tallied, CompletedMatchesResults
  <1> QED
    BY <1>1, BatchInvariant, PTL

\* BatchesService.createBatch and VerificationsService.run: although each row
\* is priced at the volume locked at its commit and the estimate took the band
\* of the first row, a run finds the wallet empty only if the backup is used, a
\* band ahead is dearer, or other checks, an edit of the prices or a new month
\* came between; for every table of bands, gaps and overrides included.
THEOREM AdmittedBatchIsPaid == Spec => []EstimateSuffices
  <1>1. Inv => EstimateSuffices
    BY DEF Inv
  <1> QED
    BY <1>1, BatchInvariant, PTL

\* The loop condition of processBatch's workers: once a run found the wallet
\* empty, no worker takes a row any more.
THEOREM AbortedTakesNoRow == Spec => AbortStopsTheQueue
  <1>1. Inv /\ [Next]_vars =>
            [aborted' => \A w \in Workers : taken'[w] \in {taken[w], Null}]_vars
    <2> SUFFICES ASSUME Inv, Next, aborted', NEW w \in Workers
                 PROVE  taken'[w] \in {taken[w], Null}
      OBVIOUS
    <2>1. taken \in [Workers -> Rows \cup {Null}]
      BY DEF Inv, TypeOK
    <2>2. ASSUME NEW v \in Workers, RunStep(v)
          PROVE  taken'[w] \in {taken[w], Null}
      <3>1. Stops(v, "done") \/ Stops(v, "progress")
        BY <2>2, StepMoves DEF Inv
      <3> QED
        BY <2>1, <3>1 DEF Stops, Moves
    <2>3. ~Create
      BY DEF Create, Inv, Stages
    <2> QED
      BY <2>1, <2>2, <2>3, WorkerSteps
         DEF Next, ReadPrices, Estimate, FinisherStep, FinalUpdate, FinalUpdateFails,
             Rescue, Crash, OthersSpend, EditPrices, NextMonth, processVars
  <1> QED
    BY <1>1, BatchInvariant, PTL DEF Spec, AbortStopsTheQueue
================================================================================
