-------------------------------- MODULE Reports --------------------------------
(***************************************************************************)
(* What a user reads back of the verification records: the list of         *)
(* VerificationsService.history, the totals of AdminService.analytics and  *)
(* the files of ExportService.  Each of the three translates the same      *)
(* filter into a query of its own; the list and the files are of the       *)
(* user's organization, the totals of a platform administrator of all.     *)
(*                                                                         *)
(* Records are only added, so whatever is read is read of a prefix.  Times *)
(* are ticks, of which a day has TicksPerDay; text is told apart by the    *)
(* search words it contains, organizations by being the user's.            *)
(***************************************************************************)
EXTENDS Integers, Sequences, FiniteSets, SequencesExt

CONSTANTS
    Null,
    Types,              \* VERIFICATION_TYPES
    Words,              \* texts a user may search for
    Containing,         \* <<text, word>>: the type or status contains the word
    Contents,           \* bound: records that may be written
    RecordsAtFirst,     \* bound: the records there are when a page is opened
    MaxRecords,         \* bound on their number
    TicksPerDay,
    MaxPage,            \* 200: rows of the list at most
    MAX_ANALYTICS_ROWS, \* 10,000
    PdfRows             \* 500: rows a PDF shows at most

Statuses == {"pending", "success", "not_found", "failed"}
\* words are those that the id or the source of the record contains.
Record == [own : BOOLEAN, type : Types, status : Statuses, costMinor : Nat, latencyMs : Nat \cup {Null},
           createdAt : Nat, words : SUBSET Words]

ASSUME ReportsAssumption ==
    /\ Contents \subseteq Record /\ RecordsAtFirst \in Seq(Record) /\ "" \notin Types
    /\ {MaxRecords, MaxPage, MAX_ANALYTICS_ROWS, PdfRows} \subseteq Nat
    /\ TicksPerDay \in Nat \ {0}

VARIABLES
    records,            \* verification_requests, oldest first
    isPlatformAdmin     \* of the user, as the token says

\* A filter field that is not set is "" or Null; dates are days.
Filter == [type : Types \cup {""}, status : Statuses \cup {""}, from : Nat \cup {Null},
           to : Nat \cup {Null}, search : Words \cup {""}, limit : Nat, offset : Nat]

\* A check is run elsewhere and writes its record.
RecordWritten ==
    /\ Len(records) < MaxRecords
    /\ \E r \in Contents :
           /\ records # << >> => Last(records).createdAt <= r.createdAt
           /\ records' = Append(records, r)
    /\ UNCHANGED isPlatformAdmin

-----------------------------------------------------------------------------
(* The three queries.  A date of a filter is the midnight it begins with.  *)

Midnight(day) == day * TicksPerDay

\* The search looks in the id, the source, the types and the statuses.
Found(r, word) ==
    word # "" => \/ word \in r.words
                 \/ <<r.type, word>> \in Containing
                 \/ <<r.status, word>> \in Containing

historyWhere(recs, f) ==
    {i \in DOMAIN recs : LET r == recs[i] IN
        /\ r.own
        /\ f.type \in {"", r.type} /\ f.status \in {"", r.status}
        /\ f.from # Null => r.createdAt >= Midnight(f.from)
        /\ f.to # Null => r.createdAt <= Midnight(f.to)
        /\ Found(r, f.search)}

\* Mutant of exportWhere: the last day is included.
exportWhereWholeDays(recs, f) ==
    {i \in DOMAIN recs : LET r == recs[i] IN
        /\ r.own
        /\ f.type \in {"", r.type} /\ f.status \in {"", r.status}
        /\ f.from # Null => r.createdAt >= Midnight(f.from)
        /\ f.to # Null => r.createdAt < Midnight(f.to + 1)
        /\ Found(r, f.search)}

\* A type that is not one is left out of the query.
exportWhere(recs, f) ==
    {i \in DOMAIN recs : LET r == recs[i] IN
        /\ r.own
        /\ f.type \in Types => r.type = f.type
        /\ f.status # "" => r.status = f.status
        /\ f.from # Null => r.createdAt >= Midnight(f.from)
        /\ f.to # Null => r.createdAt <= Midnight(f.to)
        /\ Found(r, f.search)}

\* The query names an organization only if assertPlatform gives one, which it
\* does not for an administrator of the platform.  A range that ends before it
\* begins is refused, see analytics.
analyticsWhere(recs, f) ==
    {i \in DOMAIN recs : LET r == recs[i] IN
        /\ ~isPlatformAdmin => r.own
        /\ f.type \in Types => r.type = f.type
        /\ f.status \in Statuses => r.status = f.status
        /\ f.from # Null => Midnight(f.from) <= r.createdAt
        /\ f.to # Null => r.createdAt <= Midnight(f.to)
        /\ Found(r, f.search)}

\* ORDER BY created_at DESC: the orders in which the database may give the rows
\* found.  Those of one instant come as it pleases, at every query anew.
NewestFirst(recs, indexes) ==
    {rows \in SetToSeqs(indexes) :
        \A k, l \in DOMAIN rows : k < l => recs[rows[k]].createdAt >= recs[rows[l]].createdAt}

Prefix(s, n) == SubSeq(s, 1, Min({n, Len(s)}))

-----------------------------------------------------------------------------
(* The list.                                                               *)

PageOf(rows, f) ==
    SubSeq(rows, f.offset + 1, Min({f.offset + Min({f.limit, MaxPage}), Len(rows)}))

\* What may be answered as the rows of a page; their number is counted by a
\* statement of its own, see HistoryTotal.
historyItems(recs, f) == {PageOf(rows, f) : rows \in NewestFirst(recs, historyWhere(recs, f))}

HistoryTotal(recs, f) == Cardinality(historyWhere(recs, f))

-----------------------------------------------------------------------------
(* The totals.                                                             *)

\* Math.round of an average; nothing to average gives Null.
Average(total, count) ==
    IF count = 0 THEN Null ELSE (2 * total + count) \div (2 * count)

CostOf(recs, indexes) == MapThenSumSet(LAMBDA i : recs[i].costMinor, indexes)

LatencyOf(recs, indexes) == MapThenSumSet(LAMBDA i : recs[i].latencyMs, indexes)

AverageLatency(recs, indexes) ==
    LET known == {i \in indexes : recs[i].latencyMs # Null}
    IN  Average(LatencyOf(recs, known), Cardinality(known))

CountsBy(recs, indexes, Key(_), Keys) ==
    [k \in {Key(recs[i]) : i \in indexes} \cap Keys |->
        Cardinality({i \in indexes : Key(recs[i]) = k})]

\* The totals of the rows that were read.
Report(recs, indexes) ==
    [verifications |-> Cardinality(indexes),
     costMinor     |-> CostOf(recs, indexes),
     avgLatencyMs  |-> AverageLatency(recs, indexes),
     statusCounts  |-> CountsBy(recs, indexes, LAMBDA r : r.status, Statuses),
     productCounts |-> CountsBy(recs, indexes, LAMBDA r : r.type, Types),
     costByProduct |-> [t \in {recs[i].type : i \in indexes} |->
                           CostOf(recs, {i \in indexes : recs[i].type = t})]]

BadRange(f) == f.from # Null /\ f.to # Null /\ f.from > f.to

\* Mutant of analytics: only what exceeds the limit is called truncated.
analyticsLenient(recs, f) ==
    {[report    |-> Report(recs, ToSet(Prefix(rows, MAX_ANALYTICS_ROWS))),
      truncated |-> Len(Prefix(rows, MAX_ANALYTICS_ROWS)) > MAX_ANALYTICS_ROWS] :
        rows \in {s \in NewestFirst(recs, analyticsWhere(recs, f)) : ~BadRange(f)}}

\* What may be answered: the newest rows, cut off silently but flagged.  Nothing
\* is, if the request is refused.
analytics(recs, f) ==
    {[report    |-> Report(recs, ToSet(Prefix(rows, MAX_ANALYTICS_ROWS))),
      truncated |-> Len(Prefix(rows, MAX_ANALYTICS_ROWS)) = MAX_ANALYTICS_ROWS] :
        rows \in {s \in NewestFirst(recs, analyticsWhere(recs, f)) : ~BadRange(f)}}

TotalCost(recs, rows) == FoldLeft(LAMBDA sum, i : sum + recs[i].costMinor, 0, rows)

\* A latency that is not known adds nothing.
KnownLatency(r) == IF r.latencyMs = Null THEN 0 ELSE r.latencyMs
TotalLatency(recs, rows) == FoldLeft(LAMBDA sum, i : sum + KnownLatency(recs[i]), 0, rows)

\* The console's own totals of the rows it has (the same again in
\* buildOverviewAnalytics, which also charts the cost of eight).
summarizeHistoryMetrics(recs, rows) ==
    LET known == {k \in DOMAIN rows : recs[rows[k]].latencyMs # Null}
    IN  [costMinor    |-> TotalCost(recs, rows),
         avgLatencyMs |-> Average(TotalLatency(recs, rows), Cardinality(known)),
         statusCounts |-> [s \in {recs[rows[k]].status : k \in DOMAIN rows} |->
                              Cardinality({k \in DOMAIN rows : recs[rows[k]].status = s})]]

buildOverviewAnalytics(recs, rows) ==
    [totals |-> summarizeHistoryMetrics(recs, rows),
     points |-> [k \in 1 .. Min({8, Len(rows)}) |->
                    recs[rows[Min({8, Len(rows)}) + 1 - k]].costMinor]]

-----------------------------------------------------------------------------
(* The files.                                                              *)

\* A workbook that cannot be written, and a page that cannot be drawn, become
\* CSV under the other name's request (falls), with every row.  An empty CSV
\* has no header either.
generateExport(rows, format, falls) ==
    IF format = "pdf" /\ ~falls
    THEN [extension |-> "pdf", rows |-> Prefix(rows, PdfRows), announced |-> Len(rows)]
    ELSE [extension |-> IF falls THEN "csv" ELSE format, rows |-> rows, announced |-> Len(rows)]

exportVerifications(recs, f, format, falls) ==
    {generateExport(rows, format, falls) : rows \in NewestFirst(recs, exportWhere(recs, f))}

=============================================================================
