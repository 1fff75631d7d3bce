------------------------------ MODULE HistoryPage ------------------------------
(***************************************************************************)
(* The console's history (app/console/history/page.tsx) over Reports.      *)
(*                                                                         *)
(* Every change of the filters asks for the list again and aborts the      *)
(* request before it; a changed search is typed into the filters at once   *)
(* and asked for when it has been left alone for 300 ms.  The totals are   *)
(* asked for by a request of their own, which is cancelled in the same     *)
(* way.  A request that nobody waits for any more is forgotten.            *)
(***************************************************************************)
EXTENDS Reports

CONSTANTS
    FilterChanges,  \* bound: <<field, value>> the user sets in the filter bar
    LimitOptions    \* rows per page: 10, 20, 50, 100

\* What the inputs of the bar and of the pager offer; the server gives as many rows
\* as the page asks for.
ASSUME HistoryAssumption ==
    /\ FilterChanges \subseteq ({"type"} \X (Types \cup {""})) \cup ({"status"} \X (Statuses \cup {""}))
                                \cup ({"from", "to"} \X (Nat \cup {Null}))
                                \cup ({"search"} \X (Words \cup {""}))
    /\ LimitOptions \subseteq 1 .. MaxPage /\ LimitOptions # {}

VARIABLES
    filters,    \* the filter bar and the pager
    debounced,  \* the filters that are asked for
    list,       \* the table: rows and total as they were answered, and the form
    lists,      \* requests for the list that are waited for
    summary,    \* the report shown on the cards, and the filter it is about
    summaries   \* requests for a report that are waited for

listVars == <<list, lists>>
summaryVars == <<summary, summaries>>
historyPageVars == <<filters, debounced, listVars, summaryVars>>
historyVars == <<records, isPlatformAdmin, historyPageVars>>

DEFAULT_FILTERS ==
    [type |-> "", status |-> "", from |-> Null, to |-> Null, search |-> "",
     limit |-> Min(LimitOptions), offset |-> 0]

\* A request for the list, with what has been read for it so far.
ListRequest(f) == [asks |-> f, rows |-> Null, total |-> Null]

\* The report does not depend on the page.
ReportOf(f) == [f EXCEPT !.limit = 0, !.offset = 0]

HistoryInit ==
    /\ isPlatformAdmin \in BOOLEAN
    /\ filters = DEFAULT_FILTERS
    /\ debounced = DEFAULT_FILTERS
    /\ list = [rows |-> << >>, total |-> 0, loading |-> TRUE, error |-> FALSE]
    /\ lists = {ListRequest(DEFAULT_FILTERS)}
    /\ summary = Null
    /\ summaries = {ReportOf(DEFAULT_FILTERS)}

-----------------------------------------------------------------------------
(* Asking.                                                                 *)

\* Mutant of Load: the request before is not aborted.
LoadToo(f) ==
    /\ lists' = lists \cup {ListRequest(f)}
    /\ list' = [list EXCEPT !.loading = TRUE, !.error = FALSE]

\* Aborting throws in the request before, which then changes nothing.
Load(f) ==
    /\ lists' = {ListRequest(f)}
    /\ list' = [list EXCEPT !.loading = TRUE, !.error = FALSE]

\* The effect for the cards runs only when their part of the filters changes;
\* the report of before stays until the answer.
Summarize(f) ==
    /\ IF ReportOf(f) = ReportOf(debounced) THEN UNCHANGED summaries
       ELSE summaries' = {ReportOf(f)}
    /\ UNCHANGED summary

\* New filters are asked for at once, with the search as it was debounced
\* last: a keystroke asks again for what is there.
SetFilters(f) ==
    /\ f # filters
    /\ filters' = f
    /\ debounced' = [f EXCEPT !.search = debounced.search]
    /\ Load(debounced')
    /\ Summarize(debounced')
    /\ UNCHANGED <<records, isPlatformAdmin>>

\* The filters of the bar go back to the first page.
handleFilterChange(next) == SetFilters([next EXCEPT !.offset = 0])

\* "Clear filters" keeps the page size.
handleReset == SetFilters([DEFAULT_FILTERS EXCEPT !.limit = filters.limit])

hasActive == \E field \in {"type", "status", "search", "from", "to"} :
                 filters[field] # DEFAULT_FILTERS[field]

\* The bar changes one field at a time and offers to clear what is set.
FilterBar ==
    \/ \E change \in FilterChanges :
           handleFilterChange([filters EXCEPT ![change[1]] = change[2]])
    \/ hasActive /\ handleReset

\* The search has not changed for 300 ms.
useDebouncedValue ==
    /\ debounced.search # filters.search
    /\ debounced' = filters
    /\ Load(debounced')
    /\ Summarize(debounced')
    /\ UNCHANGED <<records, isPlatformAdmin, filters>>

\* Rows per page, Previous and Next.
Paginate ==
    \/ \E n \in LimitOptions : SetFilters([filters EXCEPT !.limit = n, !.offset = 0])
    \/ /\ filters.offset > 0 /\ ~list.loading
       /\ SetFilters([filters EXCEPT !.offset = Max({0, filters.offset - filters.limit})])
    \/ /\ filters.offset + filters.limit < list.total /\ ~list.loading
       /\ SetFilters([filters EXCEPT !.offset = filters.offset + filters.limit])

\* The retry of the error banner asks for the same again.
Retry ==
    /\ list.error /\ ~list.loading
    /\ Load(debounced)
    /\ UNCHANGED <<records, isPlatformAdmin, filters, debounced, summaryVars>>

-----------------------------------------------------------------------------
(* Being answered.                                                         *)

\* The rows and their number are read by two statements, in any order.
ReadList(q) ==
    /\ \/ /\ q.rows = Null
          /\ \E rows \in historyItems(records, q.asks) :
                 lists' = (lists \ {q}) \cup {[q EXCEPT !.rows = rows]}
       \/ /\ q.total = Null
          /\ lists' = (lists \ {q}) \cup {[q EXCEPT !.total = HistoryTotal(records, q.asks)]}
    /\ UNCHANGED <<records, isPlatformAdmin, filters, debounced, list, summaryVars>>

ListAnswered(q) ==
    /\ q.rows # Null /\ q.total # Null
    /\ lists' = lists \ {q}
    /\ list' = [rows |-> q.rows, total |-> q.total, loading |-> FALSE, error |-> FALSE]
    /\ UNCHANGED <<records, isPlatformAdmin, filters, debounced, summaryVars>>

\* The rows and the total of before stay under the banner.
ListFails(q) ==
    /\ lists' = lists \ {q}
    /\ list' = [list EXCEPT !.loading = FALSE, !.error = TRUE]
    /\ UNCHANGED <<records, isPlatformAdmin, filters, debounced, summaryVars>>

\* A report that is refused or fails clears the cards, which then fall back
\* on the visible rows.
SummaryAnswered(f) ==
    /\ summaries' = summaries \ {f}
    /\ \/ summary' = Null
       \/ \E answer \in analytics(records, f) :
              summary' = [filter |-> f, report |-> answer.report, truncated |-> answer.truncated]
    /\ UNCHANGED <<records, isPlatformAdmin, filters, debounced, listVars>>

-----------------------------------------------------------------------------
(* What the page shows.                                                    *)

\* The downloads: the filters of the bar, not the debounced ones, are sent.
handleExport(format, falls) == exportVerifications(records, filters, format, falls)

\* What is announced beside them: how many records match.
ExportContext ==
    [matching  |-> IF summary # Null THEN summary.report.verifications ELSE list.total,
     truncated |-> summary # Null /\ summary.truncated]

HistoryNext ==
    \/ RecordWritten /\ UNCHANGED historyPageVars
    \/ FilterBar \/ useDebouncedValue \/ Paginate \/ Retry
    \/ \E q \in lists : ReadList(q) \/ ListAnswered(q) \/ ListFails(q)
    \/ \E f \in summaries : SummaryAnswered(f)

HistorySpec == records = RecordsAtFirst /\ HistoryInit /\ [][HistoryNext]_historyVars

-----------------------------------------------------------------------------
(* Properties.                                                             *)

\* The records as they count for the cards: to an administrator of the platform
\* those of every organization are as the user's own.
Counted(recs) ==
    [i \in DOMAIN recs |-> [recs[i] EXCEPT !.own = isPlatformAdmin \/ recs[i].own]]

\* When the table has settled, its rows are the page that the filters on the
\* screen ask for, of the records of some moment, whichever answers overtook
\* each other while the user went on filtering and paging; and the cards are
\* about those filters too, whether they show a report or the rows.  The number
\* of matching records announced with the downloads was once theirs, unless it is
\* said to be cut off; to an administrator of the platform it is, as soon as there
\* is a report, the number of the matching records of every organization.
PageShowsItsFilters ==
    /\ ~list.loading /\ ~list.error =>
           \E n \in 0 .. Len(records) : list.rows \in historyItems(Prefix(records, n), debounced)
    /\ summaries = {} /\ summary # Null => summary.filter = ReportOf(debounced)
    /\ ~list.loading /\ ~list.error /\ summaries = {} =>
           \/ ExportContext.truncated
           \/ \E n \in 0 .. Len(records) :
                  ExportContext.matching =
                      HistoryTotal(IF summary = Null THEN Prefix(records, n)
                                   ELSE Counted(Prefix(records, n)), debounced)

\* The list walked page by page: each page is a query of its own.
Walks(recs, f) ==
    {FlattenSeq([k \in DOMAIN recs |-> PageOf(order[k], [f EXCEPT !.offset = (k - 1) * f.limit])]) :
        order \in [DOMAIN recs -> NewestFirst(recs, historyWhere(recs, f))]}

\* The same rows at the same places, but for rows of one instant, which may have
\* changed their places, or taken each other's.
SameButForTies(recs, rows, others) ==
    /\ Len(rows) = Len(others)
    /\ \A k \in DOMAIN rows :
           /\ recs[rows[k]].createdAt = recs[others[k]].createdAt
           /\ \/ rows[k] = others[k]
              \/ \E l \in DOMAIN others \ {k} :
                     recs[others[l]].createdAt = recs[others[k]].createdAt

\* Once the search has settled, the list walked page by page and the table that
\* is downloaded have the same length and hold the same rows at the same places,
\* although the page sends its filters by two ways, the server builds two queries
\* of them and every page is queried anew; all but rows of one instant, of which
\* the walk may show one twice and another never.
ListIsExported ==
    filters = debounced =>
        \A walk \in Walks(records, debounced), file \in handleExport("csv", FALSE) :
            SameButForTies(records, walk, file.rows)

\* A report that does not say that it is truncated has counted and summed the
\* rows that the list and the exported table hold for its filter, or would if all
\* that count for the user were the organization's.
ReportIsOfTheList ==
    \A told \in analytics(records, debounced) :
        ~told.truncated =>
            /\ told.report = Report(records, exportWhere(Counted(records), debounced))
            /\ told.report.verifications = HistoryTotal(Counted(records), debounced)

\* The figures of a report are those of the list, and what the console adds up
\* itself, of the rows it shows, is what the server would report of them, so that
\* falling back from the one to the other changes no figure of the same rows.
FiguresAgree ==
    /\ ReportIsOfTheList
    /\ \A rows \in historyItems(records, debounced) :
           LET own == buildOverviewAnalytics(records, rows).totals
           IN  \A figure \in DOMAIN own : own[figure] = Report(records, ToSet(rows))[figure]
=============================================================================
