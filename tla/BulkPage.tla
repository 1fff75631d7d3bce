-------------------------------- MODULE BulkPage --------------------------------
(***************************************************************************)
(* The console's bulk page (app/console/bulk/page.tsx) and the part of the *)
(* batch endpoint it depends on: a CSV file becomes rows, the rows are     *)
(* posted, and the batch started last is asked for every 1.5 seconds until *)
(* an answer says that it has finished.  The start button is not disabled  *)
(* while a request is under way, so rows may be posted again.              *)
(*                                                                         *)
(* A batch's rows are run elsewhere (see Batch); here it is only finished. *)
(* The list of past batches and the choice of the backup provider, which   *)
(* changes nothing here, are left out; the page is not left.               *)
(***************************************************************************)
EXTENDS Csv, CheckInputs

CONSTANTS
    NoRows,         \* no file is loaded, no batch is shown
    BulkTypes,      \* bound: products the user chooses
    Sheets,         \* bound: <<header, rows>> the user's files are made of
    ResultTables,   \* bound: rows of results a batch may have
    PageMaxRows,    \* 1000
    MaxBatches      \* bound on posted batches

\* Cells are texts; a sheet is a header and rows, a result a subject and a detail.
ASSUME BulkAssumption ==
    /\ BulkTypes \subseteq VERIFICATION_TYPES
    /\ Sheets \subseteq Seq(Seq(STRING)) \X Seq(Seq(Seq(STRING)))
    /\ ResultTables \subseteq Seq(Seq(STRING) \X Seq(STRING))
    /\ PageMaxRows \in Nat \ {0} /\ MaxBatches \in Nat

VARIABLES
    upload,     \* the page's form: product, rows of the file, consent
    posted,     \* POST requests of the page under way
    batches,    \* batches of the organization that this page has posted
    shownBatch, \* the batch on the page's card, as it was answered
    batchPoll,  \* the batch the interval asks for; 0: there is none
    batchStates,\* answers to the interval under way
    download    \* the results of the file that has just been saved

uploadVars == <<upload, posted>>
cardVars == <<shownBatch, batchPoll, batchStates, download>>
bulkPageVars == <<uploadVars, batches, cardVars>>

BulkInit ==
    /\ upload = [type |-> "iprs_standard", rows |-> NoRows, cbConsent |-> FALSE]
    /\ posted = {}
    /\ batches = << >>
    /\ shownBatch = NoRows
    /\ batchPoll = 0
    /\ batchStates = {}
    /\ download = NoRows

-----------------------------------------------------------------------------
(* The file.                                                               *)

\* Mutant of usable: any field makes a row one.
usableByAnyField(row) == DOMAIN row # {}

\* A row is used if one of nine fields is filled.
usable(row) == DOMAIN row \cap Identifiers # {}

ChooseType(type) ==
    /\ upload' = [upload EXCEPT !.type = type]
    /\ UNCHANGED <<posted, batches, shownBatch, batchPoll, batchStates>>
    /\ download' = NoRows

ConsentToAll ==
    /\ HintRequiresCb(upload.type) /\ upload.rows # NoRows
    /\ upload' = [upload EXCEPT !.cbConsent = ~@]
    /\ UNCHANGED <<posted, batches, shownBatch, batchPoll, batchStates>>
    /\ download' = NoRows

\* What the page makes of a file; none or too many usable rows are an error.
RowsOf(text) ==
    LET inputs == csvRowsToInputs(parseCsv(text))
        rows   == RowsAt(inputs, {i \in DOMAIN inputs : usable(inputs[i])})
    IN  IF Len(rows) \in 1 .. PageMaxRows THEN rows ELSE NoRows

\* A sheet as another program saved it.
FileOf(sheet) == toCsv(sheet[1], sheet[2])

onFile(sheet) ==
    /\ upload' = [upload EXCEPT !.rows = RowsOf(FileOf(sheet))]
    /\ UNCHANGED <<posted, batches, shownBatch, batchPoll, batchStates>>
    /\ download' = NoRows

-----------------------------------------------------------------------------
(* The batch.                                                              *)

\* Bureau checks wait for the consent; nothing else disables the button.
startBatch ==
    /\ upload.rows # NoRows
    /\ HintRequiresCb(upload.type) => upload.cbConsent
    /\ Len(batches) + Cardinality({q \in posted : q.batch = 0}) < MaxBatches
    /\ posted' = posted \cup
          {[request |-> Min((1 .. MaxBatches + 1) \ {q.request : q \in posted}), batch |-> 0,
            asks |-> upload]}
    /\ UNCHANGED <<upload, batches, shownBatch, batchPoll, batchStates>>
    /\ download' = NoRows

\* The decorators of a row; its values are texts without blanks.
RowIsValid(row) ==
    BulkRowDto([k \in DOMAIN row |-> IF row[k] = <<"malformed">> THEN "malformed" ELSE "good"])

\* The rows that createBatch makes of a request.  Every row is validated, those
\* without an identifier are dropped, and a check that needs a file, or a
\* consent that was not given, is refused.
AdmittedRows(type, rows, cbConsent) ==
    LET kept == RowsAt(rows, {i \in DOMAIN rows : DOMAIN rows[i] \cap Identifiers # {}})
    IN  IF /\ \A i \in DOMAIN rows : RowIsValid(rows[i])
           /\ Len(kept) \in 1 .. PageMaxRows
           /\ ~requiresFileUpload(type)
           /\ type \in CB_CONSENT_REQUIRED_TYPES => cbConsent
        THEN kept ELSE << >>

\* createBatch; it may also find the wallet short (see Batch).
BatchCreated(q) ==
    /\ q.batch = 0
    /\ LET rows == AdmittedRows(q.asks.type, q.asks.rows, q.asks.cbConsent)
       IN  /\ rows # << >>
           /\ batches' = Append(batches, [totalRows |-> Len(rows), counted |-> Len(q.asks.rows),
                                          status |-> "processing"])
    /\ posted' = (posted \ {q}) \cup {[q EXCEPT !.batch = Len(batches'), !.asks = NoRows]}
    /\ UNCHANGED <<upload, shownBatch, batchPoll, batchStates, download>>

\* The interval before is cleared, whatever its batch does.
BatchStarted(q) ==
    /\ q.batch # 0
    /\ posted' = posted \ {q}
    /\ shownBatch' = [batch |-> q.batch, status |-> "processing"]
    /\ upload' = [upload EXCEPT !.rows = NoRows]
    /\ batchPoll' = q.batch
    /\ UNCHANGED <<batches, batchStates, download>>

\* The request is refused, or its answer lost; the rows stay.
StartRefused(q) ==
    /\ posted' = posted \ {q}
    /\ UNCHANGED <<upload, batches, shownBatch, batchPoll, batchStates, download>>

BatchFinishes(b) ==
    /\ batches[b].status = "processing"
    /\ \E end \in {"completed", "failed"} : batches' = [batches EXCEPT ![b].status = end]
    /\ UNCHANGED <<upload, posted, shownBatch, batchPoll, batchStates, download>>

-----------------------------------------------------------------------------
(* Following it.                                                           *)

BatchTick ==
    /\ batchPoll # 0
    /\ batchStates' = batchStates \cup {[batch |-> batchPoll, status |-> batches[batchPoll].status]}
    /\ UNCHANGED <<upload, posted, batches, shownBatch, batchPoll, download>>

\* An answer is shown whichever batch is followed by now; one that is finished
\* clears the interval, whosever it is.  A failing request throws in the
\* interval's callback and changes nothing.
BatchAnswered(s) ==
    /\ batchStates' = batchStates \ {s}
    /\ \/ /\ shownBatch' = s
          /\ batchPoll' = IF s.status = "processing" THEN batchPoll ELSE 0
       \/ UNCHANGED <<shownBatch, batchPoll>>
    /\ UNCHANGED <<upload, posted, batches, download>>

\* The results of the completed batch on the card become a file.
downloadResults(table) ==
    /\ shownBatch # NoRows /\ shownBatch.status = "completed"
    /\ download' = table
    /\ UNCHANGED <<upload, posted, batches, shownBatch, batchPoll, batchStates>>

BulkNext ==
    \/ \E type \in BulkTypes : ChooseType(type)
    \/ \E sheet \in Sheets : onFile(sheet)
    \/ ConsentToAll \/ startBatch
    \/ \E q \in posted : BatchCreated(q) \/ BatchStarted(q) \/ StartRefused(q)
    \/ \E b \in DOMAIN batches : BatchFinishes(b)
    \/ BatchTick
    \/ \E s \in batchStates : BatchAnswered(s)
    \/ \E table \in ResultTables : downloadResults(table)

BulkSpec == BulkInit /\ [][BulkNext]_bulkPageVars

-----------------------------------------------------------------------------
(* Properties.                                                             *)

\* What the user was shown as the number of rows of the file is the number of
\* rows the batch runs and bills: page and server drop the same rows.
CountedRowsAreRun ==
    \A b \in DOMAIN batches : batches[b].counted = batches[b].totalRows

\* A CR alone does not make toCsv quote a cell.
HasBareCR(cell) ==
    (\E k \in DOMAIN cell : cell[k] = CR) /\ \A k \in DOMAIN cell : cell[k] \notin {Quote, Comma, LF}

\* The file that is saved holds the batch's results: read by the console's own
\* reader it gives the cells back, but for blanks around them, whatever quotes,
\* commas and line ends they contain, unless one has a CR and is not quoted.
CsvRoundTrip ==
    download # NoRows /\ (\A i \in DOMAIN download : \A k \in 1 .. 2 : ~HasBareCR(download[i][k])) =>
        LET header  == <<<<"subject">>, <<"detail">>>>
            records == parseCsv(toCsv(header, download))
            full    == RowsAt(download, {i \in DOMAIN download :
                                            \E k \in 1 .. 2 : trim(download[i][k]) # << >>})
        IN  /\ Len(records) = Len(full)
            /\ \A i \in DOMAIN full :
                   /\ records[i][<<"subject">>] = trim(full[i][1])
                   /\ records[i][<<"detail">>] = trim(full[i][2])
=============================================================================
