---------------------------------- MODULE Csv ----------------------------------
(***************************************************************************)
(* The console's reader and writer of CSV (lib/csv.ts).                    *)
(*                                                                         *)
(* A text is a sequence of tokens: the characters the reader tells apart,  *)
(* and words, which it never looks into.  Case is left out: a header is a  *)
(* word in lower case.                                                     *)
(***************************************************************************)
EXTENDS Integers, Sequences, FiniteSets, SequencesExt

Quote == "\""
Comma == ","
LF == "\n"
CR == "\r"
Blanks == {" ", LF, CR}

trim(text) ==
    LET solid == {i \in DOMAIN text : text[i] \notin Blanks}
    IN  IF solid = {} THEN << >> ELSE SubSeq(text, Min(solid), Max(solid))

withoutBlanks(text) == SelectSeq(text, LAMBDA token : token \notin Blanks)

\* What a filter leaves of rows: those at some places, in their order.
RowsAt(rows, places) ==
    [k \in 1 .. Cardinality(places) |->
        rows[CHOOSE i \in places : Cardinality({j \in places : j < i}) = k - 1]]

-----------------------------------------------------------------------------
(* Reading.  A look at the next character is a mode: after a quote within  *)
(* quotes, and after a CR, whose LF is swallowed.                          *)

EmptyScan == [mode |-> "plain", field |-> << >>, record |-> << >>, rows |-> << >>]

EndField(scan) ==
    [scan EXCEPT !.mode = "plain", !.record = Append(@, scan.field), !.field = << >>]

\* A record of blanks only is dropped.
EndRecord(scan) ==
    LET ended == EndField(scan)
    IN  [ended EXCEPT !.record = << >>,
                      !.rows = IF \E k \in DOMAIN ended.record : trim(ended.record[k]) # << >>
                               THEN Append(@, ended.record) ELSE @]

Keep(scan, token) == [scan EXCEPT !.field = Append(@, token)]

\* Outside quotes.
PlainToken(scan, token) ==
    CASE token = Quote -> [scan EXCEPT !.mode = "quoted"]
      [] token = Comma -> EndField(scan)
      [] token = LF    -> EndRecord(scan)
      [] token = CR    -> [EndRecord(scan) EXCEPT !.mode = "cr"]
      [] OTHER         -> [Keep(scan, token) EXCEPT !.mode = "plain"]

Scan(scan, token) ==
    CASE scan.mode = "quoted" /\ token = Quote -> [scan EXCEPT !.mode = "closing"]
      [] scan.mode = "quoted" /\ token # Quote -> Keep(scan, token)
      [] scan.mode = "closing" /\ token = Quote -> [Keep(scan, Quote) EXCEPT !.mode = "quoted"]
      [] scan.mode = "cr" /\ token = LF -> [scan EXCEPT !.mode = "plain"]
      [] OTHER -> PlainToken(scan, token)

\* The rows below the header; a column named twice has its last cell, a cell
\* that is missing is empty.
parseCsv(text) ==
    LET rows   == EndRecord(FoldLeft(Scan, EmptyScan, text)).rows
        header == [k \in DOMAIN rows[1] |-> trim(rows[1][k])]
        Cell(row, name) ==
            LET column == Max({k \in DOMAIN header : header[k] = name})
            IN  IF column \in DOMAIN row THEN trim(row[column]) ELSE << >>
    IN  IF Len(rows) < 2 THEN << >>
        ELSE [i \in 1 .. Len(rows) - 1 |-> [name \in ToSet(header) |-> Cell(rows[i + 1], name)]]

\* The header words of each field of a row.
HEADER_ALIASEES ==
    [idNumber            |-> {"id_number", "idnumber", "id", "national_id"},
     kraPin              |-> {"kra_pin", "krapin", "pin"},
     phoneNumber         |-> {"phone_number", "phonenumber", "phone", "msisdn"},
     alienId             |-> {"alien_id", "alienid"},
     passportNumber      |-> {"passport_number", "passportnumber", "passport"},
     nationality         |-> {"nationality"},
     bankCode            |-> {"bank_code", "bankcode", "bank"},
     accountNumber       |-> {"account_number", "accountnumber", "account"},
     employerName        |-> {"employer_name", "employername", "employer"},
     meterNumber         |-> {"meter_number", "meternumber", "meter"},
     vehicleRegNumber    |-> {"vehicle_reg_number", "vehicleregnumber", "vehicle_reg"},
     dlNumber            |-> {"dl_number", "dlnumber", "dl", "drivers_license"},
     businessRegNumber   |-> {"business_reg_number", "businessregnumber", "business_reg", "br_number"},
     faceImageBase64     |-> {"face_image_base64", "faceimagebase64"},
     statementPages      |-> {"statement_pages", "statementpages"},
     statementFileBase64 |-> {"statement_file_base64", "statementfilebase64"},
     cbConsent           |-> {"cb_consent", "cbconsent"},
     useBackup           |-> {"use_backup", "usebackup"}]

IsColumnOf(name, key) == \E word \in HEADER_ALIASEES[key] : name = <<word>>

\* A record's cells under the keys of their columns, without blanks; columns
\* with other names and empty cells are left out.  (The code takes the last of
\* two columns of one key; the files read here have one.)
csvRowsToInputs(records) ==
    LET Filled(record, key) == {name \in DOMAIN record : IsColumnOf(name, key) /\ record[name] # << >>}
    IN  [i \in DOMAIN records |->
            [key \in {k \in DOMAIN HEADER_ALIASEES : Filled(records[i], k) # {}} |->
                withoutBlanks(records[i][CHOOSE name \in Filled(records[i], key) : TRUE])]]

-----------------------------------------------------------------------------
(* Writing.                                                                *)

\* Mutant of esc: quotes within a cell are not doubled.
escOnce(cell) ==
    IF \E k \in DOMAIN cell : cell[k] \in {Quote, Comma, LF}
    THEN <<Quote>> \o cell \o <<Quote>>
    ELSE cell

\* A cell with a quote, a comma or an LF is quoted; a CR alone is not looked for.
esc(cell) ==
    IF \E k \in DOMAIN cell : cell[k] \in {Quote, Comma, LF}
    THEN <<Quote>> \o FlattenSeq([k \in DOMAIN cell |->
                         IF cell[k] = Quote THEN <<Quote, Quote>> ELSE <<cell[k]>>]) \o <<Quote>>
    ELSE cell

Joined(parts, separator) ==
    FlattenSeq([k \in DOMAIN parts |-> IF k = 1 THEN parts[k] ELSE <<separator>> \o parts[k]])

Line(cells) == Joined([k \in DOMAIN cells |-> esc(cells[k])], Comma)

toCsv(header, rows) == Joined([k \in 1 .. Len(rows) + 1 |-> Line((<<header>> \o rows)[k])], LF)
=============================================================================
