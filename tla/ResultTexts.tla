------------------------------ MODULE ResultTexts ------------------------------
(***************************************************************************)
(* What lists and files tell of a check: its subject, the name and a       *)
(* detail of its result.  The same three are written in several places.    *)
(*                                                                         *)
(* An input or a result is the set of its fields; a text is the fields     *)
(* that are put into it.                                                   *)
(***************************************************************************)
EXTENDS Providers, Sequences, SequencesExt

\* a ?? b ?? ... ; nothing is the empty text or a dash.
FirstOf(fields, present) ==
    LET k == {i \in DOMAIN fields : fields[i] \in present}
    IN  IF k = {} THEN {} ELSE {fields[CHOOSE i \in k : \A j \in k : i <= j]}

-----------------------------------------------------------------------------
(* Subjects.                                                               *)

\* common/subject.ts, which nothing uses.
getSubjectFromInput(input) ==
    FirstOf(<<"kraPin", "phoneNumber", "idNumber", "alienId", "passportNumber",
              "vehicleRegNumber", "dlNumber", "businessRegNumber", "meterNumber",
              "statementPages">>, input)

\* The list of checks.
summarizeSubject(input) ==
    FirstOf(<<"kraPin", "phoneNumber", "idNumber", "alienId", "passportNumber",
              "vehicleRegNumber", "dlNumber", "businessRegNumber", "meterNumber">>
            \o (IF "statementPages" \in input THEN <<"statementPages">> ELSE << >>), input)

\* The results of a batch.
subjectOf(input) ==
    FirstOf(<<"kraPin", "phoneNumber", "idNumber", "alienId", "passportNumber",
              "vehicleRegNumber", "dlNumber", "businessRegNumber", "meterNumber">>
            \o (IF "statementPages" \in input THEN <<"statementPages">> ELSE << >>), input)

\* The files.
getSubject(input) ==
    FirstOf(<<"kraPin", "phoneNumber", "idNumber", "alienId", "passportNumber",
              "vehicleRegNumber", "dlNumber", "businessRegNumber", "meterNumber",
              "statementPages">>, input)

-----------------------------------------------------------------------------
(* Results.                                                                *)

NamedTypes ==
    {"iprs_standard", "match_id_phone", "employer_verification", "face_id_match", "alien_id",
     "aml_pep_screen", "passport_check", "search_name_by_phone", "motor_vehicle_ownership",
     "drivers_license_verification", "brs"}

Names == <<"fullName", "ownerName", "taxpayerName", "customerName", "businessName">>

\* The results of a batch.
nameOf(type, result) ==
    CASE type \in NamedTypes                -> FirstOf(Names, result)
      [] type = "kra_pin_verification"      -> FirstOf(<<"taxpayerName">>, result)
      [] type = "bank_account_verification" -> FirstOf(<<"accountName">>, result)
      [] type = "kplc_location_checker"     -> FirstOf(<<"customerName">>, result)
      [] OTHER                              -> {}

\* The fields a detail is made of.
DetailFields(type) ==
    CASE type = "iprs_standard"             -> {"dateOfBirth"}
      [] type \in {"kra_pin_verification", "creditinfo_crb_status", "brs",
                   "drivers_license_verification"} -> {"status"}
      [] type = "search_phones_by_id"       -> {"registeredNumbers"}
      [] type = "sim_swap_check"            -> {"riskLevel", "lastSwapDate"}
      [] type = "bank_account_verification" -> {"accountStatus"}
      [] type \in {"metropol_score_only", "creditinfo_score_only", "spin_score_only"}
                                            -> {"score", "scoreBand"}
      [] type \in {"metropol_standard_report", "metropol_full_report"} -> {"score", "accounts"}
      [] type = "creditinfo_comprehensive"  -> {"creditAccounts"}
      [] type = "motor_vehicle_ownership"   -> {"make", "model", "year"}
      [] type = "kplc_location_checker"     -> {"location"}
      [] type = "scanned_statement"         -> {"pagesProcessed", "summary"}
      [] OTHER                              -> {}

detailOf(type, result) == DetailFields(type) \cap result

\* Mutant of getResultName: taxpayers are looked for under the common names only.
getResultNameOfPersons(type, result) ==
    CASE type \in NamedTypes            -> FirstOf(Names, result)
      [] type = "kplc_location_checker" -> FirstOf(<<"customerName">>, result)
      [] OTHER                          -> {}

\* The files.
getResultName(type, result) ==
    CASE type \in NamedTypes            -> FirstOf(Names, result)
      [] type \in {"kra_pin_verification", "bank_account_verification"}
                                        -> FirstOf(<<"taxpayerName", "accountName">>, result)
      [] type = "kplc_location_checker" -> FirstOf(<<"customerName">>, result)
      [] OTHER                          -> {}

\* The same table again.
getResultDetail(type, result) == DetailFields(type) \cap result

-----------------------------------------------------------------------------
(* Property.                                                               *)

\* Fields that a register may leave out of its answer.
OptionalFields == {"otherName", "placeOfBirth", "placeOfLive", "lastSwapDate", "daysSinceSwap",
                   "idNumber", "taxObligation", "listingDetails"}

Inputs(type) == {"cbConsent"} \cup DOMAIN VERIFICATION_FORM_FIELDS[type]

\* The list, the results of a batch and the exported file call a check by the
\* same subject, as common/subject.ts asks of them, and tell the same name and
\* detail of its result; and what a detail is made of is in the result, except
\* for the accounts of the standard report, which only the full report has.
TellsAlike(type) ==
    LET tells == Registers[type].tells
    IN  /\ \A input \in SUBSET Inputs(type) :
               {summarizeSubject(input), subjectOf(input), getSubject(input)}
                   = {getSubjectFromInput(input)}
        /\ \A missing \in SUBSET (tells \cap OptionalFields) :
               /\ nameOf(type, tells \ missing) = getResultName(type, tells \ missing)
               /\ detailOf(type, tells \ missing) = getResultDetail(type, tells \ missing)
        /\ DetailFields(type) \ tells \subseteq
               IF type = "metropol_standard_report" THEN {"accounts"} ELSE {}
=============================================================================
