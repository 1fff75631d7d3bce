------------------------------ MODULE CheckInputs ------------------------------
(***************************************************************************)
(* What a check needs to be told, in the four places that say so: the form *)
(* of the console, the column hints of the bulk page, the DTOs that        *)
(* validate a request and VerificationsService, which refuses one that     *)
(* lacks an input and passes the inputs on to the provider.                *)
(*                                                                         *)
(* An input is a function from the fields that were given to texts; of a   *)
(* text only whether it is empty or blank and whether it has the form its  *)
(* field asks for is kept.                                                 *)
(***************************************************************************)
EXTENDS Integers, FiniteSets

BureauTypes ==
    {"metropol_score_only", "metropol_standard_report", "metropol_full_report",
     "creditinfo_score_only", "creditinfo_comprehensive", "creditinfo_crb_status"}

\* Checks of a national ID alone.
IdTypes ==
    {"iprs_standard", "aml_pep_screen", "search_phones_by_id", "spin_score_only"} \cup BureauTypes

VERIFICATION_TYPES ==
    IdTypes \cup
    {"match_id_phone", "employer_verification", "face_id_match", "bank_account_verification",
     "alien_id", "passport_check", "sim_swap_check", "kplc_location_checker",
     "kra_pin_verification", "search_name_by_phone", "motor_vehicle_ownership",
     "drivers_license_verification", "brs", "scanned_statement"}

CB_CONSENT_REQUIRED_TYPES == BureauTypes \cup {"brs", "motor_vehicle_ownership"}

FileTypes == {"face_id_match", "scanned_statement", "brs"}

requiresFileUpload(type) == type \in FileTypes

\* The fields a row of a batch may have.
BulkRowFields ==
    {"idNumber", "kraPin", "phoneNumber", "alienId", "passportNumber", "nationality",
     "bankCode", "accountNumber", "employerName", "meterNumber", "vehicleRegNumber",
     "dlNumber", "businessRegNumber"}

RunFields == BulkRowFields \cup {"faceImageBase64", "statementPages", "statementFileBase64"}

Texts == {"", " ", "malformed", "good"}

Given(input, field) == field \in DOMAIN input /\ input[field] # ""

-----------------------------------------------------------------------------
(* The console's form.                                                     *)

\* The table of forms, in its order: of each field whether it is required.
PersonForms ==
    [iprs_standard             |-> [idNumber |-> TRUE],
     match_id_phone            |-> [idNumber |-> TRUE, phoneNumber |-> TRUE],
     employer_verification     |-> [idNumber |-> TRUE, employerName |-> TRUE],
     face_id_match             |-> [idNumber |-> TRUE, faceImageBase64 |-> TRUE],
     bank_account_verification |-> [accountNumber |-> TRUE, bankCode |-> TRUE, idNumber |-> FALSE],
     alien_id                  |-> [alienId |-> TRUE],
     aml_pep_screen            |-> [idNumber |-> TRUE],
     passport_check            |-> [passportNumber |-> TRUE, nationality |-> TRUE],
     sim_swap_check            |-> [phoneNumber |-> TRUE],
     kplc_location_checker     |-> [meterNumber |-> TRUE]]

RegisterForms ==
    [kra_pin_verification         |-> [kraPin |-> TRUE, idNumber |-> FALSE],
     search_name_by_phone         |-> [phoneNumber |-> TRUE],
     motor_vehicle_ownership      |-> [vehicleRegNumber |-> TRUE],
     drivers_license_verification |-> [dlNumber |-> TRUE],
     brs                          |-> [businessRegNumber |-> TRUE, statementFileBase64 |-> TRUE],
     scanned_statement            |-> [statementPages |-> TRUE, statementFileBase64 |-> TRUE]]

\* The bureaus, SPIN Score and the search of phones ask for the ID alone.
VERIFICATION_FORM_FIELDS ==
    [t \in VERIFICATION_TYPES |->
        CASE t \in DOMAIN PersonForms   -> PersonForms[t]
          [] t \in DOMAIN RegisterForms -> RegisterForms[t]
          [] OTHER                      -> [idNumber |-> TRUE]]

RequiredFields(type) ==
    {field \in DOMAIN VERIFICATION_FORM_FIELDS[type] : VERIFICATION_FORM_FIELDS[type][field]}

getVerificationFormValues(type) == [field \in DOMAIN VERIFICATION_FORM_FIELDS[type] |-> ""]

\* Mutant of hasRequiredValues: one required field is enough.
hasSomeRequiredValue(values, type) ==
    \E field \in RequiredFields(type) : field \in DOMAIN values /\ values[field] \notin {"", " "}

hasRequiredValues(values, type) ==
    \A field \in RequiredFields(type) : field \in DOMAIN values /\ values[field] \notin {"", " "}

isConsentGatingBlocked(consent, cbConsent, requiresCbConsent) ==
    ~consent \/ (requiresCbConsent /\ ~cbConsent)

\* The payload leaves out what is empty or blank, and pages that are no number.
Payload(values) ==
    LET sent == {field \in DOMAIN values :
                    /\ values[field] \notin {"", " "}
                    /\ field = "statementPages" => values[field] = "good"}
    IN  [field \in sent |-> values[field]]

-----------------------------------------------------------------------------
(* The bulk page.                                                          *)

\* The columns the page asks for.
PRODUCT_HINTS(type) ==
    CASE type \in IdTypes                        -> {"idNumber"}
      [] type = "match_id_phone"                 -> {"idNumber", "phoneNumber"}
      [] type = "employer_verification"          -> {"idNumber", "employerName"}
      [] type = "face_id_match"                  -> {"idNumber", "faceImageBase64"}
      [] type = "bank_account_verification"      -> {"accountNumber", "bankCode", "idNumber"}
      [] type = "alien_id"                       -> {"alienId"}
      [] type = "passport_check"                 -> {"passportNumber", "nationality"}
      [] type \in {"sim_swap_check", "search_name_by_phone"} -> {"phoneNumber"}
      [] type = "kplc_location_checker"          -> {"meterNumber"}
      [] type = "kra_pin_verification"           -> {"kraPin", "idNumber"}
      [] type = "motor_vehicle_ownership"        -> {"vehicleRegNumber"}
      [] type = "drivers_license_verification"   -> {"dlNumber"}
      [] type = "brs"                            -> {"businessRegNumber"}
      [] type = "scanned_statement"              -> {"statementPages", "statementFileBase64"}

\* Mutant of HintRequiresCb: the products added last are forgotten.
HintRequiresCbOfBureaus(type) == type \in BureauTypes \cup {"spin_score_only"}

\* The page asks for the consent of one more type than the server.
HintRequiresCb(type) == type \in CB_CONSENT_REQUIRED_TYPES \cup {"spin_score_only"}

Identifiers ==
    {"idNumber", "phoneNumber", "kraPin", "alienId", "passportNumber", "meterNumber",
     "vehicleRegNumber", "dlNumber", "businessRegNumber"}

-----------------------------------------------------------------------------
(* The server.                                                             *)

\* Patterned fields: digits, a PIN, a phone number, a page count.
WellFormed(input, patterned) ==
    \A field \in patterned \cap DOMAIN input : input[field] = "good"

\* Unknown fields are refused, as everywhere (ValidationPipe).
BulkRowDto(input) ==
    /\ DOMAIN input \subseteq BulkRowFields
    /\ WellFormed(input, {"idNumber", "kraPin", "phoneNumber"})

RunVerificationDto(input) ==
    /\ DOMAIN input \subseteq RunFields
    /\ WellFormed(input, {"idNumber", "kraPin", "phoneNumber", "statementPages"})

Has(input, fields) == \A field \in fields : Given(input, field)

validateInput(type, input) ==
    CASE type \in IdTypes \cup {"employer_verification", "face_id_match"} -> Has(input, {"idNumber"})
      [] type = "match_id_phone"               -> Has(input, {"idNumber", "phoneNumber"})
      [] type = "bank_account_verification"    -> Has(input, {"accountNumber", "bankCode"})
      [] type = "alien_id"                     -> Has(input, {"alienId"})
      [] type = "passport_check"               -> Has(input, {"passportNumber", "nationality"})
      [] type \in {"sim_swap_check", "search_name_by_phone"} -> Has(input, {"phoneNumber"})
      [] type = "kplc_location_checker"        -> Has(input, {"meterNumber"})
      [] type = "kra_pin_verification"         -> Given(input, "kraPin") \/ Given(input, "idNumber")
      [] type = "motor_vehicle_ownership"      -> Has(input, {"vehicleRegNumber"})
      [] type = "drivers_license_verification" -> Has(input, {"dlNumber"})
      [] type = "brs"                          -> Has(input, {"businessRegNumber"})
      [] type = "scanned_statement"            -> Has(input, {"statementPages"})

\* The arguments executeVerification hands to the provider as present; those of
\* one field are the field that validateInput asks for.
executeVerification(type, input) ==
    CASE type = "employer_verification"     -> Has(input, {"idNumber", "employerName"})
      [] type = "face_id_match"             -> Has(input, {"idNumber", "faceImageBase64"})
      [] type = "match_id_phone"            -> Has(input, {"idNumber", "phoneNumber"})
      [] type = "bank_account_verification" -> Has(input, {"accountNumber", "bankCode"})
      [] type = "passport_check"            -> Has(input, {"passportNumber", "nationality"})
      [] type = "scanned_statement"         -> Has(input, {"statementPages"})
      [] OTHER                              -> validateInput(type, input)
=============================================================================
