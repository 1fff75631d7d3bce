------------------------------- MODULE Providers -------------------------------
(***************************************************************************)
(* Who answers a check and with what: the routing table of                 *)
(* ProviderRegistry, the outcomes of AggregatorAdapter, and the registers  *)
(* of MockProvider, which stand in for every provider that is not          *)
(* configured.  Of a mock's answer the names of its fields are kept.       *)
(***************************************************************************)
EXTENDS CheckInputs

-----------------------------------------------------------------------------
(* Routing.                                                                *)

\* What the environment configures; without a primary everything is a sandbox.
Registry == [enabled : SUBSET VERIFICATION_TYPES, primary : BOOLEAN, backup : BOOLEAN,
             live : SUBSET VERIFICATION_TYPES, backupTypes : SUBSET VERIFICATION_TYPES]

buildRegistry(enabled, primary, backup, live, backupTypes) ==
    [enabled |-> enabled, primary |-> primary, backup |-> primary /\ backup,
     live |-> IF primary THEN live ELSE {},
     backupTypes |-> IF primary /\ backup THEN backupTypes ELSE {}]

isEnabled(registry, type) == type \in registry.enabled
isLive(registry, type) == registry.primary /\ type \in registry.live
hasBackup(registry, type) == registry.backup /\ type \in registry.backupTypes

\* Mutant of resolve: the primary is preferred to the backup that was asked for.
resolvePrimaryFirst(registry, type, useBackup) ==
    CASE ~isEnabled(registry, type)                -> "UNKNOWN"
      [] isEnabled(registry, type) /\ isLive(registry, type) -> "primary"
      [] isEnabled(registry, type) /\ ~isLive(registry, type) /\ useBackup
            /\ hasBackup(registry, type)           -> "backup"
      [] OTHER                                     -> "mock"

\* A check that is not enabled is an error of its own.
resolve(registry, type, useBackup) ==
    LET toBackup == useBackup /\ hasBackup(registry, type)
    IN  CASE ~isEnabled(registry, type)                           -> "UNKNOWN"
          [] isEnabled(registry, type) /\ toBackup                -> "backup"
          [] isEnabled(registry, type) /\ ~toBackup /\ isLive(registry, type) -> "primary"
          [] OTHER                                                -> "mock"

-----------------------------------------------------------------------------
(* The mock's registers.                                                   *)

\* The inputs that a register looks at, and the fields of its answer.
Of(needs, tells) == [needs |-> needs, tells |-> tells]

StandardRegisters ==
    [iprs_standard |-> Of({"idNumber"},
        {"idNumber", "surname", "firstName", "otherName", "fullName", "gender", "dateOfBirth",
         "citizenship", "serialNumber", "placeOfBirth", "placeOfLive", "aliveStatus"}),
     match_id_phone |-> Of({"idNumber", "phoneNumber"},
        {"idNumber", "phoneNumber", "match", "ownerName"}),
     employer_verification |-> Of({"idNumber"},
        {"idNumber", "employerName", "isCurrentEmployer", "employmentStatus"}),
     face_id_match |-> Of({"idNumber", "faceImageBase64"}, {"idNumber", "matchScore", "matched"}),
     bank_account_verification |-> Of({"accountNumber", "bankCode"},
        {"accountNumber", "bankCode", "bankName", "accountName", "accountStatus",
         "idNumberMatch"})]

PremiumRegisters ==
    [alien_id |-> Of({"alienId"},
        {"alienId", "fullName", "nationality", "dateOfBirth", "gender", "expiryDate", "status"}),
     aml_pep_screen |-> Of({"idNumber"},
        {"idNumber", "fullName", "amlMatch", "pepMatch", "watchlistMatches", "riskLevel"}),
     passport_check |-> Of({"passportNumber"},
        {"passportNumber", "nationality", "fullName", "dateOfBirth", "gender", "expiryDate",
         "issuingCountry", "status"})]

\* A national ID alone makes a PIN of at most eight digits, which is refused.
UtilityRegisters ==
    [sim_swap_check |-> Of({"phoneNumber"},
        {"phoneNumber", "lastSwapDate", "daysSinceSwap", "riskLevel"}),
     kplc_location_checker |-> Of({"meterNumber"},
        {"meterNumber", "accountNumber", "customerName", "location", "status"}),
     kra_pin_verification |-> Of({"kraPin"},
        {"idNumber", "kraPin", "taxpayerName", "status", "taxObligation"}),
     search_name_by_phone |-> Of({"phoneNumber"}, {"phoneNumber", "ownerName", "idNumber"}),
     search_phones_by_id |-> Of({"idNumber"}, {"idNumber", "registeredNumbers", "primaryNumber"})]

VehicleRegisters ==
    [motor_vehicle_ownership |-> Of({"vehicleRegNumber"},
        {"vehicleRegNumber", "ownerIdNumber", "ownerName", "make", "model", "year", "color",
         "engineNumber", "chassisNumber", "logbookStatus"}),
     drivers_license_verification |-> Of({"dlNumber"},
        {"dlNumber", "idNumber", "fullName", "dateOfBirth", "licenseClass", "issueDate",
         "expiryDate", "status"})]

MetropolRegisters ==
    [metropol_score_only |-> Of({"idNumber"}, {"score", "scoreBand", "riskLevel"}),
     metropol_standard_report |-> Of({"idNumber"},
        {"score", "scoreBand", "accountsSummary", "paymentHistory"}),
     metropol_full_report |-> Of({"idNumber"},
        {"score", "scoreBand", "identity", "accounts", "inquiries", "publicRecords"})]

CreditInfoRegisters ==
    [creditinfo_score_only |-> Of({"idNumber"}, {"score", "scoreBand", "riskLevel"}),
     creditinfo_comprehensive |-> Of({"idNumber"},
        {"score", "scoreBand", "identity", "creditAccounts", "guarantees"}),
     creditinfo_crb_status |-> Of({"idNumber"}, {"status", "listingDetails"})]

OtherRegisters ==
    [brs |-> Of({"businessRegNumber"},
        {"businessRegNumber", "businessName", "registrationDate", "status", "directors",
         "shareholders", "registeredAddress", "businessType"}),
     spin_score_only |-> Of({"idNumber"}, {"score", "scoreBand", "riskLevel", "factors"}),
     scanned_statement |-> Of({"statementPages"}, {"pagesProcessed", "transactions", "summary"})]

Registers ==
    [t \in VERIFICATION_TYPES |->
        CASE t \in DOMAIN StandardRegisters   -> StandardRegisters[t]
          [] t \in DOMAIN PremiumRegisters    -> PremiumRegisters[t]
          [] t \in DOMAIN UtilityRegisters    -> UtilityRegisters[t]
          [] t \in DOMAIN VehicleRegisters    -> VehicleRegisters[t]
          [] t \in DOMAIN MetropolRegisters   -> MetropolRegisters[t]
          [] t \in DOMAIN CreditInfoRegisters -> CreditInfoRegisters[t]
          [] OTHER                            -> OtherRegisters[t]]

\* What the mock may answer; only the population register has gaps.
MockAnswers(type, input) ==
    CASE \E field \in Registers[type].needs : field \notin DOMAIN input \/ input[field] # "good"
             -> {"INVALID_INPUT"}
      [] OTHER -> {"found"} \cup IF type = "iprs_standard" THEN {"NOT_FOUND"} ELSE {}

-----------------------------------------------------------------------------
(* The upstreams.                                                          *)

\* What becomes of a request that is sent on: the status of the answer, an
\* abort after 30 s, a connection or a body that is broken.
HttpOutcomes == {"200", "404", "401", "403", "500", "aborted", "broken"}

call(outcome) ==
    CASE outcome = "200"    -> "found"
      [] outcome = "404"    -> "NOT_FOUND"
      [] outcome = "broken" -> "UNKNOWN"
      [] OTHER              -> "UPSTREAM_DOWN"

\* What a provider may answer to a check.
ProviderAnswers(provider, type, input) ==
    CASE provider = "UNKNOWN" -> {"UNKNOWN"}
      [] provider = "mock"    -> MockAnswers(type, input)
      [] OTHER                -> {call(outcome) : outcome \in HttpOutcomes}

-----------------------------------------------------------------------------
(* What run() makes of the answer, next to its price.                      *)

Outcome(registry, type, useBackup, backupPrice, answer) ==
    LET offered == /\ answer = "UPSTREAM_DOWN" /\ ~useBackup
                   /\ hasBackup(registry, type) /\ backupPrice
    IN  [status          |-> CASE answer = "found"     -> "success"
                               [] answer = "NOT_FOUND" -> "not_found"
                               [] OTHER                -> "failed",
         isBackup        |-> /\ useBackup /\ hasBackup(registry, type)
                             /\ isEnabled(registry, type),
         backupAvailable |-> offered]

-----------------------------------------------------------------------------
(* Property.                                                               *)

\* However the environment routes a check: a record says that the backup served
\* it exactly if the backup was asked, so that it alone is paid its price; and
\* a retry at the backup's price is offered only where the backup would answer it.
RecordedAsServed(type, input) ==
    \A primary, backup, useBackup, backupPrice, on, live, backedUp \in BOOLEAN :
        LET Some(b)  == IF b THEN {type} ELSE {}
            registry == buildRegistry(Some(on), primary, backup, Some(live), Some(backedUp))
            provider == resolve(registry, type, useBackup)
        IN  \A answer \in ProviderAnswers(provider, type, input) :
                LET outcome == Outcome(registry, type, useBackup, backupPrice, answer)
                IN  /\ outcome.isBackup <=> provider = "backup"
                    /\ outcome.backupAvailable =>
                           /\ provider = "primary" /\ backupPrice
                           /\ resolve(registry, type, TRUE) = "backup"
=============================================================================
