-------------------------------- MODULE Console --------------------------------
(***************************************************************************)
(* The dashboard: one page at a time, each over the part of the server it  *)
(* talks to.  A page is mounted with its state empty and shares nothing    *)
(* with the others but the server, so a visit of one page stands for every *)
(* visit of it (the wallet page, which leaves an interval behind if it     *)
(* forgets to clear it, can be left and entered again).                    *)
(***************************************************************************)
EXTENDS WalletPage, HistoryPage, OverviewPage, BulkPage, VerifyPage, AdminPage, PriceSheet,
        ResultTexts

VARIABLE page    \* the page that is visited

ConsolePages == {"wallet", "history", "overview", "bulk", "verify", "admin"}

consoleVars == <<page, walletPageVars, historyVars, overviewVars, bulkPageVars, verifyVars, adminVars>>

\* The routes of app/console.
ConsoleInit ==
    /\ page \in ConsolePages
    /\ WalletInit
    /\ records = IF page = "history" THEN RecordsAtFirst ELSE << >>
    /\ HistoryInit
    /\ OverviewInit
    /\ BulkInit
    /\ VerifyInit
    /\ AdminInit
    /\ page # "verify" => Offered = {"iprs_standard"}
    /\ page # "history" => ~isPlatformAdmin

\* The catalogue is varied for the verification page only, the user for the history
\* only, and only the history finds records.
ConsoleNext ==
    \/ /\ page = "wallet" /\ WalletNext
       /\ UNCHANGED <<page, historyVars, overviewVars, bulkPageVars, verifyVars, adminVars>>
    \/ /\ page = "history" /\ HistoryNext
       /\ UNCHANGED <<page, walletPageVars, overviewVars, bulkPageVars, verifyVars, adminVars>>
    \/ /\ page = "overview" /\ OverviewNext
       /\ UNCHANGED <<page, walletPageVars, historyVars, bulkPageVars, verifyVars, adminVars>>
    \/ /\ page = "bulk" /\ BulkNext
       /\ UNCHANGED <<page, walletPageVars, historyVars, overviewVars, verifyVars, adminVars>>
    \/ /\ page = "verify" /\ VerifyNext
       /\ UNCHANGED <<page, walletPageVars, historyVars, overviewVars, bulkPageVars, adminVars>>
    \/ /\ page = "admin" /\ AdminNext
       /\ UNCHANGED <<page, walletPageVars, historyVars, overviewVars, bulkPageVars, verifyVars>>

\* On the overview the interval fires for ever, loads settle, and not every one
\* of them fails to read the catalogue.
OverviewFairness ==
    /\ \A n \in 1 .. MaxLoads :
           /\ WF_overviewVars(page = "overview" /\ loadOverview(n))
           /\ WF_overviewVars(page = "overview" /\ AllSettled(n))
           /\ WF_overviewVars(page = "overview" /\ MovementAnswered(n))
    /\ SF_overviewVars(/\ page = "overview"
                       /\ \E n \in 1 .. MaxLoads, catalogue, balance \in Versions :
                              Settled(n, catalogue, balance, TRUE))

ConsoleSpec == ConsoleInit /\ [][ConsoleNext]_consoleVars /\ WalletFairness /\ OverviewFairness

-----------------------------------------------------------------------------
(* Properties.                                                             *)

\* Again and again the overview shows the catalogue as it is, so that it does
\* once administrators leave it alone (as the bound makes them), without a reload
\* of the page, although answers of older loads may still overwrite newer ones
\* and single requests fail.
CatalogueCatchesUp == []<>(page = "overview" => catalogueShown = changes)

\* Whatever product the console offers, the public site promises it with the inputs
\* it needs, at the price it is seeded with in the first band, and, wherever a price
\* list is published and for the standard identity checks, in every band.  (The
\* discounts of the other product pages are not those of the seed.)
AdvertisedAsSeeded == \A type \in DOMAIN products : Advertised(type)

\* Whatever product the console offers, the list, the results of a batch and the
\* exported file tell the same of its checks.
ToldAlike == \A type \in DOMAIN products : TellsAlike(type)

\* Every check that the form submits is recorded as served by the provider that is
\* asked, in every environment.
RecordsSayWhoServed == \A q \in runs : RecordedAsServed(q.type, q.input)

\* The columns the bulk page asks for suffice: of every product on offer that
\* runs from a file, a row that has them filled is counted by the page and
\* admitted by the server, and its check is neither refused for a missing input
\* nor handed to the provider, or refused by the mock, without one.
HintedRowsRun ==
    \A type \in DOMAIN products :
        LET row   == [k \in PRODUCT_HINTS(type) |-> <<"good">>]
            input == [k \in PRODUCT_HINTS(type) |-> "good"]
        IN  requiresFileUpload(type) \/
                /\ usable(row)
                /\ AdmittedRows(type, <<row>>, HintRequiresCb(type)) = <<row>>
                /\ validateInput(type, input) /\ executeVerification(type, input)
                /\ "INVALID_INPUT" \notin MockAnswers(type, input)
=============================================================================
