------------------------------- MODULE VerifyPage -------------------------------
(***************************************************************************)
(* The console's verification workspace (app/console/verify-workspace.tsx  *)
(* and components/verification-form.tsx): a catalogue that is fetched      *)
(* again on focus and every minute, the form of the product selected, and  *)
(* its submission, which runs the check and then reads its record.         *)
(*                                                                         *)
(* While the catalogue is fetched the form is not on the page; what was    *)
(* typed is lost, and a submission under way goes on without its form.     *)
(* The record that is read never carries an offer of the backup provider   *)
(* (VerificationsService.detail), so that a retry is never offered.        *)
(***************************************************************************)
EXTENDS Providers

CONSTANTS
    NoProduct,     \* nothing is selected, no result is shown
    Catalogues,    \* bound: sets of products an organization may be offered
    FormTexts,     \* bound: texts a user may type
    MaxFetches,    \* bound on fetches of the catalogue under way
    MaxRuns        \* bound on submissions under way

ASSUME VerifyAssumption ==
    /\ Catalogues \subseteq SUBSET VERIFICATION_TYPES
    /\ FormTexts \subseteq Texts
    /\ {MaxFetches, MaxRuns} \subseteq Nat

VARIABLES
    available,   \* server: whether each product is enabled and active
    products,    \* the catalogue as the page knows it
    workspace,   \* fetches of the catalogue under way, and whether one failed
    selected,    \* the product of the form
    verifyForm,  \* the form
    runs,        \* submissions under way
    shownResult, \* the product of the result panel
    agreed       \* consents the user has ticked on this page, each for a product

formVars == <<selected, verifyForm, runs, shownResult, agreed>>
verifyPageVars == <<products, workspace, formVars>>
verifyVars == <<available, verifyPageVars>>

Offered == DOMAIN available

\* before the first answer there are no products.
NoCatalogue == [t \in {} |-> TRUE]

EmptyVerifyForm(type) ==
    [values |-> IF type = NoProduct THEN << >> ELSE getVerificationFormValues(type),
     consent |-> FALSE, cbConsent |-> FALSE, busy |-> FALSE, error |-> FALSE]

VerifyInit ==
    /\ \E offer \in Catalogues : available = [t \in offer |-> TRUE]
    /\ products = NoCatalogue
    /\ workspace = [fetches |-> 1, loading |-> TRUE, error |-> FALSE]
    /\ selected = NoProduct
    /\ verifyForm = EmptyVerifyForm(NoProduct)
    /\ runs = {}
    /\ shownResult = NoProduct
    /\ agreed = {}

\* The form is on the page.
FormShown == ~workspace.loading /\ ~workspace.error /\ selected # NoProduct

-----------------------------------------------------------------------------
(* The catalogue.                                                          *)

\* An administrator enables or disables a product.
ProductToggled ==
    /\ \E type \in Offered : available' = [available EXCEPT ![type] = ~@]
    /\ UNCHANGED verifyPageVars

\* The form leaves the page, and submissions under way lose it.
LoseForm ==
    /\ verifyForm' = EmptyVerifyForm(selected)
    /\ runs' = {[q EXCEPT !.formGone = TRUE] : q \in runs}

\* Focus, the interval, Refresh and Retry.
fetchProducts ==
    /\ workspace.fetches < MaxFetches
    /\ workspace' = [fetches |-> workspace.fetches + 1, loading |-> TRUE, error |-> FALSE]
    /\ LoseForm
    /\ UNCHANGED <<available, products, selected, shownResult, agreed>>

\* The first product that can be run, or else the first, is selected once.
ProductsAnswered ==
    /\ workspace.fetches > 0
    /\ workspace' = [workspace EXCEPT !.fetches = @ - 1, !.loading = FALSE]
    /\ products' = available
    /\ \E type \in Offered :
           /\ (\E t \in Offered : available[t]) => available[type]
           /\ selected' = IF selected = NoProduct THEN type ELSE selected
    /\ verifyForm' = IF selected = NoProduct THEN EmptyVerifyForm(selected') ELSE verifyForm
    /\ UNCHANGED <<available, runs, shownResult, agreed>>

ProductsFail ==
    /\ workspace.fetches > 0
    /\ workspace' = [fetches |-> workspace.fetches - 1, loading |-> FALSE, error |-> TRUE]
    /\ LoseForm
    /\ UNCHANGED <<available, products, selected, shownResult, agreed>>

-----------------------------------------------------------------------------
(* The form.                                                               *)

\* Mutant of SelectProduct: what was ticked stays ticked.
SelectProductOnly(type) ==
    /\ FormShown
    /\ selected' = type
    /\ shownResult' = NoProduct
    /\ verifyForm' = [verifyForm EXCEPT !.values = getVerificationFormValues(type)]
    /\ UNCHANGED <<available, products, workspace, runs, agreed>>

\* Another product empties the form, ticks included; a submission under way
\* keeps it busy.
SelectProduct(type) ==
    /\ FormShown
    /\ selected' = type
    /\ shownResult' = NoProduct
    /\ verifyForm' = IF type = selected THEN verifyForm
                     ELSE [EmptyVerifyForm(type) EXCEPT !.busy = verifyForm.busy]
    /\ UNCHANGED <<available, products, workspace, runs, agreed>>

updateValue ==
    /\ FormShown
    /\ \E field \in DOMAIN verifyForm.values, text \in FormTexts :
           verifyForm' = [verifyForm EXCEPT !.values[field] = text]
    /\ UNCHANGED <<available, products, workspace, selected, runs, shownResult, agreed>>

\* The second tick is there for the products whose description asks for it.
TickConsent ==
    /\ FormShown
    /\ \/ /\ verifyForm' = [verifyForm EXCEPT !.consent = ~@]
          /\ agreed' = agreed \cup {<<selected, "subject">>}
       \/ /\ selected \in CB_CONSENT_REQUIRED_TYPES
          /\ verifyForm' = [verifyForm EXCEPT !.cbConsent = ~@]
          /\ agreed' = agreed \cup {<<selected, "bureau">>}
    /\ UNCHANGED <<available, products, workspace, selected, runs, shownResult>>

canSubmit ==
    /\ selected \in DOMAIN products /\ products[selected]
    /\ hasRequiredValues(verifyForm.values, selected)
    /\ ~isConsentGatingBlocked(verifyForm.consent, verifyForm.cbConsent,
                               selected \in CB_CONSENT_REQUIRED_TYPES)

handleSubmit ==
    /\ FormShown /\ ~verifyForm.busy /\ canSubmit
    /\ Cardinality(runs) < MaxRuns
    /\ runs' = runs \cup
          {[type |-> selected, input |-> Payload(verifyForm.values), consent |-> verifyForm.consent,
            cbConsent |-> verifyForm.cbConsent, recorded |-> FALSE, formGone |-> FALSE]}
    /\ verifyForm' = [verifyForm EXCEPT !.busy = TRUE, !.error = FALSE]
    /\ UNCHANGED <<available, products, workspace, selected, shownResult, agreed>>

-----------------------------------------------------------------------------
(* The submission.                                                         *)

\* What POST /verifications refuses before the provider is asked.  The DTO only
\* asks consent to be a boolean.
AcceptsRun(type, input, cbConsent) ==
    /\ RunVerificationDto(input)
    /\ available[type]
    /\ type \in CB_CONSENT_REQUIRED_TYPES => cbConsent
    /\ validateInput(type, input)

\* The check is run and recorded; run itself is the subject of Billing.
RunRecorded(q) ==
    /\ ~q.recorded
    /\ AcceptsRun(q.type, q.input, q.cbConsent)
    /\ runs' = (runs \ {q}) \cup {[q EXCEPT !.recorded = TRUE]}
    /\ UNCHANGED <<available, products, workspace, selected, verifyForm, shownResult, agreed>>

\* The form that submitted is free again; a form mounted since is not touched.
Return(q, failed) ==
    /\ runs' = runs \ {q}
    /\ verifyForm' = IF q.formGone THEN verifyForm
                     ELSE [verifyForm EXCEPT !.busy = FALSE, !.error = failed]

\* The record is shown, whichever product is selected by now.
DetailAnswered(q) ==
    /\ q.recorded
    /\ Return(q, FALSE)
    /\ shownResult' = q.type
    /\ UNCHANGED <<available, products, workspace, selected, agreed>>

\* The run is refused or its answer lost, or the record cannot be read: the form
\* says that the verification failed, even if it was run and billed.
RunFails(q) ==
    /\ Return(q, TRUE)
    /\ UNCHANGED <<available, products, workspace, selected, shownResult, agreed>>

VerifyNext ==
    \/ ProductToggled
    \/ fetchProducts \/ ProductsAnswered \/ ProductsFail
    \/ \E type \in DOMAIN products : SelectProduct(type)
    \/ updateValue \/ TickConsent \/ handleSubmit
    \/ \E q \in runs : RunRecorded(q) \/ DetailAnswered(q) \/ RunFails(q)

VerifySpec == VerifyInit /\ [][VerifyNext]_verifyVars

-----------------------------------------------------------------------------
(* Properties.                                                             *)

\* A form that may be submitted, for a product that is offered, with values of
\* the form its fields ask for, is not refused, the provider is handed every
\* argument it is called with, and the mock's register does not find them wanting:
\* four tables of inputs agree on every product.
FormSuffices ==
    FormShown /\ canSubmit /\ available[selected]
    /\ (\A field \in DOMAIN verifyForm.values : verifyForm.values[field] # "malformed") =>
        /\ AcceptsRun(selected, Payload(verifyForm.values), verifyForm.cbConsent)
        /\ executeVerification(selected, Payload(verifyForm.values))
        /\ "INVALID_INPUT" \notin MockAnswers(selected, Payload(verifyForm.values))

\* Every check that is asked for carries consents that the user ticked for that
\* product, also after going to and fro between products and losing the form to
\* a fetch of the catalogue.
ConsentIsForTheCheck ==
    \A q \in runs :
        /\ <<q.type, "subject">> \in agreed /\ q.consent
        /\ q.type \in CB_CONSENT_REQUIRED_TYPES => <<q.type, "bureau">> \in agreed /\ q.cbConsent
=============================================================================
