------------------------------ MODULE ConsoleProofs ------------------------------
(***************************************************************************)
(* Theorems about the pages of the console.                                *)
(*                                                                         *)
(* A page shares nothing with the others but its server, so that each has  *)
(* an invariant of its own: WalletWell, HistoryWell, VerifyWell, AdminWell *)
(* and BulkIsGood.  What the pages say of checks rests on tables that are  *)
(* written several times: they are compared product by product.            *)
(***************************************************************************)
EXTENDS Console, SumTheorems, SequenceTheorems, FiniteSetTheorems, WellFoundedInduction, TLAPS

(* Steps of the console are steps of one page. *)

LEMMA PagesInit ==
    ASSUME ConsoleInit
    PROVE  /\ WalletInit /\ HistoryInit /\ VerifyInit /\ AdminInit
           /\ records \in {<< >>, RecordsAtFirst}
  BY DEF ConsoleInit

LEMMA StepsOfWallet ==
    ASSUME [ConsoleNext]_consoleVars
    PROVE  [WalletNext]_walletPageVars
  BY DEF ConsoleNext, consoleVars

LEMMA StepsOfHistory ==
    ASSUME [ConsoleNext]_consoleVars
    PROVE  [HistoryNext]_historyVars
  BY DEF ConsoleNext, consoleVars

LEMMA StepsOfVerify ==
    ASSUME [ConsoleNext]_consoleVars
    PROVE  [VerifyNext]_verifyVars
  BY DEF ConsoleNext, consoleVars

LEMMA StepsOfAdmin ==
    ASSUME [ConsoleNext]_consoleVars
    PROVE  [AdminNext]_adminVars
  BY DEF ConsoleNext, consoleVars

-----------------------------------------------------------------------------
(* The verification page.                                                  *)

VerifyFormFields == {"values", "consent", "cbConsent", "busy", "error"}
RunFieldNames == {"type", "input", "consent", "cbConsent", "recorded", "formGone"}

\* What is ticked on the form was ticked for the product that is selected.
TicksAreAgreed ==
    /\ verifyForm.consent => <<selected, "subject">> \in agreed
    /\ verifyForm.cbConsent => <<selected, "bureau">> \in agreed

VerifyShapes ==
    /\ DOMAIN verifyForm = VerifyFormFields
    /\ verifyForm.consent \in BOOLEAN /\ verifyForm.cbConsent \in BOOLEAN
    /\ \A q \in runs : DOMAIN q = RunFieldNames

VerifyWell == VerifyShapes /\ TicksAreAgreed /\ ConsentIsForTheCheck

LEMMA FreshForm ==
    ASSUME NEW t
    PROVE  /\ DOMAIN EmptyVerifyForm(t) = VerifyFormFields
           /\ EmptyVerifyForm(t).consent = FALSE
           /\ EmptyVerifyForm(t).cbConsent = FALSE
  BY DEF EmptyVerifyForm, VerifyFormFields

LEMMA VerifyStep ==
    ASSUME VerifyWell, [VerifyNext]_verifyVars
    PROVE  VerifyWell'
<1> USE DEF VerifyWell, VerifyShapes, ConsentIsForTheCheck, TicksAreAgreed
<1>1. CASE ProductToggled
  BY <1>1 DEF ProductToggled, verifyPageVars, formVars
<1>l. ASSUME LoseForm, UNCHANGED <<selected, agreed>>
      PROVE  VerifyWell'
  <2>1. \A q \in runs' : \E r \in runs : q = [r EXCEPT !.formGone = TRUE]
    BY <1>l DEF LoseForm
  <2>2. VerifyShapes'
    BY <1>l, <2>1, FreshForm DEF LoseForm, RunFieldNames, VerifyFormFields
  <2>3. TicksAreAgreed'
    BY <1>l, FreshForm DEF LoseForm
  <2>4. ConsentIsForTheCheck'
    <3>1. ASSUME NEW q \in runs'
          PROVE  /\ <<q.type, "subject">> \in agreed /\ q.consent
                 /\ q.type \in CB_CONSENT_REQUIRED_TYPES => <<q.type, "bureau">> \in agreed /\ q.cbConsent
      <4>1. PICK r \in runs : q = [r EXCEPT !.formGone = TRUE]
        BY <2>1
      <4>2. q.type = r.type /\ q.consent = r.consent /\ q.cbConsent = r.cbConsent
        BY <4>1 DEF RunFieldNames
      <4> QED
        BY <4>2
    <3> QED
      BY <1>l, <3>1
  <2> QED
    BY <2>2, <2>3, <2>4
<1>2. CASE fetchProducts
  BY <1>2, <1>l DEF fetchProducts
<1>3. CASE ProductsAnswered
  BY <1>3, FreshForm DEF ProductsAnswered
<1>4. CASE ProductsFail
  BY <1>4, <1>l DEF ProductsFail
<1>5. ASSUME NEW t, SelectProduct(t)
      PROVE  VerifyWell'
  BY <1>5, FreshForm DEF SelectProduct, VerifyFormFields
<1>6. CASE updateValue
  BY <1>6 DEF updateValue, VerifyFormFields
<1>7. CASE TickConsent
  BY <1>7 DEF TickConsent, VerifyFormFields
<1>8. CASE handleSubmit
  BY <1>8 DEF handleSubmit, canSubmit, isConsentGatingBlocked, VerifyFormFields, RunFieldNames
<1>9. ASSUME NEW q \in runs, RunRecorded(q)
      PROVE  VerifyWell'
  BY <1>9 DEF RunRecorded, RunFieldNames
<1>r. ASSUME NEW q \in runs, NEW failed \in BOOLEAN, Return(q, failed), UNCHANGED <<selected, agreed>>
      PROVE  VerifyWell'
  BY <1>r DEF Return, VerifyFormFields
<1>10. ASSUME NEW q \in runs, DetailAnswered(q)
       PROVE  VerifyWell'
  BY <1>10, <1>r DEF DetailAnswered
<1>11. ASSUME NEW q \in runs, RunFails(q)
       PROVE  VerifyWell'
  BY <1>11, <1>r DEF RunFails
<1>12. CASE UNCHANGED verifyVars
  BY <1>12 DEF verifyVars, verifyPageVars, formVars
<1> QED
  BY <1>1, <1>2, <1>3, <1>4, <1>5, <1>6, <1>7, <1>8, <1>9, <1>10, <1>11, <1>12 DEF VerifyNext

\* Every check asked for carries consents the user has ticked for its product
\* (VerifyPage): whatever empties or changes the form, a tick never survives a
\* change of product.
THEOREM ConsentsStayWithTheirCheck == ConsoleSpec => []ConsentIsForTheCheck
<1>1. ConsoleInit => VerifyWell
  BY PagesInit, FreshForm DEF VerifyInit, VerifyWell, VerifyShapes, TicksAreAgreed, ConsentIsForTheCheck
<1>2. VerifyWell /\ [ConsoleNext]_consoleVars => VerifyWell'
  BY VerifyStep, StepsOfVerify
<1> QED
  BY <1>1, <1>2, PTL DEF ConsoleSpec, VerifyWell

-----------------------------------------------------------------------------
(* The wallet page.                                                        *)

\* The payment was created for this rail.
PostedBy(p, r) == p \in Tracked /\ method[p] = r /\ status[p] # "none"

StatusShape ==
    /\ status \in [Tracked -> {"none", "pending", "paid", "failed"}]
    /\ DOMAIN method = Tracked

FormShape(r) ==
    /\ DOMAIN forms[r] = {"busy", "posting", "confirm", "shown"}
    /\ forms[r].posting \subseteq Tracked

\* A payment is posted by one form at a time, and created for the rail of it.
PostedByOneForm ==
    \A r, s \in PageRails : \A p \in forms[r].posting :
        /\ status[p] # "none" => PostedBy(p, r)
        /\ p \in forms[s].posting => s = r

\* Form, interval and answers are about payments of their rail.
ConfirmOfRail == \A r \in PageRails : forms[r].confirm # Unset => PostedBy(forms[r].confirm, r)

PollOfRail == poll # Unset => poll.rail \in PageRails /\ PostedBy(poll.payment, poll.rail)

\* What an answer says of a payment that is decided is so for good.
TrueAnswer(a) ==
    /\ DOMAIN a = {"payment", "rail", "by", "status"}
    /\ a.rail \in PageRails /\ PostedBy(a.payment, a.rail)
    /\ a.status \in {"pending", "paid", "failed"}
    /\ a.status # "pending" => status[a.payment] = a.status

\* What the forms tell.
Told(r) ==
    forms[r].shown \in {"paid", "failed"} =>
        \E p \in Tracked : method[p] = r /\ status[p] = forms[r].shown

FormsWell ==
    /\ DOMAIN forms = PageRails
    /\ \A r \in PageRails : FormShape(r) /\ Told(r)
    /\ PostedByOneForm /\ ConfirmOfRail

WalletWell == StatusShape /\ FormsWell /\ PollOfRail /\ \A a \in answers : TrueAnswer(a)

\* A payment that is created stays with its rail; one that is decided stays so.
Onward ==
    /\ StatusShape'
    /\ \A p \in Tracked : status[p] # "none" =>
           /\ method'[p] = method[p] /\ status'[p] # "none"
           /\ status[p] \in {"paid", "failed"} => status'[p] = status[p]

LEMMA FormsKept ==
    ASSUME WalletWell, Onward, UNCHANGED forms,
           \A r \in PageRails : \A p \in forms[r].posting :
               status'[p] # "none" => status[p] # "none" \/ method'[p] = r
    PROVE  FormsWell'
<1> USE DEF WalletWell, FormsWell, Onward
<1>1. \A r \in PageRails : FormShape(r)'
  BY DEF FormShape
<1>2. \A r \in PageRails : Told(r)'
  BY DEF Told, StatusShape
<1>3. PostedByOneForm'
  BY DEF PostedByOneForm, PostedBy, FormShape
<1>4. ConfirmOfRail'
  BY DEF ConfirmOfRail, PostedBy
<1> QED
  BY <1>1, <1>2, <1>3, <1>4

LEMMA PollKept ==
    ASSUME PollOfRail, Onward, UNCHANGED poll
    PROVE  PollOfRail'
  BY DEF PollOfRail, Onward, PostedBy

LEMMA AnswersKept ==
    ASSUME \A a \in answers : TrueAnswer(a), Onward, answers' \subseteq answers
    PROVE  \A a \in answers' : TrueAnswer(a)'
  BY DEF TrueAnswer, Onward, PostedBy

\* Forms that change without a change of the payments: one form changes, posts
\* no more, and what it confirms and shows is so.
LEMMA OneFormChanges ==
    ASSUME WalletWell, UNCHANGED statusVars, NEW r \in PageRails,
           DOMAIN forms' = PageRails, DOMAIN forms'[r] = DOMAIN forms[r],
           \A s \in PageRails \ {r} : forms'[s] = forms[s],
           forms'[r].posting \subseteq forms[r].posting,
           forms'[r].confirm # Unset => PostedBy(forms'[r].confirm, r),
           Told(r)'
    PROVE  StatusShape' /\ FormsWell' /\ Onward
<1> USE DEF WalletWell, FormsWell, statusVars
<1>1. StatusShape' /\ Onward
  BY DEF StatusShape, Onward
<1>2. \A s \in PageRails : FormShape(s)'
  BY DEF FormShape
<1>3. \A s \in PageRails : Told(s)'
  BY DEF Told
<1>4. PostedByOneForm'
  BY DEF PostedByOneForm, PostedBy
<1>5. ConfirmOfRail'
  BY DEF ConfirmOfRail, PostedBy
<1> QED
  BY <1>1, <1>2, <1>3, <1>4, <1>5

LEMMA ShowsTruth ==
    ASSUME WalletWell, UNCHANGED statusVars, NEW r \in PageRails,
           NEW outcome \in {"paid", "failed", "error"}, Show(r, outcome),
           outcome # "error" => \E p \in Tracked : method[p] = r /\ status[p] = outcome
    PROVE  StatusShape' /\ FormsWell' /\ Onward
<1> DEFINE keeps == IF r = "card" /\ outcome = "paid" THEN Unset ELSE forms[r].confirm
<1>1. forms' = [forms EXCEPT ![r] = [forms[r] EXCEPT !.busy = FALSE, !.shown = outcome, !.confirm = keeps]]
  BY DEF Show
<1>2. keeps = Unset \/ keeps = forms[r].confirm
  OBVIOUS
<1> HIDE DEF keeps
<1>3. /\ DOMAIN forms' = PageRails /\ DOMAIN forms'[r] = DOMAIN forms[r]
      /\ \A s \in PageRails \ {r} : forms'[s] = forms[s]
      /\ forms'[r].posting = forms[r].posting /\ forms'[r].confirm = keeps /\ forms'[r].shown = outcome
  BY <1>1 DEF WalletWell, FormsWell, FormShape
<1>4. forms'[r].confirm # Unset => PostedBy(forms'[r].confirm, r)
  BY <1>2, <1>3 DEF WalletWell, FormsWell, ConfirmOfRail
<1>5. Told(r)'
  BY <1>3 DEF Told, statusVars
<1> QED
  BY <1>3, <1>4, <1>5, OneFormChanges

LEMMA SubmitStep ==
    ASSUME WalletWell, NEW r, NEW p \in Tracked, Submit(r, p)
    PROVE  WalletWell'
<1> DEFINE keeps == IF r = "card" THEN Unset ELSE forms[r].confirm
<1>1. r \in PageRails
  BY DEF Submit, PageRails
<1>2. forms' = [forms EXCEPT ![r] = [forms[r] EXCEPT !.busy = TRUE, !.posting = forms[r].posting \cup {p},
                                                     !.shown = "nothing", !.confirm = keeps]]
  BY DEF Submit
<1>3. keeps = Unset \/ keeps = forms[r].confirm
  OBVIOUS
<1> HIDE DEF keeps
<1>4. /\ DOMAIN forms' = PageRails /\ DOMAIN forms'[r] = DOMAIN forms[r]
      /\ \A s \in PageRails \ {r} : forms'[s] = forms[s]
      /\ forms'[r].posting = forms[r].posting \cup {p} /\ forms'[r].confirm = keeps
      /\ forms'[r].shown = "nothing"
  BY <1>1, <1>2 DEF WalletWell, FormsWell, FormShape
<1>5. UNCHANGED <<status, method, poll, answers>> /\ status[p] = "none"
      /\ \A s \in PageRails : p \notin forms[s].posting
  BY DEF Submit, statusVars
<1>6. StatusShape' /\ Onward
  BY <1>5 DEF Onward, StatusShape, WalletWell
<1>7. FormsWell'
  <2>1. \A s \in PageRails : FormShape(s)' /\ Told(s)'
    BY <1>4, <1>5 DEF WalletWell, FormsWell, FormShape, Told
  <2>2. PostedByOneForm'
    BY <1>4, <1>5 DEF WalletWell, FormsWell, PostedByOneForm, PostedBy
  <2>3. ConfirmOfRail'
    BY <1>3, <1>4, <1>5 DEF WalletWell, FormsWell, ConfirmOfRail, PostedBy
  <2> QED
    BY <1>4, <2>1, <2>2, <2>3 DEF FormsWell
<1> QED
  BY <1>5, <1>6, <1>7, PollKept, AnswersKept DEF WalletWell

LEMMA CreatedStep ==
    ASSUME WalletWell, NEW r \in PageRails, NEW p \in Tracked, Created(r, p)
    PROVE  WalletWell'
<1>1. /\ UNCHANGED <<forms, poll, answers>> /\ p \in forms[r].posting /\ status[p] = "none"
      /\ status' = [status EXCEPT ![p] = "pending"] /\ method' = [method EXCEPT ![p] = r]
  BY DEF Created, CreatePayment, browser
<1>2. Onward
  BY <1>1 DEF Onward, WalletWell, StatusShape
<1>3. \A s \in PageRails : \A q \in forms[s].posting :
          status'[q] # "none" => status[q] # "none" \/ method'[q] = s
  BY <1>1 DEF WalletWell, StatusShape, FormsWell, FormShape, PostedByOneForm
<1>4. FormsWell'
  BY <1>1, <1>2, <1>3, FormsKept
<1> QED
  BY <1>1, <1>2, <1>4, PollKept, AnswersKept DEF WalletWell, Onward

LEMMA DecideStep ==
    ASSUME WalletWell, NEW p \in Tracked, NEW outcome \in {"paid", "failed"},
           DecidePayment(p, outcome), UNCHANGED browser
    PROVE  WalletWell'
<1>1. /\ UNCHANGED <<forms, poll, answers, method>> /\ status[p] = "pending"
      /\ status' = [status EXCEPT ![p] = outcome]
  BY DEF DecidePayment, browser
<1>2. Onward
  BY <1>1 DEF Onward, WalletWell, StatusShape
<1>3. FormsWell'
  BY <1>1, <1>2, FormsKept DEF WalletWell, StatusShape, FormsWell, FormShape
<1> QED
  BY <1>1, <1>2, <1>3, PollKept, AnswersKept DEF WalletWell, Onward

LEMMA FollowStep ==
    ASSUME WalletWell, NEW r \in PageRails, NEW p \in Tracked, pollOnlinePayment(r, p)
    PROVE  WalletWell'
<1> DEFINE offers == IF r = "paypal" \/ (r = "card" /\ r \in LiveForms) THEN p ELSE Unset
<1>1. /\ UNCHANGED statusVars /\ UNCHANGED answers
      /\ p \in forms[r].posting /\ status[p] # "none" /\ poll' = [payment |-> p, rail |-> r]
      /\ forms' = [forms EXCEPT ![r] = [forms[r] EXCEPT !.posting = forms[r].posting \ {p},
                                                        !.shown = "nothing", !.confirm = offers]]
  BY DEF pollOnlinePayment
<1>2. offers = Unset \/ offers = p
  OBVIOUS
<1> HIDE DEF offers
<1>3. PostedBy(p, r)
  BY <1>1 DEF WalletWell, FormsWell, PostedByOneForm
<1>4. /\ DOMAIN forms' = PageRails /\ DOMAIN forms'[r] = DOMAIN forms[r]
      /\ \A s \in PageRails \ {r} : forms'[s] = forms[s]
      /\ forms'[r].posting \subseteq forms[r].posting /\ forms'[r].confirm = offers
      /\ forms'[r].shown = "nothing"
  BY <1>1 DEF WalletWell, FormsWell, FormShape
<1>5. StatusShape' /\ FormsWell' /\ Onward
  BY <1>1, <1>2, <1>3, <1>4, OneFormChanges DEF Told
<1>6. PollOfRail'
  BY <1>1, <1>3 DEF PollOfRail, PostedBy, statusVars
<1> QED
  BY <1>1, <1>5, <1>6, AnswersKept DEF WalletWell

\* A form that tells nothing of a decision tells nothing that is not so.
LEMMA TellsNothing ==
    ASSUME WalletWell, UNCHANGED statusVars, NEW r \in PageRails, NEW form,
           forms' = [forms EXCEPT ![r] = form],
           DOMAIN form = DOMAIN forms[r], form.posting \subseteq forms[r].posting,
           form.confirm = forms[r].confirm, form.shown \in {"nothing", "error"}
    PROVE  StatusShape' /\ FormsWell' /\ Onward
<1>1. /\ DOMAIN forms' = PageRails /\ forms'[r] = form
      /\ \A s \in PageRails \ {r} : forms'[s] = forms[s]
  BY DEF WalletWell, FormsWell
<1>2. Told(r)'
  BY <1>1 DEF Told
<1> QED
  BY <1>1, <1>2, OneFormChanges DEF WalletWell, FormsWell, ConfirmOfRail

LEMMA StartFailsStep ==
    ASSUME WalletWell, NEW r \in PageRails, NEW p \in Tracked, StartFails(r, p)
    PROVE  WalletWell'
<1> DEFINE form == [forms[r] EXCEPT !.busy = FALSE, !.posting = forms[r].posting \ {p}, !.shown = "error"]
<1>1. /\ UNCHANGED statusVars /\ UNCHANGED <<poll, answers>>
      /\ forms' = [forms EXCEPT ![r] = form]
  BY DEF StartFails
<1>2. /\ DOMAIN form = DOMAIN forms[r] /\ form.posting \subseteq forms[r].posting
      /\ form.confirm = forms[r].confirm /\ form.shown = "error"
  BY DEF WalletWell, FormsWell, FormShape
<1> HIDE DEF form
<1>3. StatusShape' /\ FormsWell' /\ Onward
  BY <1>1, <1>2, TellsNothing
<1> QED
  BY <1>1, <1>3, PollKept, AnswersKept DEF WalletWell

LEMMA SamePayments ==
    ASSUME WalletWell, UNCHANGED statusVars, UNCHANGED forms
    PROVE  StatusShape' /\ FormsWell' /\ Onward
<1>1. Onward
  BY DEF WalletWell, StatusShape, Onward, statusVars
<1> QED
  BY <1>1, FormsKept DEF Onward, statusVars

\* What is read of a payment is so.
LEMMA AnsweredStep ==
    ASSUME WalletWell, UNCHANGED statusVars, NEW p, NEW r \in PageRails, PostedBy(p, r),
           NEW by, Answered(p, r, by)
    PROVE  \A a \in answers' : TrueAnswer(a)'
<1> DEFINE new == [payment |-> p, rail |-> r, by |-> by, status |-> status[p]]
<1>1. answers' = answers \cup {new}
  BY DEF Answered
<1>2. \A a : a = new => TrueAnswer(a)'
  BY DEF TrueAnswer, WalletWell, StatusShape, PostedBy, statusVars
<1>3. \A a \in answers : TrueAnswer(a)'
  BY DEF TrueAnswer, WalletWell, PostedBy, statusVars
<1> HIDE DEF new
<1> QED
  BY <1>1, <1>2, <1>3

LEMMA TickStep ==
    ASSUME WalletWell, TickRead
    PROVE  WalletWell'
<1>1. /\ UNCHANGED statusVars /\ UNCHANGED <<forms, poll>>
      /\ Answered(poll.payment, poll.rail, "poll")
      /\ poll.rail \in PageRails /\ PostedBy(poll.payment, poll.rail)
  BY DEF TickRead, WalletWell, PollOfRail
<1>2. StatusShape' /\ FormsWell' /\ Onward
  BY <1>1, SamePayments
<1>3. \A a \in answers' : TrueAnswer(a)'
  BY <1>1, AnsweredStep
<1> QED
  BY <1>1, <1>2, <1>3, PollKept DEF WalletWell

LEMMA ConfirmStep ==
    ASSUME WalletWell, NEW r, Confirm(r)
    PROVE  WalletWell'
<1>1. UNCHANGED statusVars /\ UNCHANGED poll /\ r \in PageRails
  BY DEF Confirm
<1>2. CASE Answered(forms[r].confirm, r, "confirm") /\ UNCHANGED forms
  <2>1. PostedBy(forms[r].confirm, r)
    BY DEF Confirm, WalletWell, FormsWell, ConfirmOfRail
  <2>2. \A a \in answers' : TrueAnswer(a)'
    BY <1>1, <1>2, <2>1, AnsweredStep
  <2>3. StatusShape' /\ FormsWell' /\ Onward
    BY <1>1, <1>2, SamePayments
  <2> QED
    BY <1>1, <2>2, <2>3, PollKept DEF WalletWell
<1>3. CASE forms' = [forms EXCEPT ![r].shown = "error"] /\ UNCHANGED answers
  <2> DEFINE form == [forms[r] EXCEPT !.shown = "error"]
  <2>1. /\ forms' = [forms EXCEPT ![r] = form]
        /\ DOMAIN form = DOMAIN forms[r] /\ form.posting \subseteq forms[r].posting
        /\ form.confirm = forms[r].confirm /\ form.shown = "error"
    BY <1>1, <1>3 DEF WalletWell, FormsWell, FormShape
  <2> HIDE DEF form
  <2>2. StatusShape' /\ FormsWell' /\ Onward
    BY <1>1, <2>1, TellsNothing
  <2> QED
    BY <1>1, <1>3, <2>2, PollKept, AnswersKept DEF WalletWell
<1> QED
  BY <1>2, <1>3 DEF Confirm

\* A decision is shown and the interval is stopped.
LEMMA DecisionShown ==
    ASSUME WalletWell, UNCHANGED statusVars, NEW a \in answers, answers' \subseteq answers,
           NEW outcome \in {"paid", "failed", "error"}, Show(a.rail, outcome), stopPolling,
           outcome # "error" => outcome = a.status
    PROVE  WalletWell'
<1>1. TrueAnswer(a)
  BY DEF WalletWell
<1>2. outcome # "error" => \E p \in Tracked : method[p] = a.rail /\ status[p] = outcome
  BY <1>1 DEF TrueAnswer, PostedBy
<1>3. StatusShape' /\ FormsWell' /\ Onward
  BY <1>1, <1>2, ShowsTruth DEF TrueAnswer
<1> QED
  BY <1>3, AnswersKept DEF WalletWell, PollOfRail, stopPolling

LEMMA PollAnsweredStep ==
    ASSUME WalletWell, NEW a \in answers, PollAnswered(a)
    PROVE  WalletWell'
<1>1. UNCHANGED statusVars /\ answers' \subseteq answers
  BY DEF PollAnswered, Arrives
<1>2. CASE a.status # "pending" \/ a.payment \in late
  <2>1. a.status \in {"pending", "paid", "failed"}
    BY DEF WalletWell, TrueAnswer
  <2>2. Show(a.rail, IF a.status = "pending" THEN "error" ELSE a.status) /\ stopPolling
    BY <1>2 DEF PollAnswered
  <2>3. CASE a.status = "pending"
    BY <1>1, <2>2, <2>3, DecisionShown
  <2>4. CASE a.status # "pending"
    BY <1>1, <2>1, <2>2, <2>4, DecisionShown
  <2> QED
    BY <2>3, <2>4
<1>3. CASE UNCHANGED <<forms, poll>>
  BY <1>1, <1>3, SamePayments, PollKept, AnswersKept DEF WalletWell
<1> QED
  BY <1>2, <1>3 DEF PollAnswered

LEMMA ConfirmedStep ==
    ASSUME WalletWell, NEW a \in answers, Confirmed(a)
    PROVE  WalletWell'
<1>1. UNCHANGED statusVars /\ answers' \subseteq answers
  BY DEF Confirmed, Arrives
<1>2. TrueAnswer(a)
  BY DEF WalletWell
<1>3. CASE a.status # "pending"
  BY <1>1, <1>2, <1>3, DecisionShown DEF Confirmed, TrueAnswer
<1>4. CASE a.status = "pending"
  <2> DEFINE r == a.rail
             form == [forms[r] EXCEPT !.shown = "nothing"]
  <2>1. r \in PageRails /\ UNCHANGED poll /\ forms' = [forms EXCEPT ![r].shown = "nothing"]
    BY <1>2, <1>4 DEF Confirmed, TrueAnswer
  <2> HIDE DEF r
  <2>2. /\ forms' = [forms EXCEPT ![r] = form]
        /\ DOMAIN form = DOMAIN forms[r] /\ form.posting \subseteq forms[r].posting
        /\ form.confirm = forms[r].confirm /\ form.shown = "nothing"
    BY <2>1 DEF WalletWell, FormsWell, FormShape
  <2> HIDE DEF form
  <2>3. StatusShape' /\ FormsWell' /\ Onward
    BY <1>1, <2>1, <2>2, TellsNothing
  <2> QED
    BY <1>1, <2>1, <2>3, PollKept, AnswersKept DEF WalletWell
<1> QED
  BY <1>3, <1>4

LEMMA LeaveStep ==
    ASSUME WalletWell, LeaveWallet
    PROVE  WalletWell'
<1>1. /\ UNCHANGED <<status, method>> /\ poll' = Unset /\ answers' = {}
      /\ forms' = [r \in PageRails |-> EmptyForm]
  BY DEF LeaveWallet, statusVars
<1>2. FormsWell'
  BY <1>1 DEF FormsWell, EmptyForm, FormShape, Told, PostedByOneForm, ConfirmOfRail
<1> QED
  BY <1>1, <1>2 DEF WalletWell, StatusShape, PollOfRail

LEMMA WalletStep ==
    ASSUME WalletWell, [WalletNext]_walletPageVars
    PROVE  WalletWell'
<1>1. ASSUME NEW p \in Tracked,
             payWithMpesa(p) \/ payWithCard(p) \/ payWithPayPal(p) \/ confirmBankTransfer(p)
      PROVE  WalletWell'
  BY <1>1, SubmitStep DEF payWithMpesa, payWithCard, payWithPayPal, confirmBankTransfer
<1>2. ASSUME NEW r \in PageRails, StartAnswered(r)
      PROVE  WalletWell'
  BY <1>2, FollowStep, StartFailsStep DEF StartAnswered
<1>3. ASSUME confirmCard \/ capturePayPal
      PROVE  WalletWell'
  BY <1>3, ConfirmStep DEF confirmCard, capturePayPal
<1>4. ASSUME NEW p \in Tracked, GetsLate(p)
      PROVE  WalletWell'
  <2>1. UNCHANGED statusVars /\ UNCHANGED <<forms, poll, answers>>
    BY <1>4 DEF GetsLate
  <2> QED
    BY <2>1, SamePayments, PollKept, AnswersKept DEF WalletWell
<1>5. CASE UNCHANGED walletPageVars
  <2>1. UNCHANGED statusVars /\ UNCHANGED <<forms, poll, answers>>
    BY <1>5 DEF walletPageVars, browser
  <2> QED
    BY <2>1, SamePayments, PollKept, AnswersKept DEF WalletWell
<1> QED
  BY <1>1, <1>2, <1>3, <1>4, <1>5, CreatedStep, TickStep, PollAnsweredStep, ConfirmedStep,
     LeaveStep, DecideStep DEF WalletNext

\* A form of the wallet page tells of a payment of its rail, and of what has
\* happened to it (WalletPage): an answer carries what was so when it was read,
\* a decision is final, and form, interval and confirmation never leave the rail.
THEOREM OutcomesAreTrue == ConsoleSpec => []OutcomeShownHappened
<1>1. ASSUME ConsoleInit PROVE WalletWell
  <2>1. WalletInit
    BY <1>1, PagesInit
  <2>2. StatusShape
    BY <2>1 DEF WalletInit, StatusInit, StatusShape
  <2>3. FormsWell
    BY <2>1 DEF WalletInit, FormsWell, EmptyForm, FormShape, Told, PostedByOneForm, ConfirmOfRail
  <2> QED
    BY <2>1, <2>2, <2>3 DEF WalletInit, WalletWell, PollOfRail
<1>2. WalletWell /\ [ConsoleNext]_consoleVars => WalletWell'
  BY WalletStep, StepsOfWallet
<1>3. WalletWell => OutcomeShownHappened
  BY DEF WalletWell, FormsWell, Told, OutcomeShownHappened
<1> QED
  BY <1>1, <1>2, <1>3, PTL DEF ConsoleSpec

-----------------------------------------------------------------------------
(* The history.                                                            *)

\* Prefixes.
LEMMA LowerOfTwo ==
    ASSUME NEW a \in Int, NEW b \in Int
    PROVE  Min({a, b}) = IF a <= b THEN a ELSE b
  BY DEF Min

\* A set of numbers has a smallest one.
LEMMA Smallest ==
    ASSUME NEW S, S \subseteq Nat, S # {}
    PROVE  Min(S) \in S /\ \A n \in S : Min(S) <= n
<1>1. PICK m \in S : \A n \in S : ~(<<n, m>> \in OpToRel(<, Nat))
  BY NatLessThanWellFounded, WFMin
<1>2. ASSUME NEW n \in S PROVE m <= n
  <2>1. m \in Nat /\ n \in Nat
    OBVIOUS
  <2>2. ~(n < m)
    BY <1>1, <2>1 DEF OpToRel
  <2> QED
    BY <2>1, <2>2
<1> QED
  BY <1>2 DEF Min

LEMMA Largest ==
    ASSUME NEW S, IsFiniteSet(S), \A x \in S : x \in Nat, S # {}
    PROVE  Max(S) \in S /\ \A n \in S : n <= Max(S)
<1> DEFINE Bad == {s \in SUBSET S : s # {} /\ ~\E m \in s : \A n \in s : m >= n}
<1>1. Bad = {}
  <2> SUFFICES ASSUME Bad # {} PROVE FALSE
    OBVIOUS
  <2>1. PICK s \in Bad : \A t \in Bad : t \subseteq s => t = s
    <3>1. Bad \subseteq SUBSET S
      OBVIOUS
    <3>2. IsFiniteSet(S) /\ Bad # {}
      OBVIOUS
    <3> HIDE DEF Bad
    <3> QED
      BY <3>1, <3>2, SmallestException
  <2>2. s \subseteq S /\ s # {} /\ ~\E m \in s : \A n \in s : m >= n
    OBVIOUS
  <2>3. PICK x \in s : TRUE
    BY <2>2
  <2>4. CASE s = {x}
    <3>1. x \in Nat
      BY <2>2
    <3> QED
      BY <2>2, <2>4, <3>1
  <2>5. CASE s # {x}
    <3>1. s \ {x} \in SUBSET S /\ s \ {x} # {} /\ s \ {x} \notin Bad
      BY <2>1, <2>2, <2>5
    <3>2. PICK m \in s \ {x} : \A n \in s \ {x} : m >= n
      BY <3>1
    <3>3. m \in Nat /\ x \in Nat /\ \A n \in s : n \in Nat
      BY <2>2
    <3>4. \A n \in s : (IF x >= m THEN x ELSE m) >= n
      BY <3>2, <3>3
    <3> QED
      BY <2>2, <3>4
  <2> QED
    BY <2>4, <2>5
<1>2. PICK m \in S : \A n \in S : m >= n
  BY <1>1
<1>3. Max(S) \in S /\ \A n \in S : Max(S) >= n
  BY <1>2 DEF Max
<1> QED
  BY <1>3

LEMMA PrefixOfLonger ==
    ASSUME NEW S, NEW s \in Seq(S), NEW e \in S, NEW n \in 0 .. Len(s)
    PROVE  Prefix(Append(s, e), n) = Prefix(s, n)
  BY LowerOfTwo DEF Prefix

LEMMA WholePrefix ==
    ASSUME NEW S, NEW s \in Seq(S)
    PROVE  Prefix(s, Len(s)) = s
  BY LowerOfTwo DEF Prefix

\* As many names as there are things named.
LEMMA SameNumber ==
    ASSUME NEW S, IsFiniteSet(S), NEW h, \A x, y \in S : h[x] = h[y] => x = y
    PROVE  Cardinality({h[x] : x \in S}) = Cardinality(S)
<1> DEFINE T == {h[x] : x \in S}
           g == [x \in S |-> h[x]]
<1>1. g \in Bijection(S, T)
  BY DEF Bijection, Injection, Surjection, IsInjective
<1> HIDE DEF g, T
<1>2. Cardinality(S) = Cardinality(T)
  BY <1>1, FS_Bijection DEF ExistsBijection
<1> QED
  BY <1>2 DEF T

\* However the database orders the rows it has found, it gives each of them once.
LEMMA RowsOnce ==
    ASSUME NEW recs, NEW W, IsFiniteSet(W), NEW rows \in NewestFirst(recs, W)
    PROVE  /\ rows \in Seq(W) /\ Len(rows) = Cardinality(W) /\ ToSet(rows) = W
           /\ \A k \in 1 .. Len(rows) : rows[k] \in W
           /\ \A k, l \in 1 .. Len(rows) : rows[k] = rows[l] => k = l
           /\ \A i \in W : \E k \in 1 .. Len(rows) : rows[k] = i
<1> DEFINE n == Cardinality(W)
           I == {rows[k] : k \in 1 .. n}
<1>1. n \in Nat
  BY FS_CardinalityType
<1>2. rows \in [1 .. n -> W] /\ \A k, l \in 1 .. n : rows[k] = rows[l] => k = l
  BY DEF NewestFirst, SetToSeqs
<1> HIDE DEF n
<1>3. rows \in Seq(W) /\ Len(rows) = n /\ \A k \in 1 .. n : rows[k] \in W
  BY <1>1, <1>2
<1>4. I = W
  <2>1. IsFiniteSet(1 .. n) /\ Cardinality(1 .. n) = n
    BY <1>1, FS_Interval
  <2>2. Cardinality(I) = n
    <3>1. IsFiniteSet(1 .. n)
      BY <2>1
    <3> DEFINE S == 1 .. n
    <3>2. IsFiniteSet(S) /\ \A k, l \in S : rows[k] = rows[l] => k = l
      BY <1>2, <3>1
    <3> HIDE DEF S
    <3>3. Cardinality({rows[k] : k \in S}) = Cardinality(S)
      BY ONLY <3>2, SameNumber
    <3>4. Cardinality({rows[k] : k \in 1 .. n}) = Cardinality(1 .. n)
      BY <3>3 DEF S
    <3> QED
      BY <2>1, <3>4, Zenon
  <2>3. I \in SUBSET W
    BY <1>3
  <2> HIDE DEF I
  <2> QED
    BY <2>2, <2>3, FS_Subset DEF n
<1>5. ToSet(rows) = I
  BY <1>3 DEF ToSet
<1> QED
  BY <1>3, <1>2, <1>4, <1>5 DEF n

LEMMA PrefixLength ==
    ASSUME NEW S, NEW s \in Seq(S), NEW n \in Nat
    PROVE  /\ Len(Prefix(s, n)) = (IF n <= Len(s) THEN n ELSE Len(s))
           /\ n > Len(s) => Prefix(s, n) = s
  BY LowerOfTwo DEF Prefix

\* g joins the first i of the sequences, for each i.
Joins(seqs, g) ==
    g = [i \in 1 .. Len(seqs) |-> IF i = 1 THEN seqs[i] ELSE g[i - 1] \o seqs[i]]

LEMMA FlattenIsRecursive ==
    ASSUME NEW seqs, Len(seqs) # 0
    PROVE  FlattenSeq(seqs) = (CHOOSE g : Joins(seqs, g))[Len(seqs)]
  BY DEF FlattenSeq, Joins

LEMMA JoinsUnique ==
    ASSUME NEW seqs, Len(seqs) \in Nat, NEW g, NEW h, Joins(seqs, g), Joins(seqs, h)
    PROVE  \A i \in 1 .. Len(seqs) : g[i] = h[i]
<1> DEFINE Bad == {i \in 1 .. Len(seqs) : g[i] # h[i]}
<1> SUFFICES ASSUME Bad # {} PROVE FALSE
  OBVIOUS
<1>1. Bad \subseteq Nat
  OBVIOUS
<1>u. ASSUME NEW f, Joins(seqs, f), NEW i \in 1 .. Len(seqs)
      PROVE  f[i] = IF i = 1 THEN seqs[i] ELSE f[i - 1] \o seqs[i]
  <2> DEFINE body == [j \in 1 .. Len(seqs) |-> IF j = 1 THEN seqs[j] ELSE f[j - 1] \o seqs[j]]
  <2>1. f = body
    BY <1>u DEF Joins
  <2>2. f[i] = body[i]
    BY <2>1, Zenon
  <2> QED
    BY <2>2
<1>2. PICK i \in Bad : \A j \in Bad : i <= j
  <2> HIDE DEF Bad
  <2> QED
    BY <1>1, Smallest
<1>3. i \in 1 .. Len(seqs) /\ g[i] # h[i]
  OBVIOUS
<1>4. i # 1 => i - 1 \in 1 .. Len(seqs) /\ i - 1 \notin Bad
  BY <1>2, <1>3
<1>5. i # 1 => g[i - 1] = h[i - 1]
  BY <1>4
<1> HIDE DEF Bad
<1> QED
  BY <1>3, <1>5, <1>u

LEMMA FlattenJoins ==
    ASSUME NEW seqs, Len(seqs) \in Nat \ {0}, NEW g, Joins(seqs, g)
    PROVE  FlattenSeq(seqs) = g[Len(seqs)]
<1> DEFINE h == CHOOSE f : Joins(seqs, f)
<1>1. Joins(seqs, h)
  BY Zenon
<1>2. FlattenSeq(seqs) = h[Len(seqs)]
  BY FlattenIsRecursive
<1>3. Len(seqs) \in 1 .. Len(seqs)
  OBVIOUS
<1> HIDE DEF h
<1> QED
  BY <1>1, <1>2, <1>3, JoinsUnique

\* Cut anywhere, into pieces that may be empty at the end, a sequence is its pieces,
\* put one after the other.
\* cut says where each of the pieces ends.
IsCut(rows, count, cut, pieces) ==
    /\ cut \in [0 .. count -> Nat] /\ cut[0] = 0 /\ cut[count] >= Len(rows)
    /\ Len(pieces) = count
    /\ \A k \in 1 .. count :
           /\ cut[k - 1] <= cut[k]
           /\ pieces[k] = SubSeq(rows, cut[k - 1] + 1, Min({cut[k], Len(rows)}))

LEMMA PiecesJoined ==
    ASSUME NEW S, NEW rows \in Seq(S), NEW count \in Nat \ {0}, NEW cut, NEW pieces,
           IsCut(rows, count, cut, pieces)
    PROVE  FlattenSeq(pieces) = rows
<1>0. /\ cut \in [0 .. count -> Nat] /\ cut[0] = 0 /\ cut[count] >= Len(rows)
      /\ Len(pieces) = count
      /\ \A k \in 1 .. count : cut[k - 1] <= cut[k]
      /\ \A k \in 1 .. count :
             pieces[k] = SubSeq(rows, cut[k - 1] + 1, Min({cut[k], Len(rows)}))
  BY DEF IsCut
<1> DEFINE end(k) == IF cut[k] <= Len(rows) THEN cut[k] ELSE Len(rows)
           g == [k \in 1 .. count |-> SubSeq(rows, 1, end(k))]
<1>1. Len(rows) \in Nat
  OBVIOUS
<1>2. ASSUME NEW k \in 1 .. count
      PROVE  pieces[k] = SubSeq(rows, cut[k - 1] + 1, end(k))
  <2>0. cut[k] \in Int /\ Len(rows) \in Int
    BY <1>0
  <2>1. Min({cut[k], Len(rows)}) = end(k)
    BY <2>0, LowerOfTwo, Zenon
  <2> QED
    BY <1>0, <2>1, Zenon
<1>3. /\ \A a, b \in Nat : a <= b /\ b <= Len(rows) =>
             SubSeq(rows, 1, a) \o SubSeq(rows, a + 1, b) = SubSeq(rows, 1, b)
      /\ \A a, b \in Int : b < a => SubSeq(rows, a, b) = << >>
      /\ SubSeq(rows, 1, Len(rows)) = rows /\ rows \o << >> = rows
  <2>1. ASSUME NEW a \in Nat, NEW b \in Nat, a <= b, b <= Len(rows)
        PROVE  SubSeq(rows, 1, a) \o SubSeq(rows, a + 1, b) = SubSeq(rows, 1, b)
    <3>1. 1 \in 1 .. Len(rows) + 1 /\ a \in 1 - 1 .. Len(rows) /\ b \in a .. Len(rows)
      BY <1>1, <2>1
    <3> QED
      BY <3>1, ConcatAdjacentSubSeq, Zenon
  <2>2. \A a, b \in Int : b < a => SubSeq(rows, a, b) = << >>
    BY SubSeqEmpty, Zenon
  <2>3. SubSeq(rows, 1, Len(rows)) = rows
    BY SubSeqFull, Zenon
  <2>4. rows \o << >> = rows
    OBVIOUS
  <2> QED
    BY <2>1, <2>2, <2>3, <2>4
<1>4. ASSUME NEW k \in 1 .. count, k # 1
      PROVE  SubSeq(rows, 1, end(k - 1)) \o pieces[k] = SubSeq(rows, 1, end(k))
  <2>1. pieces[k] = SubSeq(rows, cut[k - 1] + 1, end(k))
    BY <1>2
  <2>2. cut[k - 1] \in Nat /\ cut[k] \in Nat /\ cut[k - 1] <= cut[k]
    BY <1>0
  <2>3. CASE cut[k - 1] <= Len(rows)
    <3>1. end(k - 1) = cut[k - 1] /\ cut[k - 1] <= end(k) /\ end(k) <= Len(rows) /\ end(k) \in Nat
      BY <1>1, <2>2, <2>3
    <3> HIDE DEF end
    <3> QED
      BY <1>3, <2>1, <2>2, <3>1
  <2>4. CASE cut[k - 1] > Len(rows)
    <3>1. end(k - 1) = Len(rows) /\ end(k) = Len(rows)
      BY <1>1, <2>2, <2>4
    <3> HIDE DEF end
    <3>2. cut[k - 1] + 1 \in Int /\ end(k) \in Int /\ end(k) < cut[k - 1] + 1
      BY <1>1, <2>2, <2>4, <3>1
    <3>3. pieces[k] = << >>
      BY <1>3, <2>1, <3>2
    <3> QED
      BY <1>3, <3>1, <3>3
  <2>5. cut[k - 1] <= Len(rows) \/ cut[k - 1] > Len(rows)
    BY <1>1, <2>2
  <2> QED
    BY <2>3, <2>4, <2>5, Zenon
<1>5. pieces[1] = SubSeq(rows, 1, end(1))
  <2>1. 1 \in 1 .. count /\ cut[1 - 1] + 1 = 1
    BY <1>0
  <2> QED
    BY <1>2, <2>1, Zenon
<1>6. end(count) = Len(rows)
  BY <1>0, <1>1
<1> HIDE DEF end
<1>7. \A k \in 1 .. count : g[k] = SubSeq(rows, 1, end(k))
  OBVIOUS
<1>8. ASSUME NEW k \in 1 .. count
      PROVE  g[k] = IF k = 1 THEN pieces[k] ELSE g[k - 1] \o pieces[k]
  <2>1. CASE k = 1
    BY <2>1, <1>5, <1>7
  <2>2. CASE k # 1
    <3>1. k - 1 \in 1 .. count
      BY <2>2
    <3> QED
      BY <2>2, <3>1, <1>4, <1>7
  <2> QED
    BY <2>1, <2>2
<1>9. Joins(pieces, g)
  <2>1. g = [k \in 1 .. count |-> IF k = 1 THEN pieces[k] ELSE g[k - 1] \o pieces[k]]
    BY <1>8
  <2> QED
    BY <1>0, <1>1, <2>1 DEF Joins
<1>10. g[count] = rows
  BY <1>3, <1>6, <1>7
<1> HIDE DEF g
<1> QED
  BY <1>0, <1>1, <1>9, <1>10, FlattenJoins

\* The pages of a list are the list.
LEMMA PagesJoined ==
    ASSUME NEW S, NEW rows \in Seq(S), NEW limit \in Nat \ {0}, NEW count \in Nat \ {0},
           Len(rows) <= count,
           NEW pages,
           pages = [k \in 1 .. count |->
                       SubSeq(rows, (k - 1) * limit + 1, Min({(k - 1) * limit + limit, Len(rows)}))]
    PROVE  FlattenSeq(pages) = rows
<1> DEFINE cut == [k \in 0 .. count |-> k * limit]
<1>1. \A k \in Nat : k * limit \in Nat /\ (k + 1) * limit = k * limit + limit
  OBVIOUS
<1>2. cut \in [0 .. count -> Nat] /\ \A k \in 0 .. count : cut[k] = k * limit
  BY <1>1
<1>3. cut[0] = 0
  BY <1>2
<1>4. count * limit >= count /\ count \in 0 .. count
  OBVIOUS
<1>5. ASSUME NEW k \in 1 .. count
      PROVE  cut[k - 1] = (k - 1) * limit /\ cut[k] = (k - 1) * limit + limit
  <2>1. k - 1 \in Nat /\ (k - 1) + 1 = k /\ k - 1 \in 0 .. count
    OBVIOUS
  <2>2. ((k - 1) + 1) * limit = (k - 1) * limit + limit
    BY <1>1, <2>1
  <2> QED
    BY <1>2, <2>1, <2>2
<1> HIDE DEF cut
<1>6. /\ Len(pages) = count
      /\ \A k \in 1 .. count :
             pages[k] = SubSeq(rows, cut[k - 1] + 1, Min({cut[k], Len(rows)}))
  <2>1. Len(pages) = count
    OBVIOUS
  <2>2. ASSUME NEW k \in 1 .. count
        PROVE  pages[k] = SubSeq(rows, cut[k - 1] + 1, Min({cut[k], Len(rows)}))
    <3>1. pages[k] = SubSeq(rows, (k - 1) * limit + 1, Min({(k - 1) * limit + limit, Len(rows)}))
      BY Zenon
    <3> QED
      BY <3>1, <1>5, Zenon
  <2> QED
    BY <2>1, <2>2
<1>7. cut[count] >= Len(rows)
  <2>1. Len(rows) \in Nat /\ cut[count] = count * limit /\ count * limit \in Nat
    BY <1>1, <1>2, <1>4
  <2> QED
    BY <1>4, <2>1
<1>8. \A k \in 1 .. count : cut[k - 1] <= cut[k]
  <2> TAKE k \in 1 .. count
  <2>1. cut[k - 1] \in Nat /\ cut[k] = cut[k - 1] + limit
    <3>1. k - 1 \in 0 .. count
      OBVIOUS
    <3> QED
      BY <1>2, <1>5, <3>1
  <2> QED
    BY <2>1
<1> QED
  <2>1. cut \in [0 .. count -> Nat]
    BY <1>2, Zenon
  <2> QED
    <3>1. IsCut(rows, count, cut, pages)
      BY <2>1, <1>3, <1>6, <1>7, <1>8 DEF IsCut
    <3> QED
      BY ONLY <3>1, rows \in Seq(S), count \in Nat \ {0}, PiecesJoined

\* A filter the bar can be set to, as far as the queries read it.
Settable(f) ==
    /\ DOMAIN f = {"type", "status", "from", "to", "search", "limit", "offset"}
    /\ f.type \in Types \cup {""} /\ f.status \in Statuses \cup {""}

\* Records that count for the user are records, at the same places.
LEMMA CountedRecords ==
    ASSUME NEW recs \in Seq(Record), isPlatformAdmin \in BOOLEAN
    PROVE  /\ Counted(recs) \in Seq(Record) /\ DOMAIN Counted(recs) = DOMAIN recs
           /\ \A i \in DOMAIN recs :
                  /\ Counted(recs)[i].own = (isPlatformAdmin \/ recs[i].own)
                  /\ \A field \in {"type", "status", "costMinor", "latencyMs", "createdAt", "words"} :
                         Counted(recs)[i][field] = recs[i][field]
<1> DEFINE same(i) == [recs[i] EXCEPT !.own = isPlatformAdmin \/ recs[i].own]
<1>1. ASSUME NEW i \in DOMAIN recs
      PROVE  /\ same(i) \in Record
             /\ same(i).own = (isPlatformAdmin \/ recs[i].own)
             /\ \A field \in {"type", "status", "costMinor", "latencyMs", "createdAt", "words"} :
                    same(i)[field] = recs[i][field]
  <2>1. recs[i] \in Record
    OBVIOUS
  <2>2. recs[i].own \in BOOLEAN
    BY <2>1 DEF Record
  <2>3. (isPlatformAdmin \/ recs[i].own) \in BOOLEAN
    BY <2>2
  <2> DEFINE o == isPlatformAdmin \/ recs[i].own
  <2> HIDE DEF o
  <2> QED
    BY <2>1, <2>3 DEF Record, o
<1>2. Counted(recs) = [i \in DOMAIN recs |-> same(i)]
  BY DEF Counted
<1> HIDE DEF same
<1>3. Counted(recs) \in Seq(Record) /\ DOMAIN Counted(recs) = DOMAIN recs
  <2>1. [i \in 1 .. Len(recs) |-> same(i)] \in Seq(Record)
    BY <1>1
  <2> QED
    BY <1>2, <2>1
<1> QED
  BY <1>1, <1>2, <1>3

\* The list and the file each translate the filter into a query of their own
\* (Reports), and so do the totals; the queries find the same records, among those
\* that count.
LEMMA QueriesAgree ==
    ASSUME NEW recs \in Seq(Record), NEW f, Settable(f)
    PROVE  /\ exportWhere(recs, f) = historyWhere(recs, f)
           /\ historyWhere(recs, f) \subseteq 1 .. Len(recs)
           /\ IsFiniteSet(historyWhere(recs, f))
<1>1. "" \notin Types /\ "" \notin Statuses
  BY ReportsAssumption DEF Statuses
<1>2. ASSUME NEW i \in DOMAIN recs
      PROVE  /\ f.type \in {"", recs[i].type} <=> (f.type \in Types => recs[i].type = f.type)
             /\ f.status \in {"", recs[i].status} <=> (f.status # "" => recs[i].status = f.status)
  BY <1>1 DEF Settable, Record
<1>3. exportWhere(recs, f) = historyWhere(recs, f)
  BY <1>2 DEF exportWhere, historyWhere
<1>4. historyWhere(recs, f) \subseteq 1 .. Len(recs)
  <2>1. historyWhere(recs, f) \subseteq DOMAIN recs
    BY DEF historyWhere
  <2> QED
    BY <2>1
<1>5. IsFiniteSet(1 .. Len(recs))
  BY FS_Interval
<1>6. IsFiniteSet(historyWhere(recs, f))
  BY <1>4, <1>5, FS_Subset
<1> QED
  BY <1>3, <1>4, <1>6

LEMMA TotalsAreOfTheCounted ==
    ASSUME NEW recs \in Seq(Record), NEW f, Settable(f), isPlatformAdmin \in BOOLEAN
    PROVE  /\ analyticsWhere(recs, f) = historyWhere(Counted(recs), f)
           /\ historyWhere(recs, f) \subseteq analyticsWhere(recs, f)
           /\ ~isPlatformAdmin => analyticsWhere(recs, f) = historyWhere(recs, f)
<1>1. "" \notin Types /\ "" \notin Statuses
  BY ReportsAssumption DEF Statuses
<1>2. ASSUME NEW i \in DOMAIN recs
      PROVE  /\ f.type \in {"", recs[i].type} <=> (f.type \in Types => recs[i].type = f.type)
             /\ f.status \in {"", recs[i].status} <=> (f.status \in Statuses => recs[i].status = f.status)
             /\ f.from # Null => (Midnight(f.from) <= recs[i].createdAt <=> recs[i].createdAt >= Midnight(f.from))
  BY <1>1 DEF Settable, Record
<1>r. ASSUME NEW i \in DOMAIN recs PROVE recs[i].own \in BOOLEAN
  <2>1. recs[i] \in Record
    OBVIOUS
  <2> QED
    BY <2>1 DEF Record
<1>3. historyWhere(recs, f) \subseteq analyticsWhere(recs, f)
  BY <1>2 DEF analyticsWhere, historyWhere
<1>4. ~isPlatformAdmin => analyticsWhere(recs, f) \subseteq historyWhere(recs, f)
  BY <1>2 DEF analyticsWhere, historyWhere
<1>5. ASSUME NEW i \in DOMAIN recs
      PROVE  i \in analyticsWhere(recs, f) <=> i \in historyWhere(Counted(recs), f)
  <2> DEFINE r == recs[i]
             c == Counted(recs)[i]
  <2>1. /\ i \in DOMAIN Counted(recs)
        /\ c.own = (isPlatformAdmin \/ r.own)
        /\ c.type = r.type /\ c.status = r.status /\ c.createdAt = r.createdAt /\ c.words = r.words
    BY <1>5, CountedRecords
  <2>2. c.own <=> (~isPlatformAdmin => r.own)
    BY <2>1, <1>r
  <2>3. \A word : Found(c, word) <=> Found(r, word)
    BY <2>1 DEF Found
  <2> DEFINE Asked(x) == /\ f.type \in {"", x.type} /\ f.status \in {"", x.status}
                         /\ f.from # Null => x.createdAt >= Midnight(f.from)
                         /\ f.to # Null => x.createdAt <= Midnight(f.to)
                         /\ Found(x, f.search)
  <2>4. i \in historyWhere(Counted(recs), f) <=> c.own /\ Asked(c)
    BY <2>1 DEF historyWhere
  <2>5. i \in analyticsWhere(recs, f) <=> (~isPlatformAdmin => r.own) /\ Asked(r)
    BY <1>2, <1>5 DEF analyticsWhere
  <2>6. Asked(c) <=> Asked(r)
    BY <2>1, <2>3
  <2> QED
    BY <2>2, <2>4, <2>5, <2>6
<1>6. analyticsWhere(recs, f) \subseteq DOMAIN recs /\ historyWhere(Counted(recs), f) \subseteq DOMAIN recs
  BY CountedRecords DEF analyticsWhere, historyWhere
<1> QED
  BY <1>3, <1>4, <1>5, <1>6

\* The page of the list does not change which records match.
LEMMA SameMatches ==
    ASSUME NEW recs, NEW f, NEW g, Settable(f), Settable(g), ReportOf(f) = ReportOf(g)
    PROVE  HistoryTotal(recs, f) = HistoryTotal(recs, g)
<1>1. f.type = g.type /\ f.status = g.status /\ f.from = g.from /\ f.to = g.to /\ f.search = g.search
  BY DEF ReportOf, Settable
<1> QED
  BY <1>1 DEF HistoryTotal, historyWhere

LEMMA ReportFilter ==
    ASSUME NEW f, Settable(f)
    PROVE  Settable(ReportOf(f)) /\ ReportOf(ReportOf(f)) = ReportOf(f)
  BY DEF Settable, ReportOf

\* A report that is not cut off counts and sums what the list and the file hold, or
\* would of the records that count.
LEMMA ReportOfMatches ==
    ASSUME NEW recs \in Seq(Record), NEW f, Settable(f), isPlatformAdmin \in BOOLEAN,
           NEW told \in analytics(recs, f), ~told.truncated
    PROVE  /\ told.report = Report(recs, exportWhere(Counted(recs), f))
           /\ told.report.verifications = HistoryTotal(Counted(recs), f)
<1> DEFINE W == analyticsWhere(recs, f)
<1>1. PICK all \in NewestFirst(recs, W) :
          told = [report    |-> Report(recs, ToSet(Prefix(all, MAX_ANALYTICS_ROWS))),
                  truncated |-> Len(Prefix(all, MAX_ANALYTICS_ROWS)) = MAX_ANALYTICS_ROWS]
  BY DEF analytics
<1>2. W = historyWhere(Counted(recs), f) /\ W = exportWhere(Counted(recs), f) /\ IsFiniteSet(W)
  BY CountedRecords, QueriesAgree, TotalsAreOfTheCounted
<1>3. MAX_ANALYTICS_ROWS \in Nat
  BY ReportsAssumption
<1> HIDE DEF W
<1>4. all \in Seq(W) /\ Len(all) = Cardinality(W) /\ ToSet(all) = W
  BY <1>2, RowsOnce
<1> DEFINE rows == Prefix(all, MAX_ANALYTICS_ROWS)
<1>5. Len(rows) # MAX_ANALYTICS_ROWS
  <2>1. ASSUME NEW x, NEW c PROVE [report |-> x, truncated |-> c].truncated = c
    OBVIOUS
  <2>2. told.truncated = (Len(rows) = MAX_ANALYTICS_ROWS)
    BY <1>1, <2>1, Zenon
  <2> QED
    BY <2>2, Zenon
<1>6. MAX_ANALYTICS_ROWS > Len(all)
  BY <1>3, <1>4, <1>5, PrefixLength
<1>7. rows = all
  BY <1>3, <1>4, <1>6, PrefixLength
<1> HIDE DEF rows
<1>8. told.report = Report(recs, W)
  <2>1. ASSUME NEW x, NEW c PROVE [report |-> x, truncated |-> c].report = x
    OBVIOUS
  <2>2. told.report = Report(recs, ToSet(rows))
    BY <1>1, <2>1, Zenon DEF rows
  <2> QED
    BY <2>2, <1>4, <1>7, Zenon
<1>9. Report(recs, W).verifications = Cardinality(W)
  BY DEF Report
<1> QED
  BY <1>2, <1>8, <1>9 DEF HistoryTotal

\* What the page holds is of the records of some moment.
WasPage(rows, f) == \E n \in 0 .. Len(records) : rows \in historyItems(Prefix(records, n), f)
WasTotal(total, f) == \E n \in 0 .. Len(records) : total = HistoryTotal(Prefix(records, n), f)
WasCounted(total, f) ==
    \E n \in 0 .. Len(records) : total = HistoryTotal(Counted(Prefix(records, n)), f)

\* A request asks for the filters that are in force, and read them of some moment.
ListAsks(q) ==
    /\ DOMAIN q = {"asks", "rows", "total"} /\ q.asks = debounced
    /\ q.rows # Null => WasPage(q.rows, debounced)
    /\ q.total # Null => WasTotal(q.total, debounced)

FiltersWell ==
    /\ records \in Seq(Record) /\ isPlatformAdmin \in BOOLEAN
    /\ Settable(filters) /\ Settable(debounced)

ListWell ==
    /\ DOMAIN list = {"rows", "total", "loading", "error"}
    /\ \A q \in lists : ListAsks(q)
    /\ ~list.loading /\ ~list.error =>
           WasPage(list.rows, debounced) /\ WasTotal(list.total, debounced)

CardsWell ==
    /\ summaries \subseteq {ReportOf(debounced)}
    /\ summaries = {} /\ summary # Null =>
           /\ summary.filter = ReportOf(debounced)
           /\ ~summary.truncated => WasCounted(summary.report.verifications, debounced)

HistoryWell == FiltersWell /\ ListWell /\ CardsWell

\* What is read now is of this moment.
LEMMA ReadsNow ==
    ASSUME FiltersWell, NEW f
    PROVE  /\ \A rows \in historyItems(records, f) : WasPage(rows, f)
           /\ WasTotal(HistoryTotal(records, f), f)
           /\ WasCounted(HistoryTotal(Counted(records), f), f)
<1>1. Len(records) \in 0 .. Len(records) /\ Prefix(records, Len(records)) = records
  BY WholePrefix DEF FiltersWell
<1> QED
  BY <1>1 DEF WasPage, WasTotal, WasCounted

\* What was of some moment stays so.
LEMMA RecordsGrow ==
    ASSUME HistoryWell, RecordWritten, UNCHANGED historyPageVars
    PROVE  HistoryWell'
<1>1. PICK r \in Contents : records' = Append(records, r)
  BY DEF RecordWritten
<1>2. r \in Record /\ records \in Seq(Record)
  BY ReportsAssumption DEF HistoryWell, FiltersWell
<1>3. records' \in Seq(Record) /\ Len(records') = Len(records) + 1 /\ Len(records) \in Nat
  BY <1>1, <1>2
<1>4. \A n \in 0 .. Len(records) : n \in 0 .. Len(records') /\ Prefix(records', n) = Prefix(records, n)
  BY <1>1, <1>2, <1>3, PrefixOfLonger
<1>5. ASSUME NEW x, NEW f
      PROVE  /\ WasPage(x, f) => WasPage(x, f)'
             /\ WasTotal(x, f) => WasTotal(x, f)'
             /\ WasCounted(x, f) => WasCounted(x, f)'
  <2>1. UNCHANGED isPlatformAdmin
    BY DEF RecordWritten
  <2> QED
    BY <1>4, <2>1 DEF WasPage, WasTotal, WasCounted, Counted
<1>6. UNCHANGED <<isPlatformAdmin, filters, debounced, list, lists, summary, summaries>>
  BY DEF RecordWritten, historyPageVars, listVars, summaryVars
<1>7. FiltersWell'
  BY <1>3, <1>6 DEF HistoryWell, FiltersWell
<1>8. ListWell'
  BY <1>5, <1>6 DEF HistoryWell, ListWell, ListAsks
<1>9. CardsWell'
  BY <1>5, <1>6 DEF HistoryWell, CardsWell
<1> QED
  BY <1>7, <1>8, <1>9 DEF HistoryWell

\* New filters are asked for: the table waits for them, and so do the cards if
\* they are new for them too.
LEMMA AsksAgain ==
    ASSUME HistoryWell, UNCHANGED <<records, isPlatformAdmin>>,
           Settable(filters)', Settable(debounced)',
           NEW f, f = debounced', Load(f), Summarize(f)
    PROVE  HistoryWell'
<1>1. FiltersWell'
  BY DEF HistoryWell, FiltersWell
<1>2. ListWell'
  BY DEF HistoryWell, ListWell, ListAsks, Load, ListRequest
<1>3. CardsWell'
  <2>1. CASE ReportOf(f) = ReportOf(debounced)
    <3>1. UNCHANGED <<summary, summaries>>
      BY <2>1 DEF Summarize
    <3>2. ASSUME NEW x, WasCounted(x, debounced)
          PROVE  WasCounted(x, f)'
      BY <2>1, <3>2, SameMatches DEF WasCounted, Counted, HistoryWell, FiltersWell
    <3> QED
      BY <2>1, <3>1, <3>2 DEF HistoryWell, CardsWell
  <2>2. CASE ReportOf(f) # ReportOf(debounced)
    BY <2>2 DEF Summarize, CardsWell
  <2> QED
    BY <2>1, <2>2
<1> QED
  BY <1>1, <1>2, <1>3 DEF HistoryWell

LEMMA SetFiltersStep ==
    ASSUME HistoryWell, NEW f, Settable(f), SetFilters(f)
    PROVE  HistoryWell'
<1>1. Settable([f EXCEPT !.search = debounced.search])
  BY DEF Settable
<1>2. Settable(filters)' /\ Settable(debounced)' /\ UNCHANGED <<records, isPlatformAdmin>>
      /\ Load(debounced') /\ Summarize(debounced')
  BY <1>1 DEF SetFilters, Settable
<1> QED
  BY <1>2, AsksAgain

LEMMA SettableChanges ==
    ASSUME NEW f, Settable(f)
    PROVE  /\ \A change \in FilterChanges : Settable([f EXCEPT ![change[1]] = change[2]])
           /\ \A n : Settable([f EXCEPT !.offset = n]) /\ Settable([f EXCEPT !.limit = n])
           /\ \A n : Settable([f EXCEPT !.limit = n, !.offset = 0])
<1>1. ASSUME NEW change \in FilterChanges
      PROVE  /\ change[1] = "type" => change[2] \in Types \cup {""}
             /\ change[1] = "status" => change[2] \in Statuses \cup {""}
  BY HistoryAssumption
<1> QED
  BY <1>1 DEF Settable

LEMMA FirstFilters == Settable(DEFAULT_FILTERS)
  BY DEF Settable, DEFAULT_FILTERS

LEMMA FilterBarStep ==
    ASSUME HistoryWell, FilterBar
    PROVE  HistoryWell'
<1>1. ASSUME NEW change \in FilterChanges, handleFilterChange([filters EXCEPT ![change[1]] = change[2]])
      PROVE  HistoryWell'
  <2> DEFINE next == [filters EXCEPT ![change[1]] = change[2]]
  <2>1. Settable(next) /\ SetFilters([next EXCEPT !.offset = 0])
    BY <1>1, SettableChanges DEF handleFilterChange, HistoryWell, FiltersWell
  <2> HIDE DEF next
  <2> QED
    BY <2>1, SettableChanges, SetFiltersStep
<1>2. CASE handleReset
  BY <1>2, FirstFilters, SettableChanges, SetFiltersStep DEF handleReset
<1> QED
  BY <1>1, <1>2 DEF FilterBar

LEMMA PaginateStep ==
    ASSUME HistoryWell, Paginate
    PROVE  HistoryWell'
<1>1. PICK f : SetFilters(f) /\ Settable(f)
  BY SettableChanges DEF Paginate, HistoryWell, FiltersWell
<1> QED
  BY <1>1, SetFiltersStep

LEMMA DebouncedStep ==
    ASSUME HistoryWell, useDebouncedValue
    PROVE  HistoryWell'
<1>1. Settable(filters)' /\ Settable(debounced)' /\ UNCHANGED <<records, isPlatformAdmin>>
      /\ Load(debounced') /\ Summarize(debounced')
  BY DEF useDebouncedValue, HistoryWell, FiltersWell
<1> QED
  BY <1>1, AsksAgain

\* A step of the list leaves the filters and the cards as they are.
LEMMA ListChanges ==
    ASSUME HistoryWell, UNCHANGED <<records, isPlatformAdmin, filters, debounced, summaryVars>>, ListWell'
    PROVE  HistoryWell'
<1>1. UNCHANGED <<records, isPlatformAdmin, filters, debounced, summary, summaries>>
  BY DEF summaryVars
<1> QED
  BY <1>1 DEF HistoryWell, FiltersWell, CardsWell, WasCounted, Counted

LEMMA RetryStep ==
    ASSUME HistoryWell, Retry
    PROVE  HistoryWell'
<1>1. UNCHANGED <<records, isPlatformAdmin, filters, debounced, summaryVars>>
  BY DEF Retry
<1>2. ListWell'
  BY DEF Retry, Load, ListRequest, HistoryWell, ListWell, ListAsks
<1> QED
  BY <1>1, <1>2, ListChanges

LEMMA ReadListStep ==
    ASSUME HistoryWell, NEW q \in lists, ReadList(q)
    PROVE  HistoryWell'
<1>1. UNCHANGED <<records, isPlatformAdmin, filters, debounced, list, summaryVars>>
  BY DEF ReadList
<1>2. ListAsks(q) /\ q.asks = debounced
  BY DEF HistoryWell, ListWell, ListAsks
<1>3. /\ \A rows \in historyItems(records, debounced) : WasPage(rows, debounced)
      /\ WasTotal(HistoryTotal(records, debounced), debounced)
  BY ReadsNow DEF HistoryWell
<1>4. \A r : ListAsks(r) => ListAsks(r)'
  BY <1>1 DEF ListAsks, WasPage, WasTotal
<1>5. \A r \in lists' :
          \/ r \in lists
          \/ \E rows \in historyItems(records, debounced) : r = [q EXCEPT !.rows = rows]
          \/ r = [q EXCEPT !.total = HistoryTotal(records, debounced)]
  BY <1>2 DEF ReadList
<1>6. /\ \A rows \in historyItems(records, debounced) : ListAsks([q EXCEPT !.rows = rows])
      /\ ListAsks([q EXCEPT !.total = HistoryTotal(records, debounced)])
  BY <1>2, <1>3 DEF ListAsks
<1>7. \A r \in lists' : ListAsks(r)'
  BY <1>4, <1>5, <1>6 DEF HistoryWell, ListWell
<1>8. ListWell'
  BY <1>1, <1>7 DEF HistoryWell, ListWell, WasPage, WasTotal
<1> QED
  BY <1>1, <1>8, ListChanges

LEMMA ListAnsweredStep ==
    ASSUME HistoryWell, NEW q \in lists, ListAnswered(q) \/ ListFails(q)
    PROVE  HistoryWell'
<1>1. UNCHANGED <<records, isPlatformAdmin, filters, debounced, summaryVars>> /\ lists' \subseteq lists
  BY DEF ListAnswered, ListFails
<1>2. \A r \in lists' : ListAsks(r)'
  BY <1>1 DEF HistoryWell, ListWell, ListAsks, WasPage, WasTotal
<1>3. CASE ListAnswered(q)
  <2>1. list' = [rows |-> q.rows, total |-> q.total, loading |-> FALSE, error |-> FALSE]
        /\ WasPage(q.rows, debounced) /\ WasTotal(q.total, debounced)
    BY <1>3 DEF ListAnswered, HistoryWell, ListWell, ListAsks
  <2> QED
    BY <1>1, <1>2, <2>1, ListChanges DEF ListWell, WasPage, WasTotal
<1>4. CASE ListFails(q)
  <2>1. list'.error = TRUE /\ DOMAIN list' = DOMAIN list
    BY <1>4 DEF ListFails, HistoryWell, ListWell
  <2> QED
    BY <1>1, <1>2, <2>1, ListChanges DEF HistoryWell, ListWell
<1> QED
  BY <1>3, <1>4

LEMMA SummaryStep ==
    ASSUME HistoryWell, NEW f \in summaries, SummaryAnswered(f)
    PROVE  HistoryWell'
<1>1. /\ UNCHANGED <<records, isPlatformAdmin, filters, debounced, list, lists>>
      /\ summaries' = summaries \ {f}
      /\ \/ summary' = Null
         \/ \E told \in analytics(records, f) :
                summary' = [filter |-> f, report |-> told.report, truncated |-> told.truncated]
  BY DEF SummaryAnswered, listVars
<1>2. f = ReportOf(debounced) /\ Settable(debounced) /\ records \in Seq(Record)
      /\ isPlatformAdmin \in BOOLEAN
  BY DEF HistoryWell, FiltersWell, CardsWell
<1>3. Settable(f) /\ HistoryTotal(Counted(records), f) = HistoryTotal(Counted(records), debounced)
  BY <1>2, ReportFilter, SameMatches
<1>4. \A told \in analytics(records, f) :
          ~told.truncated => WasCounted(told.report.verifications, debounced)
  BY <1>2, <1>3, ReportOfMatches, ReadsNow DEF HistoryWell
<1>5. summary' # Null => /\ summary'.filter = f
                         /\ ~summary'.truncated => WasCounted(summary'.report.verifications, debounced)
  BY <1>1, <1>4
<1>6. \A x : WasCounted(x, debounced) => WasCounted(x, debounced)'
  BY <1>1 DEF WasCounted, Counted
<1>7. CardsWell'
  BY <1>1, <1>2, <1>5, <1>6 DEF HistoryWell, CardsWell
<1>8. FiltersWell' /\ ListWell'
  BY <1>1 DEF HistoryWell, FiltersWell, ListWell, ListAsks, WasPage, WasTotal
<1> QED
  BY <1>7, <1>8 DEF HistoryWell

LEMMA HistoryStep ==
    ASSUME HistoryWell, [HistoryNext]_historyVars
    PROVE  HistoryWell'
<1>1. CASE UNCHANGED historyVars
  BY <1>1 DEF historyVars, historyPageVars, listVars, summaryVars, HistoryWell, FiltersWell,
              ListWell, ListAsks, CardsWell, WasPage, WasTotal, WasCounted, Counted
<1> QED
  BY <1>1, RecordsGrow, FilterBarStep, DebouncedStep, PaginateStep, RetryStep, ReadListStep,
     ListAnsweredStep, SummaryStep DEF HistoryNext

-----------------------------------------------------------------------------

LEMMA HistoryAlways == ConsoleSpec => []HistoryWell
<1>1. ASSUME ConsoleInit PROVE HistoryWell
  <2>1. HistoryInit /\ records \in {<< >>, RecordsAtFirst}
    BY <1>1, PagesInit
  <2>2. RecordsAtFirst \in Seq(Record)
    BY ReportsAssumption
  <2>3. records \in Seq(Record)
    <3>1. << >> \in Seq(Record)
      OBVIOUS
    <3> QED
      BY <2>1, <2>2, <3>1, Zenon
  <2> QED
    BY <2>1, <2>3, FirstFilters DEF HistoryInit, HistoryWell, FiltersWell, ListWell,
       ListRequest, ListAsks, CardsWell
<1>2. HistoryWell /\ [ConsoleNext]_consoleVars => HistoryWell'
  BY HistoryStep, StepsOfHistory
<1> QED
  BY <1>1, <1>2, PTL DEF ConsoleSpec

\* The table that has settled is a page its filters ask for, of the records of
\* some moment; the cards are about those filters too; and the number announced
\* with the downloads was theirs, or is said to be cut off, or, from the report to
\* an administrator of the platform, was that of every organization (HistoryPage).
\* Aborting leaves no request of older filters, so that none can be answered late.
THEOREM TableAndCardsAreOfTheFilters == ConsoleSpec => []PageShowsItsFilters
<1>1. ASSUME HistoryWell PROVE PageShowsItsFilters
  <2>1. ~list.loading /\ ~list.error =>
            WasPage(list.rows, debounced) /\ WasTotal(list.total, debounced)
    BY <1>1 DEF HistoryWell, ListWell
  <2>2. summaries = {} /\ summary # Null =>
            /\ summary.filter = ReportOf(debounced)
            /\ ~summary.truncated => WasCounted(summary.report.verifications, debounced)
    BY <1>1 DEF HistoryWell, CardsWell
  <2>3. ~list.loading /\ ~list.error /\ summaries = {} =>
            \/ ExportContext.truncated
            \/ summary = Null /\ WasTotal(ExportContext.matching, debounced)
            \/ summary # Null /\ WasCounted(ExportContext.matching, debounced)
    <3>1. CASE summary = Null
      BY <2>1, <3>1 DEF ExportContext
    <3>2. CASE summary # Null
      BY <2>2, <3>2 DEF ExportContext
    <3> QED
      BY <3>1, <3>2
  <2> QED
    BY <2>1, <2>2, <2>3 DEF PageShowsItsFilters, WasPage, WasTotal, WasCounted
<1> QED
  BY <1>1, HistoryAlways, PTL

\* VerificationsService.history and ExportService find the same records for
\* whatever filters are asked for (Reports), on which it rests that the file holds
\* what the list shows.  AdminService.analytics finds them too, and nothing else
\* for a user of an organization; for an administrator of the platform it finds
\* what the list would, were every record the organization's.
THEOREM QueriesChooseTheSame ==
    ConsoleSpec => [](/\ exportWhere(records, debounced) = historyWhere(records, debounced)
                      /\ historyWhere(records, debounced) \subseteq analyticsWhere(records, debounced)
                      /\ ~isPlatformAdmin =>
                             analyticsWhere(records, debounced) = historyWhere(records, debounced)
                      /\ analyticsWhere(records, debounced)
                             = historyWhere(Counted(records), debounced))
<1>1. HistoryWell => /\ exportWhere(records, debounced) = historyWhere(records, debounced)
                     /\ historyWhere(records, debounced) \subseteq analyticsWhere(records, debounced)
                     /\ ~isPlatformAdmin =>
                            analyticsWhere(records, debounced) = historyWhere(records, debounced)
                     /\ analyticsWhere(records, debounced)
                            = historyWhere(Counted(records), debounced)
  BY QueriesAgree, TotalsAreOfTheCounted DEF HistoryWell, FiltersWell
<1> QED
  BY <1>1, HistoryAlways, PTL

\* A report that does not say that it is cut off counts and sums exactly the rows
\* of the list and of the file, or, to an administrator of the platform, those that
\* they would hold if every record were the organization's (HistoryPage).
THEOREM ReportsAreOfTheList == ConsoleSpec => []ReportIsOfTheList
<1>1. HistoryWell => ReportIsOfTheList
  BY ReportOfMatches DEF HistoryWell, FiltersWell, ReportIsOfTheList
<1> QED
  BY <1>1, HistoryAlways, PTL

-----------------------------------------------------------------------------
(* The list, page by page, and the file.                                   *)

LEMMA CutAlike ==
    ASSUME NEW S, NEW s \in Seq(S), NEW t \in Seq(S), NEW low \in Nat \ {0}, NEW high \in Int,
           high <= Len(s), high <= Len(t), \A i \in low .. high : s[i] = t[i]
    PROVE  SubSeq(s, low, high) = SubSeq(t, low, high)
<1> DEFINE a == SubSeq(s, low, high)
           b == SubSeq(t, low, high)
<1>1. \A i \in low .. high : s[i] \in S /\ t[i] \in S
  OBVIOUS
<1>2. /\ a \in Seq(S) /\ Len(a) = IF low <= high THEN high - low + 1 ELSE 0
      /\ \A i \in 1 .. high - low + 1 : a[i] = s[low + i - 1]
  BY <1>1, SubSeqProperties
<1>3. /\ b \in Seq(S) /\ Len(b) = IF low <= high THEN high - low + 1 ELSE 0
      /\ \A i \in 1 .. high - low + 1 : b[i] = t[low + i - 1]
  BY <1>1, SubSeqProperties
<1> HIDE DEF a, b
<1>4. ASSUME NEW i \in 1 .. Len(a)
      PROVE  a[i] = b[i]
  <2>1. i \in 1 .. high - low + 1 /\ low + i - 1 \in low .. high
    BY <1>2
  <2> QED
    BY <1>2, <1>3, <2>1
<1>5. Len(a) = Len(b)
  BY <1>2, <1>3
<1>6. a = b
  BY <1>2, <1>3, <1>4, <1>5, SeqEqual
<1> QED
  BY <1>6 DEF a, b

\* Of two orders of the same rows, newest first, none has a newer row at a place
\* than the other: the rows at least as new as its k-th are k, and the other would
\* have them all before its k-th.
LEMMA NotNewer ==
    ASSUME NEW recs \in Seq(Record), NEW W, W \subseteq DOMAIN recs, IsFiniteSet(W),
           NEW s \in NewestFirst(recs, W), NEW t \in NewestFirst(recs, W),
           NEW k \in 1 .. Cardinality(W)
    PROVE  recs[s[k]].createdAt <= recs[t[k]].createdAt
<1> DEFINE n == Cardinality(W)
           at(i) == recs[i].createdAt
           A == {s[j] : j \in 1 .. k}
           B == {t[j] : j \in 1 .. k - 1}
<1>0. n \in Nat /\ k \in Nat /\ k >= 1 /\ k <= n
  BY FS_CardinalityType
<1>1. /\ Len(s) = n /\ Len(t) = n
      /\ \A j \in 1 .. n : s[j] \in W /\ t[j] \in W
      /\ \A i, j \in 1 .. n : s[i] = s[j] => i = j
      /\ \A i \in W : \E j \in 1 .. n : t[j] = i
      /\ DOMAIN s = 1 .. n /\ DOMAIN t = 1 .. n
  <2>1. s \in [1 .. n -> W] /\ t \in [1 .. n -> W]
    BY DEF NewestFirst, SetToSeqs
  <2>2. ASSUME NEW r \in NewestFirst(recs, W)
        PROVE  /\ Len(r) = n
               /\ \A i, j \in 1 .. Len(r) : r[i] = r[j] => i = j
               /\ \A i \in W : \E j \in 1 .. Len(r) : r[j] = i
    <3> HIDE DEF n
    <3>1. Len(r) = n
      BY RowsOnce DEF n
    <3>2. \A i, j \in 1 .. Len(r) : r[i] = r[j] => i = j
      BY RowsOnce
    <3>3. \A i \in W : \E j \in 1 .. Len(r) : r[j] = i
      BY RowsOnce
    <3> QED
      BY <3>1, <3>2, <3>3
  <2> HIDE DEF n
  <2> QED
    BY <2>1, <2>2
<1>2. \A i \in W : at(i) \in Nat
  <2> TAKE i \in W
  <2>1. recs[i] \in Record
    OBVIOUS
  <2> QED
    BY <2>1 DEF Record
<1>3. /\ \A i, j \in 1 .. n : i < j => at(s[i]) >= at(s[j])
      /\ \A i, j \in 1 .. n : i < j => at(t[i]) >= at(t[j])
  BY <1>1 DEF NewestFirst
<1> HIDE DEF n, at
<1> SUFFICES ASSUME at(s[k]) > at(t[k]) PROVE FALSE
  <2>1. at(s[k]) \in Nat /\ at(t[k]) \in Nat
    BY <1>1, <1>2 DEF n
  <2> QED
    BY <2>1 DEF at
<1>4. ASSUME NEW j \in 1 .. k
      PROVE  s[j] \in B
  <2>1. j \in 1 .. n /\ k \in 1 .. n /\ s[j] \in W
    BY <1>0, <1>1
  <2>2. at(s[j]) >= at(s[k])
    <3>1. CASE j = k
      BY <3>1, <2>1, <1>1, <1>2
    <3>2. CASE j # k
      <4>1. j < k
        BY <3>2, <1>0
      <4> QED
        BY <4>1, <2>1, <1>3
    <3> QED
      BY <3>1, <3>2
  <2>3. PICK l \in 1 .. n : t[l] = s[j]
    BY <1>1, <2>1
  <2>4. l < k
    <3> SUFFICES ASSUME l >= k PROVE FALSE
      BY <1>0
    <3>1. at(t[k]) >= at(t[l])
      <4>1. CASE l = k
        BY <4>1, <2>1, <1>1, <1>2
      <4>2. CASE l # k
        <5>1. k < l
          BY <4>2, <1>0
        <5> QED
          BY <5>1, <2>1, <1>3
      <4> QED
        BY <4>1, <4>2
    <3>2. at(t[k]) \in Nat /\ at(t[l]) \in Nat /\ at(s[j]) \in Nat /\ at(s[k]) \in Nat
      BY <1>1, <1>2, <2>1
    <3>3. at(t[l]) = at(s[j])
      BY <2>3
    <3> QED
      BY <2>2, <3>1, <3>2, <3>3
  <2>5. l \in 1 .. k - 1
    BY <2>4, <1>0
  <2> QED
    BY <2>3, <2>5
<1>5. ASSUME NEW r \in NewestFirst(recs, W), NEW m \in Nat, m <= n
      PROVE  IsFiniteSet({r[j] : j \in 1 .. m}) /\ Cardinality({r[j] : j \in 1 .. m}) = m
  <2> DEFINE S == 1 .. m
             T == {r[j] : j \in S}
  <2>1. IsFiniteSet(S) /\ Cardinality(S) = m
    BY FS_Interval
  <2>2. /\ Len(r) = n /\ \A j \in 1 .. n : r[j] \in W
        /\ \A i, j \in 1 .. n : r[i] = r[j] => i = j
    <3>1. Len(r) = n
      BY RowsOnce DEF n
    <3>2. \A j \in 1 .. Len(r) : r[j] \in W
      BY RowsOnce
    <3>3. \A i, j \in 1 .. Len(r) : r[i] = r[j] => i = j
      BY RowsOnce
    <3> QED
      BY <3>1, <3>2, <3>3
  <2>3. \A j \in S : j \in 1 .. n
    BY <1>0, <1>5
  <2>4. \A i, j \in S : r[i] = r[j] => i = j
    BY <2>2, <2>3
  <2>5. T \in SUBSET W
    BY <2>2, <2>3
  <2> HIDE DEF S
  <2>6. Cardinality({r[j] : j \in S}) = Cardinality(S)
    BY ONLY <2>1, <2>4, SameNumber
  <2>7. IsFiniteSet(T)
    <3> HIDE DEF T
    <3> QED
      BY <2>5, FS_Subset
  <2> QED
    BY <2>1, <2>6, <2>7 DEF S
<1>6. /\ Cardinality(A) = k
      /\ IsFiniteSet(B) /\ Cardinality(B) = k - 1
  <2>1. k - 1 \in Nat /\ k - 1 <= n
    BY <1>0
  <2> QED
    BY <1>0, <1>5, <2>1
<1>7. A \in SUBSET B
  BY <1>4
<1> HIDE DEF A, B
<1>8. Cardinality(A) <= Cardinality(B) /\ Cardinality(B) \in Nat
  BY <1>6, <1>7, FS_Subset, FS_CardinalityType
<1> QED
  BY <1>0, <1>6, <1>8

\* Two orders of the same rows differ in ties only.
LEMMA OrdersAlike ==
    ASSUME NEW recs \in Seq(Record), NEW W, W \subseteq DOMAIN recs, IsFiniteSet(W),
           NEW s \in NewestFirst(recs, W), NEW t \in NewestFirst(recs, W),
           NEW k \in 1 .. Cardinality(W)
    PROVE  /\ recs[s[k]].createdAt = recs[t[k]].createdAt
           /\ \/ s[k] = t[k]
              \/ \E l \in DOMAIN t \ {k} : recs[t[l]].createdAt = recs[t[k]].createdAt
<1>1. recs[s[k]].createdAt = recs[t[k]].createdAt
  <2>1. /\ recs[s[k]].createdAt <= recs[t[k]].createdAt
        /\ recs[t[k]].createdAt <= recs[s[k]].createdAt
    BY NotNewer
  <2>2. recs[s[k]] \in Record /\ recs[t[k]] \in Record
    <3>1. s[k] \in W /\ t[k] \in W
      BY DEF NewestFirst, SetToSeqs
    <3> QED
      BY <3>1
  <2>3. recs[s[k]].createdAt \in Nat /\ recs[t[k]].createdAt \in Nat
    BY <2>2 DEF Record
  <2> QED
    BY <2>1, <2>3
<1>2. s[k] \in W /\ DOMAIN t = 1 .. Cardinality(W)
  BY DEF NewestFirst, SetToSeqs
<1>3. PICK l \in 1 .. Cardinality(W) : t[l] = s[k]
  <2>1. Len(t) = Cardinality(W) /\ \A i \in W : \E j \in 1 .. Len(t) : t[j] = i
    BY RowsOnce
  <2> QED
    BY <1>2, <2>1
<1>4. CASE l = k
  BY <1>1, <1>3, <1>4
<1>5. CASE l # k
  BY <1>1, <1>2, <1>3, <1>5
<1> QED
  BY <1>4, <1>5

\* Each row is on one page.
OnPage(m, limit, k) == (k - 1) * limit < m /\ m <= k * limit

LEMMA PageOfRow ==
    ASSUME NEW limit \in Nat \ {0}, NEW m \in Nat \ {0}
    PROVE  /\ \E k \in 1 .. m : OnPage(m, limit, k)
           /\ \A k, l \in Nat : OnPage(m, limit, k) /\ OnPage(m, limit, l) => k = l
<1>1. \A a \in Nat : a * limit \in Nat /\ (a + 1) * limit = a * limit + limit
  OBVIOUS
<1>2. ASSUME NEW a \in Nat, NEW d \in Nat
      PROVE  a * limit <= (a + d) * limit
  <2>1. (a + d) * limit = a * limit + d * limit
    OBVIOUS
  <2> QED
    BY <1>1, <2>1
<1>3. ASSUME NEW k \in Nat, NEW l \in Nat, OnPage(m, limit, k), OnPage(m, limit, l), k < l
      PROVE  FALSE
  <2>1. l - 1 \in Nat /\ (l - 1) - k \in Nat /\ k + ((l - 1) - k) = l - 1
    BY <1>3
  <2>2. k * limit <= (l - 1) * limit
    BY <1>2, <2>1
  <2>3. k * limit \in Nat /\ (l - 1) * limit \in Nat
    BY <1>1, <2>1
  <2> QED
    BY <1>3, <2>2, <2>3 DEF OnPage
<1> DEFINE Reaching == {k \in Nat : m <= k * limit}
<1>4. m \in Reaching
  <2>1. m * limit >= m
    OBVIOUS
  <2> QED
    BY <2>1
<1>5. Min(Reaching) \in Reaching /\ \A k \in Reaching : Min(Reaching) <= k
  <2>1. Reaching \subseteq Nat /\ Reaching # {}
    BY <1>4
  <2> HIDE DEF Reaching
  <2> QED
    BY <2>1, Smallest
<1> DEFINE k == Min(Reaching)
<1>6. k \in Nat /\ m <= k * limit /\ k <= m
  BY <1>4, <1>5
<1> HIDE DEF k
<1>7. k # 0
  <2>1. 0 * limit = 0
    OBVIOUS
  <2> QED
    BY <1>6, <2>1
<1>8. (k - 1) * limit < m
  <2>1. k - 1 \in Nat /\ k - 1 \notin Reaching
    BY <1>5, <1>6, <1>7 DEF k
  <2>2. (k - 1) * limit \in Nat
    BY <1>1, <2>1
  <2> QED
    BY <2>1, <2>2
<1>9. \E p \in 1 .. m : OnPage(m, limit, p)
  BY <1>6, <1>7, <1>8 DEF OnPage
<1> QED
  BY <1>3, <1>9

\* What is seen on a walk through the pages: at every place what one of the
\* orders has there.
LEMMA ListOfPages ==
    ASSUME NEW recs \in Seq(Record), NEW f, Settable(f), f.limit \in 1 .. MaxPage,
           NEW walk \in Walks(recs, f)
    PROVE  LET W == historyWhere(recs, f)
           IN  /\ Len(walk) = Cardinality(W)
               /\ \A m \in 1 .. Len(walk) : \E s \in NewestFirst(recs, W) : walk[m] = s[m]
<1> DEFINE W == historyWhere(recs, f)
           N == Len(recs)
           n == Cardinality(W)
           L == f.limit
           part(order, k) == PageOf(order[k], [f EXCEPT !.offset = (k - 1) * f.limit])
<1>0. MaxPage \in Nat /\ N \in Nat /\ L \in Nat \ {0}
  <2>1. MaxPage \in Nat
    BY ReportsAssumption
  <2> QED
    BY <2>1
<1>1. IsFiniteSet(W) /\ W \subseteq 1 .. N
  BY QueriesAgree
<1>2. n \in Nat /\ n <= N
  <2>1. IsFiniteSet(1 .. N) /\ Cardinality(1 .. N) = N
    <3>1. 1 \in Int /\ N \in Int
      BY <1>0
    <3>2. /\ IsFiniteSet(1 .. N)
          /\ Cardinality(1 .. N) = IF 1 > N THEN 0 ELSE N - 1 + 1
      BY <3>1, FS_Interval, Zenon
    <3> QED
      BY <1>0, <3>2
  <2> HIDE DEF W
  <2> QED
    BY <1>0, <1>1, <2>1, FS_Subset, FS_CardinalityType
<1>3. PICK order \in [DOMAIN recs -> NewestFirst(recs, W)] :
          walk = FlattenSeq([k \in DOMAIN recs |-> part(order, k)])
  BY DEF Walks
<1> DEFINE pages == [k \in 1 .. N |-> part(order, k)]
<1>4. walk = FlattenSeq(pages)
  <2>1. DOMAIN recs = 1 .. N
    OBVIOUS
  <2> HIDE DEF part
  <2> QED
    BY <1>3, <2>1
<1> HIDE DEF W
<1>5. ASSUME NEW k \in 1 .. N
      PROVE  /\ order[k] \in NewestFirst(recs, W) /\ order[k] \in Seq(W)
             /\ Len(order[k]) = n /\ \A m \in 1 .. n : order[k][m] \in W
  <2>1. order[k] \in NewestFirst(recs, W)
    OBVIOUS
  <2> QED
    BY <1>1, <2>1, RowsOnce
<1>6. ASSUME NEW k \in 1 .. N
      PROVE  part(order, k) = SubSeq(order[k], (k - 1) * L + 1, Min({(k - 1) * L + L, n}))
  <2> DEFINE g == [f EXCEPT !.offset = (k - 1) * f.limit]
  <2>1. g.offset = (k - 1) * L /\ g.limit = L
    BY DEF Settable
  <2>2. Min({L, MaxPage}) = L
    BY <1>0, LowerOfTwo
  <2> HIDE DEF g
  <2> QED
    BY <1>5, <2>1, <2>2 DEF PageOf, g
<1> HIDE DEF part, L, n, N
<1>7. CASE N = 0
  <2>1. pages = << >> /\ Len(pages) = 0
    BY <1>7
  <2>2. walk = << >>
    BY <1>4, <2>1 DEF FlattenSeq
  <2> QED
    BY <1>2, <1>7, <2>2 DEF W, n
<1>8. CASE N # 0
  <2> DEFINE of(m) == CHOOSE k \in 1 .. N : OnPage(m, L, k)
             r == [m \in 1 .. n |-> order[of(m)][m]]
  <2>1. ASSUME NEW m \in 1 .. n
        PROVE  of(m) \in 1 .. N /\ OnPage(m, L, of(m))
    <3>1. \E k \in 1 .. N : OnPage(m, L, k)
      <4>1. m \in Nat \ {0} /\ m <= N
        BY <1>0, <1>2
      <4>2. PICK k \in 1 .. m : OnPage(m, L, k)
        BY <1>0, <4>1, PageOfRow
      <4>3. k \in 1 .. N
        BY <1>0, <4>1
      <4> QED
        BY <4>2, <4>3
    <3> QED
      BY <3>1
  <2>2. ASSUME NEW m \in 1 .. n, NEW k \in 1 .. N, OnPage(m, L, k)
        PROVE  of(m) = k
    <3>1. m \in Nat \ {0} /\ k \in Nat /\ of(m) \in Nat
      BY <1>0, <1>2, <2>1
    <3> HIDE DEF of
    <3> QED
      BY <1>0, <2>1, <2>2, <3>1, PageOfRow
  <2> HIDE DEF of
  <2>3. r \in Seq(W) /\ Len(r) = n /\ \A m \in 1 .. n : r[m] = order[of(m)][m]
    <3>1. \A m \in 1 .. n : order[of(m)][m] \in W
      BY <1>5, <2>1
    <3> QED
      BY <1>2, <3>1
  <2> HIDE DEF r
  <2>4. ASSUME NEW k \in 1 .. N
        PROVE  part(order, k) = SubSeq(r, (k - 1) * L + 1, Min({(k - 1) * L + L, n}))
    <3> DEFINE before == (k - 1) * L
               high == Min({before + L, n})
    <3>1. before \in Nat
      <4>1. k - 1 \in Nat
        BY <1>0
      <4> QED
        BY <1>0, <4>1
    <3>2. k * L = before + L
      <4>1. k - 1 \in Nat /\ k = (k - 1) + 1
        BY <1>0
      <4>2. \A a \in Nat : (a + 1) * L = a * L + L
        BY <1>0
      <4> QED
        BY <4>1, <4>2
    <3> HIDE DEF before
    <3>3. high \in Int /\ high <= n /\ high <= before + L
      <4>1. before + L \in Int /\ n \in Int
        BY <1>0, <1>2, <3>1
      <4>2. high = IF before + L <= n THEN before + L ELSE n
        BY <4>1, LowerOfTwo
      <4> HIDE DEF high
      <4> QED
        BY <4>1, <4>2
    <3> HIDE DEF high
    <3>4. ASSUME NEW m \in before + 1 .. high
          PROVE  order[k][m] = r[m]
      <4>1. m \in 1 .. n /\ before < m /\ m <= before + L
        BY <1>0, <1>2, <3>1, <3>3
      <4>2. OnPage(m, L, k)
        BY <3>2, <4>1 DEF OnPage, before
      <4> QED
        BY <2>2, <2>3, <4>1, <4>2
    <3>5. before + 1 \in Nat \ {0} /\ high <= Len(order[k]) /\ high <= Len(r)
      BY <1>5, <2>3, <3>1, <3>3
    <3>6. order[k] \in Seq(W) /\ r \in Seq(W)
      BY <1>5, <2>3
    <3>7. SubSeq(order[k], before + 1, high) = SubSeq(r, before + 1, high)
      <4> DEFINE s == order[k]
      <4>1. s \in Seq(W) /\ high <= Len(s) /\ \A m \in before + 1 .. high : s[m] = r[m]
        BY <3>4, <3>5, <3>6
      <4> HIDE DEF s
      <4>2. SubSeq(s, before + 1, high) = SubSeq(r, before + 1, high)
        BY <3>3, <3>5, <3>6, <4>1, CutAlike
      <4> QED
        BY <4>2 DEF s
    <3> QED
      BY <1>6, <3>7 DEF before, high
  <2>5. pages = [k \in 1 .. N |-> SubSeq(r, (k - 1) * L + 1, Min({(k - 1) * L + L, Len(r)}))]
    BY <2>3, <2>4
  <2>6. N \in Nat \ {0} /\ Len(r) <= N
    BY <1>0, <1>2, <1>8, <2>3
  <2> HIDE DEF pages
  <2>7. FlattenSeq(pages) = r
    BY <1>0, <2>3, <2>5, <2>6, PagesJoined, Zenon
  <2>8. \A m \in 1 .. n : order[of(m)] \in NewestFirst(recs, W)
    BY <1>5, <2>1
  <2>9. Len(walk) = n /\ \A m \in 1 .. n : \E s \in NewestFirst(recs, W) : walk[m] = s[m]
    BY <1>4, <2>3, <2>7, <2>8
  <2> QED
    BY <2>9 DEF W, n
<1> QED
  BY <1>7, <1>8

\* The pager asks for as many rows as one of its options, from one of them on.
PageOffered(f) == f.limit \in LimitOptions /\ f.offset \in Nat
PagerWell == PageOffered(filters) /\ PageOffered(debounced)

LEMMA LimitsAreNumbers == LimitOptions \subseteq Nat /\ LimitOptions # {}
<1>1. MaxPage \in Nat
  BY ReportsAssumption
<1>2. LimitOptions \subseteq 1 .. MaxPage /\ LimitOptions # {}
  BY HistoryAssumption
<1> QED
  BY <1>1, <1>2

LEMMA HigherThanZero ==
    ASSUME NEW n \in Int
    PROVE  Max({0, n}) \in Nat
  BY DEF Max

LEMMA FirstPage == PageOffered(DEFAULT_FILTERS)
<1>1. Min(LimitOptions) \in LimitOptions
  BY LimitsAreNumbers, Smallest
<1> QED
  BY <1>1 DEF DEFAULT_FILTERS, PageOffered

LEMMA PagerStep ==
    ASSUME FiltersWell, PagerWell, [HistoryNext]_historyVars
    PROVE  PagerWell'
<1> USE DEF PagerWell
<1>1. CASE UNCHANGED <<filters, debounced>>
  BY <1>1 DEF PageOffered
<1>2. ASSUME NEW f, {"limit", "offset", "search"} \subseteq DOMAIN f, PageOffered(f), SetFilters(f)
      PROVE  PagerWell'
  BY <1>2 DEF SetFilters, PageOffered
<1>3. /\ DOMAIN filters = DOMAIN DEFAULT_FILTERS /\ DOMAIN debounced = DOMAIN DEFAULT_FILTERS
      /\ DOMAIN DEFAULT_FILTERS = {"type", "status", "from", "to", "search", "limit", "offset"}
  BY DEF FiltersWell, Settable, DEFAULT_FILTERS
<1>4. CASE FilterBar
  <2>1. ASSUME NEW change \in FilterChanges,
               handleFilterChange([filters EXCEPT ![change[1]] = change[2]])
        PROVE  PagerWell'
    <3> DEFINE next == [[filters EXCEPT ![change[1]] = change[2]] EXCEPT !.offset = 0]
    <3>1. change[1] # "limit"
      BY HistoryAssumption
    <3>2. {"limit", "offset", "search"} \subseteq DOMAIN next /\ PageOffered(next)
      BY <1>3, <3>1 DEF PageOffered
    <3>3. SetFilters(next)
      BY <2>1 DEF handleFilterChange
    <3> HIDE DEF next
    <3> QED
      BY <1>2, <3>2, <3>3
  <2>2. CASE handleReset
    <3> DEFINE next == [DEFAULT_FILTERS EXCEPT !.limit = filters.limit]
    <3>1. DEFAULT_FILTERS.offset = 0
      BY DEF DEFAULT_FILTERS
    <3>2. {"limit", "offset", "search"} \subseteq DOMAIN next /\ PageOffered(next)
      BY <1>3, <3>1 DEF PageOffered
    <3>3. SetFilters(next)
      BY <2>2 DEF handleReset
    <3> HIDE DEF next
    <3> QED
      BY <1>2, <3>2, <3>3
  <2> QED
    BY <1>4, <2>1, <2>2 DEF FilterBar
<1>5. CASE useDebouncedValue
  BY <1>5 DEF useDebouncedValue
<1>6. CASE Paginate
  <2>1. ASSUME NEW n \in LimitOptions, SetFilters([filters EXCEPT !.limit = n, !.offset = 0])
        PROVE  PagerWell'
    <3> DEFINE next == [filters EXCEPT !.limit = n, !.offset = 0]
    <3>1. {"limit", "offset", "search"} \subseteq DOMAIN next /\ PageOffered(next)
      BY <1>3 DEF PageOffered
    <3> HIDE DEF next
    <3> QED
      BY <1>2, <2>1, <3>1 DEF next
  <2>2. ASSUME NEW n \in Nat, SetFilters([filters EXCEPT !.offset = n])
        PROVE  PagerWell'
    <3> DEFINE next == [filters EXCEPT !.offset = n]
    <3>1. {"limit", "offset", "search"} \subseteq DOMAIN next /\ PageOffered(next)
      BY <1>3 DEF PageOffered
    <3> HIDE DEF next
    <3> QED
      BY <1>2, <2>2, <3>1 DEF next
  <2>3. filters.limit \in Nat /\ filters.offset \in Nat
    BY LimitsAreNumbers DEF PageOffered
  <2>4. Max({0, filters.offset - filters.limit}) \in Nat
    BY <2>3, HigherThanZero
  <2>5. filters.offset + filters.limit \in Nat
    BY <2>3
  <2> QED
    BY <1>6, <2>1, <2>2, <2>4, <2>5 DEF Paginate
<1> QED
  BY <1>1, <1>4, <1>5, <1>6
  DEF HistoryNext, historyVars, historyPageVars, Retry, ReadList, ListAnswered, ListFails,
      SummaryAnswered

LEMMA PagerAlways == ConsoleSpec => []PagerWell
<1>1. ConsoleInit => PagerWell
  BY PagesInit, FirstPage DEF HistoryInit, PagerWell
<1>2. HistoryWell /\ PagerWell /\ [ConsoleNext]_consoleVars => PagerWell'
  BY PagerStep, StepsOfHistory DEF HistoryWell
<1> QED
  BY <1>1, <1>2, HistoryAlways, PTL DEF ConsoleSpec

\* The list walked page by page and the downloaded table have the same length and
\* hold the same rows at the same places, but for rows of one instant (HistoryPage),
\* whatever order the database gives those in for each page and for the file: the
\* two queries agree, every page but the last is as long as the page asks for, the
\* next begins where it ended, and two orders of the same rows differ in ties only.
THEOREM ListAndFileAgree == ConsoleSpec => []ListIsExported
<1>1. ASSUME HistoryWell, PagerWell, filters = debounced,
             NEW walk \in Walks(records, debounced), NEW file \in handleExport("csv", FALSE)
      PROVE  SameButForTies(records, walk, file.rows)
  <2> DEFINE W == historyWhere(records, debounced)
             t == file.rows
  <2>1. records \in Seq(Record) /\ Settable(debounced) /\ debounced.limit \in 1 .. MaxPage
    BY <1>1, HistoryAssumption DEF HistoryWell, FiltersWell, PagerWell, PageOffered
  <2>2. W \subseteq DOMAIN records /\ IsFiniteSet(W) /\ exportWhere(records, debounced) = W
    <3>1. W \subseteq 1 .. Len(records)
      BY <2>1, QueriesAgree
    <3>2. DOMAIN records = 1 .. Len(records)
      BY <2>1
    <3> HIDE DEF W
    <3> QED
      BY <2>1, <3>1, <3>2, QueriesAgree DEF W
  <2>3. t \in NewestFirst(records, W)
    <3>1. PICK rows \in NewestFirst(records, exportWhere(records, debounced)) :
              file = generateExport(rows, "csv", FALSE)
      BY <1>1 DEF handleExport, exportVerifications
    <3>2. file.rows = rows
      BY <3>1 DEF generateExport
    <3> QED
      BY <2>2, <3>1, <3>2
  <2>4. /\ Len(walk) = Cardinality(W)
        /\ \A m \in 1 .. Len(walk) : \E s \in NewestFirst(records, W) : walk[m] = s[m]
    BY <1>1, <2>1, ListOfPages
  <2> HIDE DEF W, t
  <2>5. Len(t) = Cardinality(W)
    BY <2>2, <2>3, RowsOnce
  <2>6. ASSUME NEW k \in 1 .. Len(walk)
        PROVE  /\ records[walk[k]].createdAt = records[t[k]].createdAt
               /\ \/ walk[k] = t[k]
                  \/ \E l \in DOMAIN t \ {k} : records[t[l]].createdAt = records[t[k]].createdAt
    <3>1. PICK s \in NewestFirst(records, W) : walk[k] = s[k]
      BY <2>4
    <3>2. k \in 1 .. Cardinality(W)
      BY <2>4
    <3>3. /\ records[s[k]].createdAt = records[t[k]].createdAt
          /\ \/ s[k] = t[k]
             \/ \E l \in DOMAIN t \ {k} : records[t[l]].createdAt = records[t[k]].createdAt
      BY <2>1, <2>2, <2>3, <3>2, OrdersAlike
    <3> QED
      BY <3>1, <3>3
  <2>7. DOMAIN walk = 1 .. Len(walk)
    OBVIOUS
  <2> QED
    BY <2>4, <2>5, <2>6, <2>7 DEF SameButForTies, t
<1>2. HistoryWell /\ PagerWell => ListIsExported
  BY <1>1 DEF ListIsExported
<1> QED
  BY <1>2, PagerAlways, HistoryAlways, PTL

-----------------------------------------------------------------------------
(* The figures of the list.                                                *)

\* Costs, by the server and by the page.
ServerCosts(recs, S, g) ==
    g = [s \in SUBSET S |-> IF s = {} THEN 0 ELSE recs[First(s)].costMinor + g[s \ {First(s)}]]
PageCosts(recs, rows, g) ==
    g = [s \in SUBSET (DOMAIN rows) |->
            IF s = {} THEN 0 ELSE g[s \ {Max(s)}] + recs[rows[Max(s)]].costMinor]
ServerLatencies(recs, S, g) ==
    g = [s \in SUBSET S |-> IF s = {} THEN 0 ELSE recs[First(s)].latencyMs + g[s \ {First(s)}]]
PageLatencies(recs, rows, g) ==
    g = [s \in SUBSET (DOMAIN rows) |->
            IF s = {} THEN 0 ELSE g[s \ {Max(s)}] + KnownLatency(recs[rows[Max(s)]])]

LEMMA FiguresAreRecursive ==
    ASSUME NEW recs, NEW rows, NEW S
    PROVE  /\ CostOf(recs, S) = (CHOOSE g : ServerCosts(recs, S, g))[S]
           /\ TotalCost(recs, rows)
                = (CHOOSE g : PageCosts(recs, rows, g))[DOMAIN rows]
           /\ LatencyOf(recs, S)
                = (CHOOSE g : ServerLatencies(recs, S, g))[S]
           /\ TotalLatency(recs, rows)
                = (CHOOSE g : PageLatencies(recs, rows, g))[DOMAIN rows]
<1>1. CostOf(recs, S) = (CHOOSE g : ServerCosts(recs, S, g))[S]
  BY DEF CostOf, MapThenSumSet, MapThenFoldSet, ServerCosts, First
<1>2. TotalCost(recs, rows)
        = (CHOOSE g : PageCosts(recs, rows, g))[DOMAIN rows]
  BY DEF TotalCost, FoldLeft, MapThenFoldSet, PageCosts
<1>3. LatencyOf(recs, S)
        = (CHOOSE g : ServerLatencies(recs, S, g))[S]
  BY DEF LatencyOf, MapThenSumSet, MapThenFoldSet, ServerLatencies, First
<1>4. TotalLatency(recs, rows)
        = (CHOOSE g : PageLatencies(recs, rows, g))[DOMAIN rows]
  BY DEF TotalLatency, FoldLeft, MapThenFoldSet, PageLatencies
<1> QED
  BY <1>1, <1>2, <1>3, <1>4

LEMMA ServerAdds ==
    ASSUME NEW recs, NEW S, IsFiniteSet(S), NEW f
    PROVE  /\ (\A i \in S : f[i] = recs[i].costMinor) => CostOf(recs, S) = SumFunctionOnSet(f, S)
           /\ (\A i \in S : f[i] = recs[i].latencyMs) =>
                  LatencyOf(recs, S) = SumFunctionOnSet(f, S)
<1> DEFINE all == SumsTo(f, S)
<1>0. Sums(f, S, all) /\ \A g : Sums(f, S, g) => g[S] = SumFunctionOnSet(f, S)
  <2>1. Sums(f, S, all)
    BY SumsExist
  <2>2. \A g : Sums(f, S, g) => g[S] = all[S]
    BY <2>1, SumsUnique
  <2> QED
    BY <2>1, <2>2, SumIsRecursive
<1>f. \A s \in SUBSET S : s # {} => First(s) \in S
  BY FirstIsIn
<1> HIDE DEF all
<1>1. ASSUME \A i \in S : f[i] = recs[i].costMinor
      PROVE  CostOf(recs, S) = SumFunctionOnSet(f, S)
  <2>1. \A s \in SUBSET S : s # {} => f[First(s)] = recs[First(s)].costMinor
    BY <1>1, <1>f
  <2>2. \A g : ServerCosts(recs, S, g) <=> Sums(f, S, g)
    BY <2>1 DEF ServerCosts, Sums
  <2>3. ServerCosts(recs, S, CHOOSE g : ServerCosts(recs, S, g))
    BY <1>0, <2>2, Zenon
  <2> QED
    BY <1>0, <2>2, <2>3, FiguresAreRecursive
<1>2. ASSUME \A i \in S : f[i] = recs[i].latencyMs
      PROVE  LatencyOf(recs, S) = SumFunctionOnSet(f, S)
  <2>1. \A s \in SUBSET S : s # {} => f[First(s)] = recs[First(s)].latencyMs
    BY <1>2, <1>f
  <2>2. \A g : ServerLatencies(recs, S, g) <=> Sums(f, S, g)
    BY <2>1 DEF ServerLatencies, Sums
  <2>3. ServerLatencies(recs, S, CHOOSE g : ServerLatencies(recs, S, g))
    BY <1>0, <2>2, Zenon
  <2> QED
    BY <1>0, <2>2, <2>3, FiguresAreRecursive
<1> QED
  BY <1>1, <1>2

\* f gives what each row adds.
CostsAre(recs, rows, f) == \A k \in DOMAIN rows : f[k] = recs[rows[k]].costMinor
LatenciesAre(recs, rows, f) == \A k \in DOMAIN rows : f[k] = KnownLatency(recs[rows[k]])

LEMMA PageAdds ==
    ASSUME NEW recs, NEW n \in Nat, NEW rows, DOMAIN rows = 1 .. n,
           NEW f, \A k \in 1 .. n : f[k] \in Int
    PROVE  /\ CostsAre(recs, rows, f) => TotalCost(recs, rows) = SumFunctionOnSet(f, 1 .. n)
           /\ LatenciesAre(recs, rows, f) => TotalLatency(recs, rows) = SumFunctionOnSet(f, 1 .. n)
<1> DEFINE S == 1 .. n
           c == [s \in SUBSET S |-> Max(s)]
           all == [s \in SUBSET S |-> SumFunctionOnSet(f, s)]
<1>1. ASSUME NEW s \in SUBSET S, s # {}
      PROVE  c[s] = Max(s) /\ Max(s) \in s
  <2>1. (\A x \in s : x \in Nat) /\ IsFiniteSet(s)
    <3>1. IsFiniteSet(S) /\ \A x \in S : x \in Nat
      BY FS_Interval
    <3> HIDE DEF S
    <3> QED
      BY <3>1, FS_Subset
  <2> QED
    BY <1>1, <2>1, Largest
<1>2. Takes(f, S, c, all) /\ \A g : Takes(f, S, c, g) => g[S] = SumFunctionOnSet(f, S)
  <2>1. IsFiniteSet(S)
    BY FS_Interval
  <2>2. \A x \in S : f[x] \in Int
    OBVIOUS
  <2>3. \A s \in SUBSET S : s # {} => c[s] \in s
    BY <1>1
  <2> HIDE DEF c, S
  <2> QED
    BY <2>1, <2>2, <2>3, SumInAnyOrder
<1> HIDE DEF c, all
<1>3. ASSUME CostsAre(recs, rows, f)
      PROVE  TotalCost(recs, rows) = SumFunctionOnSet(f, S)
  <2>1. \A s \in SUBSET S : s # {} => c[s] = Max(s) /\ f[c[s]] = recs[rows[Max(s)]].costMinor
    BY <1>1, <1>3 DEF CostsAre
  <2>2. \A g : PageCosts(recs, rows, g) <=> Takes(f, S, c, g)
    BY <2>1 DEF PageCosts, Takes
  <2>3. PageCosts(recs, rows, CHOOSE g : PageCosts(recs, rows, g))
    BY <1>2, <2>2, Zenon
  <2> DEFINE g == CHOOSE h : PageCosts(recs, rows, h)
  <2>4. TotalCost(recs, rows) = g[S]
    <3>1. TotalCost(recs, rows) = g[DOMAIN rows]
      BY FiguresAreRecursive, Zenon
    <3>2. DOMAIN rows = S
      OBVIOUS
    <3> QED
      BY <3>1, <3>2
  <2> HIDE DEF S
  <2>5. g[S] = SumFunctionOnSet(f, S)
    BY <1>2, <2>2, <2>3, Zenon
  <2> QED
    BY <2>4, <2>5
<1>4. ASSUME LatenciesAre(recs, rows, f)
      PROVE  TotalLatency(recs, rows) = SumFunctionOnSet(f, S)
  <2>1. \A s \in SUBSET S : s # {} => c[s] = Max(s) /\ f[c[s]] = KnownLatency(recs[rows[Max(s)]])
    BY <1>1, <1>4 DEF LatenciesAre
  <2>2. \A g : PageLatencies(recs, rows, g) <=> Takes(f, S, c, g)
    BY <2>1 DEF PageLatencies, Takes
  <2>3. PageLatencies(recs, rows, CHOOSE g : PageLatencies(recs, rows, g))
    BY <1>2, <2>2, Zenon
  <2> DEFINE g == CHOOSE h : PageLatencies(recs, rows, h)
  <2>4. TotalLatency(recs, rows) = g[S]
    <3>1. TotalLatency(recs, rows) = g[DOMAIN rows]
      BY FiguresAreRecursive, Zenon
    <3>2. DOMAIN rows = S
      OBVIOUS
    <3> QED
      BY <3>1, <3>2
  <2> HIDE DEF S
  <2>5. g[S] = SumFunctionOnSet(f, S)
    BY <1>2, <2>2, <2>3, Zenon
  <2> QED
    BY <2>4, <2>5
<1> QED
  BY <1>3, <1>4

\* The page adds up what the server does, of rows that are records, each once.
LEMMA FiguresOfRows ==
    ASSUME NEW recs \in Seq(Record), NEW rows \in Seq(DOMAIN recs),
           \A k, l \in 1 .. Len(rows) : rows[k] = rows[l] => k = l
    PROVE  LET own == summarizeHistoryMetrics(recs, rows)
           IN  \A figure \in DOMAIN own : own[figure] = Report(recs, ToSet(rows))[figure]
<1> DEFINE S == 1 .. Len(rows)
           I == {rows[k] : k \in S}
<1>1. /\ Len(rows) \in Nat /\ DOMAIN rows = S /\ IsFiniteSet(S) /\ ToSet(rows) = I
      /\ \A k \in S : rows[k] \in DOMAIN recs /\ recs[rows[k]] \in Record
  <2>1. Len(rows) \in Nat /\ DOMAIN rows = S
    OBVIOUS
  <2>2. IsFiniteSet(S)
    BY <2>1, FS_Interval
  <2>3. ToSet(rows) = I
    BY <2>1 DEF ToSet
  <2> QED
    BY <2>1, <2>2, <2>3
<1>2. \A k, l \in S : rows[k] = rows[l] => k = l
  OBVIOUS
<1>3. CostOf(recs, I) = TotalCost(recs, rows)
  <2> DEFINE f == [k \in S |-> recs[rows[k]].costMinor]
             g == [i \in DOMAIN recs |-> recs[i].costMinor]
  <2>1. \A k \in S : f[k] \in Int /\ f[k] = recs[rows[k]].costMinor /\ g[rows[k]] = f[k]
    BY <1>1 DEF Record
  <2>2. \A i \in I : g[i] = recs[i].costMinor
    BY <1>1
  <2> HIDE DEF f, g, I
  <2>3. TotalCost(recs, rows) = SumFunctionOnSet(f, S)
    <3>1. CostsAre(recs, rows, f) /\ \A k \in S : f[k] \in Int
      BY <1>1, <2>1 DEF CostsAre
    <3>2. Len(rows) \in Nat /\ DOMAIN rows = S
      BY <1>1
    <3> QED
      BY ONLY <3>1, <3>2, PageAdds
  <2> HIDE DEF S
  <2>4. IsFiniteSet(I) /\ SumFunctionOnSet(g, I) = SumFunctionOnSet(f, S)
    <3>1. \A k \in S : f[k] \in Int /\ g[rows[k]] = f[k]
      BY <2>1
    <3> QED
      <4>1. /\ IsFiniteSet({rows[k] : k \in S})
            /\ SumFunctionOnSet(g, {rows[k] : k \in S}) = SumFunctionOnSet(f, S)
        <5>1. IsFiniteSet(S)
          BY <1>1
        <5>2. \A x \in S : f[x] \in Int /\ g[rows[x]] = f[x]
          BY <3>1
        <5>3. \A x, y \in S : rows[x] = rows[y] => x = y
          BY <1>2
        <5> QED
          BY ONLY <5>1, <5>2, <5>3, SumAcross
      <4> QED
        BY <4>1, Zenon DEF I
  <2>5. CostOf(recs, I) = SumFunctionOnSet(g, I)
    BY <2>2, <2>4, ServerAdds
  <2> QED
    BY <2>3, <2>4, <2>5
<1> DEFINE K == {k \in S : recs[rows[k]].latencyMs # Null}
           J == {i \in I : recs[i].latencyMs # Null}
<1>4. K \subseteq S /\ IsFiniteSet(K) /\ J = {rows[k] : k \in K}
  <2>1. K \subseteq S /\ J = {rows[k] : k \in K}
    OBVIOUS
  <2> HIDE DEF K, S
  <2> QED
    BY <1>1, <2>1, FS_Subset
<1>5. LatencyOf(recs, J) = TotalLatency(recs, rows)
  <2> DEFINE f == [k \in S |-> KnownLatency(recs[rows[k]])]
             g == [i \in DOMAIN recs |-> recs[i].latencyMs]
  <2>1. /\ \A k \in S : f[k] \in Int /\ f[k] = KnownLatency(recs[rows[k]])
        /\ \A k \in K : f[k] \in Int /\ g[rows[k]] = f[k]
        /\ \A k \in S \ K : f[k] = 0
    BY <1>1 DEF Record, KnownLatency
  <2>2. \A i \in J : g[i] = recs[i].latencyMs
    BY <1>1
  <2>k. \A k, l \in K : rows[k] = rows[l] => k = l
    BY <1>2, <1>4
  <2> HIDE DEF f, g, I, J, K
  <2>3. TotalLatency(recs, rows) = SumFunctionOnSet(f, S)
    <3>1. LatenciesAre(recs, rows, f) /\ \A k \in S : f[k] \in Int
      BY <1>1, <2>1 DEF LatenciesAre
    <3>2. Len(rows) \in Nat /\ DOMAIN rows = S
      BY <1>1
    <3> QED
      BY ONLY <3>1, <3>2, PageAdds
  <2> HIDE DEF S
  <2>4. SumFunctionOnSet(f, S) = SumFunctionOnSet(f, K)
    BY <1>1, <1>4, <2>1, SumOfSome
  <2>5. IsFiniteSet(J) /\ SumFunctionOnSet(g, J) = SumFunctionOnSet(f, K)
    <3>1. \A k \in K : f[k] \in Int /\ g[rows[k]] = f[k]
      BY <2>1
    <3> QED
      <4>1. /\ IsFiniteSet({rows[k] : k \in K})
            /\ SumFunctionOnSet(g, {rows[k] : k \in K}) = SumFunctionOnSet(f, K)
        <5>1. IsFiniteSet(K)
          BY <1>4
        <5>2. \A x \in K : f[x] \in Int /\ g[rows[x]] = f[x]
          BY <3>1
        <5>3. \A x, y \in K : rows[x] = rows[y] => x = y
          BY <2>k
        <5> QED
          BY ONLY <5>1, <5>2, <5>3, SumAcross
      <4> QED
        BY <1>4, <4>1, Zenon
  <2>6. LatencyOf(recs, J) = SumFunctionOnSet(g, J)
    BY <2>2, <2>5, ServerAdds
  <2> QED
    BY <2>3, <2>4, <2>5, <2>6
<1>6. Cardinality(J) = Cardinality(K)
  <2>1. \A k, l \in K : rows[k] = rows[l] => k = l
    BY <1>2, <1>4
  <2> HIDE DEF J, K
  <2> QED
    <3>1. Cardinality({rows[k] : k \in K}) = Cardinality(K)
      <4>1. IsFiniteSet(K)
        BY <1>4
      <4> QED
        BY ONLY <2>1, <4>1, SameNumber
    <3> QED
      BY <1>4, <3>1, Zenon
<1>7. ASSUME NEW s
      PROVE  Cardinality({i \in I : recs[i].status = s}) = Cardinality({k \in S : recs[rows[k]].status = s})
  <2> DEFINE P == {k \in S : recs[rows[k]].status = s}
             Q == {i \in I : recs[i].status = s}
  <2>1. P \subseteq S /\ Q = {rows[k] : k \in P}
    OBVIOUS
  <2> HIDE DEF P, Q, S
  <2>2. IsFiniteSet(P) /\ \A k, l \in P : rows[k] = rows[l] => k = l
    BY <1>1, <1>2, <2>1, FS_Subset
  <2>3. Cardinality(Q) = Cardinality(P)
    <3>1. Cardinality({rows[k] : k \in P}) = Cardinality(P)
      BY ONLY <2>2, SameNumber
    <3> QED
      BY <2>1, <3>1, Zenon
  <2> QED
    BY <2>3 DEF P, Q
<1>8. {recs[i].status : i \in I} \cap Statuses = {recs[rows[k]].status : k \in S}
  <2>1. \A k \in S : recs[rows[k]].status \in Statuses
    BY <1>1 DEF Record
  <2> HIDE DEF S
  <2> QED
    BY <2>1, Zenon
<1> DEFINE own == summarizeHistoryMetrics(recs, rows)
           told == Report(recs, ToSet(rows))
<1>9. /\ DOMAIN own = {"costMinor", "avgLatencyMs", "statusCounts"}
      /\ own.costMinor = TotalCost(recs, rows)
      /\ own.avgLatencyMs = Average(TotalLatency(recs, rows), Cardinality(K))
      /\ own.statusCounts = [s \in {recs[rows[k]].status : k \in S} |->
                                Cardinality({k \in S : recs[rows[k]].status = s})]
  BY <1>1 DEF summarizeHistoryMetrics
<1>10. /\ told.costMinor = CostOf(recs, I)
       /\ told.avgLatencyMs = AverageLatency(recs, I)
       /\ told.statusCounts = CountsBy(recs, I, LAMBDA r : r.status, Statuses)
  BY <1>1 DEF Report
<1>11. AverageLatency(recs, I) = Average(LatencyOf(recs, J), Cardinality(J))
  BY DEF AverageLatency
<1>12. CountsBy(recs, I, LAMBDA r : r.status, Statuses)
         = [s \in {recs[i].status : i \in I} \cap Statuses |-> Cardinality({i \in I : recs[i].status = s})]
  BY DEF CountsBy
<1>13. own.statusCounts = told.statusCounts
  <2>1. [s \in {recs[i].status : i \in I} \cap Statuses |-> Cardinality({i \in I : recs[i].status = s})]
          = [s \in {recs[rows[k]].status : k \in S} |->
                Cardinality({k \in S : recs[rows[k]].status = s})]
    BY <1>7, <1>8, Zenon
  <2> HIDE DEF I, S, own, told
  <2> QED
    BY <1>9, <1>10, <1>12, <2>1, Zenon
<1> HIDE DEF I, J, K, S, own, told
<1>14. \A figure \in DOMAIN own : own[figure] = told[figure]
  BY <1>3, <1>5, <1>6, <1>9, <1>10, <1>11, <1>13
<1> QED
  BY <1>14 DEF own, told

LEMMA RowsOfPage ==
    ASSUME NEW recs \in Seq(Record), NEW f, Settable(f), f.limit \in Nat, f.offset \in Nat,
           NEW rows \in historyItems(recs, f)
    PROVE  /\ rows \in Seq(DOMAIN recs)
           /\ \A k, l \in 1 .. Len(rows) : rows[k] = rows[l] => k = l
<1> DEFINE W == historyWhere(recs, f)
<1>1. IsFiniteSet(W) /\ W \subseteq DOMAIN recs
  <2>1. IsFiniteSet(W) /\ W \subseteq 1 .. Len(recs)
    BY QueriesAgree
  <2> QED
    BY <2>1
<1>2. PICK all \in NewestFirst(recs, W) : rows = PageOf(all, f)
  BY DEF historyItems
<1> HIDE DEF W
<1> DEFINE n == Cardinality(W)
           low == f.offset + 1
           high == Min({f.offset + Min({f.limit, MaxPage}), Len(all)})
<1>3. /\ Len(all) = n /\ n \in Nat
      /\ \A k \in 1 .. n : all[k] \in W
      /\ \A k, l \in 1 .. n : all[k] = all[l] => k = l
  BY <1>1, RowsOnce, FS_CardinalityType
<1>4. low \in Nat \ {0} /\ high \in Int /\ high <= n
  <2>1. MaxPage \in Nat
    BY ReportsAssumption
  <2>2. Min({f.limit, MaxPage}) \in Nat
    BY <2>1, LowerOfTwo
  <2> DEFINE upto == f.offset + Min({f.limit, MaxPage})
  <2>3. upto \in Int
    BY <2>2
  <2> HIDE DEF upto
  <2>4. Min({upto, Len(all)}) \in Int /\ Min({upto, Len(all)}) <= n
    BY <1>3, <2>3, LowerOfTwo
  <2> QED
    BY <2>4 DEF upto
<1>5. rows = SubSeq(all, low, high)
  BY <1>2 DEF PageOf
<1> HIDE DEF n, low, high
<1>6. \A k \in low .. high : k \in 1 .. n /\ all[k] \in DOMAIN recs
  BY <1>1, <1>3, <1>4
<1>7. /\ rows \in Seq(DOMAIN recs)
      /\ Len(rows) = IF low <= high THEN high - low + 1 ELSE 0
      /\ \A k \in 1 .. high - low + 1 : rows[k] = all[low + k - 1]
  BY <1>4, <1>5, <1>6, SubSeqProperties
<1>8. ASSUME NEW k \in 1 .. Len(rows), NEW l \in 1 .. Len(rows), rows[k] = rows[l]
      PROVE  k = l
  <2>1. /\ k \in 1 .. high - low + 1 /\ l \in 1 .. high - low + 1
        /\ low + k - 1 \in low .. high /\ low + l - 1 \in low .. high
    BY <1>4, <1>7
  <2>2. all[low + k - 1] = all[low + l - 1]
    BY <1>7, <1>8, <2>1
  <2>3. low + k - 1 = low + l - 1
    BY <1>3, <1>6, <2>1, <2>2
  <2> QED
    BY <1>4, <2>1, <2>3
<1> QED
  BY <1>7, <1>8

\* A report that is not cut off is of the rows of the list, or, to an administrator
\* of the platform, of those that count for it; and what the console adds up of the
\* rows it shows is what the server reports of them (HistoryPage, OverviewPage),
\* whatever order each of the two adds them in.
THEOREM ConsoleAddsLikeTheServer == ConsoleSpec => []FiguresAgree
<1>1. ASSUME HistoryWell, PagerWell, NEW rows \in historyItems(records, debounced)
      PROVE  LET own == buildOverviewAnalytics(records, rows).totals
             IN  \A figure \in DOMAIN own : own[figure] = Report(records, ToSet(rows))[figure]
  <2> DEFINE own == summarizeHistoryMetrics(records, rows)
  <2>1. records \in Seq(Record) /\ Settable(debounced)
    BY <1>1 DEF HistoryWell, FiltersWell
  <2>2. debounced.limit \in Nat /\ debounced.offset \in Nat
    BY <1>1, LimitsAreNumbers DEF PagerWell, PageOffered
  <2>3. /\ rows \in Seq(DOMAIN records)
        /\ \A k, l \in 1 .. Len(rows) : rows[k] = rows[l] => k = l
    BY <1>1, <2>1, <2>2, RowsOfPage
  <2>4. \A figure \in DOMAIN own : own[figure] = Report(records, ToSet(rows))[figure]
    BY <2>1, <2>3, FiguresOfRows
  <2>5. buildOverviewAnalytics(records, rows).totals = own
    <3> HIDE DEF own
    <3> QED
      BY DEF buildOverviewAnalytics, own
  <2> QED
    BY <2>4, <2>5
<1>2. HistoryWell => ReportIsOfTheList
  BY ReportOfMatches DEF HistoryWell, FiltersWell, ReportIsOfTheList
<1>3. HistoryWell /\ PagerWell => FiguresAgree
  BY <1>1, <1>2 DEF FiguresAgree
<1> QED
  BY <1>3, PagerAlways, HistoryAlways, PTL

-----------------------------------------------------------------------------
(* The panel of an organization's checks.                                  *)

Cell == BOOLEAN \cup {Absent}
RowCells == [Checks -> Cell]

PanelShape ==
    /\ DOMAIN panel = {"selected", "rows", "ticks", "loading", "busy", "error"}
    /\ panel.selected \in Orgs \cup {Absent}
    /\ panel.rows \in RowCells
    /\ panel.ticks \in [Checks -> BOOLEAN]

LoadShape(l) ==
    /\ DOMAIN l = {"org", "rows", "ofSave"}
    /\ l.org \in Orgs
    /\ l.rows # << >> => l.rows \in RowCells

\* A tick that differs from its row was set by the user, or stands for no row.
PanelMeant ==
    panel.selected # Absent =>
        \A c \in Checks :
            panel.ticks[c] # panel.rows[c] =>
                \/ <<panel.selected, c, panel.ticks[c]>> \in meant
                \/ panel.rows[c] = Absent /\ panel.ticks[c]

SaveShape(s) ==
    /\ DOMAIN s = {"org", "todo", "rowless", "put", "mounted"}
    /\ s.org \in Orgs
    /\ s.todo \in [DOMAIN s.todo -> BOOLEAN] /\ DOMAIN s.todo \subseteq Checks
    /\ s.put = "deleted" => DOMAIN s.todo # {}

SaveMeant(s) ==
    \A c \in DOMAIN s.todo :
        \/ <<s.org, c, s.todo[c]>> \in meant
        \/ c \in s.rowless /\ s.todo[c]

AdminWell ==
    /\ orgRows \in [Orgs -> RowCells]
    /\ PanelShape /\ PanelMeant
    /\ \A l \in orgLoads : LoadShape(l)
    /\ \A s \in saves : SaveShape(s) /\ SaveMeant(s)

LEMMA MountedPanel ==
    ASSUME panel' = EmptyPanel
    PROVE  PanelShape' /\ PanelMeant'
  BY DEF EmptyPanel, PanelShape, PanelMeant, RowCells, Cell

LEMMA AdminStep ==
    ASSUME AdminWell, [AdminNext]_adminVars
    PROVE  AdminWell'
<1> USE DEF AdminWell
<1> DEFINE LoadsWell == \A l \in orgLoads : LoadShape(l)
           SavesWell == \A s \in saves : SaveShape(s) /\ SaveMeant(s)
<1>s. ASSUME meant \subseteq meant', UNCHANGED saves
      PROVE  SavesWell'
  BY <1>s DEF SaveShape, SaveMeant
<1>p. ASSUME UNCHANGED <<panel, meant>>
      PROVE  PanelShape' /\ PanelMeant'
  BY <1>p DEF PanelShape, PanelMeant
<1>k. ASSUME UNCHANGED meant, panel'.rows = panel.rows, panel'.ticks = panel.ticks,
             DOMAIN panel' = DOMAIN panel, panel'.selected \in {panel.selected, Absent}
      PROVE  PanelShape' /\ PanelMeant'
  BY <1>k DEF PanelShape, PanelMeant
<1>l. ASSUME NEW load \in orgLoads, orgLoads' = orgLoads \ {load}
      PROVE  LoadsWell'
  BY <1>l DEF LoadShape
<1>a. ASSUME NEW org \in Orgs, NEW ofSave, UNCHANGED meant, loadOrgDetails(org, ofSave)
      PROVE  PanelShape' /\ PanelMeant' /\ LoadsWell'
  <2>1. PanelShape' /\ PanelMeant'
    BY <1>a, <1>k DEF loadOrgDetails, PanelShape
  <2>2. LoadsWell'
    BY <1>a DEF loadOrgDetails, Loads, LoadShape
  <2> QED
    BY <2>1, <2>2
<1>b. ASSUME NEW save \in saves, NEW next, SaveShape(next), SaveMeant(next), UNCHANGED meant,
             Becomes(save, next)
      PROVE  SavesWell'
  BY <1>b DEF Becomes, SaveShape, SaveMeant
<1>w. ASSUME NEW save \in saves, NEW v \in Cell,
             orgRows' = [orgRows EXCEPT ![save.org][Min(DOMAIN save.todo)] = v]
      PROVE  orgRows' \in [Orgs -> RowCells]
  BY <1>w DEF SaveShape, RowCells
<1>1. CASE loadAdmin
  <2>1. SavesWell'
    BY <1>1 DEF loadAdmin, SaveShape, SaveMeant
  <2> QED
    BY <1>1, <2>1, MountedPanel DEF loadAdmin
<1>2. CASE AdminAnswered
  <2>1. PanelShape' /\ PanelMeant'
    BY <1>2, <1>k, <1>p DEF AdminAnswered, PanelShape
  <2> QED
    BY <1>2, <1>s, <2>1 DEF AdminAnswered
<1>3. ASSUME NEW org \in Orgs, Manage(org)
      PROVE  AdminWell'
  BY <1>3, <1>s, <1>a DEF Manage
<1>4. ASSUME NEW load \in orgLoads, getOrgEnabledChecks(load)
      PROVE  AdminWell'
  <2>1. LoadsWell'
    BY <1>4 DEF getOrgEnabledChecks, LoadShape
  <2> QED
    BY <1>4, <1>s, <1>p, <2>1 DEF getOrgEnabledChecks
<1>5. ASSUME NEW load \in orgLoads, OrgAnswered(load)
      PROVE  AdminWell'
  <2>1. load.org \in Orgs /\ load.rows \in RowCells
    BY <1>5 DEF OrgAnswered, LoadShape
  <2>2. PanelShape'
    BY <1>5, <2>1 DEF OrgAnswered, PanelShape
  <2>3. \A c \in Checks : panel'.ticks[c] # panel'.rows[c] => panel'.rows[c] = Absent /\ panel'.ticks[c]
    <3> SUFFICES ASSUME NEW c \in Checks, panel'.ticks[c] # panel'.rows[c]
                 PROVE  panel'.rows[c] = Absent /\ panel'.ticks[c] = TRUE
      OBVIOUS
    <3>1. panel'.rows = load.rows /\ (panel'.ticks[c] <=> load.rows[c] \in {Absent, TRUE})
      BY <1>5 DEF OrgAnswered
    <3>2. load.rows[c] \in BOOLEAN \cup {Absent} /\ panel'.ticks[c] \in BOOLEAN
      BY <2>1, <2>2 DEF RowCells, Cell, PanelShape
    <3>3. CASE load.rows[c] = Absent
      BY <3>1, <3>2, <3>3
    <3>4. CASE load.rows[c] # Absent
      BY <3>1, <3>2, <3>4
    <3> QED
      BY <3>3, <3>4
  <2>4. PanelMeant'
    BY <2>3 DEF PanelMeant
  <2> QED
    BY <1>5, <1>s, <1>l, <2>2, <2>4 DEF OrgAnswered
<1>6. ASSUME NEW load \in orgLoads, OrgFails(load)
      PROVE  AdminWell'
  <2>1. PanelShape' /\ PanelMeant'
    BY <1>6, <1>k DEF OrgFails, PanelShape
  <2> QED
    BY <1>6, <1>s, <1>l, <2>1 DEF OrgFails
<1>7. CASE Clear
  <2>1. PanelShape' /\ PanelMeant'
    BY <1>7, <1>k DEF Clear, PanelShape
  <2> QED
    BY <1>7, <1>s, <2>1 DEF Clear
<1>8. ASSUME NEW c \in Checks, Tick(c)
      PROVE  AdminWell'
  <2>1. PanelShape'
    BY <1>8 DEF Tick, PanelShape
  <2>2. PanelMeant'
    BY <1>8 DEF Tick, PanelShape, PanelMeant
  <2>3. meant \subseteq meant'
    BY <1>8 DEF Tick
  <2> QED
    BY <1>8, <1>s, <2>1, <2>2, <2>3 DEF Tick
<1>9. CASE saveEnabledChecks
  <2> DEFINE changed == {c \in Checks \ Locked : panel.rows[c] # panel.ticks[c]}
             new == Saving(panel.selected, Restrict(panel.ticks, changed),
                           {c \in changed : panel.rows[c] = Absent})
  <2>1. panel.selected \in Orgs /\ panel.selected # Absent /\ saves' = saves \cup {new}
    BY <1>9 DEF saveEnabledChecks, PanelShown, PanelShape
  <2>2. new.todo = [c \in changed |-> panel.ticks[c]] /\ DOMAIN new.todo = changed
    BY DEF Saving, Restrict
  <2>n. /\ DOMAIN new = {"org", "todo", "rowless", "put", "mounted"}
        /\ new.org = panel.selected /\ new.put # "deleted"
        /\ new.rowless = {c \in changed : panel.rows[c] = Absent}
    BY DEF Saving
  <2>3. SaveShape(new)
    <3>1. panel.ticks \in [Checks -> BOOLEAN] /\ changed \subseteq Checks
      BY DEF PanelShape
    <3> HIDE DEF new, changed
    <3> QED
      BY <2>1, <2>2, <2>n, <3>1 DEF SaveShape
  <2>4. SaveMeant(new)
    <3>1. ASSUME NEW c \in changed
          PROVE  \/ <<panel.selected, c, panel.ticks[c]>> \in meant
                 \/ panel.rows[c] = Absent /\ panel.ticks[c]
      BY <2>1 DEF PanelMeant
    <3> HIDE DEF new
    <3> QED
      BY <2>2, <2>n, <3>1 DEF SaveMeant
  <2> HIDE DEF new
  <2>5. SavesWell'
    BY <1>9, <2>1, <2>3, <2>4 DEF saveEnabledChecks, SaveShape, SaveMeant
  <2>6. PanelShape' /\ PanelMeant'
    BY <1>9, <1>k DEF saveEnabledChecks, PanelShape
  <2> QED
    BY <1>9, <2>5, <2>6 DEF saveEnabledChecks
<1>10. ASSUME NEW save \in saves, deleteRow(save)
       PROVE  AdminWell'
  <2>1. DOMAIN save.todo # {}
    <3>1. save.todo \in [DOMAIN save.todo -> BOOLEAN] /\ save.todo # << >>
      BY <1>10 DEF deleteRow, SaveShape
    <3>2. ASSUME NEW f \in [{} -> BOOLEAN] PROVE f = << >>
      OBVIOUS
    <3> QED
      BY <3>1, <3>2
  <2>2. SaveShape([save EXCEPT !.put = "deleted"]) /\ SaveMeant([save EXCEPT !.put = "deleted"])
    BY <2>1 DEF SaveShape, SaveMeant
  <2>3. SavesWell'
    BY <1>10, <1>b, <2>2 DEF deleteRow
  <2>4. orgRows' \in [Orgs -> RowCells]
    BY <1>10, <1>w DEF deleteRow, Cell
  <2> QED
    BY <1>10, <1>p, <2>3, <2>4 DEF deleteRow
<1>11. ASSUME NEW save \in saves, createRow(save)
       PROVE  AdminWell'
  <2>1. DOMAIN save.todo # {} /\ DOMAIN save.todo \subseteq Nat
    BY <1>11, AdminAssumption DEF createRow, SaveShape
  <2>2. save.todo[Min(DOMAIN save.todo)] \in Cell
    BY <2>1, Smallest DEF SaveShape, Cell
  <2>3. SaveShape([save EXCEPT !.put = "created"]) /\ SaveMeant([save EXCEPT !.put = "created"])
    BY DEF SaveShape, SaveMeant
  <2>4. SavesWell'
    BY <1>11, <1>b, <2>3 DEF createRow
  <2>5. orgRows' \in [Orgs -> RowCells]
    BY <1>11, <1>w, <2>2 DEF createRow
  <2> QED
    BY <1>11, <1>p, <2>4, <2>5 DEF createRow
<1>12. ASSUME NEW save \in saves, PutAnswered(save)
       PROVE  AdminWell'
  <2> DEFINE rest == (DOMAIN save.todo) \ {Min(DOMAIN save.todo)}
             next == [save EXCEPT !.put = "sent", !.todo = Restrict(@, rest)]
  <2>1. next.todo = [c \in rest |-> save.todo[c]] /\ next.put = "sent"
        /\ next.org = save.org /\ next.rowless = save.rowless /\ DOMAIN next = DOMAIN save
    BY DEF SaveShape, Restrict
  <2>2. Becomes(save, next) /\ UNCHANGED meant
    BY <1>12 DEF PutAnswered
  <2>3. rest \subseteq DOMAIN save.todo
    OBVIOUS
  <2> HIDE DEF next, rest
  <2>4. SaveShape(next) /\ SaveMeant(next)
    BY <2>1, <2>3 DEF SaveShape, SaveMeant
  <2>5. SavesWell'
    BY <1>b, <2>2, <2>4
  <2> QED
    BY <1>12, <1>p, <2>5 DEF PutAnswered
<1>13. ASSUME NEW save \in saves, PutFails(save)
       PROVE  AdminWell'
  <2>1. PanelShape' /\ PanelMeant'
    BY <1>13, <1>k, <1>p DEF PutFails, PanelShape
  <2>2. SavesWell'
    BY <1>13 DEF PutFails, SaveShape, SaveMeant
  <2> QED
    BY <1>13, <2>1, <2>2 DEF PutFails
<1>14. ASSUME NEW save \in saves, Saved(save)
       PROVE  AdminWell'
  <2>1. SavesWell'
    BY <1>14 DEF Saved, SaveShape, SaveMeant
  <2>2. save.org \in Orgs
    BY DEF SaveShape
  <2>3. CASE save.mounted
    BY <1>14, <1>a, <2>1, <2>2, <2>3 DEF Saved
  <2>4. CASE ~save.mounted
    BY <1>14, <1>p, <2>1, <2>4 DEF Saved
  <2> QED
    BY <2>3, <2>4
<1>15. CASE UNCHANGED adminVars
  BY <1>15, <1>s, <1>p DEF adminVars, panelVars
<1> QED
  BY <1>1, <1>2, <1>3, <1>4, <1>5, <1>6, <1>7, <1>8, <1>9, <1>10, <1>11, <1>12, <1>13, <1>14, <1>15
     DEF AdminNext

\* A save writes for an organization only what was ticked for it, or the row that a
\* check without one stands for (AdminPage): rows, ticks and organization of the
\* panel always come from one answer, whichever answers overtake each other.
THEOREM TicksAreSavedForTheirOrg == ConsoleSpec => []TicksStayWithTheirOrg
<1>1. ASSUME ConsoleInit PROVE AdminWell
  <2>1. AdminInit
    BY <1>1, PagesInit
  <2>2. PanelShape /\ PanelMeant
    BY <2>1 DEF AdminInit, EmptyPanel, PanelShape, PanelMeant, RowCells, Cell
  <2>3. orgRows \in [Orgs -> RowCells]
    BY <2>1, AdminAssumption DEF AdminInit, RowCells, Cell
  <2> QED
    BY <2>1, <2>2, <2>3 DEF AdminInit, AdminWell
<1>2. AdminWell /\ [ConsoleNext]_consoleVars => AdminWell'
  BY AdminStep, StepsOfAdmin
<1>3. AdminWell => TicksStayWithTheirOrg
  BY DEF AdminWell, SaveMeant, TicksStayWithTheirOrg
<1> QED
  BY <1>1, <1>2, <1>3, PTL DEF ConsoleSpec

-----------------------------------------------------------------------------
(* Who serves a check.                                                     *)

\* What the registry resolves to, and what the record then says.
LEMMA AnswersServed ==
    ASSUME NEW type, NEW input
    PROVE  RecordedAsServed(type, input)
<1> SUFFICES ASSUME NEW primary \in BOOLEAN, NEW backup \in BOOLEAN, NEW useBackup \in BOOLEAN,
                    NEW backupPrice \in BOOLEAN, NEW on \in BOOLEAN, NEW live \in BOOLEAN,
                    NEW backedUp \in BOOLEAN
             PROVE  LET Some(b)  == IF b THEN {type} ELSE {}
                        registry == buildRegistry(Some(on), primary, backup, Some(live), Some(backedUp))
                        provider == resolve(registry, type, useBackup)
                    IN  \A answer \in ProviderAnswers(provider, type, input) :
                            LET outcome == Outcome(registry, type, useBackup, backupPrice, answer)
                            IN  /\ outcome.isBackup <=> provider = "backup"
                                /\ outcome.backupAvailable =>
                                       /\ provider = "primary" /\ backupPrice
                                       /\ resolve(registry, type, TRUE) = "backup"
  BY Zenon DEF RecordedAsServed
<1> DEFINE Some(b)  == IF b THEN {type} ELSE {}
           registry == buildRegistry(Some(on), primary, backup, Some(live), Some(backedUp))
           provider == resolve(registry, type, useBackup)
<1>1. /\ isEnabled(registry, type) <=> on
      /\ isLive(registry, type) <=> primary /\ live
      /\ hasBackup(registry, type) <=> primary /\ backup /\ backedUp
  BY DEF buildRegistry, isEnabled, isLive, hasBackup
<1> HIDE DEF registry
<1>2. provider = "mock" => "UPSTREAM_DOWN" \notin ProviderAnswers(provider, type, input)
  BY DEF ProviderAnswers, MockAnswers
<1>3. provider = "UNKNOWN" => "UPSTREAM_DOWN" \notin ProviderAnswers(provider, type, input)
  BY DEF ProviderAnswers
<1>4. /\ ~on => provider = "UNKNOWN"
      /\ on /\ useBackup /\ hasBackup(registry, type) => provider = "backup"
      /\ on /\ ~(useBackup /\ hasBackup(registry, type)) /\ isLive(registry, type) => provider = "primary"
      /\ on /\ ~(useBackup /\ hasBackup(registry, type)) /\ ~isLive(registry, type) => provider = "mock"
      /\ on /\ hasBackup(registry, type) => resolve(registry, type, TRUE) = "backup"
  BY <1>1 DEF resolve
<1> HIDE DEF provider
<1> SUFFICES ASSUME NEW answer \in ProviderAnswers(provider, type, input)
             PROVE  LET outcome == Outcome(registry, type, useBackup, backupPrice, answer)
                    IN  /\ outcome.isBackup <=> provider = "backup"
                        /\ outcome.backupAvailable =>
                               /\ provider = "primary" /\ backupPrice
                               /\ resolve(registry, type, TRUE) = "backup"
  BY DEF provider, registry
<1>5. /\ Outcome(registry, type, useBackup, backupPrice, answer).isBackup
             <=> useBackup /\ hasBackup(registry, type) /\ on
      /\ Outcome(registry, type, useBackup, backupPrice, answer).backupAvailable
             <=> answer = "UPSTREAM_DOWN" /\ ~useBackup /\ hasBackup(registry, type) /\ backupPrice
  BY <1>1 DEF Outcome
<1> QED
  BY <1>1, <1>2, <1>3, <1>4, <1>5

\* Every check is recorded as served by who is asked (Providers), in every
\* environment: the record says backup exactly if the backup is called, and offers
\* it exactly to those whom a second run would take there.
THEOREM RecordsTellWhoServed == ConsoleSpec => []RecordsSayWhoServed
<1>1. RecordsSayWhoServed
  BY AnswersServed DEF RecordsSayWhoServed
<1> QED
  BY <1>1, PTL

-----------------------------------------------------------------------------
(* What a check asks for, and its form.                                    *)

\* What a check asks for: the forms, one line per product.
LEMMA FormDomains ==
    /\ DOMAIN PersonForms =
           {"iprs_standard", "match_id_phone", "employer_verification", "face_id_match",
            "bank_account_verification", "alien_id", "aml_pep_screen", "passport_check",
            "sim_swap_check", "kplc_location_checker"}
    /\ DOMAIN RegisterForms =
           {"kra_pin_verification", "search_name_by_phone", "motor_vehicle_ownership",
            "drivers_license_verification", "brs", "scanned_statement"}
  BY DEF PersonForms, RegisterForms

LEMMA FormsAsk ==
    /\ \A t \in IdTypes : VERIFICATION_FORM_FIELDS[t] = [idNumber |-> TRUE]
    /\ VERIFICATION_FORM_FIELDS["match_id_phone"] = [idNumber |-> TRUE, phoneNumber |-> TRUE]
    /\ VERIFICATION_FORM_FIELDS["employer_verification"] = [idNumber |-> TRUE, employerName |-> TRUE]
    /\ VERIFICATION_FORM_FIELDS["face_id_match"] = [idNumber |-> TRUE, faceImageBase64 |-> TRUE]
    /\ VERIFICATION_FORM_FIELDS["bank_account_verification"] =
           [accountNumber |-> TRUE, bankCode |-> TRUE, idNumber |-> FALSE]
    /\ VERIFICATION_FORM_FIELDS["alien_id"] = [alienId |-> TRUE]
    /\ VERIFICATION_FORM_FIELDS["passport_check"] = [passportNumber |-> TRUE, nationality |-> TRUE]
    /\ VERIFICATION_FORM_FIELDS["sim_swap_check"] = [phoneNumber |-> TRUE]
    /\ VERIFICATION_FORM_FIELDS["kplc_location_checker"] = [meterNumber |-> TRUE]
    /\ VERIFICATION_FORM_FIELDS["kra_pin_verification"] = [kraPin |-> TRUE, idNumber |-> FALSE]
    /\ VERIFICATION_FORM_FIELDS["search_name_by_phone"] = [phoneNumber |-> TRUE]
    /\ VERIFICATION_FORM_FIELDS["motor_vehicle_ownership"] = [vehicleRegNumber |-> TRUE]
    /\ VERIFICATION_FORM_FIELDS["drivers_license_verification"] =
           [dlNumber |-> TRUE]
    /\ VERIFICATION_FORM_FIELDS["brs"] = [businessRegNumber |-> TRUE, statementFileBase64 |-> TRUE]
    /\ VERIFICATION_FORM_FIELDS["scanned_statement"] = [statementPages |-> TRUE, statementFileBase64 |-> TRUE]
<1>a. ASSUME NEW t \in DOMAIN PersonForms
      PROVE  VERIFICATION_FORM_FIELDS[t] = PersonForms[t]
  <2>1. t \in VERIFICATION_TYPES /\ t \notin DOMAIN RegisterForms
    BY <1>a, FormDomains DEF VERIFICATION_TYPES, IdTypes, BureauTypes
  <2> QED
    BY <1>a, <2>1 DEF VERIFICATION_FORM_FIELDS
<1>b. ASSUME NEW t \in DOMAIN RegisterForms
      PROVE  VERIFICATION_FORM_FIELDS[t] = RegisterForms[t]
  <2>1. t \in VERIFICATION_TYPES /\ t \notin DOMAIN PersonForms
    BY <1>b, FormDomains DEF VERIFICATION_TYPES, IdTypes, BureauTypes
  <2> QED
    BY <1>b, <2>1 DEF VERIFICATION_FORM_FIELDS
<1>1. ASSUME NEW t \in IdTypes
      PROVE  VERIFICATION_FORM_FIELDS[t] = [idNumber |-> TRUE]
  <2>1. CASE t \in {"iprs_standard", "aml_pep_screen"}
    BY <1>a, <2>1, FormDomains DEF PersonForms
  <2>2. CASE t \notin {"iprs_standard", "aml_pep_screen"}
    <3>1. t \in VERIFICATION_TYPES /\ t \notin DOMAIN PersonForms /\ t \notin DOMAIN RegisterForms
      BY <2>2, FormDomains DEF VERIFICATION_TYPES, IdTypes, BureauTypes
    <3> QED
      BY <3>1 DEF VERIFICATION_FORM_FIELDS
  <2> QED
    BY <2>1, <2>2
<1>2. VERIFICATION_FORM_FIELDS["match_id_phone"] = [idNumber |-> TRUE, phoneNumber |-> TRUE]
  BY <1>a, FormDomains DEF PersonForms
<1>3. VERIFICATION_FORM_FIELDS["employer_verification"] = [idNumber |-> TRUE, employerName |-> TRUE]
  BY <1>a, FormDomains DEF PersonForms
<1>4. VERIFICATION_FORM_FIELDS["face_id_match"] = [idNumber |-> TRUE, faceImageBase64 |-> TRUE]
  BY <1>a, FormDomains DEF PersonForms
<1>5. VERIFICATION_FORM_FIELDS["bank_account_verification"] = [accountNumber |-> TRUE, bankCode |-> TRUE, idNumber |-> FALSE]
  BY <1>a, FormDomains DEF PersonForms
<1>6. VERIFICATION_FORM_FIELDS["alien_id"] = [alienId |-> TRUE]
  BY <1>a, FormDomains DEF PersonForms
<1>7. VERIFICATION_FORM_FIELDS["passport_check"] = [passportNumber |-> TRUE, nationality |-> TRUE]
  BY <1>a, FormDomains DEF PersonForms
<1>8. VERIFICATION_FORM_FIELDS["sim_swap_check"] = [phoneNumber |-> TRUE]
  BY <1>a, FormDomains DEF PersonForms
<1>9. VERIFICATION_FORM_FIELDS["kplc_location_checker"] = [meterNumber |-> TRUE]
  BY <1>a, FormDomains DEF PersonForms
<1>10. VERIFICATION_FORM_FIELDS["kra_pin_verification"] = [kraPin |-> TRUE, idNumber |-> FALSE]
  BY <1>b, FormDomains DEF RegisterForms
<1>11. VERIFICATION_FORM_FIELDS["search_name_by_phone"] = [phoneNumber |-> TRUE]
  BY <1>b, FormDomains DEF RegisterForms
<1>12. VERIFICATION_FORM_FIELDS["motor_vehicle_ownership"] = [vehicleRegNumber |-> TRUE]
  BY <1>b, FormDomains DEF RegisterForms
<1>13. VERIFICATION_FORM_FIELDS["drivers_license_verification"] = [dlNumber |-> TRUE]
  BY <1>b, FormDomains DEF RegisterForms
<1>14. VERIFICATION_FORM_FIELDS["brs"] = [businessRegNumber |-> TRUE, statementFileBase64 |-> TRUE]
  BY <1>b, FormDomains DEF RegisterForms
<1>15. VERIFICATION_FORM_FIELDS["scanned_statement"] = [statementPages |-> TRUE, statementFileBase64 |-> TRUE]
  BY <1>b, FormDomains DEF RegisterForms
<1> QED
  BY <1>1, <1>2, <1>3, <1>4, <1>5, <1>6, <1>7, <1>8,
     <1>9, <1>10, <1>11, <1>12, <1>13, <1>14, <1>15

LEMMA RequiredOf ==
    /\ \A t \in IdTypes : RequiredFields(t) = {"idNumber"}
    /\ RequiredFields("match_id_phone") = {"idNumber", "phoneNumber"}
    /\ RequiredFields("employer_verification") = {"idNumber", "employerName"}
    /\ RequiredFields("face_id_match") = {"idNumber", "faceImageBase64"}
    /\ RequiredFields("bank_account_verification") = {"accountNumber", "bankCode"}
    /\ RequiredFields("alien_id") = {"alienId"}
    /\ RequiredFields("passport_check") = {"passportNumber", "nationality"}
    /\ RequiredFields("sim_swap_check") = {"phoneNumber"}
    /\ RequiredFields("kplc_location_checker") = {"meterNumber"}
    /\ RequiredFields("kra_pin_verification") = {"kraPin"}
    /\ RequiredFields("search_name_by_phone") = {"phoneNumber"}
    /\ RequiredFields("motor_vehicle_ownership") = {"vehicleRegNumber"}
    /\ RequiredFields("drivers_license_verification") = {"dlNumber"}
    /\ RequiredFields("brs") = {"businessRegNumber", "statementFileBase64"}
    /\ RequiredFields("scanned_statement") = {"statementPages", "statementFileBase64"}
    /\ \A t \in VERIFICATION_TYPES : DOMAIN VERIFICATION_FORM_FIELDS[t] \subseteq RunFields
<1>0. \A t \in IdTypes : /\ RequiredFields(t) = {"idNumber"}
                         /\ DOMAIN VERIFICATION_FORM_FIELDS[t] \subseteq RunFields
  BY FormsAsk DEF RequiredFields, RunFields, BulkRowFields
<1>1. /\ RequiredFields("match_id_phone") = {"idNumber", "phoneNumber"}
      /\ DOMAIN VERIFICATION_FORM_FIELDS["match_id_phone"] \subseteq RunFields
  BY FormsAsk DEF RequiredFields, RunFields, BulkRowFields
<1>2. /\ RequiredFields("employer_verification") = {"idNumber", "employerName"}
      /\ DOMAIN VERIFICATION_FORM_FIELDS["employer_verification"] \subseteq RunFields
  BY FormsAsk DEF RequiredFields, RunFields, BulkRowFields
<1>3. /\ RequiredFields("face_id_match") = {"idNumber", "faceImageBase64"}
      /\ DOMAIN VERIFICATION_FORM_FIELDS["face_id_match"] \subseteq RunFields
  BY FormsAsk DEF RequiredFields, RunFields, BulkRowFields
<1>4. /\ RequiredFields("bank_account_verification") = {"accountNumber", "bankCode"}
      /\ DOMAIN VERIFICATION_FORM_FIELDS["bank_account_verification"] \subseteq RunFields
  BY FormsAsk DEF RequiredFields, RunFields, BulkRowFields
<1>5. /\ RequiredFields("alien_id") = {"alienId"}
      /\ DOMAIN VERIFICATION_FORM_FIELDS["alien_id"] \subseteq RunFields
  BY FormsAsk DEF RequiredFields, RunFields, BulkRowFields
<1>6. /\ RequiredFields("passport_check") = {"passportNumber", "nationality"}
      /\ DOMAIN VERIFICATION_FORM_FIELDS["passport_check"] \subseteq RunFields
  BY FormsAsk DEF RequiredFields, RunFields, BulkRowFields
<1>7. /\ RequiredFields("sim_swap_check") = {"phoneNumber"}
      /\ DOMAIN VERIFICATION_FORM_FIELDS["sim_swap_check"] \subseteq RunFields
  BY FormsAsk DEF RequiredFields, RunFields, BulkRowFields
<1>8. /\ RequiredFields("kplc_location_checker") = {"meterNumber"}
      /\ DOMAIN VERIFICATION_FORM_FIELDS["kplc_location_checker"] \subseteq RunFields
  BY FormsAsk DEF RequiredFields, RunFields, BulkRowFields
<1>9. /\ RequiredFields("kra_pin_verification") = {"kraPin"}
      /\ DOMAIN VERIFICATION_FORM_FIELDS["kra_pin_verification"] \subseteq RunFields
  BY FormsAsk DEF RequiredFields, RunFields, BulkRowFields
<1>10. /\ RequiredFields("search_name_by_phone") = {"phoneNumber"}
      /\ DOMAIN VERIFICATION_FORM_FIELDS["search_name_by_phone"] \subseteq RunFields
  BY FormsAsk DEF RequiredFields, RunFields, BulkRowFields
<1>11. /\ RequiredFields("motor_vehicle_ownership") = {"vehicleRegNumber"}
      /\ DOMAIN VERIFICATION_FORM_FIELDS["motor_vehicle_ownership"] \subseteq RunFields
  BY FormsAsk DEF RequiredFields, RunFields, BulkRowFields
<1>12. /\ RequiredFields("drivers_license_verification") = {"dlNumber"}
      /\ DOMAIN VERIFICATION_FORM_FIELDS["drivers_license_verification"] \subseteq RunFields
  BY FormsAsk DEF RequiredFields, RunFields, BulkRowFields
<1>13. /\ RequiredFields("brs") = {"businessRegNumber", "statementFileBase64"}
      /\ DOMAIN VERIFICATION_FORM_FIELDS["brs"] \subseteq RunFields
  BY FormsAsk DEF RequiredFields, RunFields, BulkRowFields
<1>14. /\ RequiredFields("scanned_statement") = {"statementPages", "statementFileBase64"}
      /\ DOMAIN VERIFICATION_FORM_FIELDS["scanned_statement"] \subseteq RunFields
  BY FormsAsk DEF RequiredFields, RunFields, BulkRowFields
<1>15. \A t \in VERIFICATION_TYPES : DOMAIN VERIFICATION_FORM_FIELDS[t] \subseteq RunFields
  BY <1>0, <1>1, <1>2, <1>3, <1>4, <1>5, <1>6, <1>7, <1>8, <1>9, <1>10, <1>11, <1>12, <1>13, <1>14 DEF VERIFICATION_TYPES
<1> QED
  BY <1>0, <1>1, <1>2, <1>3, <1>4, <1>5, <1>6, <1>7, <1>8, <1>9, <1>10, <1>11, <1>12, <1>13, <1>14, <1>15

\* The registers of the mock, and that they look at nothing that the form does not
\* ask for.
LEMMA RegisterDomains ==
    /\ DOMAIN StandardRegisters =
           {"iprs_standard", "match_id_phone", "employer_verification",
            "face_id_match", "bank_account_verification"}
    /\ DOMAIN PremiumRegisters =
           {"alien_id", "aml_pep_screen", "passport_check"}
    /\ DOMAIN UtilityRegisters =
           {"sim_swap_check", "kplc_location_checker", "kra_pin_verification",
            "search_name_by_phone", "search_phones_by_id"}
    /\ DOMAIN VehicleRegisters =
           {"motor_vehicle_ownership", "drivers_license_verification"}
    /\ DOMAIN MetropolRegisters =
           {"metropol_score_only", "metropol_standard_report",
            "metropol_full_report"}
    /\ DOMAIN CreditInfoRegisters =
           {"creditinfo_score_only", "creditinfo_comprehensive",
            "creditinfo_crb_status"}
    /\ DOMAIN OtherRegisters =
           {"brs", "spin_score_only", "scanned_statement"}
  BY DEF StandardRegisters, PremiumRegisters, UtilityRegisters, VehicleRegisters,
         MetropolRegisters, CreditInfoRegisters, OtherRegisters

LEMMA RegistersAre ==
    ASSUME NEW t \in VERIFICATION_TYPES
    PROVE  /\ t \in DOMAIN StandardRegisters => Registers[t] = StandardRegisters[t]
           /\ t \in DOMAIN PremiumRegisters => Registers[t] = PremiumRegisters[t]
           /\ t \in DOMAIN UtilityRegisters => Registers[t] = UtilityRegisters[t]
           /\ t \in DOMAIN VehicleRegisters => Registers[t] = VehicleRegisters[t]
           /\ t \in DOMAIN MetropolRegisters => Registers[t] = MetropolRegisters[t]
           /\ t \in DOMAIN CreditInfoRegisters => Registers[t] = CreditInfoRegisters[t]
           /\ t \in DOMAIN OtherRegisters => Registers[t] = OtherRegisters[t]
<1> USE RegisterDomains DEF Registers
<1>1. t \in DOMAIN StandardRegisters => Registers[t] = StandardRegisters[t]
  OBVIOUS
<1>2. t \in DOMAIN PremiumRegisters => Registers[t] = PremiumRegisters[t]
  OBVIOUS
<1>3. t \in DOMAIN UtilityRegisters => Registers[t] = UtilityRegisters[t]
  OBVIOUS
<1>4. t \in DOMAIN VehicleRegisters => Registers[t] = VehicleRegisters[t]
  OBVIOUS
<1>5. t \in DOMAIN MetropolRegisters => Registers[t] = MetropolRegisters[t]
  OBVIOUS
<1>6. t \in DOMAIN CreditInfoRegisters => Registers[t] = CreditInfoRegisters[t]
  OBVIOUS
<1>7. t \in DOMAIN OtherRegisters => Registers[t] = OtherRegisters[t]
  OBVIOUS
<1> QED
  BY <1>1, <1>2, <1>3, <1>4, <1>5, <1>6, <1>7

LEMMA RegistersNeed ==
    ASSUME NEW t \in VERIFICATION_TYPES
    PROVE  Registers[t].needs \subseteq RequiredFields(t)
<1>1. CASE t \in DOMAIN StandardRegisters
  <2>1. Registers[t] = StandardRegisters[t]
    BY <1>1, RegistersAre
  <2>2. CASE t = "iprs_standard"
    BY <2>1, <2>2, RequiredOf DEF StandardRegisters, Of, IdTypes, BureauTypes
  <2>3. CASE t = "match_id_phone"
    BY <2>1, <2>3, RequiredOf DEF StandardRegisters, Of, IdTypes, BureauTypes
  <2>4. CASE t = "employer_verification"
    BY <2>1, <2>4, RequiredOf DEF StandardRegisters, Of, IdTypes, BureauTypes
  <2>5. CASE t = "face_id_match"
    BY <2>1, <2>5, RequiredOf DEF StandardRegisters, Of, IdTypes, BureauTypes
  <2>6. CASE t = "bank_account_verification"
    BY <2>1, <2>6, RequiredOf DEF StandardRegisters, Of, IdTypes, BureauTypes
  <2> QED
    BY <1>1, RegisterDomains, <2>2, <2>3, <2>4, <2>5, <2>6
<1>2. CASE t \in DOMAIN PremiumRegisters
  <2>1. Registers[t] = PremiumRegisters[t]
    BY <1>2, RegistersAre
  <2>2. CASE t = "alien_id"
    BY <2>1, <2>2, RequiredOf DEF PremiumRegisters, Of, IdTypes, BureauTypes
  <2>3. CASE t = "aml_pep_screen"
    BY <2>1, <2>3, RequiredOf DEF PremiumRegisters, Of, IdTypes, BureauTypes
  <2>4. CASE t = "passport_check"
    BY <2>1, <2>4, RequiredOf DEF PremiumRegisters, Of, IdTypes, BureauTypes
  <2> QED
    BY <1>2, RegisterDomains, <2>2, <2>3, <2>4
<1>3. CASE t \in DOMAIN UtilityRegisters
  <2>1. Registers[t] = UtilityRegisters[t]
    BY <1>3, RegistersAre
  <2>2. CASE t = "sim_swap_check"
    BY <2>1, <2>2, RequiredOf DEF UtilityRegisters, Of, IdTypes, BureauTypes
  <2>3. CASE t = "kplc_location_checker"
    BY <2>1, <2>3, RequiredOf DEF UtilityRegisters, Of, IdTypes, BureauTypes
  <2>4. CASE t = "kra_pin_verification"
    BY <2>1, <2>4, RequiredOf DEF UtilityRegisters, Of, IdTypes, BureauTypes
  <2>5. CASE t = "search_name_by_phone"
    BY <2>1, <2>5, RequiredOf DEF UtilityRegisters, Of, IdTypes, BureauTypes
  <2>6. CASE t = "search_phones_by_id"
    BY <2>1, <2>6, RequiredOf DEF UtilityRegisters, Of, IdTypes, BureauTypes
  <2> QED
    BY <1>3, RegisterDomains, <2>2, <2>3, <2>4, <2>5, <2>6
<1>4. CASE t \in DOMAIN VehicleRegisters
  <2>1. Registers[t] = VehicleRegisters[t]
    BY <1>4, RegistersAre
  <2>2. CASE t = "motor_vehicle_ownership"
    BY <2>1, <2>2, RequiredOf DEF VehicleRegisters, Of, IdTypes, BureauTypes
  <2>3. CASE t = "drivers_license_verification"
    BY <2>1, <2>3, RequiredOf DEF VehicleRegisters, Of, IdTypes, BureauTypes
  <2> QED
    BY <1>4, RegisterDomains, <2>2, <2>3
<1>5. CASE t \in DOMAIN MetropolRegisters
  <2>1. Registers[t] = MetropolRegisters[t]
    BY <1>5, RegistersAre
  <2>2. CASE t = "metropol_score_only"
    BY <2>1, <2>2, RequiredOf DEF MetropolRegisters, Of, IdTypes, BureauTypes
  <2>3. CASE t = "metropol_standard_report"
    BY <2>1, <2>3, RequiredOf DEF MetropolRegisters, Of, IdTypes, BureauTypes
  <2>4. CASE t = "metropol_full_report"
    BY <2>1, <2>4, RequiredOf DEF MetropolRegisters, Of, IdTypes, BureauTypes
  <2> QED
    BY <1>5, RegisterDomains, <2>2, <2>3, <2>4
<1>6. CASE t \in DOMAIN CreditInfoRegisters
  <2>1. Registers[t] = CreditInfoRegisters[t]
    BY <1>6, RegistersAre
  <2>2. CASE t = "creditinfo_score_only"
    BY <2>1, <2>2, RequiredOf DEF CreditInfoRegisters, Of, IdTypes, BureauTypes
  <2>3. CASE t = "creditinfo_comprehensive"
    BY <2>1, <2>3, RequiredOf DEF CreditInfoRegisters, Of, IdTypes, BureauTypes
  <2>4. CASE t = "creditinfo_crb_status"
    BY <2>1, <2>4, RequiredOf DEF CreditInfoRegisters, Of, IdTypes, BureauTypes
  <2> QED
    BY <1>6, RegisterDomains, <2>2, <2>3, <2>4
<1>7. CASE t \in DOMAIN OtherRegisters
  <2>1. Registers[t] = OtherRegisters[t]
    BY <1>7, RegistersAre
  <2>2. CASE t = "brs"
    BY <2>1, <2>2, RequiredOf DEF OtherRegisters, Of, IdTypes, BureauTypes
  <2>3. CASE t = "spin_score_only"
    BY <2>1, <2>3, RequiredOf DEF OtherRegisters, Of, IdTypes, BureauTypes
  <2>4. CASE t = "scanned_statement"
    BY <2>1, <2>4, RequiredOf DEF OtherRegisters, Of, IdTypes, BureauTypes
  <2> QED
    BY <1>7, RegisterDomains, <2>2, <2>3, <2>4
<1> QED
  BY RegisterDomains, <1>1, <1>2, <1>3, <1>4, <1>5, <1>6, <1>7 DEF VERIFICATION_TYPES, IdTypes, BureauTypes

\* Every field that the form requires is given, in the form its field asks for.
Filled(type, input) ==
    \A field \in RequiredFields(type) : field \in DOMAIN input /\ input[field] = "good"

Enough(type, input) ==
    /\ validateInput(type, input) /\ executeVerification(type, input)
    /\ "INVALID_INPUT" \notin MockAnswers(type, input)

\* What the form requires is enough for the server, for the provider's call and for
\* the mock.
LEMMA FilledIsEnough ==
    ASSUME NEW type \in VERIFICATION_TYPES, NEW input, Filled(type, input)
    PROVE  Enough(type, input)
<1>1. "INVALID_INPUT" \notin MockAnswers(type, input)
  BY RegistersNeed DEF Filled, MockAnswers
<1>2. \A fields : fields \subseteq RequiredFields(type) => Has(input, fields)
  BY DEF Filled, Has, Given
<1>3. CASE type \in IdTypes
  <2>1. Has(input, {"idNumber"})
    BY <1>2, <1>3, RequiredOf
  <2>2. validateInput(type, input)
    BY <1>3, <2>1 DEF validateInput, IdTypes, BureauTypes
  <2>3. executeVerification(type, input)
    BY <1>3, <2>2 DEF executeVerification, IdTypes, BureauTypes
  <2> QED
    BY <1>1, <2>2, <2>3 DEF Enough
<1>4. CASE type = "match_id_phone"
  <2>1. Has(input, {"idNumber", "phoneNumber"})
    BY <1>2, <1>4, RequiredOf
  <2>2. validateInput(type, input)
    BY <1>4, <2>1 DEF validateInput, Has, IdTypes, BureauTypes
  <2>3. executeVerification(type, input)
    BY <1>4, <2>1, <2>2 DEF executeVerification
  <2> QED
    BY <1>1, <2>2, <2>3 DEF Enough
<1>5. CASE type = "employer_verification"
  <2>1. Has(input, {"idNumber", "employerName"})
    BY <1>2, <1>5, RequiredOf
  <2>2. validateInput(type, input)
    BY <1>5, <2>1 DEF validateInput, Has, IdTypes, BureauTypes
  <2>3. executeVerification(type, input)
    BY <1>5, <2>1, <2>2 DEF executeVerification
  <2> QED
    BY <1>1, <2>2, <2>3 DEF Enough
<1>6. CASE type = "face_id_match"
  <2>1. Has(input, {"idNumber", "faceImageBase64"})
    BY <1>2, <1>6, RequiredOf
  <2>2. validateInput(type, input)
    BY <1>6, <2>1 DEF validateInput, Has, IdTypes, BureauTypes
  <2>3. executeVerification(type, input)
    BY <1>6, <2>1, <2>2 DEF executeVerification
  <2> QED
    BY <1>1, <2>2, <2>3 DEF Enough
<1>7. CASE type = "bank_account_verification"
  <2>1. Has(input, {"accountNumber", "bankCode"})
    BY <1>2, <1>7, RequiredOf
  <2>2. validateInput(type, input)
    BY <1>7, <2>1 DEF validateInput, Has, IdTypes, BureauTypes
  <2>3. executeVerification(type, input)
    BY <1>7, <2>1, <2>2 DEF executeVerification
  <2> QED
    BY <1>1, <2>2, <2>3 DEF Enough
<1>8. CASE type = "alien_id"
  <2>1. Has(input, {"alienId"})
    BY <1>2, <1>8, RequiredOf
  <2>2. validateInput(type, input)
    BY <1>8, <2>1 DEF validateInput, Has, IdTypes, BureauTypes
  <2>3. executeVerification(type, input)
    BY <1>8, <2>1, <2>2 DEF executeVerification
  <2> QED
    BY <1>1, <2>2, <2>3 DEF Enough
<1>9. CASE type = "passport_check"
  <2>1. Has(input, {"passportNumber", "nationality"})
    BY <1>2, <1>9, RequiredOf
  <2>2. validateInput(type, input)
    BY <1>9, <2>1 DEF validateInput, Has, IdTypes, BureauTypes
  <2>3. executeVerification(type, input)
    BY <1>9, <2>1, <2>2 DEF executeVerification
  <2> QED
    BY <1>1, <2>2, <2>3 DEF Enough
<1>10. CASE type = "sim_swap_check"
  <2>1. Has(input, {"phoneNumber"})
    BY <1>2, <1>10, RequiredOf
  <2>2. validateInput(type, input)
    BY <1>10, <2>1 DEF validateInput, Has, IdTypes, BureauTypes
  <2>3. executeVerification(type, input)
    BY <1>10, <2>1, <2>2 DEF executeVerification
  <2> QED
    BY <1>1, <2>2, <2>3 DEF Enough
<1>11. CASE type = "kplc_location_checker"
  <2>1. Has(input, {"meterNumber"})
    BY <1>2, <1>11, RequiredOf
  <2>2. validateInput(type, input)
    BY <1>11, <2>1 DEF validateInput, Has, IdTypes, BureauTypes
  <2>3. executeVerification(type, input)
    BY <1>11, <2>1, <2>2 DEF executeVerification
  <2> QED
    BY <1>1, <2>2, <2>3 DEF Enough
<1>12. CASE type = "kra_pin_verification"
  <2>1. Has(input, {"kraPin"})
    BY <1>2, <1>12, RequiredOf
  <2>2. validateInput(type, input)
    BY <1>12, <2>1 DEF validateInput, Has, IdTypes, BureauTypes
  <2>3. executeVerification(type, input)
    BY <1>12, <2>1, <2>2 DEF executeVerification
  <2> QED
    BY <1>1, <2>2, <2>3 DEF Enough
<1>13. CASE type = "search_name_by_phone"
  <2>1. Has(input, {"phoneNumber"})
    BY <1>2, <1>13, RequiredOf
  <2>2. validateInput(type, input)
    BY <1>13, <2>1 DEF validateInput, Has, IdTypes, BureauTypes
  <2>3. executeVerification(type, input)
    BY <1>13, <2>1, <2>2 DEF executeVerification
  <2> QED
    BY <1>1, <2>2, <2>3 DEF Enough
<1>14. CASE type = "motor_vehicle_ownership"
  <2>1. Has(input, {"vehicleRegNumber"})
    BY <1>2, <1>14, RequiredOf
  <2>2. validateInput(type, input)
    BY <1>14, <2>1 DEF validateInput, Has, IdTypes, BureauTypes
  <2>3. executeVerification(type, input)
    BY <1>14, <2>1, <2>2 DEF executeVerification
  <2> QED
    BY <1>1, <2>2, <2>3 DEF Enough
<1>15. CASE type = "drivers_license_verification"
  <2>1. Has(input, {"dlNumber"})
    BY <1>2, <1>15, RequiredOf
  <2>2. validateInput(type, input)
    BY <1>15, <2>1 DEF validateInput, Has, IdTypes, BureauTypes
  <2>3. executeVerification(type, input)
    BY <1>15, <2>1, <2>2 DEF executeVerification
  <2> QED
    BY <1>1, <2>2, <2>3 DEF Enough
<1>16. CASE type = "brs"
  <2>1. Has(input, {"businessRegNumber"})
    BY <1>2, <1>16, RequiredOf
  <2>2. validateInput(type, input)
    BY <1>16, <2>1 DEF validateInput, Has, IdTypes, BureauTypes
  <2>3. executeVerification(type, input)
    BY <1>16, <2>1, <2>2 DEF executeVerification
  <2> QED
    BY <1>1, <2>2, <2>3 DEF Enough
<1>17. CASE type = "scanned_statement"
  <2>1. Has(input, {"statementPages"})
    BY <1>2, <1>17, RequiredOf
  <2>2. validateInput(type, input)
    BY <1>17, <2>1 DEF validateInput, Has, IdTypes, BureauTypes
  <2>3. executeVerification(type, input)
    BY <1>17, <2>1, <2>2 DEF executeVerification
  <2> QED
    BY <1>1, <2>2, <2>3 DEF Enough
<1> QED
  BY <1>3, <1>4, <1>5, <1>6, <1>7, <1>8, <1>9, <1>10,
     <1>11, <1>12, <1>13, <1>14, <1>15, <1>16, <1>17 DEF VERIFICATION_TYPES

\* The form is that of the product selected, and products are those the server has.
FormTyped ==
    /\ DOMAIN available \subseteq VERIFICATION_TYPES
    /\ DOMAIN products \subseteq DOMAIN available
    /\ selected \in VERIFICATION_TYPES \cup {NoProduct}
    /\ selected # NoProduct =>
           verifyForm.values \in [DOMAIN VERIFICATION_FORM_FIELDS[selected] -> Texts]

LEMMA EmptyValues ==
    ASSUME NEW t, t # NoProduct
    PROVE  EmptyVerifyForm(t).values \in [DOMAIN VERIFICATION_FORM_FIELDS[t] -> Texts]
  BY DEF EmptyVerifyForm, getVerificationFormValues, Texts

LEMMA FormTypedStep ==
    ASSUME VerifyShapes, FormTyped, [VerifyNext]_verifyVars
    PROVE  FormTyped'
<1> USE DEF FormTyped
<1>s. DOMAIN verifyForm = VerifyFormFields
  BY DEF VerifyShapes
<1>1. CASE ProductToggled
  BY <1>1 DEF ProductToggled, verifyPageVars, formVars, Offered
<1>l. ASSUME LoseForm, UNCHANGED <<available, products, selected>>
      PROVE  FormTyped'
  BY <1>l, EmptyValues DEF LoseForm
<1>2. CASE fetchProducts
  BY <1>2, <1>l DEF fetchProducts
<1>3. CASE ProductsAnswered
  BY <1>3, EmptyValues DEF ProductsAnswered, Offered
<1>4. CASE ProductsFail
  BY <1>4, <1>l DEF ProductsFail
<1>5. ASSUME NEW t \in DOMAIN products, SelectProduct(t)
      PROVE  FormTyped'
  <2>1. t \in VERIFICATION_TYPES /\ selected # NoProduct
    BY <1>5 DEF SelectProduct, FormShown
  <2>2. CASE t = selected
    BY <1>5, <2>1, <2>2 DEF SelectProduct
  <2>3. CASE t # selected
    <3>1. verifyForm' = [EmptyVerifyForm(t) EXCEPT !.busy = verifyForm.busy]
      BY <1>5, <2>3 DEF SelectProduct
    <3>2. verifyForm'.values = EmptyVerifyForm(t).values
      BY <3>1, FreshForm DEF VerifyFormFields
    <3> QED
      BY <1>5, <2>1, <3>2, EmptyValues DEF SelectProduct
  <2> QED
    BY <2>2, <2>3
<1>6. CASE updateValue
  <2>1. PICK field \in DOMAIN verifyForm.values, text \in FormTexts :
            verifyForm' = [verifyForm EXCEPT !.values[field] = text]
    BY <1>6 DEF updateValue
  <2>2. verifyForm'.values = [verifyForm.values EXCEPT ![field] = text]
    BY <1>s, <2>1 DEF VerifyFormFields
  <2>3. selected # NoProduct /\ text \in Texts
    BY <1>6, VerifyAssumption DEF updateValue, FormShown
  <2> QED
    BY <1>6, <2>2, <2>3 DEF updateValue
<1>v. ASSUME UNCHANGED <<available, products, selected>>, verifyForm'.values = verifyForm.values
      PROVE  FormTyped'
  BY <1>v
<1>7. CASE TickConsent
  BY <1>7, <1>s, <1>v DEF TickConsent, VerifyFormFields
<1>8. CASE handleSubmit
  BY <1>8, <1>s, <1>v DEF handleSubmit, VerifyFormFields
<1>9. ASSUME NEW q \in runs, RunRecorded(q)
      PROVE  FormTyped'
  BY <1>9 DEF RunRecorded
<1>r. ASSUME NEW q \in runs, NEW failed \in BOOLEAN, Return(q, failed),
             UNCHANGED <<available, products, selected>>
      PROVE  FormTyped'
  BY <1>r, <1>s, <1>v DEF Return, VerifyFormFields
<1>10. ASSUME NEW q \in runs, DetailAnswered(q)
       PROVE  FormTyped'
  BY <1>10, <1>r DEF DetailAnswered
<1>11. ASSUME NEW q \in runs, RunFails(q)
       PROVE  FormTyped'
  BY <1>11, <1>r DEF RunFails
<1>12. CASE UNCHANGED verifyVars
  BY <1>12 DEF verifyVars, verifyPageVars, formVars
<1> QED
  BY <1>1, <1>2, <1>3, <1>4, <1>5, <1>6, <1>7, <1>8, <1>9, <1>10, <1>11, <1>12 DEF VerifyNext

LEMMA FormTypedAlways == ConsoleSpec => []FormTyped
<1>1. ConsoleInit => FormTyped /\ VerifyWell
  <2> SUFFICES ASSUME ConsoleInit PROVE FormTyped /\ VerifyWell
    OBVIOUS
  <2>1. VerifyInit
    BY PagesInit
  <2>2. VerifyWell
    BY <2>1, FreshForm
    DEF VerifyInit, VerifyWell, VerifyShapes, TicksAreAgreed, ConsentIsForTheCheck
  <2>3. FormTyped
    BY <2>1, VerifyAssumption DEF VerifyInit, FormTyped, NoCatalogue
  <2> QED
    BY <2>2, <2>3
<1>2. FormTyped /\ VerifyWell /\ [ConsoleNext]_consoleVars => FormTyped' /\ VerifyWell'
  BY StepsOfVerify, VerifyStep, FormTypedStep DEF VerifyWell
<1> QED
  BY <1>1, <1>2, PTL DEF ConsoleSpec

\* A form that may be submitted is enough (VerifyPage): for every product and whatever
\* texts are typed, the fields its form requires are those that the request's DTO,
\* the service, the call of the provider and the mock's register look for.
THEOREM FormsAreEnough == ConsoleSpec => []FormSuffices
<1>1. FormTyped => FormSuffices
  <2> SUFFICES ASSUME FormTyped, FormShown, canSubmit, available[selected],
                      \A field \in DOMAIN verifyForm.values : verifyForm.values[field] # "malformed"
               PROVE  /\ AcceptsRun(selected, Payload(verifyForm.values), verifyForm.cbConsent)
                      /\ Enough(selected, Payload(verifyForm.values))
    BY DEF FormSuffices, Enough
  <2> DEFINE values == verifyForm.values
             input  == Payload(values)
  <2>1. /\ selected \in VERIFICATION_TYPES
        /\ values \in [DOMAIN VERIFICATION_FORM_FIELDS[selected] -> Texts]
    BY DEF FormTyped, FormShown
  <2>2. \A field \in DOMAIN input : field \in DOMAIN values /\ input[field] = "good"
    BY <2>1 DEF Payload, Texts
  <2>3. Filled(selected, input)
    BY <2>1 DEF Filled, canSubmit, hasRequiredValues, Payload, Texts
  <2>4. Enough(selected, input)
    BY <2>1, <2>3, FilledIsEnough
  <2>5. DOMAIN input \subseteq RunFields
    BY <2>1, <2>2, RequiredOf
  <2>6. RunVerificationDto(input)
    BY <2>2, <2>5 DEF RunVerificationDto, WellFormed
  <2>7. selected \in CB_CONSENT_REQUIRED_TYPES => verifyForm.cbConsent
    BY DEF canSubmit, isConsentGatingBlocked
  <2> QED
    BY <2>4, <2>6, <2>7 DEF AcceptsRun, Enough
<1> QED
  BY <1>1, FormTypedAlways, PTL

-----------------------------------------------------------------------------
(* The columns that the bulk page asks for.                                *)

\* The columns that the bulk page asks for.
LEMMA HintsRequire ==
    ASSUME NEW type \in VERIFICATION_TYPES, ~requiresFileUpload(type)
    PROVE  /\ RequiredFields(type) \subseteq PRODUCT_HINTS(type)
           /\ PRODUCT_HINTS(type) \subseteq BulkRowFields
           /\ PRODUCT_HINTS(type) \cap Identifiers # {}
<1> USE RequiredOf DEF BulkRowFields, Identifiers
<1>1. CASE type \in IdTypes
  BY <1>1 DEF PRODUCT_HINTS
<1>2. CASE type \in {"match_id_phone", "employer_verification", "bank_account_verification", "alien_id"}
  BY <1>2 DEF PRODUCT_HINTS, IdTypes, BureauTypes
<1>3. CASE type \in {"passport_check", "sim_swap_check", "search_name_by_phone", "kplc_location_checker"}
  BY <1>3 DEF PRODUCT_HINTS, IdTypes, BureauTypes
<1>4. CASE type \in {"kra_pin_verification", "motor_vehicle_ownership", "drivers_license_verification"}
  BY <1>4 DEF PRODUCT_HINTS, IdTypes, BureauTypes
<1>5. type \in IdTypes \cup
           {"match_id_phone", "employer_verification", "bank_account_verification", "alien_id",
            "passport_check", "sim_swap_check", "search_name_by_phone", "kplc_location_checker",
            "kra_pin_verification", "motor_vehicle_ownership", "drivers_license_verification"}
  BY DEF VERIFICATION_TYPES, requiresFileUpload, FileTypes
<1> QED
  BY <1>1, <1>2, <1>3, <1>4, <1>5

LEMMA OneRowAt ==
    ASSUME NEW row
    PROVE  RowsAt(<<row>>, {1}) = <<row>>
<1>1. Cardinality({1}) = 1 /\ Cardinality({j \in {1} : j < 1}) = 0
  BY FS_Singleton, FS_EmptySet
<1>2. (CHOOSE i \in {1} : Cardinality({j \in {1} : j < i}) = 0) = 1
  BY <1>1
<1>3. RowsAt(<<row>>, {1}) = [k \in 1 .. 1 |-> <<row>>[CHOOSE i \in {1} : Cardinality({j \in {1} : j < i}) = k - 1]]
  BY <1>1 DEF RowsAt
<1> DEFINE place(k) == CHOOSE i \in {1} : Cardinality({j \in {1} : j < i}) = k - 1
           all == [k \in 1 .. 1 |-> <<row>>[place(k)]]
<1>4. \A k \in 1 .. 1 : k = 1 /\ 1 - 1 = 0
  OBVIOUS
<1>5. place(1) = 1
  BY <1>2, <1>4
<1>6. <<row>> = [k \in 1 .. 1 |-> row] /\ <<row>>[1] = row
  OBVIOUS
<1> HIDE DEF place
<1>7. all = <<row>>
  BY <1>4, <1>5, <1>6
<1> QED
  BY <1>3, <1>7 DEF place

\* The columns the bulk page asks for suffice (BulkPage, CheckInputs): a row that has
\* them filled is counted, admitted and run, for every product on offer.
THEOREM HintsSuffice == ConsoleSpec => []HintedRowsRun
<1>1. FormTyped => HintedRowsRun
  <2> SUFFICES ASSUME FormTyped, NEW type \in DOMAIN products, ~requiresFileUpload(type)
               PROVE  LET row   == [k \in PRODUCT_HINTS(type) |-> <<"good">>]
                          input == [k \in PRODUCT_HINTS(type) |-> "good"]
                      IN  /\ usable(row)
                          /\ AdmittedRows(type, <<row>>, HintRequiresCb(type)) = <<row>>
                          /\ validateInput(type, input) /\ executeVerification(type, input)
                          /\ "INVALID_INPUT" \notin MockAnswers(type, input)
    BY DEF HintedRowsRun
  <2> DEFINE row   == [k \in PRODUCT_HINTS(type) |-> <<"good">>]
             input == [k \in PRODUCT_HINTS(type) |-> "good"]
  <2>1. type \in VERIFICATION_TYPES
    BY DEF FormTyped
  <2>2. /\ RequiredFields(type) \subseteq PRODUCT_HINTS(type)
        /\ PRODUCT_HINTS(type) \subseteq BulkRowFields
        /\ PRODUCT_HINTS(type) \cap Identifiers # {}
    BY <2>1, HintsRequire
  <2>3. Enough(type, input)
    <3>1. Filled(type, input)
      BY <2>2 DEF Filled
    <3> QED
      BY <2>1, <3>1, FilledIsEnough
  <2>4. usable(row)
    BY <2>2 DEF usable
  <2>5. RowIsValid(row)
    <3>1. <<"good">> # <<"malformed">>
      OBVIOUS
    <3>2. [k \in DOMAIN row |-> IF row[k] = <<"malformed">> THEN "malformed" ELSE "good"] = input
      BY <3>1
    <3>3. BulkRowDto(input)
      BY <2>2 DEF BulkRowDto, WellFormed
    <3> QED
      BY <3>2, <3>3 DEF RowIsValid
  <2>6. AdmittedRows(type, <<row>>, HintRequiresCb(type)) = <<row>>
    <3> DEFINE rows == <<row>>
               places == {i \in DOMAIN rows : DOMAIN rows[i] \cap Identifiers # {}}
    <3>1. DOMAIN rows = {1} /\ rows[1] = row
      OBVIOUS
    <3>2. places = {1}
      BY <2>2, <3>1
    <3>3. RowsAt(rows, places) = rows /\ Len(rows) = 1
      BY <3>2, OneRowAt
    <3>4. type \in CB_CONSENT_REQUIRED_TYPES => HintRequiresCb(type)
      BY DEF HintRequiresCb
    <3>5. 1 \in 1 .. PageMaxRows
      BY BulkAssumption
    <3>6. \A i \in DOMAIN rows : RowIsValid(rows[i])
      BY <2>5, <3>1
    <3> HIDE DEF row, rows, places
    <3>7. AdmittedRows(type, rows, HintRequiresCb(type)) = rows
      BY <3>3, <3>4, <3>5, <3>6 DEF AdmittedRows, places
    <3> QED
      BY <3>7 DEF rows
  <2> QED
    BY <2>3, <2>4, <2>6 DEF Enough
<1> QED
  BY <1>1, FormTypedAlways, PTL

-----------------------------------------------------------------------------
(* The console's reader of CSV: a text is scanned token by token.          *)

\* The scan of a text, as a function of the sets of places that have been read.
ScansTo(text, scan, S, g) ==
    g = [s \in SUBSET S |-> IF s = {} THEN scan ELSE Scan(g[s \ {Max(s)}], text[Max(s)])]

ScanOf(text, scan, S) == CHOOSE g : ScansTo(text, scan, S, g)

Scanned(scan, text) == FoldLeft(Scan, scan, text)

LEMMA ScanIsRecursive ==
    ASSUME NEW scan, NEW text
    PROVE  Scanned(scan, text) = ScanOf(text, scan, DOMAIN text)[DOMAIN text]
  BY DEF Scanned, FoldLeft, MapThenFoldSet, ScansTo, ScanOf

Places(S) == IsFiniteSet(S) /\ \A x \in S : x \in Nat

LEMMA LastPlace ==
    ASSUME NEW S, Places(S), NEW s \in SUBSET S, s # {}
    PROVE  Max(s) \in s /\ \A x \in s : x <= Max(s)
<1>1. IsFiniteSet(s) /\ \A x \in s : x \in Nat
  BY FS_Subset DEF Places
<1> QED
  BY <1>1, Largest

\* What g says of one set of places.
Reads(g, text, scan, s) ==
    /\ s = {} => g[s] = scan
    /\ s # {} => g[s] = Scan(g[s \ {Max(s)}], text[Max(s)])

Alike(a, b, S) == \A i \in S : a[i] = b[i]

LEMMA ScansUnfold ==
    ASSUME NEW text, NEW scan, NEW S, NEW g, ScansTo(text, scan, S, g), NEW s, s \subseteq S
    PROVE  Reads(g, text, scan, s)
<1> DEFINE body == [t \in SUBSET S |-> IF t = {} THEN scan ELSE Scan(g[t \ {Max(t)}], text[Max(t)])]
<1>1. g = body
  BY Zenon DEF ScansTo
<1>2. g[s] = body[s]
  BY <1>1, Zenon
<1>3. s \in SUBSET S
  OBVIOUS
<1>4. body[s] = IF s = {} THEN scan ELSE Scan(g[s \ {Max(s)}], text[Max(s)])
  BY <1>3, Zenon
<1> QED
  BY <1>2, <1>4, Zenon DEF Reads

\* What has been read of two texts that are alike there is the same.
LEMMA ScansUnique ==
    ASSUME NEW a, NEW b, NEW scan, NEW S, Places(S), NEW T, T \subseteq S,
           Alike(a, b, T),
           NEW g, NEW h, ScansTo(a, scan, S, g), ScansTo(b, scan, T, h)
    PROVE  \A s \in SUBSET T : g[s] = h[s]
<1> DEFINE Bad == {s \in SUBSET T : g[s] # h[s]}
<1> SUFFICES ASSUME Bad # {} PROVE FALSE
  OBVIOUS
<1>1. PICK s \in Bad : \A t \in Bad : t \subseteq s => t = s
  <2>1. Bad \subseteq SUBSET T /\ IsFiniteSet(T)
    BY FS_Subset DEF Places
  <2> HIDE DEF Bad
  <2> QED
    BY <2>1, SmallestException
<1>2. s \subseteq T /\ s \subseteq S /\ g[s] # h[s]
  OBVIOUS
<1>r. Reads(g, a, scan, s) /\ Reads(h, b, scan, s)
  BY <1>2, ScansUnfold
<1>3. s # {}
  BY <1>2, <1>r DEF Reads
<1> DEFINE u == s \ {Max(s)}
<1>4. g[s] = Scan(g[u], a[Max(s)]) /\ h[s] = Scan(h[u], b[Max(s)])
  BY <1>3, <1>r, Zenon DEF Reads
<1>5. Max(s) \in s
  BY <1>2, <1>3, LastPlace
<1>6. u \in SUBSET T /\ u \subseteq s /\ u # s /\ a[Max(s)] = b[Max(s)]
  BY <1>2, <1>5 DEF Alike
<1>7. g[u] = h[u]
  BY <1>1, <1>6
<1> QED
  BY <1>2, <1>4, <1>6, <1>7, Zenon

LEMMA ScansExist ==
    ASSUME NEW text, NEW scan, NEW S, Places(S)
    PROVE  ScansTo(text, scan, S, ScanOf(text, scan, S))
<1> DEFINE ScanUpTo(s) == ScanOf(text, scan, s)
           Bad == {s \in SUBSET S : ~ScansTo(text, scan, s, ScanUpTo(s))}
<1> HIDE DEF ScanUpTo
<1> SUFFICES ASSUME Bad # {} PROVE FALSE
  BY DEF ScanUpTo
<1>1. PICK s \in Bad : \A t \in Bad : t \subseteq s => t = s
  <2>1. Bad \subseteq SUBSET S /\ IsFiniteSet(S)
    BY DEF Places
  <2> HIDE DEF Bad
  <2> QED
    BY <2>1, SmallestException
<1>2. s \in SUBSET S /\ ~ScansTo(text, scan, s, ScanUpTo(s))
  OBVIOUS
<1>3. \A t \in SUBSET s : Places(t)
  BY <1>2, FS_Subset DEF Places
<1>4. \A t \in SUBSET s : t # s => ScansTo(text, scan, t, ScanUpTo(t))
  BY <1>1, <1>2
<1> HIDE DEF Bad
<1> DEFINE rest(t) == t \ {Max(t)}
           g == [t \in SUBSET s |->
                    IF t # s THEN ScanUpTo(t)[t]
                    ELSE IF s = {} THEN scan ELSE Scan(ScanUpTo(rest(s))[rest(s)], text[Max(s)])]
<1>5. ASSUME NEW t \in SUBSET s
      PROVE  g[t] = IF t = {} THEN scan ELSE Scan(g[rest(t)], text[Max(t)])
  <2>1. CASE t = {}
    <3>1. CASE s = {}
      BY <2>1, <3>1
    <3>2. CASE s # {}
      <4>1. ScansTo(text, scan, t, ScanUpTo(t)) /\ t # s
        BY <1>4, <2>1, <3>2
      <4>2. ScanUpTo(t)[t] = scan
        <5>1. t \subseteq t
          OBVIOUS
        <5>2. Reads(ScanUpTo(t), text, scan, t)
          BY ONLY <4>1, <5>1, ScansUnfold
        <5> QED
          BY ONLY <2>1, <5>2, Zenon DEF Reads
      <4> QED
        BY <2>1, <4>1, <4>2
    <3> QED
      BY <3>1, <3>2
  <2>2. CASE t # {}
    <3>0. Max(t) \in t
      <4>1. Places(s)
        BY <1>3
      <4> QED
        BY <2>2, <4>1, LastPlace
    <3>1. rest(t) \in SUBSET s /\ rest(t) \subseteq t /\ rest(t) # s
      BY <3>0
    <3>2. g[rest(t)] = ScanUpTo(rest(t))[rest(t)]
      BY <3>1
    <3>3. CASE t = s
      BY <2>2, <3>2, <3>3
    <3>4. CASE t # s
      <4>1. Places(t) /\ ScansTo(text, scan, t, ScanUpTo(t)) /\ ScansTo(text, scan, rest(t), ScanUpTo(rest(t)))
        BY <1>3, <1>4, <3>1, <3>4
      <4>2. ScanUpTo(t)[t] = Scan(ScanUpTo(t)[rest(t)], text[Max(t)])
        <5>0. t \subseteq t
          OBVIOUS
        <5>1. Reads(ScanUpTo(t), text, scan, t)
          BY ONLY <4>1, <5>0, ScansUnfold
        <5> QED
          BY <2>2, <5>1, Zenon DEF Reads
      <4>3. ScanUpTo(t)[rest(t)] = ScanUpTo(rest(t))[rest(t)]
        <5> HIDE DEF rest
        <5>1. Alike(text, text, rest(t)) /\ rest(t) \subseteq t
          BY <3>1 DEF Alike
        <5>2. \A u \in SUBSET rest(t) : ScanUpTo(t)[u] = ScanUpTo(rest(t))[u]
          <6> DEFINE r == rest(t)
                     whole == ScanUpTo(t)
                     part == ScanUpTo(r)
          <6>1. /\ Places(t) /\ r \subseteq t /\ Alike(text, text, r)
                /\ ScansTo(text, scan, t, whole) /\ ScansTo(text, scan, r, part)
            BY <4>1, <5>1
          <6> HIDE DEF r, whole, part
          <6>2. \A u \in SUBSET r : whole[u] = part[u]
            BY ONLY <6>1, ScansUnique
          <6> QED
            BY <6>2 DEF r, whole, part
        <5> QED
          BY <5>2
      <4>4. g[t] = ScanUpTo(t)[t]
        BY <3>4
      <4> HIDE DEF g, rest
      <4> QED
        BY <2>2, <3>2, <4>2, <4>3, <4>4, Zenon
    <3> QED
      BY <3>3, <3>4
  <2> QED
    BY <2>1, <2>2
<1>6. g = [t \in SUBSET s |-> g[t]]
  OBVIOUS
<1> HIDE DEF g
<1>7. g = [t \in SUBSET s |-> IF t = {} THEN scan ELSE Scan(g[rest(t)], text[Max(t)])]
  <2> HIDE DEF rest
  <2> QED
    BY <1>5, <1>6
<1>8. ScansTo(text, scan, s, g)
  BY <1>7, Zenon DEF ScansTo
<1>9. ScansTo(text, scan, s, ScanUpTo(s))
  BY <1>8, Zenon DEF ScanOf, ScanUpTo
<1> QED
  BY <1>2, <1>9

\* Reading one token more is one step more.
LEMMA ScanAppend ==
    ASSUME NEW S, NEW scan, NEW text \in Seq(S), NEW token \in S
    PROVE  /\ Scanned(scan, << >>) = scan
           /\ Scanned(scan, Append(text, token)) = Scan(Scanned(scan, text), token)
<1> DEFINE longer == Append(text, token)
           n == Len(text)
<1>1. \A m \in Nat : Places(1 .. m)
  BY FS_Interval DEF Places
<1>2. /\ n \in Nat /\ DOMAIN text = 1 .. n /\ DOMAIN longer = 1 .. n + 1
      /\ longer[n + 1] = token /\ \A i \in 1 .. n : longer[i] = text[i]
  OBVIOUS
<1>3. Scanned(scan, << >>) = scan
  <2>1. DOMAIN << >> = {} /\ {} = 1 .. 0
    OBVIOUS
  <2>2. ScansTo(<< >>, scan, {}, ScanOf(<< >>, scan, {}))
    <3>1. Places({})
      BY <1>1, <2>1
    <3> QED
      BY <3>1, ScansExist
  <2>3. ScanOf(<< >>, scan, {})[{}] = scan
    <3>1. Reads(ScanOf(<< >>, scan, {}), << >>, scan, {})
      BY <2>2, ScansUnfold
    <3> QED
      BY <3>1 DEF Reads
  <2> QED
    BY <2>1, <2>3, ScanIsRecursive
<1> DEFINE g == ScanOf(longer, scan, 1 .. n + 1)
           h == ScanOf(text, scan, 1 .. n)
<1>4. ScansTo(longer, scan, 1 .. n + 1, g) /\ ScansTo(text, scan, 1 .. n, h)
  <2>1. Places(1 .. n + 1) /\ Places(1 .. n)
    BY <1>1, <1>2
  <2> HIDE DEF n, longer
  <2> QED
    BY <2>1, ScansExist
<1>5. Scanned(scan, longer) = g[1 .. n + 1] /\ Scanned(scan, text) = h[1 .. n]
  BY <1>2, ScanIsRecursive
<1> HIDE DEF g, h, longer
<1>6. Max(1 .. n + 1) = n + 1
  <2>1. Places(1 .. n + 1) /\ 1 .. n + 1 \in SUBSET (1 .. n + 1) /\ n + 1 \in 1 .. n + 1
    BY <1>1, <1>2
  <2>2. 1 .. n + 1 # {}
    BY <2>1
  <2>3. Max(1 .. n + 1) \in 1 .. n + 1 /\ n + 1 <= Max(1 .. n + 1)
    BY <2>1, <2>2, LastPlace
  <2> QED
    BY <1>2, <2>3
<1>7. 1 .. n + 1 # {} /\ (1 .. n + 1) \ {n + 1} = 1 .. n
  BY <1>2
<1>8. g[1 .. n + 1] = Scan(g[1 .. n], token)
  <2>1. Reads(g, longer, scan, 1 .. n + 1)
    BY <1>4, ScansUnfold
  <2>2. g[1 .. n + 1] = Scan(g[(1 .. n + 1) \ {Max(1 .. n + 1)}], longer[Max(1 .. n + 1)])
    BY <1>7, <2>1, Zenon DEF Reads
  <2> QED
    BY <1>2, <1>6, <1>7, <2>2, Zenon
<1>9. g[1 .. n] = h[1 .. n]
  <2>1. Places(1 .. n + 1) /\ 1 .. n \subseteq 1 .. n + 1
    BY <1>1, <1>2
  <2>2. Alike(longer, text, 1 .. n)
    BY <1>2 DEF Alike
  <2> DEFINE P == 1 .. n
             Q == 1 .. n + 1
  <2>3. ScansTo(longer, scan, Q, g) /\ ScansTo(text, scan, P, h)
    BY <1>4
  <2>4. Places(Q) /\ P \subseteq Q /\ Alike(longer, text, P)
    BY <2>1, <2>2
  <2>5. \A s \in SUBSET P : g[s] = h[s]
    <3> HIDE DEF P, Q
    <3> QED
      BY ONLY <2>3, <2>4, ScansUnique
  <2> QED
    BY <2>5
<1> QED
  BY <1>3, <1>5, <1>8, <1>9 DEF longer

\* Reading one text and then another is reading them joined.
LEMMA ScanJoined ==
    ASSUME NEW S, NEW scan, NEW a \in Seq(S), NEW b \in Seq(S)
    PROVE  Scanned(scan, a \o b) = Scanned(Scanned(scan, a), b)
<1> DEFINE part(n) == SubSeq(b, 1, n)
           Same(n) == Scanned(scan, a \o part(n)) = Scanned(Scanned(scan, a), part(n))
           Bad == {n \in 0 .. Len(b) : ~Same(n)}
<1>1. Len(b) \in Nat
  OBVIOUS
<1>2. Same(0)
  <2>1. part(0) = << >> /\ a \o << >> = a
    OBVIOUS
  <2>2. a \in Seq(S) => Scanned(Scanned(scan, a), << >>) = Scanned(scan, a)
    <3>1. CASE S = {}
      <4>1. << >> \in Seq({1}) /\ 1 \in {1}
        OBVIOUS
      <4> QED
        BY <4>1, ScanAppend
    <3>2. CASE S # {}
      <4>1. PICK token \in S : TRUE
        BY <3>2
      <4> QED
        BY <4>1, ScanAppend
    <3> QED
      BY <3>1, <3>2
  <2> HIDE DEF part
  <2> QED
    BY <2>1, <2>2
<1>3. ASSUME NEW n \in 1 .. Len(b), Same(n - 1)
      PROVE  Same(n)
  <2>1. /\ part(n - 1) \in Seq(S) /\ b[n] \in S /\ a \o part(n - 1) \in Seq(S)
        /\ part(n) = Append(part(n - 1), b[n])
        /\ a \o Append(part(n - 1), b[n]) = Append(a \o part(n - 1), b[n])
    <3>1. part(n - 1) \in Seq(S) /\ b[n] \in S
      BY <1>1
    <3>2. part(n) = Append(part(n - 1), b[n])
      BY <1>1
    <3> HIDE DEF part
    <3>3. a \o part(n - 1) \in Seq(S)
      BY <3>1
    <3>4. a \o Append(part(n - 1), b[n]) = Append(a \o part(n - 1), b[n])
      BY <3>1
    <3> QED
      BY <3>1, <3>2, <3>3, <3>4
  <2> DEFINE u == a \o part(n - 1)
             v == part(n - 1)
             t == b[n]
  <2>2. u \in Seq(S) /\ v \in Seq(S) /\ t \in S
    BY <2>1, Zenon
  <2>3. a \o part(n) = Append(u, t) /\ part(n) = Append(v, t)
    BY <2>1, Zenon
  <2>4. Scanned(scan, u) = Scanned(Scanned(scan, a), v)
    BY <1>3, Zenon
  <2> HIDE DEF part, u, v, t
  <2>5. Scanned(scan, Append(u, t)) = Scan(Scanned(scan, u), t)
    BY ONLY <2>2, ScanAppend
  <2>6. Scanned(Scanned(scan, a), Append(v, t)) = Scan(Scanned(Scanned(scan, a), v), t)
    BY ONLY <2>2, ScanAppend
  <2> QED
    BY <2>3, <2>4, <2>5, <2>6, Zenon
<1>4. Bad = {}
  <2> SUFFICES ASSUME Bad # {} PROVE FALSE
    OBVIOUS
  <2>1. PICK n \in Bad : \A m \in Bad : n <= m
    <3>1. Bad \subseteq Nat
      OBVIOUS
    <3> HIDE DEF Bad
    <3> QED
      BY <3>1, Smallest
  <2> HIDE DEF Same
  <2>2. n \in 0 .. Len(b) /\ ~Same(n)
    OBVIOUS
  <2>3. n # 0
    BY <1>2, <2>2
  <2>4. n \in 1 .. Len(b) /\ n - 1 \in 0 .. Len(b) /\ n - 1 \notin Bad
    BY <1>1, <2>1, <2>2, <2>3
  <2>5. Same(n - 1)
    BY <2>4
  <2> QED
    BY <1>3, <2>2, <2>4, <2>5
<1>5. Same(Len(b))
  <2> HIDE DEF Same
  <2> QED
    BY <1>1, <1>4
<1>6. part(Len(b)) = b
  OBVIOUS
<1> QED
  BY <1>5, <1>6

\* Texts can be joined, and what is joined is a text.
LEMMA JoinsExist ==
    ASSUME NEW S, NEW n \in Nat \ {0}, NEW seqs, Len(seqs) = n, \A i \in 1 .. n : seqs[i] \in Seq(S)
    PROVE  \E g : Joins(seqs, g) /\ \A i \in 1 .. n : g[i] \in Seq(S)
<1> DEFINE Upto(m, g) ==
               /\ g = [i \in 1 .. m |-> g[i]]
               /\ \A i \in 1 .. m : /\ g[i] = IF i = 1 THEN seqs[i] ELSE g[i - 1] \o seqs[i]
                                    /\ g[i] \in Seq(S)
           Bad == {m \in 1 .. n : ~\E g : Upto(m, g)}
<1>1. \E g : Upto(1, g)
  <2>1. Upto(1, [i \in 1 .. 1 |-> seqs[1]])
    OBVIOUS
  <2> QED
    BY <2>1
<1>2. ASSUME NEW m \in 2 .. n, NEW g, Upto(m - 1, g)
      PROVE  \E h : Upto(m, h)
  <2> DEFINE h == [i \in 1 .. m |-> IF i = m THEN g[m - 1] \o seqs[m] ELSE g[i]]
  <2>1. m \in Nat /\ m - 1 \in 1 .. m - 1 /\ m \in 1 .. n
    OBVIOUS
  <2>2. g[m - 1] \in Seq(S) /\ seqs[m] \in Seq(S)
    BY <1>2, <2>1
  <2>3. g[m - 1] \o seqs[m] \in Seq(S)
    BY <2>2
  <2>4. ASSUME NEW i \in 1 .. m
        PROVE  h[i] = (IF i = 1 THEN seqs[i] ELSE h[i - 1] \o seqs[i]) /\ h[i] \in Seq(S)
    <3>1. CASE i = m
      <4>1. h[i] = g[m - 1] \o seqs[m] /\ h[i - 1] = g[m - 1] /\ i # 1
        BY <2>1, <3>1
      <4> HIDE DEF h
      <4> QED
        BY <2>3, <3>1, <4>1, Zenon
    <3>2. CASE i # m
      <4>1. i \in 1 .. m - 1 /\ (i # 1 => i - 1 \in 1 .. m - 1)
        BY <2>1, <3>2
      <4>2. h[i] = g[i] /\ (i # 1 => h[i - 1] = g[i - 1])
        BY <2>1, <3>2, <4>1
      <4>3. g[i] = (IF i = 1 THEN seqs[i] ELSE g[i - 1] \o seqs[i]) /\ g[i] \in Seq(S)
        BY <1>2, <4>1, Zenon
      <4> HIDE DEF h, Upto
      <4> QED
        BY <4>2, <4>3, Zenon
    <3> QED
      BY <3>1, <3>2
  <2>5. h = [i \in 1 .. m |-> h[i]]
    OBVIOUS
  <2> HIDE DEF h
  <2>6. Upto(m, h)
    BY <2>4, <2>5
  <2> QED
    BY <2>6
<1>3. Bad = {}
  <2> SUFFICES ASSUME Bad # {} PROVE FALSE
    OBVIOUS
  <2>1. PICK m \in Bad : \A k \in Bad : m <= k
    <3>1. Bad \subseteq Nat
      OBVIOUS
    <3> HIDE DEF Bad
    <3> QED
      BY <3>1, Smallest
  <2> HIDE DEF Upto
  <2>2. m \in 1 .. n /\ ~\E g : Upto(m, g)
    OBVIOUS
  <2>3. m # 1
    BY <1>1, <2>2
  <2>4. m \in 2 .. n /\ m - 1 \in 1 .. n /\ m - 1 \notin Bad
    BY <2>1, <2>2, <2>3
  <2>5. PICK g : Upto(m - 1, g)
    BY <2>4
  <2> QED
    BY <1>2, <2>2, <2>4, <2>5
<1>4. PICK g : Upto(n, g)
  <2>1. n \in 1 .. n
    OBVIOUS
  <2> HIDE DEF Upto
  <2> QED
    BY <1>3, <2>1
<1> DEFINE all == [i \in 1 .. n |-> IF i = 1 THEN seqs[i] ELSE g[i - 1] \o seqs[i]]
<1>5. g = [i \in 1 .. n |-> g[i]] /\ \A i \in 1 .. n : g[i] \in Seq(S) /\ g[i] = all[i]
  BY <1>4, Zenon
<1>6. all = [i \in 1 .. n |-> all[i]]
  OBVIOUS
<1>7. g = all
  <2> HIDE DEF all
  <2> QED
    BY <1>5, <1>6
<1> QED
  BY <1>5, <1>7, Zenon DEF Joins

\* Texts that are joined make a text.
LEMMA FlattenTyped ==
    ASSUME NEW S, NEW seqs \in Seq(Seq(S))
    PROVE  FlattenSeq(seqs) \in Seq(S)
<1>1. Len(seqs) \in Nat /\ \A i \in 1 .. Len(seqs) : seqs[i] \in Seq(S)
  OBVIOUS
<1>2. CASE Len(seqs) = 0
  <2>1. seqs = << >>
    BY <1>2
  <2>2. FlattenSeq(<< >>) = << >>
    BY DEF FlattenSeq
  <2>3. << >> \in Seq(S)
    OBVIOUS
  <2> QED
    BY <2>1, <2>2, <2>3, Zenon
<1>3. CASE Len(seqs) # 0
  <2> DEFINE n == Len(seqs)
  <2>1. n \in Nat \ {0} /\ n \in 1 .. n
    BY <1>1, <1>3
  <2>2. PICK g : Joins(seqs, g) /\ \A i \in 1 .. n : g[i] \in Seq(S)
    BY <1>1, <2>1, JoinsExist
  <2>3. FlattenSeq(seqs) = g[n]
    BY <2>1, <2>2, FlattenJoins
  <2> QED
    BY <2>1, <2>2, <2>3
<1> QED
  BY <1>2, <1>3

\* The state of the scan after each of n texts.
Stages(st, seqs, n) == \A i \in 1 .. n : st[i] = Scanned(st[i - 1], seqs[i])

LEMMA ScanFlatten ==
    ASSUME NEW S, NEW n \in Nat \ {0}, NEW seqs, Len(seqs) = n,
           \A i \in 1 .. n : seqs[i] \in Seq(S), NEW st, Stages(st, seqs, n)
    PROVE  Scanned(st[0], FlattenSeq(seqs)) = st[n]
<1>1. PICK g : Joins(seqs, g) /\ \A i \in 1 .. n : g[i] \in Seq(S)
  BY JoinsExist
<1>2. FlattenSeq(seqs) = g[n]
  BY <1>1, FlattenJoins
<1>3. ASSUME NEW i \in 1 .. n
      PROVE  g[i] = IF i = 1 THEN seqs[i] ELSE g[i - 1] \o seqs[i]
  <2> DEFINE all == [j \in 1 .. n |-> IF j = 1 THEN seqs[j] ELSE g[j - 1] \o seqs[j]]
  <2>1. g = all
    BY <1>1, Zenon DEF Joins
  <2>2. g[i] = all[i]
    BY <2>1, Zenon
  <2> QED
    BY <2>2
<1> DEFINE Good(i) == Scanned(st[0], g[i]) = st[i]
           Bad == {i \in 1 .. n : ~Good(i)}
<1>4. Bad = {}
  <2> SUFFICES ASSUME Bad # {} PROVE FALSE
    OBVIOUS
  <2>1. PICK i \in Bad : \A j \in Bad : i <= j
    <3>1. Bad \subseteq Nat
      OBVIOUS
    <3> HIDE DEF Bad
    <3> QED
      BY <3>1, Smallest
  <2>2. i \in 1 .. n /\ ~Good(i)
    OBVIOUS
  <2>3. st[i] = Scanned(st[i - 1], seqs[i])
    BY <2>2, Zenon DEF Stages
  <2>4. CASE i = 1
    <3>1. g[1] = seqs[1] /\ st[1] = Scanned(st[0], seqs[1])
      <4>1. i - 1 = 0
        BY <2>4
      <4> QED
        BY <1>3, <2>2, <2>3, <2>4, <4>1, Zenon
    <3> QED
      BY <2>2, <2>4, <3>1, Zenon
  <2>5. CASE i # 1
    <3>1. i - 1 \in 1 .. n /\ i - 1 \notin Bad
      BY <2>1, <2>2, <2>5
    <3>2. Good(i - 1)
      BY <3>1
    <3> HIDE DEF Bad
    <3> DEFINE a == g[i - 1]
               b == seqs[i]
               s == st[0]
    <3>3. a \in Seq(S) /\ b \in Seq(S)
      BY <1>1, <2>2, <3>1
    <3>4. g[i] = a \o b /\ Scanned(s, a) = st[i - 1] /\ st[i] = Scanned(st[i - 1], b)
      BY <1>3, <2>2, <2>3, <2>5, <3>2, Zenon
    <3>5. Scanned(s, a \o b) = Scanned(Scanned(s, a), b)
      <4> HIDE DEF a, b, s
      <4> QED
        BY ONLY <3>3, ScanJoined
    <3>6. Good(i)
      BY <3>4, <3>5, Zenon
    <3> QED
      BY <2>2, <3>6, Zenon
  <2> QED
    BY <2>4, <2>5
<1>5. n \in 1 .. n
  OBVIOUS
<1> HIDE DEF Good
<1>6. Good(n)
  BY <1>4, <1>5
<1> QED
  BY <1>2, <1>6, Zenon DEF Good

-----------------------------------------------------------------------------
(* Rows at some places.                                                    *)

\* A filter leaves of rows those at some places: the k-th is at the place that has
\* k - 1 below it.
Below(places, i) == Cardinality({j \in places : j < i})

PlaceOf(places, k) == CHOOSE i \in places : Below(places, i) = k - 1

\* Of a set of numbers, each has its place from the top.
LEMMA HasPlace ==
    ASSUME NEW W, IsFiniteSet(W), \A x \in W : x \in Nat, NEW k \in 1 .. Cardinality(W)
    PROVE  \E i \in W : Cardinality({j \in W : j > i}) = k - 1
<1> DEFINE Above(s, i) == {j \in s : j > i}
           Holds(s) == \A n \in 1 .. Cardinality(s) : \E i \in s : Cardinality(Above(s, i)) = n - 1
           Bad == {s \in SUBSET W : ~Holds(s)}
<1>1. Bad = {}
  <2> SUFFICES ASSUME Bad # {} PROVE FALSE
    OBVIOUS
  <2>1. PICK s \in Bad : \A t \in Bad : t \subseteq s => t = s
    <3>1. Bad \subseteq SUBSET W /\ IsFiniteSet(W) /\ Bad # {}
      OBVIOUS
    <3> HIDE DEF Bad
    <3> QED
      BY <3>1, SmallestException
  <2>2. s \in SUBSET W /\ IsFiniteSet(s) /\ ~Holds(s)
    BY FS_Subset
  <2>3. s # {}
    <3>1. Holds({})
      BY FS_EmptySet
    <3> QED
      BY <2>2, <3>1
  <2> DEFINE m == Min(s)
             rest == s \ {m}
  <2>4. m \in s /\ m \in Nat /\ \A j \in s : j \in Nat /\ m <= j
    <3>1. s \subseteq Nat
      BY <2>2
    <3> QED
      BY <2>3, <3>1, Smallest
  <2> HIDE DEF m
  <2>5. /\ Cardinality(s) = Cardinality(rest) + 1 /\ Cardinality(rest) \in Nat
    <3>1. IsFiniteSet(rest) /\ Cardinality(rest) = Cardinality(s) - 1
      BY <2>2, <2>4, FS_RemoveElement
    <3>2. Cardinality(rest) \in Nat /\ Cardinality(s) \in Nat
      BY <2>2, <3>1, FS_CardinalityType
    <3> HIDE DEF rest
    <3> QED
      BY <3>1, <3>2
  <2>6. Holds(rest)
    <3>1. rest \in SUBSET W /\ rest \subseteq s /\ rest # s
      BY <2>2, <2>4
    <3> HIDE DEF rest, Holds
    <3>2. rest \notin Bad
      <4> HIDE DEF Bad
      <4> QED
        BY <2>1, <3>1
    <3> QED
      BY <3>1, <3>2
  <2>7. ASSUME NEW i \in rest
        PROVE  i \in s /\ Above(s, i) = Above(rest, i)
    BY <2>4
  <2>8. Above(s, m) = rest
    <3>1. \A j \in s : j > m <=> j # m
      BY <2>4
    <3> QED
      BY <3>1
  <2>9. ASSUME NEW n \in 1 .. Cardinality(s)
        PROVE  \E i \in s : Cardinality(Above(s, i)) = n - 1
    <3>1. CASE n \in 1 .. Cardinality(rest)
      BY <2>6, <2>7, <3>1
    <3>2. CASE n = Cardinality(rest) + 1
      <4>1. Cardinality(Above(s, m)) = n - 1
        <5> HIDE DEF Above, rest
        <5> QED
          BY <2>5, <2>8, <3>2
      <4> QED
        BY <2>4, <4>1
    <3>3. n \in 1 .. Cardinality(rest) \/ n = Cardinality(rest) + 1
      BY <2>5
    <3> QED
      BY <3>1, <3>2, <3>3
  <2> HIDE DEF Above, rest
  <2>10. Holds(s)
    BY <2>9
  <2> QED
    BY <2>2, <2>10
<1>2. W \in SUBSET W
  OBVIOUS
<1>3. Holds(W)
  <2> HIDE DEF Holds
  <2> QED
    BY <1>1, <1>2
<1> QED
  BY <1>3

LEMMA HasPlaceBelow ==
    ASSUME NEW W, Places(W), NEW k \in 1 .. Cardinality(W)
    PROVE  PlaceOf(W, k) \in W /\ Below(W, PlaceOf(W, k)) = k - 1
<1> DEFINE n == Cardinality(W)
<1>0. IsFiniteSet(W) /\ n \in Nat /\ \A x \in W : x \in Nat
  BY FS_CardinalityType DEF Places
<1>1. n - k + 1 \in 1 .. n /\ n - k + 1 - 1 = n - k
  BY <1>0
<1>2. PICK i \in W : Cardinality({j \in W : j > i}) = n - k
  <2> DEFINE above(i) == Cardinality({j \in W : j > i})
  <2>1. \A m \in 1 .. n : \E i \in W : above(i) = m - 1
    BY <1>0, HasPlace
  <2> DEFINE m == n - k + 1
  <2>2. m \in 1 .. n /\ m - 1 = n - k
    BY <1>0, <1>1
  <2> HIDE DEF above, n, m
  <2>3. \E i \in W : above(i) = n - k
    BY <2>1, <2>2, Zenon
  <2> QED
    BY <2>3 DEF above
<1> DEFINE low == {j \in W : j < i}
           high == {j \in W : j > i}
<1>3. low = (W \ {i}) \ high /\ high \subseteq W \ {i}
  BY <1>0
<1>4. IsFiniteSet(W \ {i}) /\ Cardinality(W \ {i}) = n - 1
  BY <1>0, FS_RemoveElement
<1>5. Cardinality(low) = k - 1
  <2> DEFINE rest == W \ {i}
  <2>1. IsFiniteSet(high) /\ IsFiniteSet(rest) /\ high \subseteq rest
    BY <1>3, <1>4, FS_Subset
  <2> HIDE DEF rest, high
  <2>2. /\ rest \cap high = high
        /\ Cardinality(rest \ high) = Cardinality(rest) - Cardinality(rest \cap high)
    BY <2>1, FS_Difference
  <2>3. Cardinality(rest) = n - 1 /\ Cardinality(high) = n - k /\ low = rest \ high
    BY <1>2, <1>3, <1>4 DEF rest, high
  <2> HIDE DEF low, n
  <2>4. n - 1 - (n - k) = k - 1
    BY <1>0
  <2> QED
    BY <2>2, <2>3, <2>4
<1>6. Below(W, i) = k - 1
  BY <1>5 DEF Below
<1> QED
  BY <1>6, Zenon DEF PlaceOf

\* No two places have as many below them.
LEMMA PlacesDiffer ==
    ASSUME NEW W, Places(W), NEW i \in W, NEW m \in W, Below(W, i) = Below(W, m)
    PROVE  i = m
<1>1. ASSUME NEW a \in W, NEW b \in W, a < b
      PROVE  Below(W, a) # Below(W, b)
  <2> DEFINE A == {j \in W : j < a}
             B == {j \in W : j < b}
  <2>1. A \subseteq B /\ a \in B \ A /\ IsFiniteSet(B)
    <3>1. IsFiniteSet(W) /\ \A x \in W : x \in Nat
      BY DEF Places
    <3>2. IsFiniteSet(B)
      BY <3>1, FS_Subset
    <3>3. \A x \in A : x < b
      BY <1>1, <3>1
    <3>4. ~(a < a)
      BY <3>1
    <3> QED
      BY <1>1, <3>2, <3>3, <3>4
  <2> HIDE DEF A, B
  <2>2. Cardinality(A) < Cardinality(B)
    <3>1. A # B
      BY <2>1
    <3>2. IsFiniteSet(A) /\ Cardinality(A) <= Cardinality(B) /\ (Cardinality(A) = Cardinality(B) => A = B)
      BY <2>1, FS_Subset
    <3>3. Cardinality(A) \in Nat /\ Cardinality(B) \in Nat
      BY <2>1, <3>2, FS_CardinalityType
    <3> QED
      BY <3>1, <3>2, <3>3
  <2>3. Cardinality(A) # Cardinality(B)
    <3>1. IsFiniteSet(A)
      BY <2>1, FS_Subset
    <3>2. Cardinality(A) \in Nat /\ Cardinality(B) \in Nat
      BY <2>1, <3>1, FS_CardinalityType
    <3> QED
      BY <2>2, <3>2
  <2> QED
    BY <2>3 DEF Below, A, B
<1>2. i \in Nat /\ m \in Nat
  BY DEF Places
<1> QED
  BY <1>1, <1>2

LEMMA RowsAtAre ==
    ASSUME NEW rows, NEW W, Places(W)
    PROVE  /\ Cardinality(W) \in Nat
           /\ RowsAt(rows, W) = [k \in 1 .. Cardinality(W) |-> rows[PlaceOf(W, k)]]
           /\ RowsAt(rows, W) \in Seq({rows[i] : i \in W})
           /\ Len(RowsAt(rows, W)) = Cardinality(W)
<1> DEFINE n == Cardinality(W)
           T == {rows[i] : i \in W}
<1>1. n \in Nat
  BY FS_CardinalityType DEF Places
<1>2. RowsAt(rows, W) = [k \in 1 .. n |-> rows[PlaceOf(W, k)]]
  BY Zenon DEF RowsAt, PlaceOf, Below
<1>3. \A k \in 1 .. n : PlaceOf(W, k) \in W
  BY HasPlaceBelow
<1>4. \A k \in 1 .. n : rows[PlaceOf(W, k)] \in T
  BY <1>3
<1> HIDE DEF T, n
<1>5. [k \in 1 .. n |-> rows[PlaceOf(W, k)]] \in Seq(T) /\ Len([k \in 1 .. n |-> rows[PlaceOf(W, k)]]) = n
  BY <1>1, <1>4
<1> QED
  BY <1>1, <1>2, <1>5, Zenon DEF n, T

\* One place more above the others is one row more at the end.
LEMMA RowsAtOneMore ==
    ASSUME NEW rows, NEW W, Places(W), NEW m \in Nat, \A i \in W : i < m
    PROVE  RowsAt(rows, W \cup {m}) = Append(RowsAt(rows, W), rows[m])
<1> DEFINE n == Cardinality(W)
           V == W \cup {m}
<1>0. IsFiniteSet(W) /\ m \notin W /\ n \in Nat /\ \A x \in W : x \in Nat
  <2>1. ~(m < m)
    OBVIOUS
  <2> QED
    BY <2>1, FS_CardinalityType DEF Places
<1>1. Places(V) /\ Cardinality(V) = n + 1
  <2>1. IsFiniteSet(V) /\ Cardinality(V) = n + 1
    BY <1>0, FS_AddElement
  <2> QED
    BY <1>0, <2>1 DEF Places
<1>2. ASSUME NEW k \in 1 .. n
      PROVE  PlaceOf(V, k) = PlaceOf(W, k)
  <2> DEFINE i == PlaceOf(W, k)
  <2>1. i \in W /\ Below(W, i) = k - 1
    BY HasPlaceBelow
  <2> HIDE DEF i
  <2>2. Below(V, i) = k - 1
    <3>1. ~(m < i)
      BY <1>0, <2>1
    <3>2. {j \in V : j < i} = {j \in W : j < i}
      BY <3>1
    <3> QED
      BY <2>1, <3>2 DEF Below
  <2>3. k \in 1 .. Cardinality(V)
    BY <1>0, <1>1
  <2>4. PlaceOf(V, k) \in V /\ Below(V, PlaceOf(V, k)) = k - 1
    <3> HIDE DEF V
    <3> QED
      BY <1>1, <2>3, HasPlaceBelow
  <2>5. PlaceOf(V, k) = i
    <3>1. i \in V
      BY <2>1
    <3> HIDE DEF V
    <3> QED
      BY <1>1, <2>2, <2>4, <3>1, PlacesDiffer
  <2> QED
    BY <2>5 DEF i
<1>3. PlaceOf(V, n + 1) = m
  <2>1. {j \in V : j < m} = W
    BY <1>0
  <2>2. Below(V, m) = n
    BY <2>1 DEF Below
  <2>3. n + 1 \in 1 .. Cardinality(V) /\ n + 1 - 1 = n
    BY <1>0, <1>1
  <2>4. PlaceOf(V, n + 1) \in V /\ Below(V, PlaceOf(V, n + 1)) = n
    <3> DEFINE last == n + 1
    <3>2. last \in 1 .. Cardinality(V) /\ last - 1 = n
      BY <1>0, <2>3
    <3> HIDE DEF V, n, last
    <3>1. \A k \in 1 .. Cardinality(V) : PlaceOf(V, k) \in V /\ Below(V, PlaceOf(V, k)) = k - 1
      BY <1>1, HasPlaceBelow
    <3>3. PlaceOf(V, last) \in V /\ Below(V, PlaceOf(V, last)) = n
      BY <3>1, <3>2, Zenon
    <3> QED
      BY <3>3 DEF last
  <2>5. m \in V
    OBVIOUS
  <2> HIDE DEF V
  <2> QED
    BY <1>1, <2>2, <2>4, <2>5, PlacesDiffer
<1> DEFINE f == [k \in 1 .. n |-> rows[PlaceOf(W, k)]]
           g == [k \in 1 .. n + 1 |-> rows[PlaceOf(V, k)]]
<1>4. RowsAt(rows, W) = f /\ RowsAt(rows, V) = g
  <2>1. RowsAt(rows, W) = f
    BY Zenon DEF RowsAt, PlaceOf, Below
  <2>2. RowsAt(rows, V) = [k \in 1 .. Cardinality(V) |-> rows[PlaceOf(V, k)]]
    <3> HIDE DEF V
    <3> QED
      BY Zenon DEF RowsAt, PlaceOf, Below
  <2> QED
    BY <1>1, <2>1, <2>2, Zenon
<1>5. g = Append(f, rows[m])
  <2>1. f \in Seq({rows[PlaceOf(W, k)] : k \in 1 .. n}) /\ Len(f) = n
    BY <1>0
  <2>2. \A k \in 1 .. n : f[k] = rows[PlaceOf(W, k)]
    OBVIOUS
  <2> DEFINE h == Append(f, rows[m])
  <2>3. h = [k \in 1 .. n + 1 |-> IF k = n + 1 THEN rows[m] ELSE f[k]]
    <3> HIDE DEF f
    <3> QED
      BY <1>0, <2>1
  <2>4. ASSUME NEW k \in 1 .. n + 1
        PROVE  rows[PlaceOf(V, k)] = IF k = n + 1 THEN rows[m] ELSE f[k]
    <3>1. k = n + 1 \/ k \in 1 .. n
      BY <1>0
    <3>2. n + 1 \notin 1 .. n
      BY <1>0
    <3> HIDE DEF f, V
    <3> QED
      BY <1>2, <1>3, <2>2, <3>1, <3>2, Zenon
  <2> HIDE DEF f, V, n
  <2> QED
    BY <2>3, <2>4
<1> QED
  BY <1>4, <1>5, Zenon

-----------------------------------------------------------------------------
(* What the scan makes of a cell.                                          *)

\* Scanning a text token by token.
ScanSteps(st, text) == \A i \in 1 .. Len(text) : st[i] = Scan(st[i - 1], text[i])

LEMMA ScanOfSteps ==
    ASSUME NEW S, NEW text \in Seq(S), NEW st, ScanSteps(st, text)
    PROVE  Scanned(st[0], text) = st[Len(text)]
<1> DEFINE n == Len(text)
           seqs == [i \in 1 .. n |-> <<text[i]>>]
           part(i) == SubSeq(text, 1, i)
           Good(i) == Scanned(st[0], part(i)) = st[i]
           Bad == {i \in 0 .. n : ~Good(i)}
<1>0. n \in Nat
  OBVIOUS
<1>1. Good(0)
  <2>1. part(0) = << >>
    OBVIOUS
  <2>2. << >> \in Seq({1}) /\ 1 \in {1}
    OBVIOUS
  <2>3. Scanned(st[0], << >>) = st[0]
    BY <2>2, ScanAppend
  <2> HIDE DEF part
  <2> QED
    BY <2>1, <2>3
<1>2. ASSUME NEW i \in 1 .. n, Good(i - 1)
      PROVE  Good(i)
  <2> DEFINE a == part(i - 1)
             t == text[i]
             s == st[0]
  <2>1. a \in Seq(S) /\ t \in S
    BY <1>0
  <2>2. part(i) = Append(a, t)
    BY <1>0
  <2>3. st[i] = Scan(st[i - 1], t)
    BY Zenon DEF ScanSteps
  <2>4. Scanned(s, a) = st[i - 1]
    BY <1>2, Zenon
  <2>5. Scanned(s, Append(a, t)) = Scan(Scanned(s, a), t)
    <3> HIDE DEF a, t, s
    <3> QED
      BY ONLY <2>1, ScanAppend
  <2> HIDE DEF part
  <2> QED
    BY <2>2, <2>3, <2>4, <2>5, Zenon
<1>3. Bad = {}
  <2> SUFFICES ASSUME Bad # {} PROVE FALSE
    OBVIOUS
  <2>1. PICK i \in Bad : \A j \in Bad : i <= j
    <3>1. Bad \subseteq Nat
      OBVIOUS
    <3> HIDE DEF Bad
    <3> QED
      BY <3>1, Smallest
  <2> HIDE DEF Good
  <2>2. i \in 0 .. n /\ ~Good(i)
    OBVIOUS
  <2>3. i # 0
    BY <1>1, <2>2
  <2>4. i \in 1 .. n /\ i - 1 \in 0 .. n /\ i - 1 \notin Bad
    BY <1>0, <2>1, <2>2, <2>3
  <2>5. Good(i - 1)
    BY <2>4
  <2> QED
    BY <1>2, <2>2, <2>4, <2>5
<1>4. Good(n)
  <2> HIDE DEF Good
  <2> QED
    BY <1>0, <1>3
<1>5. part(n) = text
  OBVIOUS
<1> QED
  BY <1>4, <1>5

\* What every step keeps, the scan of a text keeps.
ScanKeeps(I, S) == \A scan \in I : \A token \in S : Scan(scan, token) \in I

LEMMA ScanInvariant ==
    ASSUME NEW S, NEW text \in Seq(S), NEW I, NEW scan \in I, ScanKeeps(I, S)
    PROVE  Scanned(scan, text) \in I
<1> DEFINE n == Len(text)
           part(i) == SubSeq(text, 1, i)
           Good(i) == Scanned(scan, part(i)) \in I
           Bad == {i \in 0 .. n : ~Good(i)}
<1>0. n \in Nat
  OBVIOUS
<1>1. Good(0)
  <2>1. part(0) = << >>
    OBVIOUS
  <2>2. << >> \in Seq({1}) /\ 1 \in {1}
    OBVIOUS
  <2>3. Scanned(scan, << >>) = scan
    BY <2>2, ScanAppend
  <2> HIDE DEF part
  <2> QED
    BY <2>1, <2>3
<1>2. ASSUME NEW i \in 1 .. n, Good(i - 1)
      PROVE  Good(i)
  <2> DEFINE a == part(i - 1)
             t == text[i]
  <2>1. a \in Seq(S) /\ t \in S
    BY <1>0
  <2>2. part(i) = Append(a, t)
    BY <1>0
  <2>3. Scanned(scan, a) \in I
    BY <1>2, Zenon
  <2>4. Scanned(scan, Append(a, t)) = Scan(Scanned(scan, a), t)
    <3> HIDE DEF a, t
    <3> QED
      BY ONLY <2>1, ScanAppend
  <2>5. Scan(Scanned(scan, a), t) \in I
    BY <2>1, <2>3, Zenon DEF ScanKeeps
  <2> HIDE DEF part
  <2> QED
    BY <2>2, <2>4, <2>5, Zenon
<1>3. Bad = {}
  <2> SUFFICES ASSUME Bad # {} PROVE FALSE
    OBVIOUS
  <2>1. PICK i \in Bad : \A j \in Bad : i <= j
    <3>1. Bad \subseteq Nat
      OBVIOUS
    <3> HIDE DEF Bad
    <3> QED
      BY <3>1, Smallest
  <2> HIDE DEF Good
  <2>2. i \in 0 .. n /\ ~Good(i)
    OBVIOUS
  <2>3. i # 0
    BY <1>1, <2>2
  <2>4. i \in 1 .. n /\ i - 1 \in 0 .. n /\ i - 1 \notin Bad
    BY <1>0, <2>1, <2>2, <2>3
  <2>5. Good(i - 1)
    BY <2>4
  <2> QED
    BY <1>2, <2>2, <2>4, <2>5
<1>4. Good(n)
  <2> HIDE DEF Good
  <2> QED
    BY <1>0, <1>3
<1>5. part(n) = text
  OBVIOUS
<1> QED
  BY <1>4, <1>5

\* The states of the scan.
St(mode, field, record, rows) ==
    [mode |-> mode, field |-> field, record |-> record, rows |-> rows]

Fields == {"mode", "field", "record", "rows"}

IsState(s) == s = [i \in Fields |-> s[i]]

LEMMA StateFields ==
    ASSUME NEW m, NEW f, NEW c, NEW r
    PROVE  /\ IsState(St(m, f, c, r))
           /\ St(m, f, c, r).mode = m /\ St(m, f, c, r).field = f
           /\ St(m, f, c, r).record = c /\ St(m, f, c, r).rows = r
  BY DEF St, Fields, IsState

LEMMA SameState ==
    ASSUME NEW s, IsState(s)
    PROVE  s = St(s.mode, s.field, s.record, s.rows)
<1> DEFINE t == St(s.mode, s.field, s.record, s.rows)
<1>1. t = [i \in Fields |-> t[i]] /\ s = [i \in Fields |-> s[i]]
  BY StateFields DEF IsState
<1>2. t.mode = s.mode /\ t.field = s.field /\ t.record = s.record /\ t.rows = s.rows
  BY StateFields
<1> HIDE DEF t
<1>3. \A i \in Fields : t[i] = s[i]
  BY <1>2 DEF Fields
<1>4. s = t
  BY <1>1, <1>3
<1> QED
  BY <1>4 DEF t

LEMMA ModeSet ==
    ASSUME NEW s, IsState(s), NEW x
    PROVE  [s EXCEPT !.mode = x] = St(x, s.field, s.record, s.rows)
<1>1. DOMAIN s = Fields
  BY DEF IsState
<1> QED
  BY <1>1 DEF St, Fields

LEMMA FieldSet ==
    ASSUME NEW s, IsState(s), NEW x
    PROVE  [s EXCEPT !.field = x] = St(s.mode, x, s.record, s.rows)
<1>1. DOMAIN s = Fields
  BY DEF IsState
<1> QED
  BY <1>1 DEF St, Fields

LEMMA FieldEnds ==
    ASSUME NEW s, IsState(s)
    PROVE  EndField(s) = St("plain", << >>, Append(s.record, s.field), s.rows)
<1> DEFINE t == EndField(s)
<1>1. DOMAIN s = Fields
  BY DEF IsState
<1>2. t = [i \in Fields |-> t[i]]
  BY <1>1 DEF EndField
<1>3. t.mode = "plain" /\ t.field = << >> /\ t.rows = s.rows
  BY <1>1 DEF EndField, Fields
<1>4. t.record = Append(s.record, s.field)
  BY <1>1, Zenon DEF EndField, Fields
<1> HIDE DEF t
<1>5. t = St("plain", << >>, Append(s.record, s.field), s.rows)
  BY <1>2, <1>3, <1>4, SameState DEF IsState
<1> QED
  BY <1>5 DEF t

\* A record of blanks is dropped.
Added(rows, record) ==
    IF \E k \in DOMAIN record : trim(record[k]) # << >> THEN Append(rows, record) ELSE rows

LEMMA RecordEnds ==
    ASSUME NEW s, IsState(s)
    PROVE  EndRecord(s) = St("plain", << >>, << >>, Added(s.rows, Append(s.record, s.field)))
<1> DEFINE t == EndRecord(s)
           ended == EndField(s)
           c == Append(s.record, s.field)
<1>0. ended = St("plain", << >>, c, s.rows)
  BY FieldEnds
<1>1. /\ ended.mode = "plain" /\ ended.field = << >> /\ ended.rows = s.rows
      /\ ended.record = c /\ IsState(ended)
  <2> HIDE DEF c, ended
  <2> QED
    BY <1>0, StateFields
<1>2. DOMAIN ended = Fields
  BY <1>1 DEF IsState
<1>3. t = [i \in Fields |-> t[i]]
  BY <1>2 DEF EndRecord
<1>4. t.mode = ended.mode /\ t.field = ended.field /\ t.record = << >>
  BY <1>2 DEF EndRecord, Fields
<1>5. t.rows = Added(ended.rows, ended.record)
  BY <1>2, Zenon DEF EndRecord, Added, Fields
<1> HIDE DEF t, ended, c
<1>6. t = St("plain", << >>, << >>, Added(s.rows, c))
  BY <1>1, <1>3, <1>4, <1>5, SameState DEF IsState
<1> QED
  BY <1>6 DEF t, c

\* What a token does to the scan.
LEMMA Signs ==
    /\ Quote # Comma /\ Quote # LF /\ Quote # CR /\ Comma # LF /\ Comma # CR /\ LF # CR
<1>1. Quote # Comma /\ Quote # LF /\ Quote # CR
  BY DEF Quote, Comma, LF, CR
<1>2. Comma # LF /\ Comma # CR
  BY DEF Quote, Comma, LF, CR
<1>3. LF # CR
  BY DEF LF, CR
<1> QED
  BY <1>1, <1>2, <1>3

LEMMA QuotedToken ==
    ASSUME NEW f, NEW c, NEW r, NEW token
    PROVE  Scan(St("quoted", f, c, r), token)
               = IF token = Quote THEN St("closing", f, c, r) ELSE St("quoted", Append(f, token), c, r)
<1> DEFINE s == St("quoted", f, c, r)
<1>1. IsState(s) /\ s.mode = "quoted" /\ s.field = f /\ s.record = c /\ s.rows = r
  BY StateFields
<1> HIDE DEF s
<1>2. CASE token = Quote
  <2>1. Scan(s, token) = [s EXCEPT !.mode = "closing"]
    BY <1>1, <1>2 DEF Scan
  <2> QED
    BY <1>1, <1>2, <2>1, ModeSet DEF s
<1>3. CASE token # Quote
  <2>1. Scan(s, token) = [s EXCEPT !.field = Append(f, token)]
    <3>1. Scan(s, token) = Keep(s, token)
      BY <1>1, <1>3 DEF Scan
    <3> QED
      BY <1>1, <3>1, Zenon DEF Keep
  <2> QED
    BY <1>1, <1>3, <2>1, FieldSet DEF s
<1> QED
  BY <1>2, <1>3

LEMMA ClosingToken ==
    ASSUME NEW f, NEW c, NEW r
    PROVE  Scan(St("closing", f, c, r), Quote) = St("quoted", Append(f, Quote), c, r)
<1> DEFINE s == St("closing", f, c, r)
           t == Keep(s, Quote)
           g == Append(f, Quote)
<1>1. IsState(s) /\ s.mode = "closing" /\ s.field = f /\ s.record = c /\ s.rows = r
  BY StateFields
<1> HIDE DEF s
<1>2. t = St("closing", g, c, r)
  <2>1. t = [s EXCEPT !.field = g]
    BY <1>1, Zenon DEF Keep
  <2> HIDE DEF g
  <2> QED
    BY <1>1, <2>1, FieldSet
<1>3. Scan(s, Quote) = [t EXCEPT !.mode = "quoted"]
  BY <1>1 DEF Scan
<1> HIDE DEF t, g
<1>4. [t EXCEPT !.mode = "quoted"] = St("quoted", g, c, r)
  <2>1. IsState(t) /\ t.field = g /\ t.record = c /\ t.rows = r
    BY <1>2, StateFields
  <2> QED
    BY <2>1, ModeSet
<1> QED
  BY <1>3, <1>4 DEF s, g

LEMMA PlainWord ==
    ASSUME NEW f, NEW c, NEW r, NEW token, token \notin {Quote, Comma, LF, CR}
    PROVE  Scan(St("plain", f, c, r), token) = St("plain", Append(f, token), c, r)
<1> DEFINE s == St("plain", f, c, r)
           t == Keep(s, token)
           g == Append(f, token)
<1>1. IsState(s) /\ s.mode = "plain" /\ s.field = f /\ s.record = c /\ s.rows = r
  BY StateFields
<1> HIDE DEF s
<1>2. t = St("plain", g, c, r)
  <2>1. t = [s EXCEPT !.field = g]
    BY <1>1, Zenon DEF Keep
  <2> HIDE DEF g
  <2> QED
    BY <1>1, <2>1, FieldSet
<1>3. Scan(s, token) = [t EXCEPT !.mode = "plain"]
  <2>1. Scan(s, token) = PlainToken(s, token)
    BY <1>1 DEF Scan
  <2> QED
    BY <2>1 DEF PlainToken
<1> HIDE DEF t, g
<1>4. [t EXCEPT !.mode = "plain"] = St("plain", g, c, r)
  <2>1. IsState(t) /\ t.field = g /\ t.record = c /\ t.rows = r
    BY <1>2, StateFields
  <2> QED
    BY <2>1, ModeSet
<1> QED
  BY <1>3, <1>4 DEF s, g

LEMMA OpeningQuote ==
    ASSUME NEW f, NEW c, NEW r
    PROVE  Scan(St("plain", f, c, r), Quote) = St("quoted", f, c, r)
<1> DEFINE s == St("plain", f, c, r)
<1>1. IsState(s) /\ s.mode = "plain" /\ s.field = f /\ s.record = c /\ s.rows = r
  BY StateFields
<1> HIDE DEF s
<1>2. Scan(s, Quote) = [s EXCEPT !.mode = "quoted"]
  <2>1. Scan(s, Quote) = PlainToken(s, Quote)
    BY <1>1 DEF Scan
  <2> QED
    BY <2>1, Signs, Zenon DEF PlainToken
<1> QED
  BY <1>1, <1>2, ModeSet DEF s

\* A cell that ends is a field, and a line that ends a record.
LEMMA CellEnds ==
    ASSUME NEW m \in {"plain", "closing"}, NEW f, NEW c, NEW r
    PROVE  /\ Scan(St(m, f, c, r), Comma) = St("plain", << >>, Append(c, f), r)
           /\ Scan(St(m, f, c, r), LF) = St("plain", << >>, << >>, Added(r, Append(c, f)))
           /\ EndRecord(St(m, f, c, r)) = St("plain", << >>, << >>, Added(r, Append(c, f)))
<1> DEFINE s == St(m, f, c, r)
<1>1. IsState(s) /\ s.mode = m /\ s.field = f /\ s.record = c /\ s.rows = r
  BY StateFields
<1> HIDE DEF s
<1>2. /\ Scan(s, Comma) = PlainToken(s, Comma)
      /\ Scan(s, LF) = PlainToken(s, LF)
  BY <1>1 DEF Scan, Quote, Comma, LF
<1>3. PlainToken(s, Comma) = EndField(s) /\ PlainToken(s, LF) = EndRecord(s)
  BY Signs, Zenon DEF PlainToken
<1>4. EndField(s) = St("plain", << >>, Append(c, f), r)
  BY <1>1, FieldEnds
<1>5. EndRecord(s) = St("plain", << >>, << >>, Added(r, Append(c, f)))
  BY <1>1, RecordEnds
<1> QED
  BY <1>2, <1>3, <1>4, <1>5, Zenon DEF s

LEMMA ScanOne ==
    ASSUME NEW scan, NEW token, NEW next
    PROVE  /\ Scanned(scan, <<token>>) = Scan(scan, token)
           /\ Scanned(scan, <<token, next>>) = Scan(Scan(scan, token), next)
<1> DEFINE S == {token, next}
           a == << >>
           b == <<token>>
<1>1. a \in Seq(S) /\ b \in Seq(S) /\ token \in S /\ next \in S
  OBVIOUS
<1>2. b = Append(a, token) /\ <<token, next>> = Append(b, next)
  OBVIOUS
<1> HIDE DEF S, b
<1>3. Scanned(scan, << >>) = scan
  BY <1>1, ScanAppend
<1> HIDE DEF a
<1>4. Scanned(scan, Append(a, token)) = Scan(Scanned(scan, a), token)
  BY ONLY <1>1, ScanAppend
<1>5. Scanned(scan, Append(b, next)) = Scan(Scanned(scan, b), next)
  BY ONLY <1>1, ScanAppend
<1>6. Scanned(scan, b) = Scan(scan, token)
  BY <1>2, <1>3, <1>4, Zenon DEF a
<1> QED
  BY <1>2, <1>5, <1>6, Zenon DEF b

\* The prefixes of a text.
Upto(text, i) == SubSeq(text, 1, i)

LEMMA NoPrefix ==
    ASSUME NEW S, NEW text \in Seq(S)
    PROVE  Upto(text, 0) = << >>
  BY DEF Upto

LEMMA WholeText ==
    ASSUME NEW S, NEW text \in Seq(S)
    PROVE  Upto(text, Len(text)) = text
  BY DEF Upto

LEMMA NextPrefix ==
    ASSUME NEW S, NEW text \in Seq(S), NEW i \in 1 .. Len(text)
    PROVE  Upto(text, i) = Append(Upto(text, i - 1), text[i])
  BY DEF Upto

\* A cell that is not quoted is read as it is.
LEMMA BareCell ==
    ASSUME NEW S, NEW cell \in Seq(S), NEW c, NEW r,
           \A k \in DOMAIN cell : cell[k] \notin {Quote, Comma, LF, CR}
    PROVE  Scanned(St("plain", << >>, c, r), cell) = St("plain", cell, c, r)
<1> DEFINE n == Len(cell)
           st == [i \in 0 .. n |-> St("plain", Upto(cell, i), c, r)]
<1>0. n \in Nat /\ DOMAIN cell = 1 .. n
  OBVIOUS
<1>1. st[0] = St("plain", << >>, c, r) /\ st[n] = St("plain", cell, c, r)
  <2>1. 0 \in 0 .. n /\ n \in 0 .. n
    BY <1>0
  <2>2. st[0] = St("plain", Upto(cell, 0), c, r) /\ st[n] = St("plain", Upto(cell, n), c, r)
    BY <2>1, Zenon
  <2> QED
    BY <2>2, NoPrefix, WholeText
<1>2. ASSUME NEW i \in 1 .. n
      PROVE  st[i] = Scan(st[i - 1], cell[i])
  <2>1. i \in 0 .. n /\ i - 1 \in 0 .. n
    BY <1>0
  <2> DEFINE f == Upto(cell, i - 1)
             t == cell[i]
  <2>2. st[i] = St("plain", Upto(cell, i), c, r) /\ st[i - 1] = St("plain", f, c, r)
    BY <2>1, Zenon
  <2>3. Upto(cell, i) = Append(f, t)
    BY NextPrefix
  <2>4. t \notin {Quote, Comma, LF, CR}
    BY <1>0
  <2> HIDE DEF st, f, t
  <2>5. Scan(St("plain", f, c, r), t) = St("plain", Append(f, t), c, r)
    BY <2>4, PlainWord
  <2> QED
    BY <2>2, <2>3, <2>5, Zenon DEF t
<1> HIDE DEF st
<1>3. ScanSteps(st, cell)
  BY <1>2, Zenon DEF ScanSteps
<1>4. Scanned(st[0], cell) = st[n]
  BY <1>3, ScanOfSteps
<1> QED
  BY <1>1, <1>4, Zenon

\* A cell between quotes, its own doubled, is read as it was.
LEMMA QuotedCell ==
    ASSUME NEW S, Quote \in S, NEW cell \in Seq(S), cell # << >>, NEW c, NEW r
    PROVE  LET doubled == [k \in DOMAIN cell |->
                              IF cell[k] = Quote THEN <<Quote, Quote>> ELSE <<cell[k]>>]
           IN  /\ Scanned(St("plain", << >>, c, r), <<Quote>> \o FlattenSeq(doubled) \o <<Quote>>)
                      = St("closing", cell, c, r)
               /\ <<Quote>> \o FlattenSeq(doubled) \o <<Quote>> \in Seq(S)
<1> DEFINE doubled == [k \in DOMAIN cell |->
                          IF cell[k] = Quote THEN <<Quote, Quote>> ELSE <<cell[k]>>]
           n == Len(cell)
           st == [i \in 0 .. n |-> St("quoted", Upto(cell, i), c, r)]
           body == FlattenSeq(doubled)
           mark == <<Quote>>
           s == St("plain", << >>, c, r)
<1>0. n \in Nat \ {0} /\ DOMAIN cell = 1 .. n /\ mark \in Seq(S)
  OBVIOUS
<1>1. doubled \in Seq(Seq(S)) /\ Len(doubled) = n /\ \A i \in 1 .. n : doubled[i] \in Seq(S)
  <2>1. \A k \in 1 .. n : (IF cell[k] = Quote THEN <<Quote, Quote>> ELSE <<cell[k]>>) \in Seq(S)
    BY <1>0
  <2>2. doubled = [k \in 1 .. n |-> IF cell[k] = Quote THEN <<Quote, Quote>> ELSE <<cell[k]>>]
    BY <1>0, Zenon
  <2> DEFINE f == [k \in 1 .. n |-> IF cell[k] = Quote THEN <<Quote, Quote>> ELSE <<cell[k]>>]
  <2>3. \A k \in 1 .. n : f[k] \in Seq(S)
    BY <2>1, Zenon
  <2>4. DOMAIN f = 1 .. n /\ f = [k \in 1 .. n |-> f[k]]
    OBVIOUS
  <2> HIDE DEF f, n
  <2>5. f \in Seq(Seq(S)) /\ Len(f) = n
    BY <1>0, <2>3, <2>4
  <2> QED
    BY <2>2, <2>3, <2>5, Zenon DEF f
<1>2. body \in Seq(S)
  <2> HIDE DEF doubled
  <2> QED
    BY <1>1, FlattenTyped
<1>3. st[0] = St("quoted", << >>, c, r) /\ st[n] = St("quoted", cell, c, r)
  <2>1. 0 \in 0 .. n /\ n \in 0 .. n
    BY <1>0
  <2>2. st[0] = St("quoted", Upto(cell, 0), c, r) /\ st[n] = St("quoted", Upto(cell, n), c, r)
    BY <2>1, Zenon
  <2> QED
    BY <2>2, NoPrefix, WholeText
<1>4. ASSUME NEW i \in 1 .. n
      PROVE  st[i] = Scanned(st[i - 1], doubled[i])
  <2>1. i \in 0 .. n /\ i - 1 \in 0 .. n
    BY <1>0
  <2> DEFINE f == Upto(cell, i - 1)
             t == cell[i]
  <2>2. st[i] = St("quoted", Upto(cell, i), c, r) /\ st[i - 1] = St("quoted", f, c, r)
    BY <2>1, Zenon
  <2>3. Upto(cell, i) = Append(f, t)
    BY NextPrefix
  <2>4. doubled[i] = IF t = Quote THEN <<Quote, Quote>> ELSE <<t>>
    BY <1>0
  <2> HIDE DEF st, f, t, doubled
  <2>5. CASE t = Quote
    <3>1. Scanned(St("quoted", f, c, r), <<Quote, Quote>>)
              = Scan(Scan(St("quoted", f, c, r), Quote), Quote)
      BY ScanOne
    <3>2. Scan(St("quoted", f, c, r), Quote) = St("closing", f, c, r)
      BY QuotedToken
    <3>3. Scan(St("closing", f, c, r), Quote) = St("quoted", Append(f, Quote), c, r)
      BY ClosingToken
    <3> QED
      BY <2>2, <2>3, <2>4, <2>5, <3>1, <3>2, <3>3, Zenon
  <2>6. CASE t # Quote
    <3>1. Scanned(St("quoted", f, c, r), <<t>>) = Scan(St("quoted", f, c, r), t)
      BY ScanOne
    <3>2. Scan(St("quoted", f, c, r), t) = St("quoted", Append(f, t), c, r)
      BY <2>6, QuotedToken
    <3> QED
      BY <2>2, <2>3, <2>4, <2>6, <3>1, <3>2, Zenon
  <2> QED
    BY <2>5, <2>6
<1> HIDE DEF st, doubled
<1>5. Scanned(st[0], body) = st[n]
  <2>1. Stages(st, doubled, n)
    BY <1>4, Zenon DEF Stages
  <2> HIDE DEF n
  <2> QED
    BY <1>0, <1>1, <2>1, ScanFlatten
<1>6. Scanned(s, mark) = st[0]
  <2>1. Scanned(s, mark) = Scan(s, Quote)
    BY ScanOne
  <2>2. Scan(s, Quote) = St("quoted", << >>, c, r)
    BY OpeningQuote
  <2> QED
    BY <1>3, <2>1, <2>2, Zenon
<1>7. Scanned(st[n], mark) = St("closing", cell, c, r)
  <2>1. Scanned(st[n], mark) = Scan(st[n], Quote)
    BY ScanOne
  <2>2. Scan(St("quoted", cell, c, r), Quote) = St("closing", cell, c, r)
    BY QuotedToken
  <2> QED
    BY <1>3, <2>1, <2>2, Zenon
<1> HIDE DEF body, mark, s, n
<1> DEFINE open == mark \o body
<1>8. open \in Seq(S) /\ open \o mark \in Seq(S)
  BY <1>0, <1>2
<1>9. Scanned(s, open) = st[n]
  <2>1. Scanned(s, mark \o body) = Scanned(Scanned(s, mark), body)
    BY ONLY <1>0, <1>2, ScanJoined
  <2> QED
    BY <1>5, <1>6, <2>1, Zenon
<1>10. Scanned(s, open \o mark) = Scanned(Scanned(s, open), mark)
  <2> HIDE DEF open
  <2> QED
    BY ONLY <1>0, <1>8, ScanJoined
<1>11. /\ Scanned(s, open \o mark) = St("closing", cell, c, r)
       /\ open \o mark \in Seq(S)
  BY <1>7, <1>8, <1>9, <1>10, Zenon
<1> QED
  BY <1>11, Zenon DEF open, s, mark, body, doubled

-----------------------------------------------------------------------------
(* What the writer of CSV writes.                                          *)

LEMMA SequenceOf ==
    ASSUME NEW T, NEW n \in Nat, NEW f, f = [k \in 1 .. n |-> f[k]], \A k \in 1 .. n : f[k] \in T
    PROVE  f \in Seq(T) /\ Len(f) = n
<1>1. DOMAIN f = 1 .. n
  OBVIOUS
<1> QED
  BY <1>1

\* What toCsv writes is a text.
LEMMA EscTyped ==
    ASSUME NEW S, Quote \in S, NEW cell \in Seq(S)
    PROVE  esc(cell) \in Seq(S)
<1>1. CASE \E k \in DOMAIN cell : cell[k] \in {Quote, Comma, LF}
  <2>1. cell # << >>
    BY <1>1
  <2>2. <<Quote>> \o FlattenSeq([k \in DOMAIN cell |->
            IF cell[k] = Quote THEN <<Quote, Quote>> ELSE <<cell[k]>>]) \o <<Quote>> \in Seq(S)
    BY <2>1, QuotedCell
  <2> QED
    BY <1>1, <2>2, Zenon DEF esc
<1>2. CASE ~\E k \in DOMAIN cell : cell[k] \in {Quote, Comma, LF}
  BY <1>2, Zenon DEF esc
<1> QED
  BY <1>1, <1>2

\* The parts as they are joined, each but the first behind the separator.
Parted(parts, separator) ==
    [k \in DOMAIN parts |-> IF k = 1 THEN parts[k] ELSE <<separator>> \o parts[k]]

LEMMA PartsAreTexts ==
    ASSUME NEW S, NEW parts \in Seq(Seq(S)), NEW separator \in S
    PROVE  /\ Parted(parts, separator) \in Seq(Seq(S))
           /\ Len(Parted(parts, separator)) = Len(parts)
           /\ \A k \in 1 .. Len(parts) :
                  Parted(parts, separator)[k] = IF k = 1 THEN parts[k] ELSE <<separator>> \o parts[k]
<1> DEFINE n == Len(parts)
           P == Parted(parts, separator)
<1>0. n \in Nat /\ DOMAIN parts = 1 .. n
  OBVIOUS
<1>1. ASSUME NEW k \in 1 .. n
      PROVE  (IF k = 1 THEN parts[k] ELSE <<separator>> \o parts[k]) \in Seq(S)
  BY <1>0
<1>2. P = [k \in 1 .. n |-> IF k = 1 THEN parts[k] ELSE <<separator>> \o parts[k]]
  BY <1>0, Zenon DEF Parted
<1>3. \A k \in 1 .. n : P[k] = IF k = 1 THEN parts[k] ELSE <<separator>> \o parts[k]
  BY <1>2, Zenon
<1>4. \A k \in 1 .. n : P[k] \in Seq(S)
  BY <1>1, <1>3, Zenon
<1>5. P = [k \in 1 .. n |-> P[k]]
  BY <1>2
<1> HIDE DEF P, n
<1>6. P \in Seq(Seq(S)) /\ Len(P) = n
  BY ONLY <1>0, <1>4, <1>5, SequenceOf
<1> QED
  BY <1>3, <1>6, Zenon DEF P, n

LEMMA JoinedTyped ==
    ASSUME NEW S, NEW parts \in Seq(Seq(S)), NEW separator \in S
    PROVE  Joined(parts, separator) \in Seq(S)
<1>1. Parted(parts, separator) \in Seq(Seq(S))
  BY PartsAreTexts
<1>2. FlattenSeq(Parted(parts, separator)) \in Seq(S)
  BY <1>1, FlattenTyped
<1> QED
  BY <1>2, Zenon DEF Joined, Parted

\* The cells of a line, as they are written.
Written(cells) == [k \in DOMAIN cells |-> esc(cells[k])]

LEMMA CellsWritten ==
    ASSUME NEW S, Quote \in S, NEW cells \in Seq(Seq(S))
    PROVE  Written(cells) \in Seq(Seq(S)) /\ Len(Written(cells)) = Len(cells)
<1> DEFINE n == Len(cells)
           W == Written(cells)
<1>0. n \in Nat /\ DOMAIN cells = 1 .. n /\ \A k \in 1 .. n : cells[k] \in Seq(S)
  OBVIOUS
<1>1. W = [k \in 1 .. n |-> esc(cells[k])]
  BY <1>0, Zenon DEF Written
<1>2. \A k \in 1 .. n : W[k] = esc(cells[k])
  BY <1>1, Zenon
<1>3. \A k \in 1 .. n : W[k] \in Seq(S)
  BY <1>0, <1>2, EscTyped
<1>4. W = [k \in 1 .. n |-> W[k]]
  BY <1>1
<1> HIDE DEF W, n
<1>5. W \in Seq(Seq(S)) /\ Len(W) = n
  BY ONLY <1>0, <1>3, <1>4, SequenceOf
<1> QED
  BY <1>5 DEF W, n

LEMMA LineTyped ==
    ASSUME NEW S, Quote \in S, Comma \in S, NEW cells \in Seq(Seq(S))
    PROVE  Line(cells) \in Seq(S)
<1>1. Written(cells) \in Seq(Seq(S))
  BY CellsWritten
<1>2. Joined(Written(cells), Comma) \in Seq(S)
  BY <1>1, JoinedTyped
<1> QED
  BY <1>2, Zenon DEF Line, Written

\* The lines of a file, the header before the rows.
LinesOf(header, rows) == [k \in 1 .. Len(rows) + 1 |-> Line((<<header>> \o rows)[k])]

LEMMA LinesTyped ==
    ASSUME NEW S, Quote \in S, Comma \in S, NEW header \in Seq(Seq(S)), NEW rows \in Seq(Seq(Seq(S)))
    PROVE  /\ LinesOf(header, rows) \in Seq(Seq(S)) /\ Len(LinesOf(header, rows)) = Len(rows) + 1
           /\ \A k \in 1 .. Len(rows) + 1 : LinesOf(header, rows)[k] = Line((<<header>> \o rows)[k])
<1> DEFINE n == Len(rows) + 1
           all == <<header>> \o rows
           L == LinesOf(header, rows)
<1>0. n \in Nat /\ \A k \in 1 .. n : all[k] \in Seq(Seq(S))
  <2>1. all \in Seq(Seq(Seq(S))) /\ Len(all) = n
    OBVIOUS
  <2> HIDE DEF all
  <2> QED
    BY <2>1
<1>1. L = [k \in 1 .. n |-> Line(all[k])]
  BY Zenon DEF LinesOf
<1>2. \A k \in 1 .. n : L[k] = Line(all[k])
  BY <1>1, Zenon
<1> HIDE DEF all
<1>3. \A k \in 1 .. n : L[k] \in Seq(S)
  BY <1>0, <1>2, LineTyped
<1>4. L = [k \in 1 .. n |-> L[k]]
  BY <1>1
<1> HIDE DEF L, n
<1>5. L \in Seq(Seq(S)) /\ Len(L) = n
  BY ONLY <1>0, <1>3, <1>4, SequenceOf
<1> QED
  BY <1>2, <1>5, Zenon DEF L, n, all

LEMMA FileTyped ==
    ASSUME NEW S, Quote \in S, Comma \in S, LF \in S,
           NEW header \in Seq(Seq(S)), NEW rows \in Seq(Seq(Seq(S)))
    PROVE  toCsv(header, rows) \in Seq(S)
<1>1. LinesOf(header, rows) \in Seq(Seq(S))
  BY LinesTyped
<1>2. Joined(LinesOf(header, rows), LF) \in Seq(S)
  BY <1>1, JoinedTyped
<1> QED
  BY <1>2, Zenon DEF toCsv, LinesOf

-----------------------------------------------------------------------------
(* What the reader makes of it, line by line.                              *)

\* A cell as it is written is read back.
ModeAfter(cell) ==
    IF \E k \in DOMAIN cell : cell[k] \in {Quote, Comma, LF} THEN "closing" ELSE "plain"

LEMMA EscRead ==
    ASSUME NEW S, Quote \in S, NEW cell \in Seq(S), ~HasBareCR(cell), NEW c, NEW r
    PROVE  Scanned(St("plain", << >>, c, r), esc(cell)) = St(ModeAfter(cell), cell, c, r)
<1>1. CASE \E k \in DOMAIN cell : cell[k] \in {Quote, Comma, LF}
  <2>1. cell # << >>
    BY <1>1
  <2>2. Scanned(St("plain", << >>, c, r),
                <<Quote>> \o FlattenSeq([k \in DOMAIN cell |->
                    IF cell[k] = Quote THEN <<Quote, Quote>> ELSE <<cell[k]>>]) \o <<Quote>>)
            = St("closing", cell, c, r)
    BY <2>1, QuotedCell
  <2>3. ModeAfter(cell) = "closing"
    BY <1>1, Zenon DEF ModeAfter
  <2> QED
    BY <1>1, <2>2, <2>3, Zenon DEF esc
<1>2. CASE ~\E k \in DOMAIN cell : cell[k] \in {Quote, Comma, LF}
  <2>1. \A k \in DOMAIN cell : cell[k] \notin {Quote, Comma, LF, CR}
    BY <1>2 DEF HasBareCR
  <2>2. Scanned(St("plain", << >>, c, r), cell) = St("plain", cell, c, r)
    BY <2>1, BareCell
  <2>3. ModeAfter(cell) = "plain" /\ esc(cell) = cell
    BY <1>2, Zenon DEF ModeAfter, esc
  <2> QED
    BY <2>2, <2>3, Zenon
<1> QED
  BY <1>1, <1>2

LEMMA PairIsSequence ==
    ASSUME NEW T, NEW p \in T \X T
    PROVE  p \in Seq(T) /\ Len(p) = 2 /\ DOMAIN p = 1 .. 2 /\ p[1] \in T /\ p[2] \in T
<1>1. p = <<p[1], p[2]>> /\ p[1] \in T /\ p[2] \in T
  OBVIOUS
<1> DEFINE a == p[1]
           b == p[2]
<1>2. <<a, b>> \in Seq(T) /\ Len(<<a, b>>) = 2 /\ DOMAIN <<a, b>> = 1 .. 2
  <2>1. a \in T /\ b \in T
    BY <1>1
  <2> HIDE DEF a, b
  <2> QED
    BY <2>1
<1> QED
  BY <1>1, <1>2, Zenon

LEMMA PairIsAppended ==
    ASSUME NEW T, NEW p \in T \X T
    PROVE  Append(<<p[1]>>, p[2]) = p
<1>1. p = <<p[1], p[2]>>
  OBVIOUS
<1> DEFINE a == p[1]
           b == p[2]
<1>2. Append(<<a>>, b) = <<a, b>>
  <2>1. a \in T /\ b \in T
    OBVIOUS
  <2> HIDE DEF a, b
  <2>2. <<a>> \in Seq(T) /\ Len(<<a>>) = 1 /\ <<a>>[1] = a
    BY ONLY <2>1
  <2> DEFINE s == <<a>>
  <2> HIDE DEF s
  <2>3. Append(s, b) = [i \in 1 .. 2 |-> IF i = 1 THEN s[1] ELSE b]
    BY ONLY <2>1, <2>2 DEF s
  <2>4. <<a, b>> = [i \in 1 .. 2 |-> IF i = 1 THEN a ELSE b]
    OBVIOUS
  <2> QED
    BY <2>2, <2>3, <2>4 DEF s
<1> QED
  BY ONLY <1>1, <1>2

LEMMA OfTwo ==
    ASSUME NEW T, NEW s \in Seq(T), Len(s) = 2
    PROVE  s[1] \in T /\ s[2] \in T /\ \A i \in 1 .. 2 : s[i] \in T
<1>1. \A i \in 1 .. 2 : s[i] \in T
  OBVIOUS
<1>2. 1 \in 1 .. 2 /\ 2 \in 1 .. 2
  OBVIOUS
<1> QED
  BY <1>1, <1>2, Zenon

\* So is a line of two cells.
Unbroken(line) == ~HasBareCR(line[1]) /\ ~HasBareCR(line[2])

LEMMA LineRead ==
    ASSUME NEW S, Quote \in S, Comma \in S, NEW line \in Seq(S) \X Seq(S), Unbroken(line), NEW r
    PROVE  Scanned(St("plain", << >>, << >>, r), Line(line))
               = St(ModeAfter(line[2]), line[2], <<line[1]>>, r)
<1> DEFINE a == line[1]
           b == line[2]
           mark == <<Comma>>
           W == Written(line)
           P == Parted(W, Comma)
           st == [i \in 0 .. 2 |->
                     CASE i = 0 -> St("plain", << >>, << >>, r)
                       [] i = 1 -> St(ModeAfter(a), a, << >>, r)
                       [] i = 2 -> St(ModeAfter(b), b, <<a>>, r)]
<1>0. line \in Seq(Seq(S)) /\ Len(line) = 2 /\ DOMAIN line = 1 .. 2 /\ a \in Seq(S) /\ b \in Seq(S)
  BY PairIsSequence
<1>1. W \in Seq(Seq(S)) /\ Len(W) = 2 /\ W[1] = esc(a) /\ W[2] = esc(b)
  <2>1. W \in Seq(Seq(S)) /\ Len(W) = 2
    BY <1>0, CellsWritten
  <2>2. W = [k \in 1 .. 2 |-> esc(line[k])]
    BY <1>0, Zenon DEF Written
  <2>3. 1 \in 1 .. 2 /\ 2 \in 1 .. 2
    OBVIOUS
  <2>4. W[1] = esc(line[1]) /\ W[2] = esc(line[2])
    BY <2>2, <2>3, Zenon
  <2> QED
    BY <2>1, <2>4
<1>2. esc(a) \in Seq(S) /\ esc(b) \in Seq(S)
  <2> HIDE DEF a, b
  <2> QED
    BY <1>0, EscTyped
<1> HIDE DEF W
<1>3. /\ P \in Seq(Seq(S)) /\ Len(P) = 2 /\ P[1] \in Seq(S) /\ P[2] \in Seq(S)
      /\ P[1] = esc(a) /\ P[2] = mark \o esc(b)
  <2>1. /\ P \in Seq(Seq(S)) /\ Len(P) = Len(W)
        /\ \A k \in 1 .. Len(W) : P[k] = IF k = 1 THEN W[k] ELSE mark \o W[k]
    <3>1. Comma \in S /\ W \in Seq(Seq(S))
      BY <1>1
    <3> QED
      BY ONLY <3>1, PartsAreTexts, SMTT(30)
  <2>2. 1 \in 1 .. Len(W) /\ 2 \in 1 .. Len(W) /\ 2 # 1
    BY <1>1
  <2>3. P[1] = W[1] /\ P[2] = mark \o W[2]
    BY <2>1, <2>2, Zenon
  <2>4. P[1] \in Seq(S) /\ P[2] \in Seq(S) /\ Len(P) = 2
    <3> HIDE DEF P
    <3> QED
      BY <1>1, <2>1, OfTwo
  <2> QED
    BY <1>1, <2>1, <2>3, <2>4, Zenon
<1>4. /\ st[0] = St("plain", << >>, << >>, r) /\ st[1] = St(ModeAfter(a), a, << >>, r)
      /\ st[2] = St(ModeAfter(b), b, <<a>>, r)
  OBVIOUS
<1>n. ~HasBareCR(a) /\ ~HasBareCR(b) /\ \A cell : ModeAfter(cell) \in {"plain", "closing"}
  BY DEF Unbroken, ModeAfter
<1> HIDE DEF st, a, b, P
<1>5. st[1] = Scanned(st[0], P[1])
  <2>1. Scanned(St("plain", << >>, << >>, r), esc(a)) = St(ModeAfter(a), a, << >>, r)
    BY <1>0, <1>n, EscRead
  <2> QED
    BY <1>3, <1>4, <2>1, Zenon
<1>6. st[2] = Scanned(st[1], P[2])
  <2> DEFINE e == esc(b)
             s == St(ModeAfter(a), a, << >>, r)
             u == St("plain", << >>, <<a>>, r)
  <2>1. Scanned(s, mark) = u
    <3>1. Scanned(s, mark) = Scan(s, Comma)
      BY ScanOne
    <3>2. Append(<< >>, a) = <<a>>
      OBVIOUS
    <3>3. Scan(s, Comma) = St("plain", << >>, Append(<< >>, a), r)
      <4> DEFINE m == ModeAfter(a)
                 c == << >>
      <4>1. m \in {"plain", "closing"}
        BY <1>n
      <4> HIDE DEF m, c
      <4>2. Scan(St(m, a, c, r), Comma) = St("plain", << >>, Append(c, a), r)
        BY <4>1, CellEnds
      <4> QED
        BY <4>2, Zenon DEF m, c
    <3> QED
      BY <3>1, <3>2, <3>3, Zenon
  <2>2. mark \in Seq(S) /\ e \in Seq(S)
    BY <1>2
  <2>3. Scanned(u, e) = St(ModeAfter(b), b, <<a>>, r)
    BY <1>0, <1>n, EscRead
  <2> HIDE DEF e, s, u, mark
  <2>4. Scanned(s, mark \o e) = Scanned(Scanned(s, mark), e)
    BY ONLY <2>2, ScanJoined
  <2> QED
    BY <1>3, <1>4, <2>1, <2>3, <2>4, Zenon DEF e, s
<1>7. Stages(st, P, 2)
  <2>1. \A i \in 1 .. 2 : (i = 1 /\ i - 1 = 0) \/ (i = 2 /\ i - 1 = 1)
    OBVIOUS
  <2> QED
    BY <1>5, <1>6, <2>1, Zenon DEF Stages
<1>8. Scanned(st[0], FlattenSeq(P)) = st[2]
  <2> DEFINE n == 2
  <2>1. n \in Nat \ {0} /\ Len(P) = n /\ \A i \in 1 .. n : P[i] \in Seq(S)
    BY <1>3, OfTwo
  <2>2. Stages(st, P, n)
    BY <1>7
  <2> HIDE DEF n
  <2>3. Scanned(st[0], FlattenSeq(P)) = st[n]
    BY <2>1, <2>2, ScanFlatten
  <2> QED
    BY <2>3, Zenon DEF n
<1>9. Line(line) = FlattenSeq(P)
  BY Zenon DEF Line, Joined, P, Parted, W, Written
<1> QED
  BY <1>4, <1>8, <1>9, Zenon DEF a, b

\* What the records of a file add up to.
Grows(R, lines) ==
    R[0] = << >> /\ \A k \in 1 .. Len(lines) : R[k] = Added(R[k - 1], lines[k])

AreTexts(S, seqs, n) == n \in Nat \ {0} /\ Len(seqs) = n /\ \A i \in 1 .. n : seqs[i] \in Seq(S)

LEMMA StagesJoined ==
    ASSUME NEW S, NEW n, NEW seqs, AreTexts(S, seqs, n), NEW st, Stages(st, seqs, n)
    PROVE  Scanned(st[0], FlattenSeq(seqs)) = st[n]
  BY ScanFlatten DEF AreTexts

\* A file of these lines, whose records add up to R.
IsFile(S, header, rows, lines, R) ==
    /\ Quote \in S /\ Comma \in S /\ LF \in S
    /\ header \in Seq(S) \X Seq(S) /\ rows \in Seq(Seq(S) \X Seq(S))
    /\ lines = <<header>> \o rows
    /\ \A k \in DOMAIN lines : Unbroken(lines[k])
    /\ Grows(R, lines)

LEMMA FileRead ==
    ASSUME NEW S, NEW header, NEW rows, NEW lines, NEW R, IsFile(S, header, rows, lines, R)
    PROVE  EndRecord(Scanned(EmptyScan, toCsv(header, rows))).rows = R[Len(lines)]
<1>f. /\ Quote \in S /\ Comma \in S /\ LF \in S
      /\ header \in Seq(S) \X Seq(S) /\ rows \in Seq(Seq(S) \X Seq(S))
      /\ lines = <<header>> \o rows
      /\ \A k \in DOMAIN lines : Unbroken(lines[k])
      /\ Grows(R, lines)
  BY Zenon DEF IsFile
<1> USE <1>f
<1> DEFINE T == Seq(S) \X Seq(S)
           n == Len(lines)
           mark == <<LF>>
           L == LinesOf(header, rows)
           P == Parted(L, LF)
           state(k) == St(ModeAfter(lines[k][2]), lines[k][2], <<lines[k][1]>>, R[k - 1])
           st == [k \in 0 .. n |-> IF k = 0 THEN EmptyScan ELSE state(k)]
<1>0. n \in Nat \ {0} /\ n = Len(rows) + 1 /\ lines \in Seq(T) /\ DOMAIN lines = 1 .. n
  <2> HIDE DEF T
  <2>1. header \in T /\ rows \in Seq(T)
    BY DEF T
  <2> QED
    BY <2>1
<1>1. ASSUME NEW k \in 1 .. n
      PROVE  lines[k] \in T /\ lines[k] \in Seq(Seq(S)) /\ Unbroken(lines[k])
  <2>1. lines[k] \in T /\ Unbroken(lines[k])
    <3> HIDE DEF T
    <3>1. lines[k] \in T
      BY <1>0
    <3>2. k \in DOMAIN lines
      BY <1>0
    <3> QED
      BY <3>1, <3>2, Zenon
  <2> QED
    BY <2>1, PairIsSequence
<1>2. header \in Seq(Seq(S)) /\ rows \in Seq(Seq(Seq(S)))
  <2>1. header \in Seq(Seq(S))
    BY PairIsSequence
  <2>2. \A k \in 1 .. Len(rows) : rows[k] \in Seq(Seq(S))
    <3>1. \A k \in 1 .. Len(rows) : rows[k] \in T
      <4> HIDE DEF T
      <4> QED
        BY DEF T
    <3> QED
      BY <3>1, PairIsSequence
  <2>3. rows = [k \in 1 .. Len(rows) |-> rows[k]] /\ Len(rows) \in Nat
    OBVIOUS
  <2> QED
    BY ONLY <2>1, <2>2, <2>3, SequenceOf
<1>3. L \in Seq(Seq(S)) /\ Len(L) = n /\ \A k \in 1 .. n : L[k] = Line(lines[k])
  <2>1. /\ L \in Seq(Seq(S)) /\ Len(L) = Len(rows) + 1
        /\ \A k \in 1 .. Len(rows) + 1 : L[k] = Line((<<header>> \o rows)[k])
    BY <1>2, LinesTyped
  <2> HIDE DEF L, n
  <2> QED
    BY <1>0, <2>1, Zenon
<1> HIDE DEF L
<1>4. /\ P \in Seq(Seq(S)) /\ Len(P) = n
      /\ \A k \in 1 .. n : P[k] = IF k = 1 THEN L[k] ELSE mark \o L[k]
  <2>1. /\ P \in Seq(Seq(S)) /\ Len(P) = Len(L)
        /\ \A k \in 1 .. Len(L) : P[k] = IF k = 1 THEN L[k] ELSE mark \o L[k]
    <3>1. LF \in S /\ L \in Seq(Seq(S))
      BY <1>3
    <3> QED
      BY ONLY <3>1, PartsAreTexts
  <2> HIDE DEF P, n
  <2> QED
    BY <1>3, <2>1, Zenon
<1>5. \A k \in 1 .. n : P[k] \in Seq(S)
  <2> DEFINE Q == Seq(S)
  <2>1. P \in Seq(Q)
    BY <1>4
  <2> HIDE DEF P, Q, n
  <2> QED
    BY <1>4, <2>1 DEF Q
<1>6. st[0] = EmptyScan /\ \A k \in 1 .. n : st[k] = state(k)
  <2>1. 0 \in 0 .. n /\ \A k \in 1 .. n : k \in 0 .. n /\ k # 0
    BY <1>0
  <2> HIDE DEF state
  <2> QED
    BY <2>1, Zenon
<1>7. EmptyScan = St("plain", << >>, << >>, R[0])
  BY Zenon DEF EmptyScan, St, Grows
<1>m. \A cell : ModeAfter(cell) \in {"plain", "closing"}
  BY DEF ModeAfter
\* The end of a record adds it.
<1>8. ASSUME NEW k \in 1 .. n
      PROVE  /\ Scan(state(k), LF) = St("plain", << >>, << >>, R[k])
             /\ EndRecord(state(k)) = St("plain", << >>, << >>, R[k])
  <2> DEFINE m == ModeAfter(lines[k][2])
             a == lines[k][1]
             b == lines[k][2]
             c == <<lines[k][1]>>
             r == R[k - 1]
  <2>1. m \in {"plain", "closing"}
    BY <1>m
  <2>2. Append(c, b) = lines[k]
    <3>1. lines[k] \in T
      BY ONLY <1>1
    <3> QED
      BY ONLY <3>1, PairIsAppended
  <2>3. R[k] = Added(r, lines[k])
    BY Zenon DEF Grows
  <2>4. state(k) = St(m, b, c, r)
    OBVIOUS
  <2> HIDE DEF m, b, c, r, state
  <2>5. /\ Scan(St(m, b, c, r), LF) = St("plain", << >>, << >>, Added(r, Append(c, b)))
        /\ EndRecord(St(m, b, c, r)) = St("plain", << >>, << >>, Added(r, Append(c, b)))
    BY <2>1, CellEnds
  <2> QED
    BY <2>2, <2>3, <2>4, <2>5, Zenon
<1>9. ASSUME NEW k \in 1 .. n
      PROVE  Scanned(St("plain", << >>, << >>, R[k - 1]), L[k]) = state(k)
  <2>1. Scanned(St("plain", << >>, << >>, R[k - 1]), Line(lines[k])) = state(k)
    <3> DEFINE line == lines[k]
               r == R[k - 1]
    <3>1. line \in Seq(S) \X Seq(S) /\ Unbroken(line)
      BY <1>1
    <3> HIDE DEF line, r
    <3>2. Scanned(St("plain", << >>, << >>, r), Line(line))
              = St(ModeAfter(line[2]), line[2], <<line[1]>>, r)
      BY <3>1, LineRead
    <3> QED
      BY <3>2, Zenon DEF line, r
  <2> HIDE DEF state
  <2> QED
    BY <1>3, <2>1, Zenon
<1>10. ASSUME NEW k \in 1 .. n
       PROVE  st[k] = Scanned(st[k - 1], P[k])
  <2>1. CASE k = 1
    <3>1. k - 1 = 0
      BY <2>1
    <3>2. P[k] = L[k] /\ st[k - 1] = St("plain", << >>, << >>, R[k - 1])
      BY <1>4, <1>6, <1>7, <2>1, <3>1, Zenon
    <3> HIDE DEF state, st, P
    <3> QED
      BY <1>6, <1>9, <3>2, Zenon
  <2>2. CASE k # 1
    <3> DEFINE j == k - 1
               s == st[j]
               e == L[k]
               u == St("plain", << >>, << >>, R[j])
    <3>1. j \in 1 .. n
      BY <1>0, <2>2
    <3>2. mark \in Seq(S) /\ e \in Seq(S)
      <4>1. mark \in Seq(S)
        OBVIOUS
      <4>2. e \in Seq(S)
        <5> DEFINE Q == Seq(S)
        <5>1. L \in Seq(Q)
          BY <1>3
        <5> HIDE DEF Q, n
        <5> QED
          BY <1>3, <5>1 DEF Q
      <4> QED
        BY <4>1, <4>2
    <3>3. Scanned(s, mark) = u
      <4>1. Scanned(s, mark) = Scan(s, LF)
        BY ScanOne
      <4> HIDE DEF st, state, j
      <4> QED
        BY <1>6, <1>8, <3>1, <4>1, Zenon
    <3>4. Scanned(s, mark \o e) = Scanned(Scanned(s, mark), e)
      <4> HIDE DEF s, mark, e
      <4> QED
        BY ONLY <3>2, ScanJoined
    <3>5. P[k] = mark \o e
      BY <1>4, <2>2, Zenon
    <3>6. Scanned(u, e) = st[k]
      <4> HIDE DEF st, state
      <4> QED
        BY <1>6, <1>9, Zenon
    <3> HIDE DEF st, P, mark
    <3> QED
      BY <3>3, <3>4, <3>5, <3>6, Zenon
  <2> QED
    BY <2>1, <2>2
<1> HIDE DEF st
<1>11. Scanned(st[0], FlattenSeq(P)) = st[n]
  <2>1. Stages(st, P, n)
    BY <1>10, Zenon DEF Stages
  <2>2. n \in Nat \ {0} /\ Len(P) = n /\ \A i \in 1 .. n : P[i] \in Seq(S)
    BY <1>0, <1>4, <1>5
  <2> HIDE DEF P, n
  <2>3. AreTexts(S, P, n)
    BY <2>2, Zenon DEF AreTexts
  <2> QED
    BY ONLY <2>1, <2>3, StagesJoined
<1>12. toCsv(header, rows) = FlattenSeq(P)
  BY Zenon DEF toCsv, Joined, P, Parted, L, LinesOf
<1>13. EndRecord(state(n)) = St("plain", << >>, << >>, R[n]) /\ st[n] = state(n)
  <2>1. n \in 1 .. n
    BY <1>0
  <2> HIDE DEF state, n
  <2> QED
    BY <1>6, <1>8, <2>1
<1>14. EndRecord(Scanned(EmptyScan, toCsv(header, rows))) = St("plain", << >>, << >>, R[n])
  <2> HIDE DEF state, n, P
  <2> QED
    BY <1>6, <1>11, <1>12, <1>13, Zenon
<1> QED
  BY <1>14, StateFields

-----------------------------------------------------------------------------
(* The file of a batch's results.                                          *)

\* The file of a batch's results has two columns.
ResultColumns == <<<<"subject">>, <<"detail">>>>

LEMMA MinMaxOfOne ==
    ASSUME NEW n \in Nat
    PROVE  Min({n}) = n /\ Max({n}) = n
<1> DEFINE s == {n}
<1>1. s \subseteq Nat /\ s # {} /\ IsFiniteSet(s) /\ \A x \in s : x \in Nat
  BY FS_Singleton
<1> HIDE DEF s
<1>2. Min(s) \in s /\ Max(s) \in s
  BY <1>1, Smallest, Largest
<1> QED
  BY <1>2 DEF s

LEMMA OneWord ==
    ASSUME NEW word, word \notin Blanks
    PROVE  trim(<<word>>) = <<word>> /\ <<word>> # << >>
<1> DEFINE text == <<word>>
           solid == {i \in DOMAIN text : text[i] \notin Blanks}
<1>1. solid = {1}
  OBVIOUS
<1>2. Min({1}) = 1 /\ Max({1}) = 1
  BY MinMaxOfOne
<1>3. SubSeq(text, 1, 1) = text
  <2>1. text \in Seq({word}) /\ Len(text) = 1
    OBVIOUS
  <2> HIDE DEF text
  <2>2. SubSeq(text, 1, Len(text)) = text
    BY <2>1, WholeText DEF Upto
  <2> QED
    BY <2>1, <2>2, Zenon
<1>4. trim(text) = IF solid = {} THEN << >> ELSE SubSeq(text, Min(solid), Max(solid))
  BY Zenon DEF trim
<1>5. trim(text) = text
  <2>1. {1} # {}
    OBVIOUS
  <2> HIDE DEF text, solid
  <2> QED
    BY <1>1, <1>2, <1>3, <1>4, <2>1, Zenon
<1> QED
  BY <1>5

LEMMA ColumnNames ==
    /\ trim(<<"subject">>) = <<"subject">> /\ trim(<<"detail">>) = <<"detail">>
    /\ <<"subject">> # << >> /\ <<"detail">> # << >> /\ <<"subject">> # <<"detail">>
<1>1. "subject" \notin Blanks /\ "detail" \notin Blanks
  BY DEF Blanks, LF, CR
<1>2. <<"subject">> # <<"detail">>
  OBVIOUS
<1> QED
  BY <1>1, <1>2, OneWord

LEMMA Columns ==
    /\ Len(ResultColumns) = 2 /\ DOMAIN ResultColumns = 1 .. 2
    /\ ResultColumns[1] = <<"subject">> /\ ResultColumns[2] = <<"detail">>
    /\ [k \in DOMAIN ResultColumns |-> trim(ResultColumns[k])] = ResultColumns
    /\ ToSet(ResultColumns) = {<<"subject">>, <<"detail">>}
    /\ Max({k \in DOMAIN ResultColumns : ResultColumns[k] = <<"subject">>}) = 1
    /\ Max({k \in DOMAIN ResultColumns : ResultColumns[k] = <<"detail">>}) = 2
<1> DEFINE a == <<"subject">>
           b == <<"detail">>
           C == <<a, b>>
<1>0. ResultColumns = C /\ Len(C) = 2 /\ DOMAIN C = 1 .. 2 /\ C[1] = a /\ C[2] = b
  BY DEF ResultColumns
<1>1. trim(a) = a /\ trim(b) = b /\ a # b
  BY ColumnNames
<1>2. C = [k \in 1 .. 2 |-> C[k]]
  OBVIOUS
<1> HIDE DEF a, b, C
<1>3. 1 .. 2 = {1, 2} /\ 1 # 2
  OBVIOUS
<1>4. \A k \in 1 .. 2 : trim(C[k]) = C[k]
  BY <1>0, <1>1, <1>3, Zenon
<1>5. [k \in DOMAIN C |-> trim(C[k])] = C
  BY <1>0, <1>2, <1>4
<1>6. ToSet(C) = {a, b}
  BY <1>0, <1>3 DEF ToSet
<1>7. {k \in DOMAIN C : C[k] = a} = {1} /\ {k \in DOMAIN C : C[k] = b} = {2}
  BY <1>0, <1>1, <1>3
<1>8. Max({1}) = 1 /\ Max({2}) = 2
  BY MinMaxOfOne
<1>9. Max({k \in DOMAIN C : C[k] = a}) = 1 /\ Max({k \in DOMAIN C : C[k] = b}) = 2
  BY <1>7, <1>8, Zenon
<1> QED
  BY <1>0, <1>5, <1>6, <1>9, Zenon DEF a, b

\* What the reader makes of records below that header.
LEMMA RecordsRead ==
    ASSUME NEW T, NEW full \in Seq(T \X T), NEW text,
           EndRecord(Scanned(EmptyScan, text)).rows = <<ResultColumns>> \o full
    PROVE  /\ Len(parseCsv(text)) = Len(full)
           /\ \A i \in DOMAIN full : /\ parseCsv(text)[i][<<"subject">>] = trim(full[i][1])
                                     /\ parseCsv(text)[i][<<"detail">>] = trim(full[i][2])
<1> DEFINE n == Len(full)
           rows == <<ResultColumns>> \o full
           header == [k \in DOMAIN rows[1] |-> trim(rows[1][k])]
           Column(name) == Max({k \in DOMAIN header : header[k] = name})
           InColumn(row, name) == IF Column(name) \in DOMAIN row THEN trim(row[Column(name)]) ELSE << >>
           read == [i \in 1 .. Len(rows) - 1 |-> [name \in ToSet(header) |-> InColumn(rows[i + 1], name)]]
<1>1. parseCsv(text) = IF Len(rows) < 2 THEN << >> ELSE read
  <2>1. EndRecord(FoldLeft(Scan, EmptyScan, text)).rows = rows
    BY Zenon DEF Scanned
  <2> HIDE DEF rows
  <2> QED
    BY <2>1, Zenon DEF parseCsv
<1>2. /\ n \in Nat /\ Len(rows) = n + 1 /\ rows[1] = ResultColumns /\ DOMAIN full = 1 .. n
      /\ \A i \in 1 .. n : rows[i + 1] = full[i]
  <2> DEFINE U == T \X T
             V == U \cup {ResultColumns}
             h == ResultColumns
  <2>1. full \in Seq(V) /\ h \in V /\ full \in Seq(U)
    <3> HIDE DEF U
    <3>1. full \in Seq(U)
      BY DEF U
    <3> QED
      BY <3>1
  <2> HIDE DEF U, V, h
  <2>2. Len(<<h>> \o full) = n + 1 /\ (<<h>> \o full)[1] = h /\ n \in Nat
    BY <2>1
  <2>3. \A i \in 1 .. n : (<<h>> \o full)[i + 1] = full[i]
    BY <2>1
  <2> QED
    BY <2>1, <2>2, <2>3 DEF h
<1> HIDE DEF rows
<1>3. header = ResultColumns
  BY <1>2, Columns
<1> HIDE DEF header
<1>4. /\ Column(<<"subject">>) = 1 /\ Column(<<"detail">>) = 2
      /\ ToSet(header) = {<<"subject">>, <<"detail">>}
  BY <1>3, Columns, Zenon
<1> HIDE DEF Column
<1>5. ASSUME NEW i \in 1 .. n
      PROVE  /\ read[i][<<"subject">>] = trim(full[i][1])
             /\ read[i][<<"detail">>] = trim(full[i][2])
  <2>1. i \in 1 .. Len(rows) - 1
    BY <1>2
  <2>2. read[i] = [name \in ToSet(header) |-> InColumn(full[i], name)]
    BY <1>2, <2>1, Zenon
  <2>3. read[i][<<"subject">>] = InColumn(full[i], <<"subject">>) /\ read[i][<<"detail">>] = InColumn(full[i], <<"detail">>)
    <3>1. <<"subject">> \in ToSet(header) /\ <<"detail">> \in ToSet(header)
      BY <1>4
    <3> HIDE DEF InColumn
    <3> QED
      BY <2>2, <3>1, Zenon
  <2>4. full[i] \in T \X T
    <3> DEFINE U == T \X T
    <3>1. full \in Seq(U)
      OBVIOUS
    <3> HIDE DEF U
    <3> QED
      BY <1>2, <3>1 DEF U
  <2>5. DOMAIN full[i] = 1 .. 2 /\ 1 \in 1 .. 2 /\ 2 \in 1 .. 2
    BY <2>4, PairIsSequence
  <2> QED
    BY <1>4, <2>3, <2>5, Zenon
<1>6. CASE n = 0
  <2>1. parseCsv(text) = << >> /\ Len(<< >>) = 0 /\ DOMAIN full = {}
    BY <1>1, <1>2, <1>6
  <2> QED
    BY <1>6, <2>1, Zenon
<1>7. CASE n # 0
  <2>1. parseCsv(text) = read /\ Len(rows) - 1 = n
    BY <1>1, <1>2, <1>7
  <2>2. Len(read) = n
    <3>1. DOMAIN read = 1 .. n
      BY <2>1
    <3> HIDE DEF read
    <3>2. read = [i \in 1 .. n |-> read[i]]
      BY <2>1, Zenon DEF read
    <3> QED
      BY <1>2, <3>2, SequenceOf
  <2> QED
    BY <1>2, <1>5, <2>1, <2>2, Zenon
<1> QED
  BY <1>6, <1>7

\* Rows that are not blank, and those of them above a place.
FullRow(row) == \E k \in 1 .. 2 : trim(row[k]) # << >>

FullRows(table) == {i \in DOMAIN table : FullRow(table[i])}

FullAbove(table, k) == {i \in FullRows(table) : i < k}

LEMMA FullGrows ==
    ASSUME NEW T, NEW table \in Seq(T), NEW k \in 1 .. Len(table)
    PROVE  /\ Places(FullAbove(table, k)) /\ \A i \in FullAbove(table, k) : i < k
           /\ FullAbove(table, k + 1) = IF FullRow(table[k]) THEN FullAbove(table, k) \cup {k}
                                        ELSE FullAbove(table, k)
<1> DEFINE n == Len(table)
           F == FullRows(table)
<1>0. n \in Nat /\ DOMAIN table = 1 .. n
  OBVIOUS
<1>1. F \subseteq 1 .. n /\ (k \in F <=> FullRow(table[k]))
  BY <1>0 DEF FullRows
<1> HIDE DEF F
<1>2. Places(FullAbove(table, k))
  <2> DEFINE A == {i \in F : i < k}
  <2>1. A \subseteq 1 .. n
    BY <1>1
  <2>2. IsFiniteSet(A)
    <3> HIDE DEF A
    <3>1. IsFiniteSet(1 .. n)
      BY <1>0, FS_Interval
    <3> QED
      BY <2>1, <3>1, FS_Subset
  <2>3. \A x \in A : x \in Nat
    BY <2>1
  <2> HIDE DEF A
  <2>4. Places(A)
    BY <2>2, <2>3, Zenon DEF Places
  <2> QED
    BY <2>4, Zenon DEF A, F, FullAbove
<1>3. \A i \in FullAbove(table, k) : i < k
  BY DEF FullAbove
<1>5. FullAbove(table, k + 1) = IF FullRow(table[k]) THEN FullAbove(table, k) \cup {k}
                                ELSE FullAbove(table, k)
  <2>1. \A i \in F : i < k + 1 <=> i < k \/ i = k
    BY <1>0, <1>1
  <2>2. ~(k < k)
    OBVIOUS
  <2>3. {i \in F : i < k + 1} = IF k \in F THEN {i \in F : i < k} \cup {k} ELSE {i \in F : i < k}
    BY <2>1, <2>2
  <2> QED
    BY <1>1, <2>3, Zenon DEF FullAbove, F
<1> QED
  BY <1>2, <1>3, <1>5

LEMMA NoRowsAt ==
    ASSUME NEW rows
    PROVE  Places({}) /\ RowsAt(rows, {}) = << >>
<1>1. Places({})
  BY FS_EmptySet DEF Places
<1>2. RowsAt(rows, {}) \in Seq({rows[i] : i \in {}}) /\ Len(RowsAt(rows, {})) = 0
  BY <1>1, FS_EmptySet, RowsAtAre
<1> HIDE DEF RowsAt
<1> QED
  BY <1>1, <1>2

\* The records of the file of a table.
RecordsOf(header, table) ==
    [k \in 0 .. Len(table) + 1 |->
        IF k = 0 THEN << >> ELSE <<header>> \o RowsAt(table, FullAbove(table, k))]

LEMMA RecordsGrowFull ==
    ASSUME NEW T, NEW table \in Seq(T \X T), NEW header \in T \X T, FullRow(header), NEW lines,
           lines = <<header>> \o table
    PROVE  /\ Grows(RecordsOf(header, table), lines) /\ Len(lines) = Len(table) + 1
           /\ RecordsOf(header, table)[Len(lines)] = <<header>> \o RowsAt(table, FullRows(table))
<1> DEFINE U == T \X T
           n == Len(table)
           R == RecordsOf(header, table)
           kept(k) == RowsAt(table, FullAbove(table, k))
<1>0. /\ n \in Nat /\ table \in Seq(U) /\ header \in U /\ lines \in Seq(U)
      /\ Len(lines) = n + 1 /\ lines[1] = header
      /\ \A k \in 1 .. n : lines[k + 1] = table[k] /\ table[k] \in U
  <2> HIDE DEF U
  <2>1. table \in Seq(U) /\ header \in U
    BY DEF U
  <2> QED
    BY <2>1
<1>1. \A p \in U : DOMAIN p = 1 .. 2
  BY PairIsSequence
<1>2. \A r : \A p \in U : Added(r, p) = IF FullRow(p) THEN Append(r, p) ELSE r
  BY <1>1, Zenon DEF Added, FullRow
<1> HIDE DEF U
<1>3. R[0] = << >> /\ \A k \in 1 .. n + 1 : R[k] = <<header>> \o kept(k)
  <2>1. 0 \in 0 .. n + 1 /\ \A k \in 1 .. n + 1 : k \in 0 .. n + 1 /\ k # 0
    BY <1>0
  <2> QED
    BY <2>1, Zenon DEF RecordsOf
<1>4. R[1] = Added(R[0], lines[1])
  <2>1. kept(1) = << >>
    <3>1. FullAbove(table, 1) = {}
      <4>1. \A i \in FullRows(table) : ~(i < 1)
        BY <1>0 DEF FullRows
      <4> QED
        BY <4>1 DEF FullAbove
    <3> QED
      BY <3>1, NoRowsAt
  <2>2. <<header>> \o << >> = <<header>> /\ Append(<< >>, header) = <<header>>
    OBVIOUS
  <2>3. 1 \in 1 .. n + 1
    BY <1>0
  <2> HIDE DEF R, kept
  <2>4. Added(R[0], lines[1]) = Append(<< >>, header)
    <3>1. Added(<< >>, header) = Append(<< >>, header)
      BY <1>0, <1>2, Zenon
    <3> QED
      BY <1>0, <1>3, <3>1, Zenon
  <2>5. R[1] = <<header>> \o kept(1)
    BY <1>3, <2>3, Zenon
  <2> QED
    BY <2>1, <2>2, <2>4, <2>5, Zenon
<1>5. ASSUME NEW k \in 1 .. n
      PROVE  R[k + 1] = Added(R[k], lines[k + 1])
  <2> DEFINE W == FullAbove(table, k)
  <2>1. Places(W) /\ (\A i \in W : i < k) /\ k \in Nat
    <3> HIDE DEF n
    <3>1. k \in Nat
      BY <1>0
    <3>2. Places(W) /\ \A i \in W : i < k
      BY <1>0, FullGrows DEF n
    <3> QED
      BY <3>1, <3>2
  <2>2. FullAbove(table, k + 1) = IF FullRow(table[k]) THEN W \cup {k} ELSE W
    BY <1>0, FullGrows
  <2>3. k \in 1 .. n + 1 /\ k + 1 \in 1 .. n + 1 /\ lines[k + 1] = table[k] /\ table[k] \in U
    BY <1>0
  <2>4. R[k] = <<header>> \o RowsAt(table, W) /\ R[k + 1] = <<header>> \o RowsAt(table, FullAbove(table, k + 1))
    BY <1>3, <2>3, Zenon
  <2>5. Added(R[k], lines[k + 1]) = IF FullRow(table[k]) THEN Append(R[k], table[k]) ELSE R[k]
    BY <1>2, <2>3, Zenon
  <2> HIDE DEF W, R, kept
  <2>6. CASE FullRow(table[k])
    <3>1. RowsAt(table, W \cup {k}) = Append(RowsAt(table, W), table[k])
      BY <2>1, RowsAtOneMore
    <3> DEFINE x == RowsAt(table, W)
               y == table[k]
    <3>2. <<header>> \o Append(x, y) = Append(<<header>> \o x, y)
      <4>1. x \in Seq({table[i] : i \in W})
        BY <2>1, RowsAtAre
      <4> DEFINE V == {table[i] : i \in W} \cup {header, y}
      <4>2. x \in Seq(V) /\ header \in V /\ y \in V
        <5> DEFINE X == {table[i] : i \in W}
        <5>1. x \in Seq(X)
          BY <4>1
        <5> HIDE DEF X, x, y
        <5> QED
          BY <5>1 DEF X
      <4> HIDE DEF V, x, y
      <4> QED
        BY <4>2
    <3> HIDE DEF x, y
    <3> QED
      BY <2>2, <2>4, <2>5, <2>6, <3>1, <3>2, Zenon DEF x, y
  <2>7. CASE ~FullRow(table[k])
    BY <2>2, <2>4, <2>5, <2>7, Zenon
  <2> QED
    BY <2>6, <2>7
<1>6. Grows(R, lines)
  <2>1. ASSUME NEW k \in 1 .. Len(lines)
        PROVE  R[k] = Added(R[k - 1], lines[k])
    <3> HIDE DEF R
    <3>1. CASE k = 1
      BY <1>4, <3>1
    <3>2. CASE k # 1
      <4> DEFINE j == k - 1
      <4>1. j \in 1 .. n /\ k = j + 1
        BY <1>0, <3>2
      <4> HIDE DEF j
      <4>2. R[j + 1] = Added(R[j], lines[j + 1])
        BY <1>5, <4>1
      <4> QED
        BY <4>1, <4>2, Zenon DEF j
    <3> QED
      BY <3>1, <3>2
  <2> HIDE DEF R
  <2> QED
    BY <1>3, <2>1, Zenon DEF Grows
<1>7. R[Len(lines)] = <<header>> \o RowsAt(table, FullRows(table))
  <2>1. n + 1 \in 1 .. n + 1
    BY <1>0
  <2>2. FullAbove(table, n + 1) = FullRows(table)
    <3>1. \A i \in FullRows(table) : i < n + 1
      BY <1>0 DEF FullRows
    <3> QED
      BY <3>1 DEF FullAbove
  <2> HIDE DEF R
  <2> QED
    BY <1>0, <1>3, <2>1, <2>2, Zenon
<1> QED
  BY <1>0, <1>6, <1>7

\* The characters of the files that are written and read here.
Tokens == STRING \cup {Quote, Comma, LF, "subject", "detail"}

LEMMA SequenceInLarger ==
    ASSUME NEW A, NEW B, A \subseteq B, NEW s \in Seq(A)
    PROVE  s \in Seq(B)
  OBVIOUS

LEMMA TextsAreTokens ==
    ASSUME NEW text \in Seq(STRING)
    PROVE  text \in Seq(Tokens)
<1> DEFINE A == STRING
<1>1. A \subseteq Tokens /\ text \in Seq(A)
  BY DEF Tokens
<1> HIDE DEF A
<1> QED
  BY <1>1, SequenceInLarger

LEMMA TablesAreTokens ==
    ASSUME NEW table \in Seq(Seq(STRING) \X Seq(STRING))
    PROVE  table \in Seq(Seq(Tokens) \X Seq(Tokens))
<1> DEFINE P == Seq(STRING) \X Seq(STRING)
           Q == Seq(Tokens) \X Seq(Tokens)
<1>1. \A p \in P : p \in Q
  <2> SUFFICES ASSUME NEW p \in P PROVE p \in Q
    OBVIOUS
  <2>1. p = <<p[1], p[2]>> /\ p[1] \in Seq(STRING) /\ p[2] \in Seq(STRING)
    OBVIOUS
  <2>2. p[1] \in Seq(Tokens) /\ p[2] \in Seq(Tokens)
    BY <2>1, TextsAreTokens
  <2> QED
    BY <2>1, <2>2
<1>2. table \in Seq(P)
  OBVIOUS
<1> HIDE DEF P, Q
<1>3. table \in Seq(Q)
  BY <1>1, <1>2
<1> QED
  BY <1>3 DEF Q

LEMMA TableRead ==
    ASSUME NEW table \in Seq(Seq(STRING) \X Seq(STRING)),
           \A i \in DOMAIN table : \A k \in 1 .. 2 : ~HasBareCR(table[i][k])
    PROVE  LET file == parseCsv(toCsv(ResultColumns, table))
               full    == RowsAt(table, FullRows(table))
           IN  /\ Len(file) = Len(full)
               /\ \A i \in DOMAIN full :
                      /\ file[i][<<"subject">>] = trim(full[i][1])
                      /\ file[i][<<"detail">>] = trim(full[i][2])
<1> DEFINE S == Tokens
           T == Seq(S)
           h == ResultColumns
           lines == <<h>> \o table
           R == RecordsOf(h, table)
           full == RowsAt(table, FullRows(table))
           text == toCsv(h, table)
<1>1. Quote \in S /\ Comma \in S /\ LF \in S
  BY DEF Tokens
<1>2. table \in Seq(T \X T)
  BY TablesAreTokens
<1>3. h \in T \X T
  <2>1. "subject" \in S /\ "detail" \in S
    BY DEF Tokens
  <2> HIDE DEF S
  <2>2. <<"subject">> \in T /\ <<"detail">> \in T
    BY <2>1
  <2> QED
    BY <2>2 DEF ResultColumns
<1>4. FullRow(h)
  <2>1. 1 \in 1 .. 2
    OBVIOUS
  <2>2. trim(h[1]) # << >>
    BY Columns, ColumnNames, Zenon
  <2> QED
    BY <2>1, <2>2, Zenon DEF FullRow
<1>5. \A k \in DOMAIN lines : Unbroken(lines[k])
  <2>1. Unbroken(h)
    <3>1. ~HasBareCR(<<"subject">>) /\ ~HasBareCR(<<"detail">>)
      <4>1. "subject" # CR /\ "detail" # CR
        BY DEF CR
      <4> QED
        BY <4>1 DEF HasBareCR
    <3> QED
      BY <3>1, Columns, Zenon DEF Unbroken
  <2>2. \A i \in DOMAIN table : Unbroken(table[i])
    <3>1. 1 \in 1 .. 2 /\ 2 \in 1 .. 2
      OBVIOUS
    <3> QED
      BY <3>1, Zenon DEF Unbroken
  <2>3. ASSUME NEW k \in DOMAIN lines
        PROVE  lines[k] = h \/ \E i \in DOMAIN table : lines[k] = table[i]
    <3> DEFINE U == T \X T
    <3>1. table \in Seq(U) /\ h \in U
      BY <1>2, <1>3
    <3> HIDE DEF U, h
    <3>2. DOMAIN lines = 1 .. Len(table) + 1 /\ DOMAIN table = 1 .. Len(table) /\ Len(table) \in Nat
      BY <3>1
    <3>3. CASE k = 1
      BY <3>1, <3>3
    <3>4. CASE k # 1
      <4>1. k - 1 \in DOMAIN table
        BY <3>2, <3>4
      <4>2. lines[k] = table[k - 1]
        BY <3>1, <3>2, <3>4
      <4> QED
        BY <4>1, <4>2
    <3> QED
      BY <3>3, <3>4
  <2> HIDE DEF lines
  <2> QED
    BY <2>1, <2>2, <2>3, Zenon
<1>6. lines = <<h>> \o table
  OBVIOUS
<1> HIDE DEF S, h, lines, R
<1>7. Grows(R, lines) /\ R[Len(lines)] = <<h>> \o full
  BY <1>2, <1>3, <1>4, <1>6, RecordsGrowFull DEF R
<1>8. EndRecord(Scanned(EmptyScan, text)).rows = R[Len(lines)]
  <2> HIDE DEF full
  <2>1. IsFile(S, h, table, lines, R)
    BY <1>1, <1>2, <1>3, <1>5, <1>6, <1>7, Zenon DEF IsFile
  <2> QED
    BY ONLY <2>1, FileRead
<1>9. EndRecord(Scanned(EmptyScan, text)).rows = <<ResultColumns>> \o full
  <2> HIDE DEF full, text
  <2> QED
    BY <1>7, <1>8, Zenon DEF h
<1>10. full \in Seq(T \X T)
  <2> DEFINE F == FullRows(table)
             U == T \X T
  <2>1. table \in Seq(U) /\ Len(table) \in Nat /\ DOMAIN table = 1 .. Len(table)
    <3>1. table \in Seq(U)
      BY <1>2
    <3> HIDE DEF U
    <3> QED
      BY <3>1
  <2>2. F \subseteq 1 .. Len(table)
    BY <2>1 DEF FullRows
  <2>3. Places(F)
    <3>1. IsFiniteSet(1 .. Len(table)) /\ \A x \in 1 .. Len(table) : x \in Nat
      BY <2>1, FS_Interval
    <3> HIDE DEF F
    <3> QED
      BY <2>2, <3>1, FS_Subset DEF Places
  <2> HIDE DEF F, U
  <2>4. RowsAt(table, F) \in Seq({table[i] : i \in F})
    BY <2>3, RowsAtAre
  <2>5. {table[i] : i \in F} \subseteq U
    BY <2>1, <2>2
  <2> DEFINE X == {table[i] : i \in F}
             z == RowsAt(table, F)
  <2>6. z \in Seq(U)
    <3> HIDE DEF X, z
    <3>1. z \in Seq(X) /\ X \subseteq U
      BY <2>4, <2>5 DEF X, z
    <3> QED
      BY <3>1
  <2> QED
    BY <2>6 DEF F, U
<1> HIDE DEF full, text
<1>11. /\ Len(parseCsv(text)) = Len(full)
       /\ \A i \in DOMAIN full : /\ parseCsv(text)[i][<<"subject">>] = trim(full[i][1])
                                 /\ parseCsv(text)[i][<<"detail">>] = trim(full[i][2])
  BY <1>9, <1>10, RecordsRead
<1> QED
  BY <1>11, Zenon DEF full, text, h

LEMMA StepsOfBulk ==
    ASSUME [ConsoleNext]_consoleVars
    PROVE  [BulkNext]_bulkPageVars
  BY DEF ConsoleNext, consoleVars

\* What is saved is a table of results.
DownloadIsTable == download \in ResultTables \cup {NoRows}

LEMMA DownloadStep ==
    ASSUME DownloadIsTable, [BulkNext]_bulkPageVars
    PROVE  DownloadIsTable'
<1> USE DEF DownloadIsTable
<1>1. ASSUME NEW type \in BulkTypes, ChooseType(type) PROVE DownloadIsTable'
  BY <1>1 DEF ChooseType
<1>2. ASSUME NEW sheet \in Sheets, onFile(sheet) PROVE DownloadIsTable'
  BY <1>2, Zenon DEF onFile
<1>3. CASE ConsentToAll \/ startBatch
  BY <1>3, Zenon DEF ConsentToAll, startBatch
<1>4. ASSUME NEW q \in posted, BatchCreated(q) \/ BatchStarted(q) \/ StartRefused(q)
      PROVE  DownloadIsTable'
  BY <1>4, Zenon DEF BatchCreated, BatchStarted, StartRefused
<1>5. ASSUME NEW b \in DOMAIN batches, BatchFinishes(b) PROVE DownloadIsTable'
  BY <1>5, Zenon DEF BatchFinishes
<1>6. CASE BatchTick
  BY <1>6, Zenon DEF BatchTick
<1>7. ASSUME NEW s \in batchStates, BatchAnswered(s) PROVE DownloadIsTable'
  BY <1>7, Zenon DEF BatchAnswered
<1>8. ASSUME NEW table \in ResultTables, downloadResults(table) PROVE DownloadIsTable'
  BY <1>8 DEF downloadResults
<1>9. CASE UNCHANGED bulkPageVars
  BY <1>9 DEF bulkPageVars, cardVars
<1> QED
  BY <1>1, <1>2, <1>3, <1>4, <1>5, <1>6, <1>7, <1>8, <1>9 DEF BulkNext

\* The file of a batch's results gives them back (Csv, BulkPage): whatever quotes,
\* commas and line ends the cells contain, the console's reader finds in what its
\* writer has written the rows that are not blank, in their order, each under its
\* column, but for blanks around the cells; a CR that is not quoted is excepted.
THEOREM FileGivesResultsBack == ConsoleSpec => []CsvRoundTrip
<1>1. ConsoleInit => DownloadIsTable
  BY DEF ConsoleInit, BulkInit, DownloadIsTable
<1>2. DownloadIsTable /\ [ConsoleNext]_consoleVars => DownloadIsTable'
  BY StepsOfBulk, DownloadStep
<1>3. DownloadIsTable => CsvRoundTrip
  <2> SUFFICES ASSUME DownloadIsTable, download # NoRows,
                      \A i \in DOMAIN download : \A k \in 1 .. 2 : ~HasBareCR(download[i][k])
               PROVE  LET file == parseCsv(toCsv(ResultColumns, download))
                          full    == RowsAt(download, FullRows(download))
                      IN  /\ Len(file) = Len(full)
                          /\ \A i \in DOMAIN full :
                                 /\ file[i][<<"subject">>] = trim(full[i][1])
                                 /\ file[i][<<"detail">>] = trim(full[i][2])
    BY Zenon DEF CsvRoundTrip, ResultColumns, FullRows, FullRow
  <2>1. download \in Seq(Seq(STRING) \X Seq(STRING))
    BY BulkAssumption DEF DownloadIsTable
  <2> QED
    BY <2>1, TableRead, Zenon
<1> QED
  BY <1>1, <1>2, <1>3, PTL DEF ConsoleSpec

-----------------------------------------------------------------------------
(* The rows of a file and of a batch.                                      *)

\* The scan's rows stay a sequence.
ScanStates(S) ==
    {St(m, f, c, r) : m \in {"plain", "quoted", "closing", "cr"}, f \in Seq(S),
                      c \in Seq(Seq(S)), r \in Seq(Seq(Seq(S)))}

LEMMA StatesAre ==
    ASSUME NEW S, NEW m \in {"plain", "quoted", "closing", "cr"}, NEW f \in Seq(S),
           NEW c \in Seq(Seq(S)), NEW r \in Seq(Seq(Seq(S)))
    PROVE  St(m, f, c, r) \in ScanStates(S)
  BY DEF ScanStates

LEMMA AppendTyped ==
    ASSUME NEW T, NEW s \in Seq(T), NEW x \in T
    PROVE  Append(s, x) \in Seq(T) /\ << >> \in Seq(T)
  OBVIOUS

LEMMA EndsTyped ==
    ASSUME NEW S, NEW m, NEW f \in Seq(S), NEW c \in Seq(Seq(S)), NEW r \in Seq(Seq(Seq(S)))
    PROVE  /\ St("plain", << >>, Append(c, f), r) \in ScanStates(S)
           /\ St("plain", << >>, << >>, Added(r, Append(c, f))) \in ScanStates(S)
           /\ St("cr", << >>, << >>, Added(r, Append(c, f))) \in ScanStates(S)
<1> DEFINE d == Append(c, f)
<1>1. d \in Seq(Seq(S))
  BY AppendTyped
<1>2. << >> \in Seq(S) /\ << >> \in Seq(Seq(S))
  OBVIOUS
<1> HIDE DEF d
<1>3. Added(r, d) \in Seq(Seq(Seq(S)))
  <2>1. Append(r, d) \in Seq(Seq(Seq(S)))
    BY <1>1, AppendTyped
  <2> QED
    BY <2>1 DEF Added
<1> DEFINE w == Added(r, d)
           e == << >>
<1>4. w \in Seq(Seq(Seq(S))) /\ e \in Seq(S) /\ e \in Seq(Seq(S))
  BY <1>2, <1>3
<1> HIDE DEF w, e
<1>5. /\ St("plain", e, d, r) \in ScanStates(S) /\ St("plain", e, e, w) \in ScanStates(S)
      /\ St("cr", e, e, w) \in ScanStates(S)
  BY <1>1, <1>4, StatesAre
<1> QED
  BY <1>5 DEF d, w, e

LEMMA ScanTyped ==
    ASSUME NEW S, Quote \in S
    PROVE  ScanKeeps(ScanStates(S), S)
<1> SUFFICES ASSUME NEW m \in {"plain", "quoted", "closing", "cr"}, NEW f \in Seq(S),
                    NEW c \in Seq(Seq(S)), NEW r \in Seq(Seq(Seq(S))), NEW token \in S
             PROVE  Scan(St(m, f, c, r), token) \in ScanStates(S)
  <2> SUFFICES ASSUME NEW scan \in ScanStates(S), NEW token \in S
               PROVE  Scan(scan, token) \in ScanStates(S)
    BY Zenon DEF ScanKeeps
  <2>1. PICK m \in {"plain", "quoted", "closing", "cr"}, f \in Seq(S),
             c \in Seq(Seq(S)), r \in Seq(Seq(Seq(S))) : scan = St(m, f, c, r)
    BY DEF ScanStates
  <2>2. Scan(St(m, f, c, r), token) \in ScanStates(S)
    OBVIOUS
  <2> QED
    BY <2>1, <2>2, Zenon
<1> DEFINE s == St(m, f, c, r)
           I == ScanStates(S)
<1>1. IsState(s) /\ s.mode = m /\ s.field = f /\ s.record = c /\ s.rows = r
  BY StateFields
<1>2. \A n \in {"plain", "quoted", "closing", "cr"} : [s EXCEPT !.mode = n] \in I
  <2>1. \A n : [s EXCEPT !.mode = n] = St(n, f, c, r)
    <3> HIDE DEF s
    <3> QED
      BY <1>1, ModeSet
  <2>2. \A n \in {"plain", "quoted", "closing", "cr"} : St(n, f, c, r) \in I
    BY StatesAre
  <2> HIDE DEF s, I
  <2> QED
    BY <2>1, <2>2, Zenon
<1>3. /\ Keep(s, token) \in I
      /\ \A n \in {"plain", "quoted"} : [Keep(s, token) EXCEPT !.mode = n] \in I
  <2> DEFINE g == Append(f, token)
             t == Keep(s, token)
  <2>1. g \in Seq(S)
    BY AppendTyped
  <2>2. t = St(m, g, c, r)
    <3>1. t = [s EXCEPT !.field = g]
      <4> HIDE DEF s
      <4> QED
        BY <1>1, Zenon DEF Keep
    <3> HIDE DEF g, s, t
    <3> QED
      BY <1>1, <3>1, FieldSet
  <2> HIDE DEF g, t
  <2>3. IsState(t) /\ t.field = g /\ t.record = c /\ t.rows = r
    BY <2>2, StateFields
  <2>4. \A n : [t EXCEPT !.mode = n] = St(n, g, c, r)
    BY <2>3, ModeSet
  <2>5. \A n \in {"plain", "quoted", "closing", "cr"} : St(n, g, c, r) \in I
    BY <2>1, StatesAre
  <2> HIDE DEF s, I
  <2> QED
    BY <2>2, <2>4, <2>5, Zenon DEF t
<1>4. EndField(s) \in I /\ EndRecord(s) \in I /\ [EndRecord(s) EXCEPT !.mode = "cr"] \in I
  <2> DEFINE w == Added(r, Append(c, f))
             u == EndRecord(s)
  <2>1. EndField(s) = St("plain", << >>, Append(c, f), r) /\ u = St("plain", << >>, << >>, w)
    <3> HIDE DEF s
    <3> QED
      BY <1>1, FieldEnds, RecordEnds
  <2>2. /\ St("plain", << >>, Append(c, f), r) \in I /\ St("plain", << >>, << >>, w) \in I
        /\ St("cr", << >>, << >>, w) \in I
    BY EndsTyped
  <2>3. [u EXCEPT !.mode = "cr"] = St("cr", << >>, << >>, w)
    <3> DEFINE e == << >>
    <3>1. u = St("plain", e, e, w)
      BY <2>1
    <3> HIDE DEF w, u, e
    <3>2. IsState(u) /\ u.field = e /\ u.record = e /\ u.rows = w
      BY <3>1, StateFields
    <3>3. [u EXCEPT !.mode = "cr"] = St("cr", e, e, w)
      BY <3>2, ModeSet
    <3> QED
      BY <3>3 DEF e
  <2> HIDE DEF s, I, w
  <2> QED
    BY <2>1, <2>2, <2>3, Zenon
<1> HIDE DEF s, I
<1>5. PlainToken(s, token) \in I
  <2>1. CASE token = Quote
    BY <1>2, <2>1, Signs, Zenon DEF PlainToken
  <2>2. CASE token = Comma
    BY <1>4, <2>2, Signs, Zenon DEF PlainToken
  <2>3. CASE token = LF
    BY <1>4, <2>3, Signs, Zenon DEF PlainToken
  <2>4. CASE token = CR
    BY <1>4, <2>4, Signs, Zenon DEF PlainToken
  <2>5. CASE token \notin {Quote, Comma, LF, CR}
    <3>1. PlainToken(s, token) = [Keep(s, token) EXCEPT !.mode = "plain"]
      BY <2>5 DEF PlainToken
    <3> QED
      BY <1>3, <3>1, Zenon
  <2> QED
    BY <2>1, <2>2, <2>3, <2>4, <2>5
<1>6. CASE m = "quoted" /\ token = Quote
  <2>1. Scan(s, token) = [s EXCEPT !.mode = "closing"]
    BY <1>1, <1>6 DEF Scan
  <2> QED
    BY <1>2, <2>1 DEF s, I
<1>7. CASE m = "quoted" /\ token # Quote
  <2>1. Scan(s, token) = Keep(s, token)
    BY <1>1, <1>7 DEF Scan
  <2> QED
    BY <1>3, <2>1 DEF s, I
<1>8. CASE m = "closing" /\ token = Quote
  <2>1. Scan(s, token) = [Keep(s, token) EXCEPT !.mode = "quoted"]
    BY <1>1, <1>8 DEF Scan
  <2>2. [Keep(s, token) EXCEPT !.mode = "quoted"] \in I
    BY <1>3, Zenon
  <2> QED
    BY <2>1, <2>2, Zenon DEF s, I
<1>9. CASE m = "cr" /\ token = LF
  <2>1. Scan(s, token) = [s EXCEPT !.mode = "plain"]
    BY <1>1, <1>9 DEF Scan
  <2> QED
    BY <1>2, <2>1 DEF s, I
<1>10. CASE m # "quoted" /\ ~(m = "closing" /\ token = Quote) /\ ~(m = "cr" /\ token = LF)
  <2>1. Scan(s, token) = PlainToken(s, token)
    BY <1>1, <1>10 DEF Scan
  <2> QED
    BY <1>5, <2>1, Zenon DEF s, I
<1> QED
  BY <1>6, <1>7, <1>8, <1>9, <1>10

\* What is read of a text is a sequence of records.
LEMMA RecordsNumbered ==
    ASSUME NEW text \in Seq(Tokens)
    PROVE  \E n \in Nat : DOMAIN parseCsv(text) = 1 .. n
<1> DEFINE S == Tokens
           I == ScanStates(S)
           scan == Scanned(EmptyScan, text)
           rows == EndRecord(scan).rows
<1>1. Quote \in S
  BY DEF Tokens
<1> HIDE DEF S
<1>2. EmptyScan \in I
  <2> DEFINE e == << >>
  <2>1. e \in Seq(S) /\ e \in Seq(Seq(S)) /\ e \in Seq(Seq(Seq(S)))
    OBVIOUS
  <2>2. EmptyScan = St("plain", e, e, e)
    BY Zenon DEF EmptyScan, St
  <2> HIDE DEF e
  <2> QED
    BY <2>1, <2>2, StatesAre
<1>3. scan \in I
  <2>1. ScanKeeps(I, S)
    BY <1>1, ScanTyped
  <2>2. text \in Seq(S)
    BY DEF S
  <2> HIDE DEF I
  <2> QED
    BY ONLY <1>2, <2>1, <2>2, ScanInvariant
<1> HIDE DEF scan
<1>4. PICK m \in {"plain", "quoted", "closing", "cr"}, f \in Seq(S),
           c \in Seq(Seq(S)), r \in Seq(Seq(Seq(S))) : scan = St(m, f, c, r)
  BY <1>3 DEF ScanStates
<1>5. rows \in Seq(Seq(Seq(S)))
  <2> DEFINE d == Append(c, f)
             T == Seq(Seq(S))
  <2>1. IsState(scan) /\ scan.field = f /\ scan.record = c /\ scan.rows = r
    BY <1>4, StateFields
  <2>2. EndRecord(scan) = St("plain", << >>, << >>, Added(scan.rows, Append(scan.record, scan.field)))
    BY <2>1, RecordEnds
  <2>3. rows = Added(r, d)
    BY <2>1, <2>2, StateFields
  <2>4. d \in T /\ r \in Seq(T)
    BY AppendTyped
  <2> HIDE DEF d, T, rows
  <2>5. Append(r, d) \in Seq(T)
    BY <2>4, AppendTyped
  <2>6. rows \in Seq(T)
    BY <2>3, <2>4, <2>5 DEF Added
  <2> QED
    BY <2>6 DEF T
<1>6. Len(rows) \in Nat
  <2> HIDE DEF rows
  <2> QED
    BY <1>5
<1>7. parseCsv(text) = << >> \/ (DOMAIN parseCsv(text) = 1 .. Len(rows) - 1 /\ ~(Len(rows) < 2))
  <2>1. FoldLeft(Scan, EmptyScan, text) = scan
    BY Zenon DEF scan, Scanned
  <2>2. Len(rows) < 2 => parseCsv(text) = << >>
    BY <2>1, Zenon DEF parseCsv
  <2> DEFINE header == [k \in DOMAIN rows[1] |-> trim(rows[1][k])]
             InColumn(row, name) ==
                 LET column == Max({k \in DOMAIN header : header[k] = name})
                 IN  IF column \in DOMAIN row THEN trim(row[column]) ELSE << >>
  <2>3. ASSUME ~(Len(rows) < 2)
        PROVE  parseCsv(text) = [i \in 1 .. Len(rows) - 1 |->
                                    [name \in ToSet(header) |-> InColumn(rows[i + 1], name)]]
    BY <2>1, <2>3, Zenon DEF parseCsv
  <2> DEFINE all == [i \in 1 .. Len(rows) - 1 |-> [name \in ToSet(header) |-> InColumn(rows[i + 1], name)]]
  <2>4. DOMAIN all = 1 .. Len(rows) - 1
    <3> HIDE DEF header, InColumn, rows
    <3> QED
      OBVIOUS
  <2> HIDE DEF all, rows
  <2>5. ~(Len(rows) < 2) => parseCsv(text) = all
    BY <2>3 DEF all
  <2>6. CASE Len(rows) < 2
    BY <2>2, <2>6, Zenon
  <2>7. CASE ~(Len(rows) < 2)
    BY <2>4, <2>5, <2>7, Zenon
  <2> QED
    BY <2>6, <2>7, Zenon
<1> HIDE DEF rows
<1>8. CASE parseCsv(text) = << >>
  <2>1. DOMAIN << >> = 1 .. 0
    OBVIOUS
  <2> QED
    BY <1>8, <2>1
<1>9. CASE DOMAIN parseCsv(text) = 1 .. Len(rows) - 1 /\ ~(Len(rows) < 2)
  <2>1. Len(rows) - 1 \in Nat
    BY <1>6, <1>9
  <2> QED
    BY <1>9, <2>1
<1> QED
  BY <1>7, <1>8, <1>9

\* Rows that are all used.
GoodRows(rows) ==
    Len(rows) \in Nat /\ DOMAIN rows = 1 .. Len(rows) /\ \A i \in DOMAIN rows : usable(rows[i])

LEMMA FilteredAreGood ==
    ASSUME NEW inputs, NEW n \in Nat, DOMAIN inputs = 1 .. n
    PROVE  GoodRows(RowsAt(inputs, {i \in DOMAIN inputs : usable(inputs[i])}))
<1> DEFINE W == {i \in DOMAIN inputs : usable(inputs[i])}
           rows == RowsAt(inputs, W)
           T == {inputs[i] : i \in W}
<1>1. Places(W)
  <2>1. IsFiniteSet(1 .. n)
    BY FS_Interval
  <2>2. W \subseteq 1 .. n
    OBVIOUS
  <2> HIDE DEF W
  <2>3. IsFiniteSet(W)
    BY <2>1, <2>2, FS_Subset
  <2> QED
    BY <2>2, <2>3 DEF Places
<1>2. \A x \in T : usable(x)
  BY Zenon
<1>3. rows \in Seq(T)
  BY <1>1, RowsAtAre
<1> HIDE DEF rows, T
<1>4. Len(rows) \in Nat /\ DOMAIN rows = 1 .. Len(rows) /\ \A i \in DOMAIN rows : rows[i] \in T
  BY <1>3
<1>5. GoodRows(rows)
  BY <1>2, <1>4, Zenon DEF GoodRows
<1> QED
  BY <1>5, Zenon DEF rows, W

\* What the page makes of a file is used, every row of it.
LEMMA FileRowsAreGood ==
    ASSUME NEW sheet \in Sheets
    PROVE  RowsOf(FileOf(sheet)) # NoRows => GoodRows(RowsOf(FileOf(sheet)))
<1> DEFINE text == FileOf(sheet)
           file == parseCsv(text)
           inputs == csvRowsToInputs(file)
<1>1. text \in Seq(Tokens)
  <2> DEFINE A == Seq(STRING)
             B == Seq(Tokens)
             h == sheet[1]
             r == sheet[2]
  <2>1. \A t \in A : t \in B
    BY TextsAreTokens
  <2>2. h \in Seq(A) /\ r \in Seq(Seq(A))
    BY BulkAssumption
  <2> HIDE DEF A, B, h, r
  <2>3. A \subseteq B
    BY <2>1
  <2>4. Seq(A) \subseteq Seq(B)
    BY <2>3, SequenceInLarger
  <2> DEFINE C == Seq(A)
             D == Seq(B)
  <2>5. C \subseteq D /\ h \in C /\ r \in Seq(C)
    BY <2>2, <2>4
  <2> HIDE DEF C, D
  <2>6. r \in Seq(D) /\ h \in D
    BY <2>5, SequenceInLarger
  <2>7. h \in Seq(Seq(Tokens)) /\ r \in Seq(Seq(Seq(Tokens)))
    BY <2>6 DEF D, B
  <2>8. Quote \in Tokens /\ Comma \in Tokens /\ LF \in Tokens
    BY DEF Tokens
  <2>9. toCsv(h, r) \in Seq(Tokens)
    BY ONLY <2>7, <2>8, FileTyped
  <2> QED
    BY <2>9, Zenon DEF FileOf, h, r
<1>2. PICK n \in Nat : DOMAIN file = 1 .. n
  <2> HIDE DEF text
  <2> QED
    BY <1>1, RecordsNumbered
<1>3. DOMAIN inputs = 1 .. n
  <2> HIDE DEF text, file
  <2>1. DOMAIN inputs = DOMAIN file
    BY DEF csvRowsToInputs
  <2> QED
    BY <1>2, <2>1
<1> HIDE DEF inputs, text
<1>4. GoodRows(RowsAt(inputs, {i \in DOMAIN inputs : usable(inputs[i])}))
  BY <1>3, FilteredAreGood
<1>5. \/ RowsOf(text) = RowsAt(inputs, {i \in DOMAIN inputs : usable(inputs[i])})
      \/ RowsOf(text) = NoRows
  BY Zenon DEF RowsOf, inputs
<1> QED
  BY <1>4, <1>5, Zenon DEF text

\* The server drops none of them.
LEMMA GoodRowsAdmitted ==
    ASSUME NEW type, NEW rows, NEW cbConsent, GoodRows(rows),
           AdmittedRows(type, rows, cbConsent) # << >>
    PROVE  Len(AdmittedRows(type, rows, cbConsent)) = Len(rows)
<1> DEFINE n == Len(rows)
           W == {i \in DOMAIN rows : DOMAIN rows[i] \cap Identifiers # {}}
<1>1. AdmittedRows(type, rows, cbConsent) = RowsAt(rows, W)
  BY Zenon DEF AdmittedRows
<1>2. n \in Nat /\ W = 1 .. n
  BY DEF GoodRows, usable
<1> HIDE DEF W, n
<1>3. Places(W) /\ Cardinality(W) = n
  <2>1. IsFiniteSet(1 .. n) /\ Cardinality(1 .. n) = n
    BY <1>2, FS_Interval
  <2> QED
    BY <1>2, <2>1 DEF Places
<1>4. Len(RowsAt(rows, W)) = n
  BY <1>3, RowsAtAre
<1> QED
  BY <1>1, <1>4, Zenon DEF n

\* Rows that are shown or asked for are used, all of them, and a batch has run as
\* many as were counted.
UploadIsGood ==
    DOMAIN upload = {"type", "rows", "cbConsent"} /\ (upload.rows # NoRows => GoodRows(upload.rows))

PostIsGood(q) ==
    /\ DOMAIN q = {"request", "batch", "asks"}
    /\ q.batch = 0 => GoodRows(q.asks.rows)

BatchesRun ==
    {b \in [totalRows : Nat, counted : Nat, status : {"processing", "completed", "failed"}] :
        b.counted = b.totalRows}

BulkIsGood == UploadIsGood /\ (\A q \in posted : PostIsGood(q)) /\ batches \in Seq(BatchesRun)

\* Steps that leave the rows, the requests and the batches alone.
LEMMA BulkIsKept ==
    ASSUME BulkIsGood, UNCHANGED <<upload, posted, batches>>
    PROVE  BulkIsGood'
<1>1. upload' = upload /\ posted' = posted /\ batches' = batches
  OBVIOUS
<1> QED
  BY <1>1 DEF BulkIsGood, UploadIsGood

LEMMA UploadStep ==
    ASSUME UploadIsGood, NEW x, NEW f \in {"type", "cbConsent"}
    PROVE  LET u == [upload EXCEPT ![f] = x]
           IN  DOMAIN u = {"type", "rows", "cbConsent"} /\ (u.rows # NoRows => GoodRows(u.rows))
<1> DEFINE u == [upload EXCEPT ![f] = x]
<1>1. DOMAIN u = DOMAIN upload /\ u.rows = upload.rows
  BY DEF UploadIsGood
<1> HIDE DEF u
<1>2. DOMAIN u = {"type", "rows", "cbConsent"} /\ (u.rows # NoRows => GoodRows(u.rows))
  BY <1>1, Zenon DEF UploadIsGood
<1> QED
  BY <1>2 DEF u

LEMMA RowsStep ==
    ASSUME UploadIsGood, NEW x, x # NoRows => GoodRows(x)
    PROVE  LET u == [upload EXCEPT !.rows = x]
           IN  DOMAIN u = {"type", "rows", "cbConsent"} /\ (u.rows # NoRows => GoodRows(u.rows))
<1> DEFINE u == [upload EXCEPT !.rows = x]
<1>1. DOMAIN u = DOMAIN upload /\ u.rows = x
  BY DEF UploadIsGood
<1> HIDE DEF u
<1>2. DOMAIN u = {"type", "rows", "cbConsent"} /\ (u.rows # NoRows => GoodRows(u.rows))
  BY <1>1, Zenon DEF UploadIsGood
<1> QED
  BY <1>2 DEF u

LEMMA BatchAdded ==
    ASSUME NEW q, PostIsGood(q), BulkIsGood, BatchCreated(q)
    PROVE  BulkIsGood'
<1> DEFINE asks == q.asks
           rows == AdmittedRows(asks.type, asks.rows, asks.cbConsent)
           batch == [totalRows |-> Len(rows), counted |-> Len(asks.rows), status |-> "processing"]
           post == [q EXCEPT !.batch = Len(batches'), !.asks = NoRows]
<1>1. /\ q.batch = 0 /\ rows # << >> /\ batches' = Append(batches, batch)
      /\ posted' = (posted \ {q}) \cup {post} /\ upload' = upload
  BY Zenon DEF BatchCreated
<1>2. batch \in BatchesRun
  <2>1. GoodRows(asks.rows)
    BY <1>1, Zenon DEF PostIsGood
  <2>2. Len(rows) = Len(asks.rows) /\ Len(asks.rows) \in Nat
    <3> HIDE DEF asks
    <3> QED
      BY <1>1, <2>1, GoodRowsAdmitted DEF GoodRows
  <2> HIDE DEF rows, asks
  <2> QED
    BY <2>2 DEF BatchesRun
<1> HIDE DEF batch
<1>3. batches' \in Seq(BatchesRun) /\ Len(batches') # 0
  BY <1>1, <1>2 DEF BulkIsGood
<1>4. PostIsGood(post)
  <2> DEFINE n == Len(batches')
  <2>1. n # 0
    BY <1>3
  <2> HIDE DEF n
  <2>2. DOMAIN post = DOMAIN q /\ post.batch = n
    BY DEF PostIsGood, n
  <2> HIDE DEF post
  <2> QED
    BY <2>1, <2>2, Zenon DEF PostIsGood
<1> HIDE DEF post
<1>5. \A p \in posted' : PostIsGood(p)
  BY <1>1, <1>4, Zenon DEF BulkIsGood
<1>6. UploadIsGood'
  BY <1>1 DEF BulkIsGood, UploadIsGood
<1> QED
  BY <1>3, <1>5, <1>6 DEF BulkIsGood

LEMMA BulkStep ==
    ASSUME BulkIsGood, [BulkNext]_bulkPageVars
    PROVE  BulkIsGood'
<1>u. UploadIsGood
  BY DEF BulkIsGood
<1>1. ASSUME NEW type \in BulkTypes, ChooseType(type) PROVE BulkIsGood'
  <2>1. upload' = [upload EXCEPT !["type"] = type] /\ posted' = posted /\ batches' = batches
    BY <1>1 DEF ChooseType
  <2>2. UploadIsGood'
    BY <1>u, <2>1, UploadStep, Zenon DEF UploadIsGood
  <2> QED
    BY <2>1, <2>2 DEF BulkIsGood
<1>2. ASSUME NEW sheet \in Sheets, onFile(sheet) PROVE BulkIsGood'
  <2> DEFINE rows == RowsOf(FileOf(sheet))
  <2>1. upload' = [upload EXCEPT !.rows = rows] /\ posted' = posted /\ batches' = batches
    BY <1>2, Zenon DEF onFile
  <2>2. rows # NoRows => GoodRows(rows)
    BY FileRowsAreGood
  <2> HIDE DEF rows
  <2>3. UploadIsGood'
    <3>1. LET u == [upload EXCEPT !.rows = rows]
          IN  DOMAIN u = {"type", "rows", "cbConsent"} /\ (u.rows # NoRows => GoodRows(u.rows))
      BY ONLY <1>u, <2>2, RowsStep
    <3> QED
      BY <2>1, <3>1, Zenon DEF UploadIsGood
  <2> QED
    BY <2>1, <2>3 DEF BulkIsGood
<1>3. CASE ConsentToAll
  <2> DEFINE x == ~upload.cbConsent
  <2>1. upload' = [upload EXCEPT !["cbConsent"] = x] /\ posted' = posted /\ batches' = batches
    BY <1>3, Zenon DEF ConsentToAll
  <2> HIDE DEF x
  <2>2. UploadIsGood'
    BY <1>u, <2>1, UploadStep, Zenon DEF UploadIsGood
  <2> QED
    BY <2>1, <2>2 DEF BulkIsGood
<1>4. CASE startBatch
  <2> DEFINE n == Min((1 .. MaxBatches + 1) \ {q.request : q \in posted})
             post == [request |-> n, batch |-> 0, asks |-> upload]
  <2>1. /\ upload.rows # NoRows /\ posted' = posted \cup {post}
        /\ upload' = upload /\ batches' = batches
    BY <1>4, Zenon DEF startBatch
  <2>2. PostIsGood(post)
    <3>1. post.batch = 0 /\ post.asks = upload /\ DOMAIN post = {"request", "batch", "asks"}
      <4> HIDE DEF n
      <4> QED
        OBVIOUS
    <3> HIDE DEF post
    <3> QED
      BY <1>u, <2>1, <3>1, Zenon DEF PostIsGood, UploadIsGood
  <2> HIDE DEF post
  <2>3. \A q \in posted' : PostIsGood(q)
    BY <2>1, <2>2, Zenon DEF BulkIsGood
  <2>4. UploadIsGood'
    BY <1>u, <2>1 DEF UploadIsGood
  <2> QED
    BY <2>1, <2>3, <2>4 DEF BulkIsGood
<1>5. ASSUME NEW q \in posted, BatchCreated(q) PROVE BulkIsGood'
  BY <1>5, BatchAdded DEF BulkIsGood
<1>6. ASSUME NEW q \in posted, BatchStarted(q) PROVE BulkIsGood'
  <2>1. upload' = [upload EXCEPT !.rows = NoRows] /\ posted' = posted \ {q} /\ batches' = batches
    BY <1>6 DEF BatchStarted
  <2>2. UploadIsGood'
    <3>1. LET u == [upload EXCEPT !.rows = NoRows]
          IN  DOMAIN u = {"type", "rows", "cbConsent"} /\ (u.rows # NoRows => GoodRows(u.rows))
      BY <1>u, RowsStep
    <3> QED
      BY <2>1, <3>1, Zenon DEF UploadIsGood
  <2>3. \A p \in posted' : PostIsGood(p)
    BY <2>1, Zenon DEF BulkIsGood
  <2> QED
    BY <2>1, <2>2, <2>3 DEF BulkIsGood
<1>7. ASSUME NEW q \in posted, StartRefused(q) PROVE BulkIsGood'
  <2>1. upload' = upload /\ posted' = posted \ {q} /\ batches' = batches
    BY <1>7 DEF StartRefused
  <2>2. UploadIsGood'
    BY <1>u, <2>1 DEF UploadIsGood
  <2>3. \A p \in posted' : PostIsGood(p)
    BY <2>1, Zenon DEF BulkIsGood
  <2> QED
    BY <2>1, <2>2, <2>3 DEF BulkIsGood
<1>8. ASSUME NEW b \in DOMAIN batches, BatchFinishes(b) PROVE BulkIsGood'
  <2>1. PICK end \in {"completed", "failed"} : batches' = [batches EXCEPT ![b].status = end]
    BY <1>8 DEF BatchFinishes
  <2>2. upload' = upload /\ posted' = posted
    BY <1>8 DEF BatchFinishes
  <2>3. batches \in Seq(BatchesRun)
    BY DEF BulkIsGood
  <2>4. [batches[b] EXCEPT !.status = end] \in BatchesRun
    <3>1. batches[b] \in BatchesRun
      BY <2>3
    <3> DEFINE x == batches[b]
    <3> HIDE DEF x
    <3>2. x \in BatchesRun
      BY <3>1 DEF x
    <3>3. [x EXCEPT !.status = end] \in BatchesRun
      BY <3>2 DEF BatchesRun
    <3> QED
      BY <3>3 DEF x
  <2>5. batches' = [batches EXCEPT ![b] = [batches[b] EXCEPT !.status = end]]
    BY <2>1
  <2>6. batches' \in Seq(BatchesRun)
    <3> DEFINE x == [batches[b] EXCEPT !.status = end]
    <3>1. x \in BatchesRun /\ batches' = [batches EXCEPT ![b] = x]
      BY <2>4, <2>5
    <3> HIDE DEF x
    <3> QED
      BY <2>3, <3>1
  <2>7. UploadIsGood'
    BY <1>u, <2>2 DEF UploadIsGood
  <2>8. \A p \in posted' : PostIsGood(p)
    BY <2>2, Zenon DEF BulkIsGood
  <2> QED
    BY <2>6, <2>7, <2>8 DEF BulkIsGood
<1>9. CASE BatchTick
  BY <1>9, BulkIsKept DEF BatchTick
<1>10. ASSUME NEW s \in batchStates, BatchAnswered(s) PROVE BulkIsGood'
  BY <1>10, BulkIsKept DEF BatchAnswered
<1>11. ASSUME NEW table \in ResultTables, downloadResults(table) PROVE BulkIsGood'
  BY <1>11, BulkIsKept DEF downloadResults
<1>12. CASE UNCHANGED bulkPageVars
  BY <1>12, BulkIsKept DEF bulkPageVars, uploadVars
<1> QED
  BY <1>1, <1>2, <1>3, <1>4, <1>5, <1>6, <1>7, <1>8, <1>9, <1>10, <1>11, <1>12 DEF BulkNext

\* What is counted is run (BulkPage, Csv): of every file, whatever it contains, the
\* page counts rows that the server admits all, so a batch runs, and bills, the
\* number of rows that the user was shown.
THEOREM CountedAreRun == ConsoleSpec => []CountedRowsAreRun
<1>1. ConsoleInit => BulkIsGood
  <2> SUFFICES ASSUME ConsoleInit PROVE BulkIsGood
    OBVIOUS
  <2>1. /\ upload = [type |-> "iprs_standard", rows |-> NoRows, cbConsent |-> FALSE]
        /\ posted = {} /\ batches = << >>
    BY DEF ConsoleInit, BulkInit
  <2> QED
    BY <2>1 DEF BulkIsGood, UploadIsGood
<1>2. BulkIsGood /\ [ConsoleNext]_consoleVars => BulkIsGood'
  BY StepsOfBulk, BulkStep
<1>3. BulkIsGood => CountedRowsAreRun
  <2> SUFFICES ASSUME BulkIsGood, NEW b \in DOMAIN batches
               PROVE  batches[b].counted = batches[b].totalRows
    BY DEF CountedRowsAreRun
  <2>1. batches[b] \in BatchesRun
    BY DEF BulkIsGood
  <2> QED
    BY <2>1 DEF BatchesRun
<1> QED
  BY <1>1, <1>2, <1>3, PTL DEF ConsoleSpec

-----------------------------------------------------------------------------
(* What is told of a check.                                                *)

\* A field that is not there may be left out of a list.
LEMMA FirstOfMore ==
    ASSUME NEW T, NEW fields \in Seq(T), NEW x \in T, NEW present, x \notin present
    PROVE  FirstOf(Append(fields, x), present) = FirstOf(fields, present)
<1> DEFINE n == Len(fields)
           more == Append(fields, x)
           k == {i \in DOMAIN fields : fields[i] \in present}
           m == {i \in DOMAIN more : more[i] \in present}
<1>1. /\ n \in Nat /\ DOMAIN fields = 1 .. n /\ DOMAIN more = 1 .. n + 1
      /\ more[n + 1] = x /\ \A i \in 1 .. n : more[i] = fields[i]
  OBVIOUS
<1>2. \A i \in 1 .. n + 1 : i \in 1 .. n \/ i = n + 1
  BY <1>1
<1>3. \A i \in 1 .. n : i \in 1 .. n + 1
  BY <1>1
<1> HIDE DEF more, n
<1>4. m = k
  <2>1. \A i : i \in m <=> i \in 1 .. n + 1 /\ more[i] \in present
    BY <1>1, Zenon
  <2>2. \A i : i \in k <=> i \in 1 .. n /\ fields[i] \in present
    BY <1>1, Zenon
  <2>3. \A i : i \in m <=> i \in k
    <3> HIDE DEF k, m
    <3> QED
      BY <1>1, <1>2, <1>3, <2>1, <2>2, Zenon
  <2> HIDE DEF k, m
  <2> QED
    BY <2>3
<1>5. \A i \in k : more[i] = fields[i]
  BY <1>1
<1> HIDE DEF k, m
<1> DEFINE first == CHOOSE i \in k : \A j \in k : i <= j
<1>6. k # {} => first \in k
  <2>1. k # {} => \E i \in k : \A j \in k : i <= j
    <3>1. k \subseteq Nat
      BY <1>1 DEF k
    <3> QED
      BY <3>1, Smallest
  <2> QED
    BY <2>1
<1> HIDE DEF first
<1>7. /\ FirstOf(more, present) = IF k = {} THEN {} ELSE {more[first]}
      /\ FirstOf(fields, present) = IF k = {} THEN {} ELSE {fields[first]}
  <2>1. FirstOf(more, present) = IF m = {} THEN {} ELSE {more[CHOOSE i \in m : \A j \in m : i <= j]}
    BY Zenon DEF FirstOf, m
  <2>2. FirstOf(fields, present) = IF k = {} THEN {} ELSE {fields[first]}
    BY Zenon DEF FirstOf, k, first
  <2> QED
    BY <1>4, <2>1, <2>2, Zenon DEF first
<1>8. FirstOf(more, present) = FirstOf(fields, present)
  <2>1. CASE k = {}
    BY <1>7, <2>1
  <2>2. CASE k # {}
    BY <1>5, <1>6, <1>7, <2>2, Zenon
  <2> QED
    BY <2>1, <2>2
<1> QED
  BY <1>8 DEF more

LEMMA OneLonger ==
    ASSUME NEW T, NEW s \in Seq(T), NEW t \in Seq(T), Len(t) = Len(s) + 1,
           \A i \in 1 .. Len(s) : t[i] = s[i]
    PROVE  Append(s, t[Len(t)]) = t
<1> DEFINE n == Len(s)
<1>1. n \in Nat /\ s = [i \in 1 .. n |-> s[i]] /\ t = [i \in 1 .. n + 1 |-> t[i]]
  OBVIOUS
<1>2. Append(s, t[n + 1]) = [i \in 1 .. n + 1 |-> IF i = n + 1 THEN t[n + 1] ELSE s[i]]
  OBVIOUS
<1>3. \A i \in 1 .. n + 1 : (IF i = n + 1 THEN t[n + 1] ELSE s[i]) = t[i]
  <2>1. \A i \in 1 .. n + 1 : i \in 1 .. n \/ i = n + 1
    BY <1>1
  <2> QED
    BY <2>1, Zenon
<1> HIDE DEF n
<1>4. Append(s, t[n + 1]) = t
  BY <1>1, <1>2, <1>3
<1> QED
  BY <1>4 DEF n

\* A field that is not there before another.
LEMMA SecondOfTwo ==
    ASSUME NEW x, NEW y, NEW present, x \notin present
    PROVE  FirstOf(<<x, y>>, present) = FirstOf(<<y>>, present)
<1> DEFINE k == {i \in DOMAIN <<x, y>> : <<x, y>>[i] \in present}
           m == {i \in DOMAIN <<y>> : <<y>>[i] \in present}
<1>1. k = IF y \in present THEN {2} ELSE {}
  OBVIOUS
<1>2. m = IF y \in present THEN {1} ELSE {}
  OBVIOUS
<1>3. (CHOOSE i \in {2} : \A j \in {2} : i <= j) = 2 /\ (CHOOSE i \in {1} : \A j \in {1} : i <= j) = 1
  OBVIOUS
<1>4. <<x, y>>[2] = y /\ <<y>>[1] = y /\ {1} # {} /\ {2} # {}
  OBVIOUS
<1>5. /\ FirstOf(<<x, y>>, present) = IF k = {} THEN {} ELSE {<<x, y>>[CHOOSE i \in k : \A j \in k : i <= j]}
      /\ FirstOf(<<y>>, present) = IF m = {} THEN {} ELSE {<<y>>[CHOOSE i \in m : \A j \in m : i <= j]}
  BY Zenon DEF FirstOf
<1> HIDE DEF k, m
<1>6. CASE y \in present
  <2>1. k = {2} /\ m = {1}
    BY <1>1, <1>2, <1>6, Zenon
  <2>2. FirstOf(<<x, y>>, present) = {y} /\ FirstOf(<<y>>, present) = {y}
    BY <1>3, <1>4, <1>5, <2>1, Zenon
  <2> QED
    BY <2>2
<1>7. CASE y \notin present
  <2>1. k = {} /\ m = {}
    BY <1>1, <1>2, <1>7, Zenon
  <2> QED
    BY <1>5, <2>1, Zenon
<1> QED
  BY <1>6, <1>7

\* The subject of a check, in the four places that look for it.
LEMMA SubjectsAlike ==
    ASSUME NEW input
    PROVE  {summarizeSubject(input), subjectOf(input), getSubject(input)} = {getSubjectFromInput(input)}
<1> DEFINE T == {"kraPin", "phoneNumber", "idNumber", "alienId", "passportNumber",
                 "vehicleRegNumber", "dlNumber", "businessRegNumber", "meterNumber",
                 "statementPages"}
           nine == <<"kraPin", "phoneNumber", "idNumber", "alienId", "passportNumber",
                     "vehicleRegNumber", "dlNumber", "businessRegNumber", "meterNumber">>
           pages == "statementPages"
           ten == <<"kraPin", "phoneNumber", "idNumber", "alienId", "passportNumber",
                    "vehicleRegNumber", "dlNumber", "businessRegNumber", "meterNumber", pages>>
           few == nine \o (IF pages \in input THEN <<pages>> ELSE << >>)
<1>1. nine \in Seq(T) /\ pages \in T
  OBVIOUS
<1>2. Append(nine, pages) = ten
  <2>1. ten \in Seq(T) /\ Len(ten) = 10 /\ Len(nine) = 9 /\ ten[10] = pages
    OBVIOUS
  <2>2. \A i \in 1 .. 9 : i = 1 \/ i = 2 \/ i = 3 \/ i = 4 \/ i = 5 \/ i = 6 \/ i = 7 \/ i = 8 \/ i = 9
    OBVIOUS
  <2>3. /\ ten[1] = nine[1] /\ ten[2] = nine[2] /\ ten[3] = nine[3] /\ ten[4] = nine[4]
        /\ ten[5] = nine[5] /\ ten[6] = nine[6] /\ ten[7] = nine[7] /\ ten[8] = nine[8]
        /\ ten[9] = nine[9]
    OBVIOUS
  <2>4. Len(ten) = Len(nine) + 1 /\ \A i \in 1 .. Len(nine) : ten[i] = nine[i]
    <3> HIDE DEF ten, nine
    <3> QED
      BY <2>1, <2>2, <2>3
  <2> HIDE DEF T, ten, nine, pages
  <2>5. Append(nine, ten[Len(ten)]) = ten
    BY <1>1, <2>1, <2>4, OneLonger
  <2> QED
    BY <2>1, <2>5, Zenon
<1>3. /\ getSubject(input) = FirstOf(ten, input) /\ getSubjectFromInput(input) = FirstOf(ten, input)
      /\ summarizeSubject(input) = FirstOf(few, input) /\ subjectOf(input) = FirstOf(few, input)
  BY Zenon DEF getSubject, getSubjectFromInput, summarizeSubject, subjectOf
<1> HIDE DEF T, ten, nine, pages
<1>4. FirstOf(few, input) = FirstOf(ten, input)
  <2>1. CASE pages \in input
    <3>1. nine \o <<pages>> = Append(nine, pages)
      BY <1>1
    <3> QED
      BY <1>2, <2>1, <3>1, Zenon
  <2>2. CASE pages \notin input
    <3>1. nine \o << >> = nine
      BY <1>1
    <3>2. FirstOf(Append(nine, pages), input) = FirstOf(nine, input)
      BY <1>1, <2>2, FirstOfMore
    <3> QED
      BY <1>2, <2>2, <3>1, <3>2, Zenon
  <2> QED
    BY <2>1, <2>2
<1> HIDE DEF few
<1> QED
  BY <1>3, <1>4, Zenon

\* The name of a result, for batches and for files.
LEMMA NamesAlike ==
    ASSUME NEW type, NEW result,
           type = "kra_pin_verification" => "accountName" \notin result,
           type = "bank_account_verification" => "taxpayerName" \notin result
    PROVE  nameOf(type, result) = getResultName(type, result)
<1>1. CASE type = "kra_pin_verification"
  <2> DEFINE x == "taxpayerName"
             y == "accountName"
  <2>1. type \notin NamedTypes /\ type # "bank_account_verification"
    BY <1>1 DEF NamedTypes
  <2>2. Append(<<x>>, y) = <<x, y>> /\ <<x>> \in Seq({x, y}) /\ y \in {x, y}
    <3>1. <<x>> \in Seq({x, y}) /\ <<x, y>> \in Seq({x, y}) /\ Len(<<x>>) = 1 /\ Len(<<x, y>>) = 2
      OBVIOUS
    <3>2. <<x, y>>[2] = y /\ \A i \in 1 .. 1 : <<x, y>>[i] = <<x>>[i]
      OBVIOUS
    <3> DEFINE s == <<x>>
               t == <<x, y>>
               T == {x, y}
    <3>3. /\ s \in Seq(T) /\ t \in Seq(T) /\ Len(t) = Len(s) + 1
          /\ \A i \in 1 .. Len(s) : t[i] = s[i]
      BY <3>1, <3>2
    <3>4. t[Len(t)] = y
      BY <3>1, <3>2
    <3> HIDE DEF s, t, T
    <3>5. Append(s, t[Len(t)]) = t
      BY ONLY <3>3, OneLonger
    <3> QED
      BY <3>1, <3>4, <3>5, Zenon DEF s, t
  <2>3. nameOf(type, result) = FirstOf(<<x>>, result) /\ getResultName(type, result) = FirstOf(<<x, y>>, result)
    BY <1>1, <2>1 DEF nameOf, getResultName
  <2>4. y \notin result
    BY <1>1
  <2> HIDE DEF x, y
  <2>5. FirstOf(Append(<<x>>, y), result) = FirstOf(<<x>>, result)
    BY ONLY <2>2, <2>4, FirstOfMore
  <2> QED
    BY <2>2, <2>3, <2>5, Zenon
<1>2. CASE type = "bank_account_verification"
  <2> DEFINE x == "taxpayerName"
             y == "accountName"
  <2>1. type \notin NamedTypes /\ type # "kra_pin_verification"
    BY <1>2 DEF NamedTypes
  <2>3. nameOf(type, result) = FirstOf(<<y>>, result) /\ getResultName(type, result) = FirstOf(<<x, y>>, result)
    BY <1>2, <2>1 DEF nameOf, getResultName
  <2>4. x \notin result
    BY <1>2
  <2> HIDE DEF x, y
  <2>5. FirstOf(<<x, y>>, result) = FirstOf(<<y>>, result)
    BY <2>4, SecondOfTwo
  <2> QED
    BY <2>3, <2>5, Zenon
<1>3. CASE type \notin {"kra_pin_verification", "bank_account_verification"}
  <2>1. CASE type \in NamedTypes
    BY <1>3, <2>1 DEF nameOf, getResultName, NamedTypes
  <2>2. CASE type \notin NamedTypes
    BY <1>3, <2>2 DEF nameOf, getResultName
  <2> QED
    BY <2>1, <2>2
<1> QED
  BY <1>1, <1>2, <1>3

\* What a detail is made of is in the answer of the register.
Untold(type) == IF type = "metropol_standard_report" THEN {"accounts"} ELSE {}

LEMMA DetailsAreTold ==
    ASSUME NEW t \in VERIFICATION_TYPES
    PROVE  DetailFields(t) \ Registers[t].tells \subseteq Untold(t)
<1>1. CASE t \in DOMAIN StandardRegisters
  <2>1. Registers[t] = StandardRegisters[t]
    BY <1>1, RegistersAre
  <2>2. CASE t = "iprs_standard"
    BY <2>1, <2>2 DEF StandardRegisters, Of, DetailFields, Untold
  <2>3. CASE t = "match_id_phone"
    BY <2>1, <2>3 DEF StandardRegisters, Of, DetailFields, Untold
  <2>4. CASE t = "employer_verification"
    BY <2>1, <2>4 DEF StandardRegisters, Of, DetailFields, Untold
  <2>5. CASE t = "face_id_match"
    BY <2>1, <2>5 DEF StandardRegisters, Of, DetailFields, Untold
  <2>6. CASE t = "bank_account_verification"
    BY <2>1, <2>6 DEF StandardRegisters, Of, DetailFields, Untold
  <2> QED
    BY <1>1, RegisterDomains, <2>2, <2>3, <2>4, <2>5, <2>6
<1>2. CASE t \in DOMAIN PremiumRegisters
  <2>1. Registers[t] = PremiumRegisters[t]
    BY <1>2, RegistersAre
  <2>2. CASE t = "alien_id"
    BY <2>1, <2>2 DEF PremiumRegisters, Of, DetailFields, Untold
  <2>3. CASE t = "aml_pep_screen"
    BY <2>1, <2>3 DEF PremiumRegisters, Of, DetailFields, Untold
  <2>4. CASE t = "passport_check"
    BY <2>1, <2>4 DEF PremiumRegisters, Of, DetailFields, Untold
  <2> QED
    BY <1>2, RegisterDomains, <2>2, <2>3, <2>4
<1>3. CASE t \in DOMAIN UtilityRegisters
  <2>1. Registers[t] = UtilityRegisters[t]
    BY <1>3, RegistersAre
  <2>2. CASE t = "sim_swap_check"
    BY <2>1, <2>2 DEF UtilityRegisters, Of, DetailFields, Untold
  <2>3. CASE t = "kplc_location_checker"
    BY <2>1, <2>3 DEF UtilityRegisters, Of, DetailFields, Untold
  <2>4. CASE t = "kra_pin_verification"
    BY <2>1, <2>4 DEF UtilityRegisters, Of, DetailFields, Untold
  <2>5. CASE t = "search_name_by_phone"
    BY <2>1, <2>5 DEF UtilityRegisters, Of, DetailFields, Untold
  <2>6. CASE t = "search_phones_by_id"
    BY <2>1, <2>6 DEF UtilityRegisters, Of, DetailFields, Untold
  <2> QED
    BY <1>3, RegisterDomains, <2>2, <2>3, <2>4, <2>5, <2>6
<1>4. CASE t \in DOMAIN VehicleRegisters
  <2>1. Registers[t] = VehicleRegisters[t]
    BY <1>4, RegistersAre
  <2>2. CASE t = "motor_vehicle_ownership"
    BY <2>1, <2>2 DEF VehicleRegisters, Of, DetailFields, Untold
  <2>3. CASE t = "drivers_license_verification"
    BY <2>1, <2>3 DEF VehicleRegisters, Of, DetailFields, Untold
  <2> QED
    BY <1>4, RegisterDomains, <2>2, <2>3
<1>5. CASE t \in DOMAIN MetropolRegisters
  <2>1. Registers[t] = MetropolRegisters[t]
    BY <1>5, RegistersAre
  <2>2. CASE t = "metropol_score_only"
    BY <2>1, <2>2 DEF MetropolRegisters, Of, DetailFields, Untold
  <2>3. CASE t = "metropol_standard_report"
    BY <2>1, <2>3 DEF MetropolRegisters, Of, DetailFields, Untold
  <2>4. CASE t = "metropol_full_report"
    BY <2>1, <2>4 DEF MetropolRegisters, Of, DetailFields, Untold
  <2> QED
    BY <1>5, RegisterDomains, <2>2, <2>3, <2>4
<1>6. CASE t \in DOMAIN CreditInfoRegisters
  <2>1. Registers[t] = CreditInfoRegisters[t]
    BY <1>6, RegistersAre
  <2>2. CASE t = "creditinfo_score_only"
    BY <2>1, <2>2 DEF CreditInfoRegisters, Of, DetailFields, Untold
  <2>3. CASE t = "creditinfo_comprehensive"
    BY <2>1, <2>3 DEF CreditInfoRegisters, Of, DetailFields, Untold
  <2>4. CASE t = "creditinfo_crb_status"
    BY <2>1, <2>4 DEF CreditInfoRegisters, Of, DetailFields, Untold
  <2> QED
    BY <1>6, RegisterDomains, <2>2, <2>3, <2>4
<1>7. CASE t \in DOMAIN OtherRegisters
  <2>1. Registers[t] = OtherRegisters[t]
    BY <1>7, RegistersAre
  <2>2. CASE t = "brs"
    BY <2>1, <2>2 DEF OtherRegisters, Of, DetailFields, Untold
  <2>3. CASE t = "spin_score_only"
    BY <2>1, <2>3 DEF OtherRegisters, Of, DetailFields, Untold
  <2>4. CASE t = "scanned_statement"
    BY <2>1, <2>4 DEF OtherRegisters, Of, DetailFields, Untold
  <2> QED
    BY <1>7, RegisterDomains, <2>2, <2>3, <2>4
<1> QED
  BY RegisterDomains, <1>1, <1>2, <1>3, <1>4, <1>5, <1>6, <1>7 DEF VERIFICATION_TYPES, IdTypes, BureauTypes

\* Two answers have one of the names that only files look for.
LEMMA NamesAreTold ==
    /\ "accountName" \notin Registers["kra_pin_verification"].tells
    /\ "taxpayerName" \notin Registers["bank_account_verification"].tells
<1>1. /\ "kra_pin_verification" \in VERIFICATION_TYPES
      /\ "bank_account_verification" \in VERIFICATION_TYPES
  BY DEF VERIFICATION_TYPES
<1>2. Registers["kra_pin_verification"] = UtilityRegisters["kra_pin_verification"]
  BY <1>1, RegistersAre, RegisterDomains
<1>3. Registers["bank_account_verification"] = StandardRegisters["bank_account_verification"]
  BY <1>1, RegistersAre, RegisterDomains
<1>4. "accountName" \notin UtilityRegisters["kra_pin_verification"].tells
  BY DEF UtilityRegisters, Of
<1>5. "taxpayerName" \notin StandardRegisters["bank_account_verification"].tells
  BY DEF StandardRegisters, Of
<1> QED
  BY <1>2, <1>3, <1>4, <1>5

\* The list, the results of a batch and the files tell the same (ResultTexts): the
\* subject of an input, whatever it has, and the name and the detail of a result,
\* whatever the register leaves out of its answer.
THEOREM TextsAreAlike == ConsoleSpec => []ToldAlike
<1>1. ASSUME NEW t \in VERIFICATION_TYPES
      PROVE  TellsAlike(t)
  <2> DEFINE tells == Registers[t].tells
  <2>1. \A input : {summarizeSubject(input), subjectOf(input), getSubject(input)}
                       = {getSubjectFromInput(input)}
    BY SubjectsAlike
  <2>2. \A missing : nameOf(t, tells \ missing) = getResultName(t, tells \ missing)
    <3>1. \A missing : t = "kra_pin_verification" => "accountName" \notin tells \ missing
      BY NamesAreTold
    <3>2. \A missing : t = "bank_account_verification" => "taxpayerName" \notin tells \ missing
      BY NamesAreTold
    <3> HIDE DEF tells
    <3> QED
      BY <3>1, <3>2, NamesAlike
  <2>3. \A missing : detailOf(t, tells \ missing) = getResultDetail(t, tells \ missing)
    BY DEF detailOf, getResultDetail
  <2>4. DetailFields(t) \ tells \subseteq Untold(t)
    BY DetailsAreTold
  <2> QED
    BY <2>1, <2>2, <2>3, <2>4, Zenon DEF TellsAlike, Untold
<1>2. FormTyped => ToldAlike
  BY <1>1 DEF FormTyped, ToldAlike
<1>3. ConsoleSpec => []FormTyped
  BY FormTypedAlways
<1> QED
  BY <1>2, <1>3, PTL

-----------------------------------------------------------------------------
(* What the site advertises.                                               *)

\* Bands one after the other, of which the last has no end, with prices that fall.
AreBands(bands, n) ==
    /\ n \in Nat \ {0} /\ DOMAIN bands = 1 .. n
    /\ bands[1][1] = 0 /\ bands[n][2] = Open
    /\ \A k \in 1 .. n : bands[k][1] \in Nat
    /\ \A k \in 1 .. n - 1 : /\ bands[k][2] \in Nat /\ bands[k][1] <= bands[k][2]
                             /\ bands[k + 1][1] = bands[k][2] + 1

PricesFall(units, n) ==
    /\ \A k \in 1 .. n : units[k] \in Nat
    /\ \A k \in 1 .. n - 1 : units[k + 1] < units[k]

BandRow(bands, units, backups, k) ==
    [minVolume |-> bands[k][1], maxVolume |-> bands[k][2], unitPriceMinor |-> 100 * units[k],
     backupPriceMinor |-> IF k \in DOMAIN backups THEN 100 * backups[k] ELSE Open]

LEMMA RowsAre ==
    ASSUME NEW bands, NEW units, NEW backups
    PROVE  Rows(bands, units, backups) = {BandRow(bands, units, backups, k) : k \in DOMAIN bands}
  BY DEF Rows, BandRow

\* A band ends below those after it.
LEMMA BandsApart ==
    ASSUME NEW bands, NEW n, AreBands(bands, n), NEW j \in 1 .. n, NEW k \in 1 .. n, j < k
    PROVE  bands[j][2] \in Nat /\ bands[j][2] < bands[k][1] /\ bands[j][1] < bands[k][1]
<1> DEFINE Good(m) == bands[j][2] < bands[m][1]
           Bad == {m \in 1 .. n : j < m /\ ~Good(m)}
<1>0. /\ n \in Nat \ {0} /\ \A m \in 1 .. n : bands[m][1] \in Nat
      /\ \A m \in 1 .. n - 1 : /\ bands[m][2] \in Nat /\ bands[m][1] <= bands[m][2]
                               /\ bands[m + 1][1] = bands[m][2] + 1
  BY DEF AreBands
<1>1. j \in 1 .. n - 1
  BY <1>0
<1>2. bands[j][2] \in Nat /\ bands[j][1] <= bands[j][2] /\ bands[j + 1][1] = bands[j][2] + 1
  BY <1>0, <1>1
<1>3. Bad = {}
  <2> SUFFICES ASSUME Bad # {} PROVE FALSE
    OBVIOUS
  <2>1. PICK m \in Bad : \A l \in Bad : m <= l
    <3>1. Bad \subseteq Nat
      OBVIOUS
    <3> HIDE DEF Bad
    <3> QED
      BY <3>1, Smallest
  <2>2. m \in 1 .. n /\ j < m /\ ~Good(m)
    OBVIOUS
  <2> DEFINE l == m - 1
  <2>3. l \in 1 .. n - 1 /\ l \in 1 .. n /\ m = l + 1 /\ l < m
    BY <1>0, <2>2
  <2>4. CASE l = j
    <3> HIDE DEF l, Bad
    <3> QED
      BY <1>0, <1>2, <2>2, <2>3, <2>4
  <2>5. CASE l # j
    <3>1. j < l
      BY <1>0, <2>2, <2>3, <2>5
    <3>2. l \notin Bad
      <4> HIDE DEF l, Bad
      <4> QED
        BY <1>0, <2>1, <2>3
    <3>3. Good(l)
      BY <2>3, <3>1, <3>2
    <3>4. bands[l][2] \in Nat /\ bands[l][1] <= bands[l][2] /\ bands[m][1] = bands[l][2] + 1
      <4> HIDE DEF l, Bad
      <4> QED
        BY <1>0, <2>3
    <3>5. bands[l][1] \in Nat
      BY <1>0, <2>3
    <3> HIDE DEF l, Bad
    <3> QED
      BY <1>2, <2>2, <3>3, <3>4, <3>5
  <2> QED
    BY <2>4, <2>5
<1>4. Good(k)
  BY <1>3
<1>5. bands[j][1] \in Nat /\ bands[k][1] \in Nat
  BY <1>0
<1> HIDE DEF Bad
<1> QED
  BY <1>2, <1>4, <1>5

\* Tiers of such bands cover every volume once, and cost less the larger it is.
LEMMA BandsTile ==
    ASSUME Open \notin Int, NEW bands, NEW units, NEW backups, NEW n,
           AreBands(bands, n), PricesFall(units, n)
    PROVE  Tiles(Rows(bands, units, backups))
<1> DEFINE row(k) == BandRow(bands, units, backups, k)
           rows == Rows(bands, units, backups)
<1>0. /\ n \in Nat \ {0} /\ \A k \in 1 .. n : bands[k][1] \in Nat
      /\ bands[1][1] = 0 /\ bands[n][2] = Open
      /\ \A k \in 1 .. n - 1 : /\ bands[k][2] \in Nat /\ bands[k][1] <= bands[k][2]
                               /\ bands[k + 1][1] = bands[k][2] + 1
  BY DEF AreBands
<1>1. rows = {row(k) : k \in 1 .. n}
  BY RowsAre DEF AreBands
<1>2. \A k : row(k).minVolume = bands[k][1] /\ row(k).maxVolume = bands[k][2]
                 /\ row(k).unitPriceMinor = 100 * units[k]
  BY DEF BandRow
<1> HIDE DEF row, rows
<1>3. \A k \in 1 .. n : bands[k][2] = Open <=> k = n
  <2>1. \A k \in 1 .. n : k = n \/ k \in 1 .. n - 1
    BY <1>0
  <2>2. \A k \in 1 .. n - 1 : bands[k][2] # Open
    BY <1>0
  <2>3. n \notin 1 .. n - 1
    BY <1>0
  <2> QED
    BY <1>0, <2>1, <2>2, <2>3, Zenon
<1>4. \A r \in rows : r.maxVolume = Open \/ r.minVolume <= r.maxVolume
  <2>1. ASSUME NEW k \in 1 .. n
        PROVE  bands[k][2] = Open \/ bands[k][1] <= bands[k][2]
    <3>1. k = n \/ k \in 1 .. n - 1
      BY <1>0
    <3> QED
      BY <1>0, <3>1, Zenon
  <2> QED
    BY <1>1, <1>2, <2>1, Zenon
<1>5. \E r \in rows : r.minVolume = 0
  <2>1. 1 \in 1 .. n
    BY <1>0
  <2> QED
    BY <1>0, <1>1, <1>2, <2>1, Zenon
<1>6. ASSUME NEW k \in 1 .. n, k = n, NEW j \in 1 .. n
      PROVE  row(j).minVolume <= row(k).minVolume
  <2>1. CASE j = k
    <3>1. bands[k][1] <= bands[k][1]
      BY <1>0
    <3> QED
      BY <1>2, <2>1, <3>1, Zenon
  <2>2. CASE j # k
    <3>1. j < k
      BY <1>0, <1>6, <2>2
    <3>2. bands[j][1] < bands[k][1]
      BY <3>1, BandsApart
    <3>3. bands[j][1] <= bands[k][1]
      BY <1>0, <3>2
    <3> QED
      BY <1>2, <3>3, Zenon
  <2> QED
    BY <2>1, <2>2
<1>7. ASSUME NEW k \in 1 .. n, k # n
      PROVE  \E next \in rows : /\ next.minVolume = row(k).maxVolume + 1
                                /\ next.unitPriceMinor < row(k).unitPriceMinor
  <2>1. k \in 1 .. n - 1 /\ k + 1 \in 1 .. n
    BY <1>0, <1>7
  <2>2. bands[k + 1][1] = bands[k][2] + 1
    BY <1>0, <2>1
  <2>3. 100 * units[k + 1] < 100 * units[k]
    <3>1. units[k + 1] \in Nat /\ units[k] \in Nat /\ units[k + 1] < units[k]
      BY <2>1 DEF PricesFall
    <3> QED
      BY <3>1
  <2>4. row(k + 1) \in rows
    BY <1>1, <2>1
  <2> QED
    BY <1>2, <2>2, <2>3, <2>4, Zenon
<1>8. \A r \in rows :
          IF r.maxVolume = Open
          THEN \A other \in rows : other.minVolume <= r.minVolume
          ELSE \E next \in rows : /\ next.minVolume = r.maxVolume + 1
                                  /\ next.unitPriceMinor < r.unitPriceMinor
  <2>1. ASSUME NEW k \in 1 .. n
        PROVE  IF row(k).maxVolume = Open
               THEN \A other \in rows : other.minVolume <= row(k).minVolume
               ELSE \E next \in rows : /\ next.minVolume = row(k).maxVolume + 1
                                       /\ next.unitPriceMinor < row(k).unitPriceMinor
    <3>1. row(k).maxVolume = Open <=> k = n
      BY <1>2, <1>3, Zenon
    <3>2. CASE k = n
      <4>1. \A other \in rows : other.minVolume <= row(k).minVolume
        BY <1>1, <1>6, <3>2, Zenon
      <4> QED
        BY <3>1, <3>2, <4>1, Zenon
    <3>3. CASE k # n
      BY <1>7, <3>1, <3>3, Zenon
    <3> QED
      BY <3>2, <3>3
  <2> QED
    BY <1>1, <2>1, Zenon
<1>9. \A r, other \in rows :
          r # other => \/ r.maxVolume # Open /\ r.maxVolume < other.minVolume
                       \/ other.maxVolume # Open /\ other.maxVolume < r.minVolume
  <2>1. ASSUME NEW j \in 1 .. n, NEW k \in 1 .. n, j < k
        PROVE  row(j).maxVolume # Open /\ row(j).maxVolume < row(k).minVolume
    <3>1. bands[j][2] \in Nat /\ bands[j][2] < bands[k][1]
      BY <2>1, BandsApart
    <3>2. bands[j][2] # Open
      BY <3>1
    <3> QED
      BY <1>2, <3>1, <3>2, Zenon
  <2>2. ASSUME NEW j \in 1 .. n, NEW k \in 1 .. n, row(j) # row(k)
        PROVE  \/ row(j).maxVolume # Open /\ row(j).maxVolume < row(k).minVolume
               \/ row(k).maxVolume # Open /\ row(k).maxVolume < row(j).minVolume
    <3>1. j # k
      BY <2>2
    <3>2. j < k \/ k < j
      BY <1>0, <3>1
    <3> QED
      BY <2>1, <3>2, Zenon
  <2> QED
    BY <1>1, <2>2, Zenon
<1>10. Tiles(rows)
  BY <1>4, <1>5, <1>8, <1>9, Zenon DEF Tiles
<1> QED
  BY <1>10 DEF rows

\* A volume of a band has the band's tier.
LEMMA TierOfBand ==
    ASSUME Open \notin Int, NEW bands, NEW units, NEW backups, NEW n, AreBands(bands, n),
           NEW k \in 1 .. n, NEW volume \in Nat, bands[k][1] <= volume,
           k = n \/ volume <= bands[k][2]
    PROVE  Prices!getCurrentTier(Rows(bands, units, backups), volume)
               = BandRow(bands, units, backups, k)
<1> DEFINE row(i) == BandRow(bands, units, backups, i)
           rows == Rows(bands, units, backups)
           matching == {t \in rows : Prices!Covers(t, volume)}
<1>0. /\ n \in Nat \ {0} /\ \A i \in 1 .. n : bands[i][1] \in Nat
      /\ bands[n][2] = Open
      /\ \A i \in 1 .. n - 1 : bands[i][2] \in Nat
  BY DEF AreBands
<1>1. rows = {row(i) : i \in 1 .. n}
  BY RowsAre DEF AreBands
<1>2. \A i : row(i).minVolume = bands[i][1] /\ row(i).maxVolume = bands[i][2]
  BY DEF BandRow
<1> HIDE DEF row, rows
<1>3. Prices!Covers(row(k), volume)
  <2>1. k = n \/ k \in 1 .. n - 1
    BY <1>0
  <2>2. CASE k = n
    BY <1>0, <1>2, <2>2 DEF Prices!Covers
  <2>3. CASE k \in 1 .. n - 1
    <3>1. bands[k][2] >= volume
      <4>1. k # n /\ bands[k][2] \in Nat
        BY <1>0, <2>3
      <4> QED
        BY <4>1
    <3> QED
      BY <1>2, <3>1 DEF Prices!Covers
  <2> QED
    BY <2>1, <2>2, <2>3
<1>4. ASSUME NEW i \in 1 .. n, Prices!Covers(row(i), volume)
      PROVE  i = k
  <2>1. bands[i][1] <= volume /\ (bands[i][2] = Open \/ bands[i][2] >= volume)
    BY <1>2, <1>4 DEF Prices!Covers
  <2>2. CASE i < k
    <3>1. bands[i][2] \in Nat /\ bands[i][2] < bands[k][1]
      BY <2>2, BandsApart
    <3>2. bands[i][2] # Open
      BY <3>1
    <3>3. bands[k][1] \in Nat
      BY <1>0
    <3> QED
      BY <2>1, <3>1, <3>2, <3>3
  <2>3. CASE k < i
    <3>1. bands[k][2] \in Nat /\ bands[k][2] < bands[i][1]
      BY <2>3, BandsApart
    <3>2. k # n
      BY <1>0, <2>3
    <3>3. bands[i][1] \in Nat
      BY <1>0
    <3> QED
      BY <2>1, <3>1, <3>2, <3>3
  <2> QED
    BY <1>0, <2>2, <2>3
<1>5. matching = {row(k)}
  BY <1>1, <1>3, <1>4
<1>6. Prices!getCurrentTier(rows, volume)
          = IF matching = {} THEN Open
            ELSE CHOOSE t \in matching : \A u \in matching : u.minVolume <= t.minVolume
  BY Zenon DEF Prices!getCurrentTier
<1>7. (CHOOSE t \in {row(k)} : \A u \in {row(k)} : u.minVolume <= t.minVolume) = row(k)
  <2>1. row(k).minVolume <= row(k).minVolume
    <3>1. bands[k][1] <= bands[k][1]
      BY <1>0
    <3> QED
      BY <1>2, <3>1, Zenon
  <2> QED
    BY <2>1
<1> HIDE DEF matching
<1>8. Prices!getCurrentTier(rows, volume) = row(k)
  <2>1. {row(k)} # {}
    OBVIOUS
  <2> QED
    BY <1>5, <1>6, <1>7, <2>1, Zenon
<1> QED
  BY <1>8, Zenon DEF rows, row

\* The parts of what is advertised.
TilesOnceSeeded(type) ==
    \A rows \in EditedRows(type) \cup {{}} : Tiles(seedPricingTiers(type, rows))

CardTold(type) ==
    /\ PRODUCTS[type].basePriceKes * 100 = seedPricing(type)
    /\ \A volume \in EndsOf(PublishedBands[1]) :
           Seeded(type, volume).unitPriceMinor = 100 * ProductPagePrices(type)[1]
    /\ PRODUCTS[type].requiresFileUpload = requiresFileUpload(type)
    /\ type \in CB_CONSENT_REQUIRED_TYPES => PRODUCTS[type].cbConsentRequired

UnitsTold(type, prices, bands) ==
    \A k \in 1 .. 6 : \A volume \in EndsOf(bands[k]) :
        Seeded(type, volume).unitPriceMinor = 100 * prices[k]

BackupsTold(type, prices, bands) ==
    \A k \in 1 .. 6 : \A volume \in EndsOf(bands[k]) :
        Seeded(type, volume).backupPriceMinor = 100 * prices[k]

SpinTold(type) ==
    \A k \in 1 .. 6 : \A volume \in {SpinBands[k][1] + 1, SpinBands[k][2]} :
        Seeded(type, volume).unitPriceMinor = 100 * SpinPrices[k]

StatementTold(type) ==
    Prices!LockedUnit(type, 3, Open, Seeded(type, 0), 0)
        = 100 * (PRODUCTS[type].basePriceKes + 3 * 4)

LEMMA AdvertisedIf ==
    ASSUME NEW type, TilesOnceSeeded(type), CardTold(type),
           type \in IdentityStandard => UnitsTold(type, ProductPagePrices(type), PublishedBands),
           type \in DOMAIN PublishedPrices => UnitsTold(type, PublishedPrices[type], PublishedBands),
           type \in DOMAIN PublishedBackups => BackupsTold(type, PublishedBackups[type], PublishedBands),
           type = "spin_score_only" => SpinTold(type),
           type = "scanned_statement" => StatementTold(type)
    PROVE  Advertised(type)
<1> DEFINE bandEnds == [k \in 1 .. 6 |-> EndsOf(PublishedBands[k])]
           spinEnds == [k \in 1 .. 6 |-> {SpinBands[k][1] + 1, SpinBands[k][2]}]
<1>1. type \in DOMAIN PublishedPrices =>
          \A k \in 1 .. 6 : \A volume \in bandEnds[k] :
              Seeded(type, volume).unitPriceMinor = 100 * PublishedPrices[type][k]
  BY Zenon DEF UnitsTold
<1>2. type \in DOMAIN PublishedBackups =>
          \A k \in 1 .. 6 : \A volume \in bandEnds[k] :
              Seeded(type, volume).backupPriceMinor = 100 * PublishedBackups[type][k]
  BY Zenon DEF BackupsTold
<1>3. type = "spin_score_only" =>
          \A k \in 1 .. 6 : \A volume \in spinEnds[k] :
              Seeded(type, volume).unitPriceMinor = 100 * SpinPrices[k]
  BY Zenon DEF SpinTold
<1>4. type \in IdentityStandard =>
          \A k \in 1 .. 6 : \A volume \in bandEnds[k] :
              Seeded(type, volume).unitPriceMinor = 100 * ProductPagePrices(type)[k]
  BY Zenon DEF UnitsTold
<1>5. \A volume \in bandEnds[1] :
          Seeded(type, volume).unitPriceMinor = 100 * ProductPagePrices(type)[1]
  <2>1. 1 \in 1 .. 6
    OBVIOUS
  <2> QED
    BY <2>1, Zenon DEF CardTold
<1> QED
  BY <1>1, <1>2, <1>3, <1>4, <1>5, Zenon
  DEF Advertised, TilesOnceSeeded, CardTold, StatementTold

\* The bands of the seed.
FlatBand == <<<<0, Open>>>>

SpinSeedBands == <<<<0, 1000>>, <<1001, 5000>>, <<5001, 10000>>, <<10001, 20000>>,
                   <<20001, 50000>>, <<50001, Open>>>>

LEMMA SixBands ==
    ASSUME NEW b, DOMAIN b = 1 .. 6,
           b[1][1] = 0 /\ b[6][2] = Open,
           b[1][1] \in Nat /\ b[1][2] \in Nat /\ b[1][1] <= b[1][2] /\ b[2][1] = b[1][2] + 1,
           b[2][1] \in Nat /\ b[2][2] \in Nat /\ b[2][1] <= b[2][2] /\ b[3][1] = b[2][2] + 1,
           b[3][1] \in Nat /\ b[3][2] \in Nat /\ b[3][1] <= b[3][2] /\ b[4][1] = b[3][2] + 1,
           b[4][1] \in Nat /\ b[4][2] \in Nat /\ b[4][1] <= b[4][2] /\ b[5][1] = b[4][2] + 1,
           b[5][1] \in Nat /\ b[5][2] \in Nat /\ b[5][1] <= b[5][2] /\ b[6][1] = b[5][2] + 1
    PROVE  AreBands(b, 6)
<1>1. \A k \in 1 .. 6 : k = 1 \/ k = 2 \/ k = 3 \/ k = 4 \/ k = 5 \/ k = 6
  OBVIOUS
<1>2. \A k \in 1 .. 6 - 1 : k = 1 \/ k = 2 \/ k = 3 \/ k = 4 \/ k = 5
  OBVIOUS
<1>3. 6 \in Nat \ {0} /\ b[6][1] \in Nat
  OBVIOUS
<1>4. \A k \in 1 .. 6 : b[k][1] \in Nat
  BY <1>1, <1>3
<1>5. \A k \in 1 .. 6 - 1 : b[k][2] \in Nat /\ b[k][1] <= b[k][2] /\ b[k + 1][1] = b[k][2] + 1
  <2>1. 1 + 1 = 2 /\ 2 + 1 = 3 /\ 3 + 1 = 4 /\ 4 + 1 = 5 /\ 5 + 1 = 6
    OBVIOUS
  <2> QED
    BY <1>2, <2>1, Zenon
<1> QED
  BY <1>3, <1>4, <1>5 DEF AreBands

LEMMA SeedBands ==
    AreBands(Bands, 6) /\ AreBands(SpinSeedBands, 6) /\ AreBands(FlatBand, 1)
<1>1. AreBands(Bands, 6)
  <2> DEFINE b == Bands
  <2>1. DOMAIN b = 1 .. 6 /\ b[1][1] = 0 /\ b[6][2] = Open
    BY DEF Bands
  <2>2. /\ b[1][1] = 0 /\ b[1][2] = 500 /\ b[2][1] = 501 /\ b[2][2] = 2500
        /\ b[3][1] = 2501 /\ b[3][2] = 5000 /\ b[4][1] = 5001 /\ b[4][2] = 10000
        /\ b[5][1] = 10001 /\ b[5][2] = 30000 /\ b[6][1] = 30001
    BY DEF Bands
  <2> HIDE DEF b
  <2>3. AreBands(b, 6)
    BY <2>1, <2>2, SixBands
  <2> QED
    BY <2>3 DEF b
<1>2. AreBands(SpinSeedBands, 6)
  <2> DEFINE b == SpinSeedBands
  <2>1. DOMAIN b = 1 .. 6 /\ b[1][1] = 0 /\ b[6][2] = Open
    BY DEF SpinSeedBands
  <2>2. /\ b[1][1] = 0 /\ b[1][2] = 1000 /\ b[2][1] = 1001 /\ b[2][2] = 5000
        /\ b[3][1] = 5001 /\ b[3][2] = 10000 /\ b[4][1] = 10001 /\ b[4][2] = 20000
        /\ b[5][1] = 20001 /\ b[5][2] = 50000 /\ b[6][1] = 50001
    BY DEF SpinSeedBands
  <2> HIDE DEF b
  <2>3. AreBands(b, 6)
    BY <2>1, <2>2, SixBands
  <2> QED
    BY <2>3 DEF b
<1>3. AreBands(FlatBand, 1)
  <2>1. FlatBand[1][1] = 0 /\ FlatBand[1][2] = Open /\ DOMAIN FlatBand = 1 .. 1
    BY DEF FlatBand
  <2> QED
    BY <2>1 DEF AreBands
<1> QED
  BY <1>1, <1>2, <1>3

\* A product is sold at these prices in these bands.
Sold(type, bands, units, backups, n) ==
    TIERS[type] = Rows(bands, units, backups) /\ AreBands(bands, n) /\ PricesFall(units, n)

\* Seeding over rows with the bands of the seed gives the seed.
LEMMA SeedStays ==
    ASSUME NEW type, NEW bands, NEW units, NEW backups, NEW n, Sold(type, bands, units, backups, n),
           NEW rows \in EditedRows(type) \cup {{}}
    PROVE  seedPricingTiers(type, rows) = TIERS[type]
<1> DEFINE T == TIERS[type]
<1>1. \A row \in rows : \E seeded \in T : seeded.minVolume = row.minVolume
  <2>1. CASE rows = {} \/ rows = T
    BY <2>1, Zenon
  <2>2. CASE rows # {} /\ rows # T
    <3> DEFINE edited(row, low) == [row EXCEPT !.maxVolume = IF row.minVolume = low THEN low + 1 ELSE @,
                                               !.unitPriceMinor = @ + 100]
    <3>1. PICK low \in {row.minVolume : row \in T} : rows = {edited(row, low) : row \in T}
      BY <2>2, Zenon DEF EditedRows
    <3>2. \A row \in T : edited(row, low).minVolume = row.minVolume
      <4>1. \A row \in T : "minVolume" \in DOMAIN row
        BY RowsAre DEF Sold, BandRow
      <4> HIDE DEF T
      <4> QED
        BY <4>1
    <3> HIDE DEF edited, T
    <3> QED
      BY <3>1, <3>2, Zenon
  <2> QED
    BY <2>1, <2>2
<1>2. {row \in rows : \A seeded \in T : seeded.minVolume # row.minVolume} = {}
  <2> HIDE DEF T
  <2> QED
    BY <1>1, Zenon
<1>3. seedPricingTiers(type, rows) = {row \in rows : \A seeded \in T : seeded.minVolume # row.minVolume} \cup T
  BY Zenon DEF seedPricingTiers
<1> HIDE DEF T
<1>4. {} \cup T = T
  OBVIOUS
<1> QED
  BY <1>2, <1>3, <1>4, Zenon DEF T

LEMMA SoldTiles ==
    ASSUME NEW type, NEW bands, NEW units, NEW backups, NEW n, Sold(type, bands, units, backups, n)
    PROVE  TilesOnceSeeded(type)
<1>1. Tiles(TIERS[type])
  BY PriceSheetAssumption, BandsTile DEF Sold
<1>2. \A rows \in EditedRows(type) \cup {{}} : seedPricingTiers(type, rows) = TIERS[type]
  BY SeedStays
<1> QED
  BY <1>1, <1>2, Zenon DEF TilesOnceSeeded

\* The tier of a volume, the first tier and the base price.
LEMMA SoldAt ==
    ASSUME NEW type, NEW bands, NEW units, NEW backups, NEW n, Sold(type, bands, units, backups, n),
           NEW k \in 1 .. n, NEW volume \in Nat, bands[k][1] <= volume, k = n \/ volume <= bands[k][2]
    PROVE  /\ Seeded(type, volume).unitPriceMinor = 100 * units[k]
           /\ k \in DOMAIN backups => Seeded(type, volume).backupPriceMinor = 100 * backups[k]
<1>1. Seeded(type, volume) = BandRow(bands, units, backups, k)
  <2>1. Prices!getCurrentTier(Rows(bands, units, backups), volume) = BandRow(bands, units, backups, k)
    BY PriceSheetAssumption, TierOfBand DEF Sold
  <2> QED
    BY <2>1, Zenon DEF Seeded, Sold
<1> QED
  BY <1>1 DEF BandRow

LEMMA SoldFirst ==
    ASSUME NEW type, NEW bands, NEW units, NEW backups, NEW n, Sold(type, bands, units, backups, n)
    PROVE  Seeded(type, 0).unitPriceMinor = 100 * units[1] /\ seedPricing(type) = 100 * units[1]
<1> DEFINE row(k) == BandRow(bands, units, backups, k)
           T == TIERS[type]
<1>0. /\ n \in Nat \ {0} /\ bands[1][1] = 0 /\ \A k \in 1 .. n : bands[k][1] \in Nat
      /\ \A k \in 1 .. n - 1 : bands[k][2] \in Nat
      /\ AreBands(bands, n)
  BY DEF Sold, AreBands
<1>1. Seeded(type, 0).unitPriceMinor = 100 * units[1]
  <2> DEFINE one == 1
             zero == 0
  <2>1. one \in 1 .. n /\ zero \in Nat /\ bands[one][1] <= zero
    BY <1>0
  <2>2. one = n \/ zero <= bands[one][2]
    <3>1. one = n \/ one \in 1 .. n - 1
      BY <1>0
    <3>2. one \in 1 .. n - 1 => bands[one][2] \in Nat
      BY <1>0
    <3> QED
      BY <3>1, <3>2
  <2> HIDE DEF one, zero
  <2>3. Seeded(type, zero).unitPriceMinor = 100 * units[one]
    BY <2>1, <2>2, SoldAt
  <2> QED
    BY <2>3 DEF one, zero
<1>2. T = {row(k) : k \in 1 .. n}
  BY RowsAre DEF Sold, AreBands
<1>3. \A k : row(k).minVolume = bands[k][1] /\ row(k).unitPriceMinor = 100 * units[k]
  BY DEF BandRow
<1> HIDE DEF row, T
<1>4. \A r \in T : (\A other \in T : r.minVolume <= other.minVolume) <=> r = row(1)
  <2>1. 1 \in 1 .. n /\ row(1) \in T
    BY <1>0, <1>2
  <2>2. ASSUME NEW k \in 1 .. n
        PROVE  /\ row(1).minVolume <= row(k).minVolume
               /\ k # 1 => ~(row(k).minVolume <= row(1).minVolume)
    <3>1. 0 <= bands[k][1]
      BY <1>0
    <3>2. k # 1 => bands[1][1] < bands[k][1]
      <4> DEFINE one == 1
      <4>1. one \in 1 .. n /\ (k # one => one < k)
        BY <1>0
      <4> HIDE DEF one
      <4>2. k # one => bands[one][1] < bands[k][1]
        BY <1>0, <4>1, BandsApart
      <4> QED
        BY <4>2 DEF one
    <3>3. k # 1 => ~(bands[k][1] <= 0)
      BY <1>0, <3>2
    <3> QED
      BY <1>0, <1>3, <3>1, <3>3, Zenon
  <2> QED
    BY <1>2, <2>1, <2>2, Zenon
<1>5. (CHOOSE r \in T : \A other \in T : r.minVolume <= other.minVolume) = row(1)
  <2>1. row(1) \in T
    BY <1>0, <1>2
  <2> QED
    BY <1>4, <2>1, Zenon
<1>6. seedPricing(type) = row(1).unitPriceMinor
  <2>1. seedPricing(type) = (CHOOSE r \in T : \A other \in T : r.minVolume <= other.minVolume).unitPriceMinor
    BY Zenon DEF seedPricing, T
  <2> QED
    BY <1>5, <2>1, Zenon
<1> QED
  BY <1>1, <1>3, <1>6, Zenon

\* The tables of the seed.
LEMMA TierDomains ==
    /\ DOMAIN PersonTiers = IdentityStandard \cup IdentityPremium
    /\ DOMAIN PhoneTiers = Utility \cup {"search_phones_by_id"}
    /\ DOMAIN VehicleTiers = {"motor_vehicle_ownership", "drivers_license_verification"}
    /\ DOMAIN MetropolTiers =
           {"metropol_score_only", "metropol_standard_report", "metropol_full_report"}
    /\ DOMAIN CreditInfoTiers =
           {"creditinfo_score_only", "creditinfo_comprehensive", "creditinfo_crb_status"}
  BY DEF PersonTiers, PhoneTiers, VehicleTiers, MetropolTiers, CreditInfoTiers

LEMMA TiersAre ==
    ASSUME NEW t \in VERIFICATION_TYPES
    PROVE  /\ t \in DOMAIN PersonTiers => TIERS[t] = PersonTiers[t]
           /\ t \in DOMAIN PhoneTiers => TIERS[t] = PhoneTiers[t]
           /\ t \in DOMAIN VehicleTiers => TIERS[t] = VehicleTiers[t]
           /\ t \in DOMAIN MetropolTiers => TIERS[t] = MetropolTiers[t]
           /\ t \in DOMAIN CreditInfoTiers => TIERS[t] = CreditInfoTiers[t]
           /\ t \in {"brs", "spin_score_only", "scanned_statement"} => TIERS[t] = BusinessTiers[t]
<1> USE TierDomains DEF TIERS, IdentityStandard, IdentityPremium, Utility
<1>1. t \in DOMAIN PersonTiers => TIERS[t] = PersonTiers[t]
  OBVIOUS
<1>2. t \in DOMAIN PhoneTiers => TIERS[t] = PhoneTiers[t]
  OBVIOUS
<1>3. t \in DOMAIN VehicleTiers => TIERS[t] = VehicleTiers[t]
  OBVIOUS
<1>4. t \in DOMAIN MetropolTiers => TIERS[t] = MetropolTiers[t]
  OBVIOUS
<1>5. t \in DOMAIN CreditInfoTiers => TIERS[t] = CreditInfoTiers[t]
  OBVIOUS
<1>6. t \in {"brs", "spin_score_only", "scanned_statement"} => TIERS[t] = BusinessTiers[t]
  OBVIOUS
<1> QED
  BY <1>1, <1>2, <1>3, <1>4, <1>5, <1>6

\* The cards of the site.
LEMMA CardDomains ==
    /\ DOMAIN StandardCards =
           {"iprs_standard", "match_id_phone", "employer_verification", "face_id_match",
           "bank_account_verification"}
    /\ DOMAIN PersonCards =
           {"alien_id", "aml_pep_screen", "passport_check", "sim_swap_check",
           "kplc_location_checker", "kra_pin_verification"}
    /\ DOMAIN RegisterCards =
           {"search_name_by_phone", "search_phones_by_id", "motor_vehicle_ownership",
           "drivers_license_verification", "metropol_score_only",
           "metropol_standard_report"}
    /\ DOMAIN BureauCards =
           {"metropol_full_report", "creditinfo_score_only", "creditinfo_comprehensive",
           "creditinfo_crb_status"}
    /\ DOMAIN BusinessCards =
           {"brs", "spin_score_only", "scanned_statement"}
  BY DEF StandardCards, PersonCards, RegisterCards, BureauCards, BusinessCards,
         IdentityStandard, IdentityPremium, Utility

LEMMA CardsAre ==
    ASSUME NEW t \in VERIFICATION_TYPES
    PROVE  /\ t \in DOMAIN StandardCards => PRODUCTS[t] = StandardCards[t]
           /\ t \in DOMAIN PersonCards => PRODUCTS[t] = PersonCards[t]
           /\ t \in DOMAIN RegisterCards => PRODUCTS[t] = RegisterCards[t]
           /\ t \in DOMAIN BureauCards => PRODUCTS[t] = BureauCards[t]
           /\ t \in DOMAIN BusinessCards => PRODUCTS[t] = BusinessCards[t]
<1> USE CardDomains DEF PRODUCTS
<1>1. t \in DOMAIN StandardCards => PRODUCTS[t] = StandardCards[t]
  OBVIOUS
<1>2. t \in DOMAIN PersonCards => PRODUCTS[t] = PersonCards[t]
  OBVIOUS
<1>3. t \in DOMAIN RegisterCards => PRODUCTS[t] = RegisterCards[t]
  OBVIOUS
<1>4. t \in DOMAIN BureauCards => PRODUCTS[t] = BureauCards[t]
  OBVIOUS
<1>5. t \in DOMAIN BusinessCards => PRODUCTS[t] = BusinessCards[t]
  OBVIOUS
<1> QED
  BY <1>1, <1>2, <1>3, <1>4, <1>5

\* A card tells the uploads and the consents that the server asks for.
AsksAsTold(t) ==
    /\ PRODUCTS[t].requiresFileUpload = requiresFileUpload(t)
    /\ t \in CB_CONSENT_REQUIRED_TYPES => PRODUCTS[t].cbConsentRequired

LEMMA CardAsks ==
    ASSUME NEW t, NEW price, NEW consent \in BOOLEAN, NEW file \in BOOLEAN,
           PRODUCTS[t] = Card(price, consent, file),
           requiresFileUpload(t) <=> file, t \in CB_CONSENT_REQUIRED_TYPES => consent
    PROVE  AsksAsTold(t)
<1>1. PRODUCTS[t].requiresFileUpload = file /\ PRODUCTS[t].cbConsentRequired = consent
  BY DEF Card
<1>2. file = requiresFileUpload(t)
  BY Zenon DEF requiresFileUpload
<1> QED
  BY <1>1, <1>2, Zenon DEF AsksAsTold

LEMMA CardsAsk ==
    ASSUME NEW t \in VERIFICATION_TYPES
    PROVE  AsksAsTold(t)
<1> USE DEF requiresFileUpload, FileTypes, CB_CONSENT_REQUIRED_TYPES, BureauTypes
<1>1. CASE t \in DOMAIN StandardCards
  <2> DEFINE file == t = "face_id_match"
  <2>1. PRODUCTS[t] = Card(30, FALSE, file)
    <3>1. t \in IdentityStandard
      BY <1>1 DEF StandardCards
    <3>2. PRODUCTS[t] = StandardCards[t]
      BY <1>1, CardsAre
    <3> QED
      BY <3>1, <3>2, Zenon DEF StandardCards
  <2>2. (requiresFileUpload(t) <=> file) /\ t \notin CB_CONSENT_REQUIRED_TYPES
    BY <1>1, CardDomains
  <2>3. file \in BOOLEAN
    OBVIOUS
  <2> HIDE DEF file
  <2> QED
    BY <2>1, <2>2, <2>3, CardAsks
<1>2. CASE t \in DOMAIN PersonCards
  <2> DEFINE price == IF t \in IdentityPremium THEN 75 ELSE 20
  <2>1. PRODUCTS[t] = Card(price, FALSE, FALSE)
    BY <1>2, CardsAre DEF PersonCards
  <2>2. ~requiresFileUpload(t) /\ t \notin CB_CONSENT_REQUIRED_TYPES
    BY <1>2, CardDomains
  <2> HIDE DEF price
  <2> QED
    BY <2>1, <2>2, CardAsks
<1>3. CASE t \in DOMAIN RegisterCards
  <2>1. PRODUCTS[t] = RegisterCards[t]
    BY <1>3, CardsAre
  <2>2. CASE t = "search_name_by_phone"
    <3>1. PRODUCTS[t] = Card(20, FALSE, FALSE)
      BY <2>1, <2>2 DEF RegisterCards
    <3>2. (requiresFileUpload(t) <=> FALSE) /\ (t \in CB_CONSENT_REQUIRED_TYPES => FALSE)
      BY <2>2
    <3> QED
      BY ONLY <3>1, <3>2, CardAsks
  <2>3. CASE t = "search_phones_by_id"
    <3>1. PRODUCTS[t] = Card(50, FALSE, FALSE)
      BY <2>1, <2>3 DEF RegisterCards
    <3>2. (requiresFileUpload(t) <=> FALSE) /\ (t \in CB_CONSENT_REQUIRED_TYPES => FALSE)
      BY <2>3
    <3> QED
      BY ONLY <3>1, <3>2, CardAsks
  <2>4. CASE t = "motor_vehicle_ownership"
    <3> DEFINE price == 1160
    <3>1. PRODUCTS[t] = Card(price, TRUE, FALSE)
      BY <2>1, <2>4 DEF RegisterCards
    <3>2. (requiresFileUpload(t) <=> FALSE) /\ (t \in CB_CONSENT_REQUIRED_TYPES => TRUE)
      BY <2>4
    <3> HIDE DEF price
    <3> QED
      BY ONLY <3>1, <3>2, CardAsks
  <2>5. CASE t = "drivers_license_verification"
    <3>1. PRODUCTS[t] = Card(200, TRUE, FALSE)
      BY <2>1, <2>5 DEF RegisterCards
    <3>2. (requiresFileUpload(t) <=> FALSE) /\ (t \in CB_CONSENT_REQUIRED_TYPES => TRUE)
      BY <2>5
    <3> QED
      BY ONLY <3>1, <3>2, CardAsks
  <2>6. CASE t = "metropol_score_only"
    <3>1. PRODUCTS[t] = Card(85, TRUE, FALSE)
      BY <2>1, <2>6 DEF RegisterCards
    <3>2. (requiresFileUpload(t) <=> FALSE) /\ (t \in CB_CONSENT_REQUIRED_TYPES => TRUE)
      BY <2>6
    <3> QED
      BY ONLY <3>1, <3>2, CardAsks
  <2>7. CASE t = "metropol_standard_report"
    <3>1. PRODUCTS[t] = Card(150, TRUE, FALSE)
      BY <2>1, <2>7 DEF RegisterCards
    <3>2. (requiresFileUpload(t) <=> FALSE) /\ (t \in CB_CONSENT_REQUIRED_TYPES => TRUE)
      BY <2>7
    <3> QED
      BY ONLY <3>1, <3>2, CardAsks
  <2> QED
    BY <1>3, CardDomains, <2>2, <2>3, <2>4, <2>5, <2>6, <2>7
<1>4. CASE t \in DOMAIN BureauCards
  <2>1. PRODUCTS[t] = BureauCards[t]
    BY <1>4, CardsAre
  <2>2. CASE t = "metropol_full_report"
    <3>1. PRODUCTS[t] = Card(300, TRUE, FALSE)
      BY <2>1, <2>2 DEF BureauCards
    <3>2. (requiresFileUpload(t) <=> FALSE) /\ (t \in CB_CONSENT_REQUIRED_TYPES => TRUE)
      BY <2>2
    <3> QED
      BY ONLY <3>1, <3>2, CardAsks
  <2>3. CASE t = "creditinfo_score_only"
    <3>1. PRODUCTS[t] = Card(50, TRUE, FALSE)
      BY <2>1, <2>3 DEF BureauCards
    <3>2. (requiresFileUpload(t) <=> FALSE) /\ (t \in CB_CONSENT_REQUIRED_TYPES => TRUE)
      BY <2>3
    <3> QED
      BY ONLY <3>1, <3>2, CardAsks
  <2>4. CASE t = "creditinfo_comprehensive"
    <3>1. PRODUCTS[t] = Card(350, TRUE, FALSE)
      BY <2>1, <2>4 DEF BureauCards
    <3>2. (requiresFileUpload(t) <=> FALSE) /\ (t \in CB_CONSENT_REQUIRED_TYPES => TRUE)
      BY <2>4
    <3> QED
      BY ONLY <3>1, <3>2, CardAsks
  <2>5. CASE t = "creditinfo_crb_status"
    <3> DEFINE price == 2000
    <3>1. PRODUCTS[t] = Card(price, TRUE, FALSE)
      BY <2>1, <2>5 DEF BureauCards
    <3>2. (requiresFileUpload(t) <=> FALSE) /\ (t \in CB_CONSENT_REQUIRED_TYPES => TRUE)
      BY <2>5
    <3> HIDE DEF price
    <3> QED
      BY ONLY <3>1, <3>2, CardAsks
  <2> QED
    BY <1>4, CardDomains, <2>2, <2>3, <2>4, <2>5
<1>5. CASE t \in DOMAIN BusinessCards
  <2>1. PRODUCTS[t] = BusinessCards[t]
    BY <1>5, CardsAre
  <2>2. CASE t = "brs"
    <3> DEFINE price == 1300
    <3>1. PRODUCTS[t] = Card(price, TRUE, TRUE)
      BY <2>1, <2>2 DEF BusinessCards
    <3>2. (requiresFileUpload(t) <=> TRUE) /\ (t \in CB_CONSENT_REQUIRED_TYPES => TRUE)
      BY <2>2
    <3> HIDE DEF price
    <3> QED
      BY ONLY <3>1, <3>2, CardAsks
  <2>3. CASE t = "spin_score_only"
    <3>1. PRODUCTS[t] = Card(130, TRUE, FALSE)
      BY <2>1, <2>3 DEF BusinessCards
    <3>2. (requiresFileUpload(t) <=> FALSE) /\ (t \in CB_CONSENT_REQUIRED_TYPES => TRUE)
      BY <2>3
    <3> QED
      BY ONLY <3>1, <3>2, CardAsks
  <2>4. CASE t = "scanned_statement"
    <3>1. PRODUCTS[t] = Card(120, FALSE, TRUE)
      BY <2>1, <2>4 DEF BusinessCards
    <3>2. (requiresFileUpload(t) <=> TRUE) /\ (t \in CB_CONSENT_REQUIRED_TYPES => FALSE)
      BY <2>4
    <3> QED
      BY ONLY <3>1, <3>2, CardAsks
  <2> QED
    BY <1>5, CardDomains, <2>2, <2>3, <2>4
<1> QED
  BY CardDomains, <1>1, <1>2, <1>3, <1>4, <1>5 DEF VERIFICATION_TYPES, IdTypes, BureauTypes

\* A product that is sold as its card and the pricing page tell.
LEMMA CardIsTold ==
    ASSUME NEW type \in VERIFICATION_TYPES, NEW bands, NEW units, NEW backups, NEW n,
           Sold(type, bands, units, backups, n), PRODUCTS[type].basePriceKes = units[1],
           n = 1 \/ bands[1][2] >= 500
    PROVE  CardTold(type)
<1> DEFINE base == PRODUCTS[type].basePriceKes
<1>1. Seeded(type, 0).unitPriceMinor = 100 * units[1] /\ seedPricing(type) = 100 * units[1]
  BY SoldFirst
<1>2. ProductPagePrices(type)[1] = base
  BY DEF ProductPagePrices
<1>3. units[1] \in Nat
  <2>1. 1 \in 1 .. n
    BY DEF Sold, AreBands
  <2> QED
    BY <2>1 DEF Sold, PricesFall
<1>4. base * 100 = 100 * units[1]
  <2> HIDE DEF base
  <2>1. base = units[1]
    BY DEF base
  <2> QED
    BY <1>3, <2>1
<1>5. AsksAsTold(type)
  BY CardsAsk
<1>6. ASSUME NEW volume \in EndsOf(PublishedBands[1])
      PROVE  Seeded(type, volume).unitPriceMinor = 100 * ProductPagePrices(type)[1]
  <2>1. PublishedBands[1][1] = 0 /\ PublishedBands[1][2] = 500 /\ 500 # Open
    BY PriceSheetAssumption DEF PublishedBands
  <2>2. volume \in {0, 500}
    BY <2>1 DEF EndsOf
  <2> DEFINE one == 1
  <2>3. one \in 1 .. n /\ bands[one][1] = 0 /\ (one = n \/ bands[one][2] \in Nat)
    <3>1. n \in Nat \ {0} /\ bands[1][1] = 0 /\ \A k \in 1 .. n - 1 : bands[k][2] \in Nat
      BY DEF Sold, AreBands
    <3> QED
      BY <3>1
  <2>4. volume \in Nat /\ bands[one][1] <= volume /\ (one = n \/ volume <= bands[one][2])
    BY <2>2, <2>3
  <2> HIDE DEF one
  <2>5. Seeded(type, volume).unitPriceMinor = 100 * units[one]
    BY <2>3, <2>4, SoldAt
  <2>6. ProductPagePrices(type)[1] = units[1]
    BY <1>2
  <2> QED
    BY <2>5, <2>6, Zenon DEF one
<1> HIDE DEF base
<1> QED
  BY <1>1, <1>4, <1>5, <1>6, Zenon DEF CardTold, AsksAsTold, base

LEMMA SixAreTold ==
    ASSUME NEW type, NEW units, NEW backups, Sold(type, Bands, units, backups, 6)
    PROVE  /\ UnitsTold(type, units, PublishedBands)
           /\ DOMAIN backups = 1 .. 6 => BackupsTold(type, backups, PublishedBands)
<1>1. ASSUME NEW k \in 1 .. 6, NEW volume \in EndsOf(PublishedBands[k])
      PROVE  volume \in Nat /\ Bands[k][1] <= volume /\ (k = 6 \/ volume <= Bands[k][2])
  <2>1. PublishedBands = Bands
    BY DEF PublishedBands, Bands
  <2>2. /\ Bands[k][1] \in Nat /\ (k # 6 => Bands[k][2] \in Nat /\ Bands[k][1] <= Bands[k][2])
        /\ Bands[6][2] = Open
    <3>1. k # 6 => k \in 1 .. 6 - 1
      OBVIOUS
    <3> QED
      BY SeedBands, <3>1 DEF AreBands
  <2>3. volume \in {Bands[k][1], IF Bands[k][2] = Open THEN 2 * Bands[k][1] ELSE Bands[k][2]}
    BY <2>1 DEF EndsOf
  <2>4. CASE k = 6
    <3>1. volume = Bands[k][1] \/ volume = 2 * Bands[k][1]
      BY <2>2, <2>3, <2>4
    <3> QED
      BY <2>2, <2>4, <3>1
  <2>5. CASE k # 6
    <3>1. Bands[k][2] # Open
      BY <2>2, <2>5, PriceSheetAssumption
    <3>2. volume = Bands[k][1] \/ volume = Bands[k][2]
      BY <2>3, <3>1
    <3> QED
      BY <2>2, <2>5, <3>2
  <2> QED
    BY <2>4, <2>5
<1>2. ASSUME NEW k \in 1 .. 6, NEW volume \in EndsOf(PublishedBands[k])
      PROVE  /\ Seeded(type, volume).unitPriceMinor = 100 * units[k]
             /\ k \in DOMAIN backups => Seeded(type, volume).backupPriceMinor = 100 * backups[k]
  BY <1>1, SoldAt
<1> QED
  BY <1>2 DEF UnitsTold, BackupsTold

LEMMA FlatIsTold ==
    ASSUME NEW type, NEW unit, NEW prices, Sold(type, FlatBand, <<unit>>, << >>, 1),
           \A k \in 1 .. 6 : prices[k] = unit
    PROVE  UnitsTold(type, prices, PublishedBands)
<1> DEFINE units == <<unit>>
           none == << >>
           one == 1
<1>1. ASSUME NEW volume \in Nat
      PROVE  Seeded(type, volume).unitPriceMinor = 100 * unit
  <2>1. FlatBand[one][1] <= volume /\ one \in 1 .. one /\ units[one] = unit
    BY DEF FlatBand
  <2> HIDE DEF units, none, one
  <2>2. Sold(type, FlatBand, units, none, one)
    BY DEF units, none, one
  <2>3. Seeded(type, volume).unitPriceMinor = 100 * units[one]
    BY <2>1, <2>2, SoldAt
  <2> QED
    BY <2>1, <2>3
<1>2. ASSUME NEW k \in 1 .. 6, NEW volume \in EndsOf(PublishedBands[k])
      PROVE  volume \in Nat
  <2>1. PublishedBands = Bands
    BY DEF PublishedBands, Bands
  <2>2. Bands[k][1] \in Nat /\ (k # 6 => Bands[k][2] \in Nat) /\ (k = 6 => Bands[k][2] = Open)
    <3>1. k # 6 => k \in 1 .. 6 - 1
      OBVIOUS
    <3> QED
      BY SeedBands, <3>1 DEF AreBands
  <2> QED
    BY <2>1, <2>2 DEF EndsOf
<1> QED
  BY <1>1, <1>2 DEF UnitsTold

LEMMA SixFall ==
    ASSUME NEW u, u[1] \in Nat, u[2] \in Nat, u[3] \in Nat, u[4] \in Nat, u[5] \in Nat, u[6] \in Nat,
           u[2] < u[1], u[3] < u[2], u[4] < u[3], u[5] < u[4], u[6] < u[5]
    PROVE  PricesFall(u, 6)
<1>1. \A k \in 1 .. 6 : k = 1 \/ k = 2 \/ k = 3 \/ k = 4 \/ k = 5 \/ k = 6
  OBVIOUS
<1>2. \A k \in 1 .. 6 - 1 : k = 1 \/ k = 2 \/ k = 3 \/ k = 4 \/ k = 5
  OBVIOUS
<1>3. 1 + 1 = 2 /\ 2 + 1 = 3 /\ 3 + 1 = 4 /\ 4 + 1 = 5 /\ 5 + 1 = 6
  OBVIOUS
<1>4. \A k \in 1 .. 6 : u[k] \in Nat
  BY <1>1
<1>5. \A k \in 1 .. 6 - 1 : u[k + 1] < u[k]
  BY <1>2, <1>3, Zenon
<1> QED
  BY <1>4, <1>5, Zenon DEF PricesFall

\* The shares of the base price that the page of a standard identity check tells
\* are its prices.
LEMMA PageIsTold ==
    ASSUME NEW t \in VERIFICATION_TYPES, t \in IdentityStandard
    PROVE  UnitsTold(t, ProductPagePrices(t), PublishedBands)
<1> DEFINE units == <<30, 28, 26, 24, 22, 20>>
           backups == <<45, 43, 42, 38, 34, 32>>
<1>1. PricesFall(units, 6)
  BY SixFall
<1>2. TIERS[t] = Rows(Bands, units, backups)
  <2>1. t \in DOMAIN PersonTiers
    BY TierDomains
  <2>2. TIERS[t] = PersonTiers[t]
    BY <2>1, TiersAre
  <2>3. TRUE
    BY DEF IdentityStandard, IdentityPremium
  <2> QED
    BY <2>1, <2>2, <2>3, Zenon DEF PersonTiers
<1>3. PRODUCTS[t].basePriceKes = 30
  <2>1. PRODUCTS[t] = StandardCards[t]
    BY CardsAre, CardDomains DEF IdentityStandard, IdentityPremium, Utility
  <2>2. StandardCards[t].basePriceKes = 30
    BY DEF StandardCards, Card, IdentityStandard, IdentityPremium, Utility
  <2> QED
    BY <2>1, <2>2
<1>4. ProductPagePrices(t) = units
  <2>1. /\ (30 * 93 + 50) \div 100 = 28 /\ (30 * 87 + 50) \div 100 = 26
        /\ (30 * 80 + 50) \div 100 = 24 /\ (30 * 73 + 50) \div 100 = 22
        /\ (30 * 67 + 50) \div 100 = 20
    OBVIOUS
  <2> QED
    BY <1>3, <2>1, Zenon DEF ProductPagePrices
<1> HIDE DEF units, backups
<1>5. Sold(t, Bands, units, backups, 6)
  BY <1>1, <1>2, SeedBands, Zenon DEF Sold
<1>6. UnitsTold(t, units, PublishedBands)
  BY <1>5, SixAreTold, Zenon
<1> QED
  BY <1>4, <1>6, Zenon

\* A product of the six bands.
LEMMA SixAdvertised ==
    ASSUME NEW type \in VERIFICATION_TYPES, NEW units, NEW backups,
           TIERS[type] = Rows(Bands, units, backups), PricesFall(units, 6),
           PRODUCTS[type].basePriceKes = units[1],
           type \in DOMAIN PublishedPrices => PublishedPrices[type] = units,
           type \in DOMAIN PublishedBackups =>
               PublishedBackups[type] = backups /\ DOMAIN backups = 1 .. 6,
           type # "spin_score_only", type # "scanned_statement"
    PROVE  Advertised(type)
<1>1. Sold(type, Bands, units, backups, 6)
  BY SeedBands, Zenon DEF Sold
<1>2. TilesOnceSeeded(type) /\ CardTold(type)
  <2>1. Bands[1][2] >= 500
    BY DEF Bands
  <2> QED
    BY <1>1, <2>1, SoldTiles, CardIsTold
<1>3. type \in DOMAIN PublishedPrices => UnitsTold(type, PublishedPrices[type], PublishedBands)
  BY <1>1, SixAreTold, Zenon
<1>4. type \in DOMAIN PublishedBackups => BackupsTold(type, PublishedBackups[type], PublishedBands)
  BY <1>1, SixAreTold, Zenon
<1> QED
  BY <1>2, <1>3, <1>4, PageIsTold, AdvertisedIf, Zenon

\* A product of one price.
LEMMA FlatAdvertised ==
    ASSUME NEW type \in VERIFICATION_TYPES, NEW unit \in Nat, TIERS[type] = Flat(unit),
           PRODUCTS[type].basePriceKes = unit,
           type \in DOMAIN PublishedPrices => \A k \in 1 .. 6 : PublishedPrices[type][k] = unit,
           type \notin DOMAIN PublishedBackups, type # "spin_score_only",
           type = "scanned_statement" => unit = 120
    PROVE  Advertised(type)
<1> DEFINE units == <<unit>>
<1>1. Sold(type, FlatBand, units, << >>, 1)
  <2>1. TIERS[type] = Rows(FlatBand, units, << >>)
    BY Zenon DEF Flat, FlatBand, NoBackups
  <2>2. PricesFall(units, 1)
    BY DEF PricesFall
  <2> QED
    BY <2>1, <2>2, SeedBands, Zenon DEF Sold
<1>2. TilesOnceSeeded(type) /\ CardTold(type)
  <2> DEFINE none == << >>
             one == 1
  <2>1. Sold(type, FlatBand, units, none, one) /\ PRODUCTS[type].basePriceKes = units[1]
    BY <1>1
  <2>2. one = 1
    OBVIOUS
  <2> HIDE DEF units, none, one
  <2> QED
    BY <2>1, <2>2, SoldTiles, CardIsTold
<1>3. type \in DOMAIN PublishedPrices => UnitsTold(type, PublishedPrices[type], PublishedBands)
  BY <1>1, FlatIsTold, Zenon
<1>4. type = "scanned_statement" => StatementTold(type)
  <2> SUFFICES ASSUME type = "scanned_statement" PROVE StatementTold(type)
    OBVIOUS
  <2>1. Prices!LockedUnit(type, 3, Open, Seeded(type, 0), 0) = 12000 + 400 * 3
    BY DEF Prices!LockedUnit
  <2>2. PRODUCTS[type].basePriceKes = 120
    OBVIOUS
  <2> QED
    BY <2>1, <2>2 DEF StatementTold
<1> QED
  BY <1>2, <1>3, <1>4, PageIsTold, AdvertisedIf, Zenon

LEMMA PublishedAre ==
    /\ DOMAIN PublishedRegisters =
           {"search_phones_by_id", "motor_vehicle_ownership", "drivers_license_verification",
            "metropol_score_only", "metropol_standard_report", "metropol_full_report",
            "creditinfo_score_only", "creditinfo_comprehensive", "creditinfo_crb_status", "brs"}
    /\ DOMAIN PublishedPrices =
           IdentityStandard \cup IdentityPremium \cup Utility \cup DOMAIN PublishedRegisters
    /\ DOMAIN PublishedBackups = {"drivers_license_verification"}
    /\ \A t \in DOMAIN PublishedRegisters : PublishedPrices[t] = PublishedRegisters[t]
<1>1. DOMAIN PublishedRegisters =
           {"search_phones_by_id", "motor_vehicle_ownership", "drivers_license_verification",
            "metropol_score_only", "metropol_standard_report", "metropol_full_report",
            "creditinfo_score_only", "creditinfo_comprehensive", "creditinfo_crb_status", "brs"}
  BY DEF PublishedRegisters
<1>2. DOMAIN PublishedPrices =
           IdentityStandard \cup IdentityPremium \cup Utility \cup DOMAIN PublishedRegisters
  BY Zenon DEF PublishedPrices
<1>3. DOMAIN PublishedBackups = {"drivers_license_verification"}
  BY DEF PublishedBackups
<1>4. ASSUME NEW t \in DOMAIN PublishedRegisters
      PROVE  PublishedPrices[t] = PublishedRegisters[t]
  <2>1. t \notin IdentityStandard /\ t \notin IdentityPremium /\ t \notin Utility
    BY <1>1 DEF IdentityStandard, IdentityPremium, Utility
  <2>2. t \in DOMAIN PublishedPrices
    BY <1>2
  <2> QED
    BY <1>2, <2>1, <2>2 DEF PublishedPrices
<1> QED
  BY <1>1, <1>2, <1>3, <1>4

LEMMA StandardAdvertised ==
    ASSUME NEW t \in VERIFICATION_TYPES, t \in IdentityStandard
    PROVE  Advertised(t)
<1> DEFINE units == <<30, 28, 26, 24, 22, 20>>
           backups == <<45, 43, 42, 38, 34, 32>>
<1>1. PricesFall(units, 6)
  BY SixFall
<1>2. TIERS[t] = Rows(Bands, units, backups)
  <2>1. t \in DOMAIN PersonTiers
    BY TierDomains
  <2>2. TIERS[t] = PersonTiers[t]
    BY <2>1, TiersAre
  <2>3. TRUE
    BY DEF IdentityStandard, IdentityPremium
  <2> QED
    BY <2>1, <2>2, <2>3, Zenon DEF PersonTiers
<1>3. PRODUCTS[t].basePriceKes = units[1]
  <2>1. PRODUCTS[t] = StandardCards[t]
    BY CardsAre, CardDomains DEF IdentityStandard, IdentityPremium, Utility
  <2>2. StandardCards[t].basePriceKes = 30
    BY DEF StandardCards, Card, IdentityStandard, IdentityPremium, Utility
  <2> QED
    BY <2>1, <2>2
<1>4. PublishedPrices[t] = units
  <2>1. t \in IdentityStandard \cup IdentityPremium \cup Utility \cup DOMAIN PublishedRegisters
    OBVIOUS
  <2>2. t \in IdentityStandard /\ t \notin IdentityPremium /\ t \notin Utility
    BY DEF IdentityStandard, IdentityPremium, Utility
  <2>3. PublishedPrices[t] =
            CASE t \in IdentityStandard -> <<30, 28, 26, 24, 22, 20>>
              [] t \in IdentityPremium  -> <<75, 73, 70, 66, 63, 60>>
              [] t \in Utility          -> <<20, 18, 16, 14, 12, 10>>
              [] OTHER                  -> PublishedRegisters[t]
    BY <2>1, Zenon DEF PublishedPrices
  <2> QED
    BY <2>2, <2>3
<1>5. t \notin DOMAIN PublishedBackups /\ t # "spin_score_only" /\ t # "scanned_statement"
  BY PublishedAre DEF IdentityStandard, IdentityPremium, Utility
<1> HIDE DEF units, backups
<1> QED
  BY <1>1, <1>2, <1>3, <1>4, <1>5, SixAdvertised

LEMMA PremiumAdvertised ==
    ASSUME NEW t \in VERIFICATION_TYPES, t \in IdentityPremium
    PROVE  Advertised(t)
<1> DEFINE units == <<75, 73, 70, 66, 63, 60>>
           backups == NoBackups
<1>1. PricesFall(units, 6)
  BY SixFall
<1>2. TIERS[t] = Rows(Bands, units, backups)
  <2>1. t \in DOMAIN PersonTiers
    BY TierDomains
  <2>2. TIERS[t] = PersonTiers[t]
    BY <2>1, TiersAre
  <2>3. t \notin IdentityStandard
    BY DEF IdentityStandard, IdentityPremium
  <2> QED
    BY <2>1, <2>2, <2>3, Zenon DEF PersonTiers
<1>3. PRODUCTS[t].basePriceKes = units[1]
  <2>1. PRODUCTS[t] = PersonCards[t]
    BY CardsAre, CardDomains DEF IdentityStandard, IdentityPremium, Utility
  <2>2. PersonCards[t].basePriceKes = 75
    BY DEF PersonCards, Card, IdentityStandard, IdentityPremium, Utility
  <2> QED
    BY <2>1, <2>2
<1>4. PublishedPrices[t] = units
  <2>1. t \in IdentityStandard \cup IdentityPremium \cup Utility \cup DOMAIN PublishedRegisters
    OBVIOUS
  <2>2. t \notin IdentityStandard /\ t \in IdentityPremium /\ t \notin Utility
    BY DEF IdentityStandard, IdentityPremium, Utility
  <2>3. PublishedPrices[t] =
            CASE t \in IdentityStandard -> <<30, 28, 26, 24, 22, 20>>
              [] t \in IdentityPremium  -> <<75, 73, 70, 66, 63, 60>>
              [] t \in Utility          -> <<20, 18, 16, 14, 12, 10>>
              [] OTHER                  -> PublishedRegisters[t]
    BY <2>1, Zenon DEF PublishedPrices
  <2> QED
    BY <2>2, <2>3
<1>5. t \notin DOMAIN PublishedBackups /\ t # "spin_score_only" /\ t # "scanned_statement"
  BY PublishedAre DEF IdentityStandard, IdentityPremium, Utility
<1> HIDE DEF units, backups
<1> QED
  BY <1>1, <1>2, <1>3, <1>4, <1>5, SixAdvertised

LEMMA UtilityAdvertised ==
    ASSUME NEW t \in VERIFICATION_TYPES, t \in Utility
    PROVE  Advertised(t)
<1> DEFINE units == <<20, 18, 16, 14, 12, 10>>
           backups == NoBackups
<1>1. PricesFall(units, 6)
  BY SixFall
<1>2. TIERS[t] = Rows(Bands, units, backups)
  <2>1. t \in DOMAIN PhoneTiers
    BY TierDomains
  <2>2. TIERS[t] = PhoneTiers[t]
    BY <2>1, TiersAre
  <2>3. TRUE
    BY DEF IdentityStandard, IdentityPremium
  <2> QED
    BY <2>1, <2>2, <2>3, Zenon DEF PhoneTiers
<1>3. PRODUCTS[t].basePriceKes = units[1]
  <2>1. CASE t = "search_name_by_phone"
    BY <2>1, CardsAre, CardDomains DEF RegisterCards, Card
  <2>2. CASE t # "search_name_by_phone"
    <3>1. PRODUCTS[t] = PersonCards[t] /\ t \in DOMAIN PersonCards
      BY <2>2, CardsAre, CardDomains DEF Utility
    <3>2. t \notin IdentityPremium
      BY DEF IdentityPremium, Utility
    <3> QED
      BY <3>1, <3>2 DEF PersonCards, Card
  <2> QED
    BY <2>1, <2>2
<1>4. PublishedPrices[t] = units
  <2>1. t \in IdentityStandard \cup IdentityPremium \cup Utility \cup DOMAIN PublishedRegisters
    OBVIOUS
  <2>2. t \notin IdentityStandard /\ t \notin IdentityPremium /\ t \in Utility
    BY DEF IdentityStandard, IdentityPremium, Utility
  <2>3. PublishedPrices[t] =
            CASE t \in IdentityStandard -> <<30, 28, 26, 24, 22, 20>>
              [] t \in IdentityPremium  -> <<75, 73, 70, 66, 63, 60>>
              [] t \in Utility          -> <<20, 18, 16, 14, 12, 10>>
              [] OTHER                  -> PublishedRegisters[t]
    BY <2>1, Zenon DEF PublishedPrices
  <2> QED
    BY <2>2, <2>3
<1>5. t \notin DOMAIN PublishedBackups /\ t # "spin_score_only" /\ t # "scanned_statement"
  BY PublishedAre DEF IdentityStandard, IdentityPremium, Utility
<1> HIDE DEF units, backups
<1> QED
  BY <1>1, <1>2, <1>3, <1>4, <1>5, SixAdvertised

LEMMA RegisterAdvertised ==
    ASSUME NEW t \in {"search_phones_by_id", "motor_vehicle_ownership",
                      "drivers_license_verification", "metropol_score_only",
                      "metropol_standard_report", "metropol_full_report", "brs"}
    PROVE  Advertised(t)
<1>t. t \in VERIFICATION_TYPES
  BY DEF VERIFICATION_TYPES, IdTypes, BureauTypes
<1>1. CASE t = "search_phones_by_id"
  <2> DEFINE units == <<50, 48, 46, 44, 40, 35>>
             backups == NoBackups
  <2>1. PricesFall(units, 6)
    BY SixFall
  <2>2. TIERS[t] = Rows(Bands, units, backups)
    <3>1. TIERS[t] = PhoneTiers[t]
      BY <1>t, <1>1, TiersAre, TierDomains
    <3> HIDE DEF units, backups
    <3> QED
      BY <1>1, <3>1 DEF PhoneTiers, units, backups, Utility
  <2>3. PRODUCTS[t].basePriceKes = units[1]
    BY <1>t, <1>1, CardsAre, CardDomains DEF RegisterCards, Card
  <2>4. PublishedPrices[t] = units
    BY <1>1, PublishedAre DEF PublishedRegisters
  <2>5. t \notin DOMAIN PublishedBackups
    BY <1>1, PublishedAre
  <2>6. t # "spin_score_only" /\ t # "scanned_statement"
    BY <1>1
  <2> HIDE DEF units, backups
  <2> QED
    BY ONLY <1>t, <2>1, <2>2, <2>3, <2>4, <2>5, <2>6, SixAdvertised
<1>2. CASE t = "motor_vehicle_ownership"
  <2> DEFINE units == <<1160, 1140, 1115, 1080, 1040, 1010>>
             backups == NoBackups
  <2>1. PricesFall(units, 6)
    BY SixFall
  <2>2. TIERS[t] = Rows(Bands, units, backups)
    <3>1. TIERS[t] = VehicleTiers[t]
      BY <1>t, <1>2, TiersAre, TierDomains
    <3> HIDE DEF units, backups
    <3> QED
      BY <1>2, <3>1 DEF VehicleTiers, units, backups
  <2>3. PRODUCTS[t].basePriceKes = units[1]
    BY <1>t, <1>2, CardsAre, CardDomains DEF RegisterCards, Card
  <2>4. PublishedPrices[t] = units
    BY <1>2, PublishedAre DEF PublishedRegisters
  <2>5. t \notin DOMAIN PublishedBackups
    BY <1>2, PublishedAre
  <2>6. t # "spin_score_only" /\ t # "scanned_statement"
    BY <1>2
  <2> HIDE DEF units, backups
  <2> QED
    BY ONLY <1>t, <2>1, <2>2, <2>3, <2>4, <2>5, <2>6, SixAdvertised
<1>3. CASE t = "drivers_license_verification"
  <2> DEFINE units == <<200, 195, 190, 180, 175, 170>>
             backups == <<260, 254, 248, 238, 229, 221>>
  <2>1. PricesFall(units, 6)
    BY SixFall
  <2>2. TIERS[t] = Rows(Bands, units, backups)
    <3>1. TIERS[t] = VehicleTiers[t]
      BY <1>t, <1>3, TiersAre, TierDomains
    <3> HIDE DEF units, backups
    <3> QED
      BY <1>3, <3>1 DEF VehicleTiers, units, backups
  <2>3. PRODUCTS[t].basePriceKes = units[1]
    BY <1>t, <1>3, CardsAre, CardDomains DEF RegisterCards, Card
  <2>4. PublishedPrices[t] = units
    BY <1>3, PublishedAre DEF PublishedRegisters
  <2>5. PublishedBackups[t] = backups /\ DOMAIN backups = 1 .. 6
    BY <1>3 DEF PublishedBackups
  <2>6. t # "spin_score_only" /\ t # "scanned_statement"
    BY <1>3
  <2> HIDE DEF units, backups
  <2> QED
    BY ONLY <1>t, <2>1, <2>2, <2>3, <2>4, <2>5, <2>6, SixAdvertised
<1>4. CASE t = "metropol_score_only"
  <2> DEFINE units == <<85, 83, 80, 77, 74, 70>>
             backups == NoBackups
  <2>1. PricesFall(units, 6)
    BY SixFall
  <2>2. TIERS[t] = Rows(Bands, units, backups)
    <3>1. TIERS[t] = MetropolTiers[t]
      BY <1>t, <1>4, TiersAre, TierDomains
    <3> HIDE DEF units, backups
    <3> QED
      BY <1>4, <3>1 DEF MetropolTiers, units, backups
  <2>3. PRODUCTS[t].basePriceKes = units[1]
    BY <1>t, <1>4, CardsAre, CardDomains DEF RegisterCards, Card
  <2>4. PublishedPrices[t] = units
    BY <1>4, PublishedAre DEF PublishedRegisters
  <2>5. t \notin DOMAIN PublishedBackups
    BY <1>4, PublishedAre
  <2>6. t # "spin_score_only" /\ t # "scanned_statement"
    BY <1>4
  <2> HIDE DEF units, backups
  <2> QED
    BY ONLY <1>t, <2>1, <2>2, <2>3, <2>4, <2>5, <2>6, SixAdvertised
<1>5. CASE t = "metropol_standard_report"
  <2> DEFINE units == <<150, 147, 143, 137, 132, 128>>
             backups == NoBackups
  <2>1. PricesFall(units, 6)
    BY SixFall
  <2>2. TIERS[t] = Rows(Bands, units, backups)
    <3>1. TIERS[t] = MetropolTiers[t]
      BY <1>t, <1>5, TiersAre, TierDomains
    <3> HIDE DEF units, backups
    <3> QED
      BY <1>5, <3>1 DEF MetropolTiers, units, backups
  <2>3. PRODUCTS[t].basePriceKes = units[1]
    BY <1>t, <1>5, CardsAre, CardDomains DEF RegisterCards, Card
  <2>4. PublishedPrices[t] = units
    BY <1>5, PublishedAre DEF PublishedRegisters
  <2>5. t \notin DOMAIN PublishedBackups
    BY <1>5, PublishedAre
  <2>6. t # "spin_score_only" /\ t # "scanned_statement"
    BY <1>5
  <2> HIDE DEF units, backups
  <2> QED
    BY ONLY <1>t, <2>1, <2>2, <2>3, <2>4, <2>5, <2>6, SixAdvertised
<1>6. CASE t = "metropol_full_report"
  <2> DEFINE units == <<300, 295, 285, 275, 265, 250>>
             backups == NoBackups
  <2>1. PricesFall(units, 6)
    BY SixFall
  <2>2. TIERS[t] = Rows(Bands, units, backups)
    <3>1. TIERS[t] = MetropolTiers[t]
      BY <1>t, <1>6, TiersAre, TierDomains
    <3> HIDE DEF units, backups
    <3> QED
      BY <1>6, <3>1 DEF MetropolTiers, units, backups
  <2>3. PRODUCTS[t].basePriceKes = units[1]
    BY <1>t, <1>6, CardsAre, CardDomains DEF BureauCards, Card
  <2>4. PublishedPrices[t] = units
    BY <1>6, PublishedAre DEF PublishedRegisters
  <2>5. t \notin DOMAIN PublishedBackups
    BY <1>6, PublishedAre
  <2>6. t # "spin_score_only" /\ t # "scanned_statement"
    BY <1>6
  <2> HIDE DEF units, backups
  <2> QED
    BY ONLY <1>t, <2>1, <2>2, <2>3, <2>4, <2>5, <2>6, SixAdvertised
<1>7. CASE t = "brs"
  <2> DEFINE units == <<1300, 1280, 1250, 1205, 1160, 1125>>
             backups == NoBackups
  <2>1. PricesFall(units, 6)
    BY SixFall
  <2>2. TIERS[t] = Rows(Bands, units, backups)
    <3>1. TIERS[t] = BusinessTiers[t]
      BY <1>t, <1>7, TiersAre, TierDomains
    <3> HIDE DEF units, backups
    <3> QED
      BY <1>7, <3>1 DEF BusinessTiers, units, backups
  <2>3. PRODUCTS[t].basePriceKes = units[1]
    BY <1>t, <1>7, CardsAre, CardDomains DEF BusinessCards, Card
  <2>4. PublishedPrices[t] = units
    BY <1>7, PublishedAre DEF PublishedRegisters
  <2>5. t \notin DOMAIN PublishedBackups
    BY <1>7, PublishedAre
  <2>6. t # "spin_score_only" /\ t # "scanned_statement"
    BY <1>7
  <2> HIDE DEF units, backups
  <2> QED
    BY ONLY <1>t, <2>1, <2>2, <2>3, <2>4, <2>5, <2>6, SixAdvertised
<1> QED
  BY <1>1, <1>2, <1>3, <1>4, <1>5, <1>6, <1>7

LEMMA OnePriceAdvertised ==
    ASSUME NEW t \in {"creditinfo_score_only", "creditinfo_comprehensive", "creditinfo_crb_status",
                      "scanned_statement"}
    PROVE  Advertised(t)
<1>t. t \in VERIFICATION_TYPES
  BY DEF VERIFICATION_TYPES, IdTypes, BureauTypes
<1>s. \A k \in 1 .. 6 : k = 1 \/ k = 2 \/ k = 3 \/ k = 4 \/ k = 5 \/ k = 6
  OBVIOUS
<1>1. CASE t = "creditinfo_score_only"
  <2> DEFINE unit == 50
  <2>1. unit \in Nat
    OBVIOUS
  <2>2. TIERS[t] = Flat(unit)
    <3>1. TIERS[t] = CreditInfoTiers[t]
      BY <1>t, <1>1, TiersAre, TierDomains
    <3> QED
      BY <1>1, <3>1 DEF CreditInfoTiers
  <2>3. PRODUCTS[t].basePriceKes = unit
    BY <1>t, <1>1, CardsAre, CardDomains DEF BureauCards, Card
  <2>4. \A k \in 1 .. 6 : PublishedPrices[t][k] = unit
    <3>1. PublishedPrices[t] = <<unit, unit, unit, unit, unit, unit>>
      BY <1>1, PublishedAre DEF PublishedRegisters
    <3> HIDE DEF unit
    <3> QED
      BY <1>s, <3>1
  <2>5. t \notin DOMAIN PublishedBackups /\ t # "spin_score_only"
    BY <1>1, PublishedAre
  <2>6. t # "scanned_statement"
    BY <1>1
  <2> HIDE DEF unit
  <2> QED
    BY ONLY <1>t, <2>1, <2>2, <2>3, <2>4, <2>5, <2>6, FlatAdvertised
<1>2. CASE t = "creditinfo_comprehensive"
  <2> DEFINE unit == 350
  <2>1. unit \in Nat
    OBVIOUS
  <2>2. TIERS[t] = Flat(unit)
    <3>1. TIERS[t] = CreditInfoTiers[t]
      BY <1>t, <1>2, TiersAre, TierDomains
    <3> QED
      BY <1>2, <3>1 DEF CreditInfoTiers
  <2>3. PRODUCTS[t].basePriceKes = unit
    BY <1>t, <1>2, CardsAre, CardDomains DEF BureauCards, Card
  <2>4. \A k \in 1 .. 6 : PublishedPrices[t][k] = unit
    <3>1. PublishedPrices[t] = <<unit, unit, unit, unit, unit, unit>>
      BY <1>2, PublishedAre DEF PublishedRegisters
    <3> HIDE DEF unit
    <3> QED
      BY <1>s, <3>1
  <2>5. t \notin DOMAIN PublishedBackups /\ t # "spin_score_only"
    BY <1>2, PublishedAre
  <2>6. t # "scanned_statement"
    BY <1>2
  <2> HIDE DEF unit
  <2> QED
    BY ONLY <1>t, <2>1, <2>2, <2>3, <2>4, <2>5, <2>6, FlatAdvertised
<1>3. CASE t = "creditinfo_crb_status"
  <2> DEFINE unit == 2000
  <2>1. unit \in Nat
    OBVIOUS
  <2>2. TIERS[t] = Flat(unit)
    <3>1. TIERS[t] = CreditInfoTiers[t]
      BY <1>t, <1>3, TiersAre, TierDomains
    <3> QED
      BY <1>3, <3>1 DEF CreditInfoTiers
  <2>3. PRODUCTS[t].basePriceKes = unit
    BY <1>t, <1>3, CardsAre, CardDomains DEF BureauCards, Card
  <2>4. \A k \in 1 .. 6 : PublishedPrices[t][k] = unit
    <3>1. PublishedPrices[t] = <<unit, unit, unit, unit, unit, unit>>
      BY <1>3, PublishedAre DEF PublishedRegisters
    <3> HIDE DEF unit
    <3> QED
      BY <1>s, <3>1
  <2>5. t \notin DOMAIN PublishedBackups /\ t # "spin_score_only"
    BY <1>3, PublishedAre
  <2>6. t # "scanned_statement"
    BY <1>3
  <2> HIDE DEF unit
  <2> QED
    BY ONLY <1>t, <2>1, <2>2, <2>3, <2>4, <2>5, <2>6, FlatAdvertised
<1>4. CASE t = "scanned_statement"
  <2> DEFINE unit == 120
  <2>1. unit \in Nat
    OBVIOUS
  <2>2. TIERS[t] = Flat(unit)
    <3>1. TIERS[t] = BusinessTiers[t]
      BY <1>t, <1>4, TiersAre, TierDomains
    <3> QED
      BY <1>4, <3>1 DEF BusinessTiers
  <2>3. PRODUCTS[t].basePriceKes = unit
    BY <1>t, <1>4, CardsAre, CardDomains DEF BusinessCards, Card
  <2>4. t \notin DOMAIN PublishedPrices
    BY <1>4, PublishedAre DEF IdentityStandard, IdentityPremium, Utility
  <2>5. t \notin DOMAIN PublishedBackups /\ t # "spin_score_only"
    BY <1>4, PublishedAre
  <2>6. unit = 120
    BY <1>4
  <2> HIDE DEF unit
  <2> QED
    BY ONLY <1>t, <2>1, <2>2, <2>3, <2>4, <2>5, <2>6, FlatAdvertised
<1> QED
  BY <1>1, <1>2, <1>3, <1>4

LEMMA SpinAdvertised == Advertised("spin_score_only")
<1> DEFINE t == "spin_score_only"
           units == SpinPrices
<1>t. t \in VERIFICATION_TYPES
  BY DEF VERIFICATION_TYPES, IdTypes, BureauTypes
<1>1. Sold(t, SpinSeedBands, units, NoBackups, 6)
  <2>1. PricesFall(units, 6)
    BY SixFall DEF SpinPrices
  <2>2. TIERS[t] = BusinessTiers[t]
    BY <1>t, TiersAre
  <2>3. BusinessTiers[t] = SPIN_SCORE_TIERS
    BY DEF BusinessTiers
  <2>4. SPIN_SCORE_TIERS = Rows(SpinSeedBands, units, NoBackups)
    BY DEF SPIN_SCORE_TIERS, SpinSeedBands, SpinPrices
  <2> QED
    BY <2>1, <2>2, <2>3, <2>4, SeedBands DEF Sold
<1>2. PRODUCTS[t].basePriceKes = units[1]
  BY <1>t, CardsAre, CardDomains DEF BusinessCards, Card, SpinPrices
<1>3. t \notin DOMAIN PublishedPrices /\ t \notin DOMAIN PublishedBackups /\ t # "scanned_statement"
  BY PublishedAre DEF IdentityStandard, IdentityPremium, Utility
<1>4. SpinTold(t)
  <2>1. ASSUME NEW k \in 1 .. 6, NEW volume \in {SpinBands[k][1] + 1, SpinBands[k][2]}
        PROVE  volume \in Nat /\ SpinSeedBands[k][1] <= volume /\ (k = 6 \/ volume <= SpinSeedBands[k][2])
    <3>1. k = 1 \/ k = 2 \/ k = 3 \/ k = 4 \/ k = 5 \/ k = 6
      OBVIOUS
    <3>2. CASE k = 1
      BY <3>2 DEF SpinBands, SpinSeedBands
    <3>3. CASE k = 2
      BY <3>3 DEF SpinBands, SpinSeedBands
    <3>4. CASE k = 3
      BY <3>4 DEF SpinBands, SpinSeedBands
    <3>5. CASE k = 4
      BY <3>5 DEF SpinBands, SpinSeedBands
    <3>6. CASE k = 5
      BY <3>6 DEF SpinBands, SpinSeedBands
    <3>7. CASE k = 6
      BY <3>7 DEF SpinBands, SpinSeedBands
    <3> QED
      BY <3>1, <3>2, <3>3, <3>4, <3>5, <3>6, <3>7
  <2> HIDE DEF t, units
  <2>2. ASSUME NEW k \in 1 .. 6, NEW volume \in {SpinBands[k][1] + 1, SpinBands[k][2]}
        PROVE  Seeded(t, volume).unitPriceMinor = 100 * units[k]
    BY <1>1, <2>1, SoldAt
  <2> QED
    BY <2>2 DEF SpinTold, units
<1> HIDE DEF t, units
<1>5. TilesOnceSeeded(t) /\ CardTold(t)
  <2>1. SpinSeedBands[1][2] >= 500
    BY DEF SpinSeedBands
  <2> QED
    BY <1>t, <1>1, <1>2, <2>1, SoldTiles, CardIsTold
<1>6. Advertised(t)
  BY <1>t, <1>3, <1>4, <1>5, PageIsTold, AdvertisedIf
<1> QED
  BY <1>6 DEF t

\* What the site advertises and the seed sells (PriceSheet): for every product the
\* tiers it is given cover every volume once, whatever rows administrators had edited,
\* and the prices of its card and of the pricing page, the uploads and the consents
\* are those of the server.  Of the page of a product that is said of the first band,
\* and of all six for the standard identity checks only.
THEOREM SitePricesAreSeeded == ConsoleSpec => []AdvertisedAsSeeded
<1>1. ASSUME NEW t \in VERIFICATION_TYPES
      PROVE  Advertised(t)
  <2>1. CASE t \in IdentityStandard
    BY <2>1, StandardAdvertised
  <2>2. CASE t \in IdentityPremium
    BY <2>2, PremiumAdvertised
  <2>3. CASE t \in Utility
    BY <2>3, UtilityAdvertised
  <2>4. \/ t \in IdentityStandard \/ t \in IdentityPremium \/ t \in Utility
        \/ t \in {"search_phones_by_id", "motor_vehicle_ownership",
                 "drivers_license_verification", "metropol_score_only",
                 "metropol_standard_report", "metropol_full_report", "brs"}
        \/ t \in {"creditinfo_score_only", "creditinfo_comprehensive", "creditinfo_crb_status",
                 "scanned_statement"}
        \/ t = "spin_score_only"
    BY DEF VERIFICATION_TYPES, IdTypes, BureauTypes, IdentityStandard, IdentityPremium, Utility
  <2> QED
    BY <2>1, <2>2, <2>3, <2>4, RegisterAdvertised, OnePriceAdvertised, SpinAdvertised
<1>2. FormTyped => AdvertisedAsSeeded
  BY <1>1 DEF FormTyped, AdvertisedAsSeeded
<1>3. ConsoleSpec => []FormTyped
  BY FormTypedAlways
<1> QED
  BY <1>2, <1>3, PTL
=============================================================================
