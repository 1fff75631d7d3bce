------------------------------- MODULE WalletPage -------------------------------
(***************************************************************************)
(* The console's wallet page (app/console/wallet/page.tsx) over what       *)
(* PaymentStatus promises: each rail has a form that starts a payment, and *)
(* all rails share one interval that asks for the status of the payment    *)
(* started last, every two seconds for ninety seconds.  A tick does not    *)
(* wait for the one before it, so several answers can be under way, and an *)
(* answer acts on the form of its rail and on the interval as they are     *)
(* when it arrives.                                                        *)
(*                                                                         *)
(* The balance and the ledger beside the forms, and the invoice form, are  *)
(* left out: they are read and posted without being followed.              *)
(***************************************************************************)
EXTENDS PaymentStatus, Integers, FiniteSets

CONSTANTS
    FormsOf,      \* bound: the rails whose forms may start each payment
    LiveForms,    \* rails that are not in sandbox mode
    MaxAnswers    \* bound: answers under way at a time

ASSUME FormsAssumption ==
    /\ FormsOf \in [Tracked -> SUBSET Ways]
    /\ LiveForms \subseteq Ways
    /\ MaxAnswers \in Nat \ {0}

\* The rails whose forms are used.
PageRails == UNION {FormsOf[p] : p \in Tracked}

VARIABLES
    forms,     \* the form of each rail
    poll,      \* the interval: the payment it asks for, and its rail
    answers,   \* answers to the page's requests about a payment, under way
    late       \* payments started more than ninety seconds ago

\* A busy form is disabled.  posting are the payments whose requests are under
\* way, shown what the form told the customer last (an error may be a time-out),
\* and confirm the payment it offers to confirm or capture.
Form == [busy : BOOLEAN, posting : SUBSET Tracked, confirm : Tracked \cup {Unset},
         shown : {"nothing", "paid", "failed", "error"}]

Poll == [payment : Tracked, rail : Ways]

\* The status of the payment when the server read it.
Answer == [payment : Tracked, rail : Ways, by : {"poll", "confirm"},
           status : {"pending", "paid", "failed"}]

browser == <<forms, poll, answers, late>>
walletPageVars == <<statusVars, browser>>

EmptyForm == [busy |-> FALSE, posting |-> {}, confirm |-> Unset, shown |-> "nothing"]

WalletInit ==
    /\ StatusInit
    /\ forms = [r \in PageRails |-> EmptyForm]
    /\ poll = Unset
    /\ answers = {}
    /\ late = {}

\* The form stops waiting and shows an outcome; a paid card payment needs no
\* confirmation any more.
Show(r, outcome) ==
    forms' = [forms EXCEPT ![r].busy = FALSE, ![r].shown = outcome,
                           ![r].confirm = IF r = "card" /\ outcome = "paid" THEN Unset ELSE @]

\* The form waits for an answer that no request or interval asks for any more.
Orphaned(r) ==
    /\ forms[r].busy
    /\ forms[r].posting = {}
    /\ poll = Unset \/ poll.rail # r

-----------------------------------------------------------------------------
(* Starting a payment.                                                     *)

\* The form is disabled while it is busy.  A request is posted: the card form
\* stops offering the confirmation of the payment before.
Submit(r, p) ==
    /\ r \in FormsOf[p]
    /\ status[p] = "none"
    /\ \A s \in PageRails : p \notin forms[s].posting
    /\ ~forms[r].busy
    /\ forms' = [forms EXCEPT ![r].busy = TRUE, ![r].posting = @ \cup {p},
                              ![r].shown = "nothing",
                              ![r].confirm = IF r = "card" THEN Unset ELSE @]
    /\ UNCHANGED <<statusVars, poll, answers, late>>

payWithMpesa(p)        == Submit("stk", p)
payWithCard(p)         == Submit("card", p)
payWithPayPal(p)       == Submit("paypal", p)
confirmBankTransfer(p) == Submit("bank", p)

\* The server creates the payment of a posted request; a bank transfer is
\* refused by its DTO, whatever it says (see Payments).
Created(r, p) ==
    /\ p \in forms[r].posting
    /\ r # "bank"
    /\ CreatePayment(p, r)
    /\ UNCHANGED browser

\* The payment has started: the interval of any other payment is cleared and
\* this one is followed.  A sandbox card has nothing to confirm; a PayPal order
\* can always be captured.
pollOnlinePayment(r, p) ==
    /\ p \in forms[r].posting
    /\ status[p] # "none"
    /\ poll' = [payment |-> p, rail |-> r]
    /\ forms' = [forms EXCEPT ![r].posting = @ \ {p}, ![r].shown = "nothing",
                   ![r].confirm = IF r = "paypal" \/ (r = "card" /\ r \in LiveForms) THEN p ELSE Unset]
    /\ UNCHANGED <<statusVars, answers, late>>

\* The request is refused or its answer is lost, before or after the payment was
\* created.
StartFails(r, p) ==
    /\ p \in forms[r].posting
    /\ forms' = [forms EXCEPT ![r].busy = FALSE, ![r].posting = @ \ {p}, ![r].shown = "error"]
    /\ UNCHANGED <<statusVars, poll, answers, late>>

StartAnswered(r) ==
    \E p \in Tracked :
        \/ pollOnlinePayment(r, p)
        \/ StartFails(r, p)

-----------------------------------------------------------------------------
(* Asking and being answered.                                              *)

\* The bound leaves the interval one answer.
Answered(p, r, by) ==
    /\ Cardinality(answers) < IF by = "poll" THEN MaxAnswers ELSE MaxAnswers - 1
    /\ answers' = answers \cup {[payment |-> p, rail |-> r, by |-> by, status |-> status[p]]}

\* The interval fires; GET /payments/stk/:id is asked for every rail.  A request
\* that fails is ignored.
TickRead ==
    /\ poll # Unset
    /\ Answered(poll.payment, poll.rail, "poll")
    /\ UNCHANGED <<statusVars, forms, poll, late>>

Confirm(r) ==
    /\ r \in PageRails
    /\ forms[r].confirm # Unset
    /\ \/ /\ Answered(forms[r].confirm, r, "confirm")
          /\ UNCHANGED forms
       \/ /\ forms' = [forms EXCEPT ![r].shown = "error"]
          /\ UNCHANGED answers
    /\ UNCHANGED <<statusVars, poll, late>>

\* They ask about the payment whose id the page has; a failure is shown and
\* changes nothing else.
confirmCard   == Confirm("card")
capturePayPal == Confirm("paypal")

Arrives(answer, by) ==
    /\ answer.by = by
    /\ answers' = answers \ {answer}

\* stopPolling clears the interval, whosever it is by now.
stopPolling == poll' = Unset

\* Mutant of PollAnswered: whatever is decided is taken as received.
PollAnsweredPaid(answer) ==
    /\ Arrives(answer, "poll")
    /\ IF answer.status # "pending"
       THEN Show(answer.rail, "paid") /\ stopPolling
       ELSE UNCHANGED <<forms, poll>>
    /\ UNCHANGED <<statusVars, late>>

\* Mutant of PollAnswered: the poll never times out.
PollAnsweredForEver(answer) ==
    /\ Arrives(answer, "poll")
    /\ IF answer.status # "pending"
       THEN Show(answer.rail, answer.status) /\ stopPolling
       ELSE UNCHANGED <<forms, poll>>
    /\ UNCHANGED <<statusVars, late>>

\* The interval's callback: a decided payment, or one that is late, ends the
\* waiting of its rail.
PollAnswered(answer) ==
    /\ Arrives(answer, "poll")
    /\ IF answer.status # "pending" \/ answer.payment \in late
       THEN /\ Show(answer.rail, IF answer.status = "pending" THEN "error" ELSE answer.status)
            /\ stopPolling
       ELSE UNCHANGED <<forms, poll>>
    /\ UNCHANGED <<statusVars, late>>

\* The answer to a confirmation: a decision ends the waiting, a payment that is
\* still pending goes on as it was.
Confirmed(answer) ==
    /\ Arrives(answer, "confirm")
    /\ IF answer.status # "pending"
       THEN Show(answer.rail, answer.status) /\ stopPolling
       ELSE /\ forms' = [forms EXCEPT ![answer.rail].shown = "nothing"]
            /\ UNCHANGED poll
    /\ UNCHANGED <<statusVars, late>>

\* Ninety seconds pass.
GetsLate(p) ==
    /\ poll # Unset /\ poll.payment = p
    /\ p \notin late
    /\ late' = late \cup {p}
    /\ UNCHANGED <<statusVars, forms, poll, answers>>

\* The customer leaves the page: its interval is cleared and its answers reach
\* nobody.
LeaveWallet ==
    /\ forms' = [r \in PageRails |-> EmptyForm]
    /\ poll' = Unset
    /\ answers' = {}
    /\ UNCHANGED <<statusVars, late>>

-----------------------------------------------------------------------------

WalletNext ==
    \/ \E p \in Tracked :
           payWithMpesa(p) \/ payWithCard(p) \/ payWithPayPal(p) \/ confirmBankTransfer(p)
    \/ \E r \in PageRails, p \in Tracked : Created(r, p)
    \/ \E r \in PageRails : StartAnswered(r)
    \/ TickRead
    \/ confirmCard \/ capturePayPal
    \/ \E answer \in answers : PollAnswered(answer) \/ Confirmed(answer)
    \/ \E p \in Tracked : GetsLate(p)
    \/ LeaveWallet
    \/ \E p \in Tracked, outcome \in {"paid", "failed"} :
           DecidePayment(p, outcome) /\ UNCHANGED browser

\* Every request that starts a payment is answered or fails, the interval's timer
\* goes on firing and being answered, and ninety seconds pass.  Nothing of this
\* can happen before a payment is posted.
WalletFairness ==
    /\ \A r \in PageRails : WF_walletPageVars(StartAnswered(r))
    /\ WF_walletPageVars(\E p \in Tracked : GetsLate(p))
    /\ WF_walletPageVars(TickRead \/ \E answer \in answers : PollAnswered(answer))

WalletSpec == WalletInit /\ [][WalletNext]_walletPageVars /\ WalletFairness

-----------------------------------------------------------------------------
(* Properties.                                                             *)

\* A form that tells the customer the wallet was credited, or that a payment
\* failed, tells of a payment of its rail to which that has happened, however
\* many status answers overlap and whichever of them is the last.
OutcomeShownHappened ==
    \A r \in PageRails :
        forms[r].shown \in {"paid", "failed"} =>
            \E p \in Tracked : method[p] = r /\ status[p] = forms[r].shown

\* A form does not wait for ever for its payment to be decided: the poll ends
\* with the decision or with a time-out, unless another payment has taken the
\* poll over or ended it.
WaitingEnds ==
    \A r \in PageRails : []<>(~forms[r].busy \/ Orphaned(r))
=============================================================================
