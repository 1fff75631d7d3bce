------------------------------- MODULE Payments -------------------------------
(***************************************************************************)
(* Wallet top-ups through M-Pesa (STK push), Stripe cards, PayPal and bank *)
(* transfers: PaymentsService and PaymentsController.  A payment row is created, the  *)
(* rail is asked to collect it, and the rail's identifier is recorded.     *)
(* From then on the customer's polls and confirmations, M-Pesa's callback, *)
(* the sandbox timer and a platform administrator all try to settle the    *)
(* row, in any order and more than once; finalize() lets one of them win   *)
(* and credits the wallet in the same transaction.                         *)
(*                                                                         *)
(* The rails are external: they are modelled by the answers the code       *)
(* distinguishes.  A callback is never removed, so it can come late,       *)
(* twice or not at all.                                                    *)
(***************************************************************************)
EXTENDS Integers, FiniteSets, Sequences

CONSTANTS
    Null,               \* absent row, idle handler
    Payments,           \* top-up requests
    Orgs,
    Amounts,            \* amounts a customer may enter, in minor units
    MinorPerShilling,   \* 100: the rails' smallest unit per shilling
    MinimumMinor,       \* smallest top-up
    Live,               \* methods whose credentials are configured
    PAYPAL_CURRENCY,    \* what live PayPal orders are charged in: not shillings
    Handlers,           \* requests, callbacks and timers being served
    OpeningBalance,     \* balance of a newly registered organization
    Sources,            \* what a top-up row can be for: payments and others
    MaxFaults           \* bound on crashes, failed queries and lost answers

Methods == {"stk", "card", "paypal", "bank"}
Rails == Methods \ {"bank"}

ASSUME PaymentsAssumption ==
    /\ MinorPerShilling \in Nat \ {0}
    /\ MinimumMinor \in Nat
    /\ Amounts \subseteq Nat
    /\ Live \subseteq Rails
    /\ PAYPAL_CURRENCY # "KES"
    /\ Payments \subseteq Sources
    /\ OpeningBalance \in Nat
    /\ MaxFaults \in Nat

\* A row of stk_payments.  checkout tells whether checkoutRequestId is set;
\* settledBy is kept for the properties.
Payment == [org : Orgs, method : Methods, amountMinor : Nat,
            status : {"pending", "paid", "failed"}, checkout : BOOLEAN,
            settledBy : {"nobody", "rail", "admin"}]

\* A request that read a pending payment: it will ask the rail, or settle
\* the row with the outcome it has learnt.
Call == [payment : Payments, step : {"ask", "settle"},
         success : BOOLEAN, by : {"rail", "admin"}]

\* A top-up row of the ledger, with what its description refers to.
Entry == [amountMinor : Nat, balanceAfter : Int, source : Sources]

ASSUME PaymentRowAssumption == Null \notin Payment /\ Null \notin Call

VARIABLES
    payments,     \* stk_payments
    initiation,   \* how far the request that starts each payment is
    rail,         \* what the rail has done about each payment
    timers,       \* sandbox completions scheduled in memory
    callbacks,    \* callbacks M-Pesa has sent: payment and outcome
    handlers,     \* requests that are being served
    balance,      \* wallets.balanceMinor
    ledger,       \* top-up rows of each wallet, oldest first
    faults        \* how many faults happened

walletVars == <<balance, ledger>>
vars == <<payments, initiation, rail, timers, callbacks, handlers, walletVars, faults>>

TypeOK ==
    /\ payments \in [Payments -> Payment \cup {Null}]
    /\ initiation \in [Payments -> {"new", "created", "answered", "returned", "error",
                                 "invalid"}]
    /\ rail \in [Payments -> {"none", "open", "approved", "taken", "refused"}]
    /\ timers \subseteq Payments
    /\ callbacks \subseteq Payments \X BOOLEAN
    /\ handlers \in [Handlers -> Call \cup {Null}]
    /\ balance \in [Orgs -> Int]
    /\ ledger \in [Orgs -> Seq(Entry)]
    /\ faults \in Nat

Init ==
    /\ payments = [p \in Payments |-> Null]
    /\ initiation = [p \in Payments |-> "new"]
    /\ rail = [p \in Payments |-> "none"]
    /\ timers = {}
    /\ callbacks = {}
    /\ handlers = [h \in Handlers |-> Null]
    /\ balance = [o \in Orgs |-> OpeningBalance]
    /\ ledger = [o \in Orgs |-> << >>]
    /\ faults = 0

-----------------------------------------------------------------------------
(* Helpers.                                                                *)

IsLive(p) == payments[p].method \in Live

IsPending(p) == payments[p] # Null /\ payments[p].status = "pending"

Recorded(p) == payments[p] # Null /\ payments[p].checkout

\* Mutant of CollectedMinor: Daraja is asked for the next whole shilling.
CollectedRoundedUp(p) ==
    IF payments[p].method = "stk"
    THEN ((payments[p].amountMinor + MinorPerShilling - 1) \div MinorPerShilling)
             * MinorPerShilling
    ELSE payments[p].amountMinor

\* PayPal has no KES: its live orders are in the configured currency.
CurrencyOf(p) == IF payments[p].method = "paypal" THEN PAYPAL_CURRENCY ELSE "KES"

\* What the rail is asked to collect, in hundredths of CurrencyOf(p).  Daraja
\* takes whole shillings only, so initiateStk drops the cents.  A PayPal order
\* has the number of the shillings as its value, with no conversion.
CollectedMinor(p) ==
    IF payments[p].method = "stk"
    THEN (payments[p].amountMinor \div MinorPerShilling) * MinorPerShilling
    ELSE payments[p].amountMinor

Fault == faults < MaxFaults /\ faults' = faults + 1

Serve(h, p, step, success, by) ==
    /\ handlers[h] = Null
    /\ handlers' = [handlers EXCEPT ![h] =
          [payment |-> p, step |-> step, success |-> success, by |-> by]]

Reply(h) == handlers' = [handlers EXCEPT ![h] = Null]

-----------------------------------------------------------------------------
(* Starting a payment.                                                     *)

\* The row exists before the rail is asked.
Create(p, o, method, amount) ==
    /\ initiation[p] = "new"
    /\ amount >= MinimumMinor
    /\ payments' = [payments EXCEPT ![p] =
          [org |-> o, method |-> method, amountMinor |-> amount,
           status |-> "pending", checkout |-> FALSE, settledBy |-> "nobody"]]
    /\ initiation' = [initiation EXCEPT ![p] = "created"]
    /\ UNCHANGED <<rail, timers, callbacks, handlers, walletVars, faults>>

initiateStkPush(p, o, amount)     == Create(p, o, "stk", amount)
initiateCardTopUp(p, o, amount)   == Create(p, o, "card", amount)
initiatePayPalTopUp(p, o, amount) == Create(p, o, "paypal", amount)

\* A field of a request body is told by its JSON type.  class-validator's
\* @Min compares numbers and refuses everything else.
IsString(type) == type = "string"
IsAtLeast(type) == type = "number"

\* The decorators of paybillRef: @IsString() @Min(5).
ConfirmBankTransferDto(paybillRef) == IsString(paybillRef) /\ IsAtLeast(paybillRef)

\* confirmBankTransfer records a transfer the customer made elsewhere, to be
\* confirmed by an administrator; the request is validated first.
confirmBankTransfer(p, o, amount, paybillRef) ==
    /\ initiation[p] = "new"
    /\ amount >= MinimumMinor
    /\ IF ConfirmBankTransferDto(paybillRef)
       THEN /\ payments' = [payments EXCEPT ![p] =
                  [org |-> o, method |-> "bank", amountMinor |-> amount,
                   status |-> "pending", checkout |-> FALSE, settledBy |-> "nobody"]]
            /\ initiation' = [initiation EXCEPT ![p] = "returned"]
       ELSE /\ initiation' = [initiation EXCEPT ![p] = "invalid"]
            /\ UNCHANGED payments
    /\ UNCHANGED <<rail, timers, callbacks, handlers, walletVars, faults>>

\* The rail opens a collection and answers with its identifier; the M-Pesa
\* sandbox schedules its completion at this point.
RailOpens(p, method) ==
    /\ initiation[p] = "created"
    /\ payments[p].method = method
    /\ initiation' = [initiation EXCEPT ![p] = "answered"]
    /\ rail' = [rail EXCEPT ![p] = IF IsLive(p) THEN "open" ELSE @]
    /\ timers' = IF ~IsLive(p) /\ payments[p].method = "stk"
                 THEN timers \cup {p} ELSE timers
    /\ UNCHANGED <<payments, callbacks, handlers, walletVars, faults>>

initiateStk(p)               == RailOpens(p, "stk")
stripeCreatePaymentIntent(p) == RailOpens(p, "card")
paypalCreateOrder(p)         == RailOpens(p, "paypal")

OpenCollection(p) == initiateStk(p) \/ stripeCreatePaymentIntent(p) \/ paypalCreateOrder(p)

\* The call to the rail fails, or its answer is lost after the collection
\* was opened: the request throws and the row stays without an identifier.
RailCallFails(p) ==
    /\ initiation[p] = "created"
    /\ IsLive(p)
    /\ Fault
    /\ initiation' = [initiation EXCEPT ![p] = "error"]
    /\ rail' \in {rail, [rail EXCEPT ![p] = "open"]}
    /\ UNCHANGED <<payments, timers, callbacks, handlers, walletVars>>

\* The identifier is stored and the request returns; the card and PayPal
\* sandboxes schedule their completion now.
RecordCheckout(p) ==
    /\ initiation[p] = "answered"
    /\ payments' = [payments EXCEPT ![p].checkout = TRUE]
    /\ initiation' = [initiation EXCEPT ![p] = "returned"]
    /\ timers' = IF ~IsLive(p) /\ payments[p].method # "stk"
                 THEN timers \cup {p} ELSE timers
    /\ UNCHANGED <<rail, callbacks, handlers, walletVars, faults>>

-----------------------------------------------------------------------------
(* The customer and the rail (external).                                   *)

\* M-Pesa and Stripe take the money when the customer pays, and M-Pesa
\* calls back; PayPal only notes the approval, capture takes the money.
CustomerPays(p) ==
    /\ rail[p] = "open"
    /\ rail' = [rail EXCEPT ![p] =
          IF payments[p].method = "paypal" THEN "approved" ELSE "taken"]
    /\ callbacks' = IF payments[p].method = "stk"
                    THEN callbacks \cup {<<p, TRUE>>} ELSE callbacks
    /\ UNCHANGED <<payments, initiation, timers, handlers, walletVars, faults>>

CustomerRefuses(p) ==
    /\ rail[p] = "open"
    /\ payments[p].method # "paypal"
    /\ rail' = [rail EXCEPT ![p] = "refused"]
    /\ callbacks' = IF payments[p].method = "stk"
                    THEN callbacks \cup {<<p, FALSE>>} ELSE callbacks
    /\ UNCHANGED <<payments, initiation, timers, handlers, walletVars, faults>>

-----------------------------------------------------------------------------
(* Everyone who tries to settle a payment.                                 *)

\* applyCallback reads the row; a callback whose identifier is not the
\* recorded one is dropped, and M-Pesa is told it was accepted all the same.
applyCallback(h, p, success) ==
    /\ <<p, success>> \in callbacks
    /\ Recorded(p)
    /\ IsPending(p)
    /\ Serve(h, p, "settle", success, "rail")
    /\ UNCHANGED <<payments, initiation, rail, timers, callbacks, walletVars, faults>>

\* The sandbox timer fires once; autoComplete finds the row by its
\* identifier, and does nothing while that is not recorded.
autoComplete(h, p) ==
    /\ p \in timers
    /\ timers' = timers \ {p}
    /\ IF Recorded(p) /\ IsPending(p)
       THEN Serve(h, p, "settle", TRUE, "rail")
       ELSE UNCHANGED handlers
    /\ UNCHANGED <<payments, initiation, rail, callbacks, walletVars, faults>>

\* A settled row, or one of another method, is returned as it is; otherwise
\* the live rail is asked, and the sandbox settles at once.
CheckOf(h, p, method) ==
    /\ Recorded(p)
    /\ payments[p].method = method
    /\ IsPending(p)
    /\ Serve(h, p, IF IsLive(p) THEN "ask" ELSE "settle", TRUE, "rail")
    /\ UNCHANGED <<payments, initiation, rail, timers, callbacks, walletVars, faults>>

syncStatus(h, p)           == CheckOf(h, p, "stk")
confirmCardPayment(h, p)   == CheckOf(h, p, "card")
capturePayPalPayment(h, p) == CheckOf(h, p, "paypal")

Check(h, p) == syncStatus(h, p) \/ confirmCardPayment(h, p) \/ capturePayPalPayment(h, p)

Learn(h, success) ==
    handlers' = [handlers EXCEPT ![h].step = "settle", ![h].success = success]

Asking(h, methods) ==
    /\ handlers[h] # Null
    /\ handlers[h].step = "ask"
    /\ payments[handlers[h].payment].method \in methods

\* Mutant of RailTells: whatever is not pending is paid.
RailTellsNotPending(h, method) ==
    /\ Asking(h, {method})
    /\ IF rail[handlers[h].payment] = "open" THEN Reply(h) ELSE Learn(h, TRUE)
    /\ UNCHANGED <<payments, initiation, rail, timers, callbacks, walletVars, faults>>

\* Mutant of RailTells: what is taken is left to the callback.
RailTellsOpen(h, method) ==
    /\ Asking(h, {method})
    /\ LET state == rail[handlers[h].payment]
       IN  \/ state \in {"open", "taken"} /\ Reply(h)
           \/ state = "refused" /\ Learn(h, FALSE)
    /\ UNCHANGED <<payments, initiation, rail, timers, callbacks, walletVars, faults>>

\* The rail tells what became of the collection: an open one leaves the
\* payment pending.
RailTells(h, method) ==
    /\ Asking(h, {method})
    /\ LET state == rail[handlers[h].payment]
       IN  \/ state = "open" /\ Reply(h)
           \/ state = "taken" /\ Learn(h, TRUE)
           \/ state = "refused" /\ Learn(h, FALSE)
    /\ UNCHANGED <<payments, initiation, rail, timers, callbacks, walletVars, faults>>

queryStk(h)                    == RailTells(h, "stk")
stripeRetrievePaymentIntent(h) == RailTells(h, "card")

\* Capturing an approved order takes the money; an order that is not
\* approved, or was captured before, is an error and the row stays pending.
CaptureOrder(h) ==
    /\ Asking(h, {"paypal"})
    /\ LET p == handlers[h].payment
       IN  \/ /\ rail[p] = "approved"
              /\ rail' = [rail EXCEPT ![p] = "taken"]
              /\ Learn(h, TRUE)
           \/ /\ rail[p] # "approved"
              /\ Reply(h)
              /\ UNCHANGED rail
    /\ UNCHANGED <<payments, initiation, timers, callbacks, walletVars, faults>>

\* confirmBankPayment: a platform administrator decides any payment by its
\* id; the method is not looked at.
confirmBankPayment(h, p, success) ==
    /\ payments[p] # Null
    /\ Serve(h, p, "settle", success, "admin")
    /\ UNCHANGED <<payments, initiation, rail, timers, callbacks, walletVars, faults>>

\* Mutant of Credit: balanceAfter is the value read before the UPDATE.
CreditOfRead(o, amount, p) ==
    /\ balance' = [balance EXCEPT ![o] = @ + amount]
    /\ ledger' = [ledger EXCEPT ![o] = Append(@,
          [amountMinor |-> amount, balanceAfter |-> balance[o], source |-> p])]

Credit(o, amount, p) ==
    /\ balance' = [balance EXCEPT ![o] = @ + amount]
    /\ ledger' = [ledger EXCEPT ![o] = Append(@,
          [amountMinor |-> amount, balanceAfter |-> balance'[o], source |-> p])]

\* Mutant of Decide: the word of the rail is stored.
DecideVerbatim(p, success, by) ==
    payments' = [payments EXCEPT ![p].status = IF success THEN "completed" ELSE "canceled",
                                 ![p].settledBy = by]

Decide(p, success, by) ==
    payments' = [payments EXCEPT ![p].status = IF success THEN "paid" ELSE "failed",
                                 ![p].settledBy = by]

\* Mutant of finalize: the row is updated by its id alone, on the strength
\* of the status that was read before the rail was asked.
finalizeUnclaimed(h) ==
    /\ handlers[h] # Null
    /\ handlers[h].step = "settle"
    /\ LET call == handlers[h]
           row  == payments[call.payment]
       IN  /\ Decide(call.payment, call.success, call.by)
           /\ IF call.success THEN Credit(row.org, row.amountMinor, call.payment)
                              ELSE UNCHANGED walletVars
    /\ Reply(h)
    /\ UNCHANGED <<initiation, rail, timers, callbacks, faults>>

\* One transaction: UPDATE ... WHERE status = 'pending' claims the row (a
\* concurrent finalizer waits for it and then matches nothing), and a
\* success credits the wallet and writes the ledger row.
finalize(h) ==
    /\ handlers[h] # Null
    /\ handlers[h].step = "settle"
    /\ LET call == handlers[h]
           row  == payments[call.payment]
       IN  \/ /\ row.status # "pending"
              /\ UNCHANGED <<payments, walletVars>>
           \/ /\ row.status = "pending"
              /\ Decide(call.payment, call.success, call.by)
              /\ IF call.success THEN Credit(row.org, row.amountMinor, call.payment)
                                 ELSE UNCHANGED walletVars
    /\ Reply(h)
    /\ UNCHANGED <<initiation, rail, timers, callbacks, faults>>

-----------------------------------------------------------------------------
(* Faults.                                                                 *)

\* A request fails: its query to the rail or the database, or its open
\* transaction, which rolls back.  A capture may have taken the money first.
RequestFails(h) ==
    /\ handlers[h] # Null
    /\ Fault
    /\ LET p == handlers[h].payment
       IN  rail' \in {rail} \cup
              (IF Asking(h, {"paypal"}) /\ rail[p] = "approved"
               THEN {[rail EXCEPT ![p] = "taken"]} ELSE {})
    /\ Reply(h)
    /\ UNCHANGED <<payments, initiation, timers, callbacks, walletVars>>

\* The server restarts: requests in progress and timers are lost, rows stay.
Crash ==
    /\ Fault
    /\ handlers' = [h \in Handlers |-> Null]
    /\ timers' = {}
    /\ initiation' = [p \in Payments |->
          IF initiation[p] \in {"created", "answered"} THEN "error" ELSE initiation[p]]
    /\ UNCHANGED <<payments, rail, callbacks, walletVars>>

-----------------------------------------------------------------------------
(* The next-state relation.                                                *)

Continue(h) ==
    \/ queryStk(h)
    \/ stripeRetrievePaymentIntent(h)
    \/ CaptureOrder(h)
    \/ finalize(h)

Next ==
    \/ \E p \in Payments, o \in Orgs, amount \in Amounts :
           \/ initiateStkPush(p, o, amount)
           \/ initiateCardTopUp(p, o, amount)
           \/ initiatePayPalTopUp(p, o, amount)
           \/ confirmBankTransfer(p, o, amount, "string")
    \/ \E p \in Payments : OpenCollection(p)
    \/ \E p \in Payments : RailCallFails(p)
    \/ \E p \in Payments : RecordCheckout(p)
    \/ \E p \in Payments : CustomerPays(p)
    \/ \E p \in Payments : CustomerRefuses(p)
    \/ \E h \in Handlers, p \in Payments, success \in BOOLEAN :
           applyCallback(h, p, success)
    \/ \E h \in Handlers, p \in Payments : autoComplete(h, p)
    \/ \E h \in Handlers, p \in Payments : Check(h, p)
    \/ \E h \in Handlers, p \in Payments, success \in BOOLEAN :
           confirmBankPayment(h, p, success)
    \/ \E h \in Handlers : Continue(h)
    \/ \E h \in Handlers : RequestFails(h)
    \/ Crash

Spec == Init /\ [][Next]_vars

\* A request that is being served goes on: the server keeps executing, and
\* every call it makes to a rail or the database returns or fails.
FairSpec ==
    /\ Spec
    /\ \A p \in Payments : WF_vars(OpenCollection(p) \/ RecordCheckout(p))
    /\ \A h \in Handlers : WF_vars(Continue(h))

-----------------------------------------------------------------------------
(* Properties.                                                             *)

CreditsOf(p, o) == {i \in DOMAIN ledger[o] : ledger[o][i].source = p}

\* Whatever callbacks, polls, timers and administrators race, a payment that
\* is paid has exactly one top-up row, of its amount and in the wallet of its
\* organization, and any other payment has none.
CreditedOnce ==
    \A p \in Payments, o \in Orgs :
        LET paid == /\ payments[p] # Null
                    /\ payments[p].status = "paid"
                    /\ payments[p].org = o
        IN  /\ Cardinality(CreditsOf(p, o)) = IF paid THEN 1 ELSE 0
            /\ \A i \in CreditsOf(p, o) :
                   ledger[o][i].amountMinor = payments[p].amountMinor

\* Unless an administrator decided it, a live payment is paid only if the
\* rail took the money and failed only if the rail refused it, however old
\* the answer is that settles it.
SettledAsTheRailDid ==
    \A p \in Payments :
        payments[p] # Null /\ payments[p].settledBy = "rail" /\ IsLive(p) =>
            /\ payments[p].status = "paid" => rail[p] = "taken"
            /\ payments[p].status = "failed" => rail[p] = "refused"

KeepsChecking(p) == []<><<\E h \in Handlers : Check(h, p)>>_vars

\* A customer who keeps checking is not left without the top-up: a payment
\* that M-Pesa or Stripe has taken does not stay pending for ever while its
\* status is asked for again and again, even if every callback is lost.
CheckingCredits ==
    \A p \in Payments :
        KeepsChecking(p) =>
            ~<>[](IsPending(p) /\ payments[p].method # "paypal" /\ rail[p] = "taken")

\* Every callback is delivered and every payment that can be checked is.
EagerSpec ==
    /\ FairSpec
    /\ \A p \in Payments :
           /\ SF_vars(\E h \in Handlers : Check(h, p))
           /\ SF_vars(\E h \in Handlers, success \in BOOLEAN : applyCallback(h, p, success))

\* What the payment table's comment says: on success (callback or poll) the
\* wallet is credited, if no administrator has decided otherwise.
TakenIsCredited ==
    \A p \in Payments :
        rail[p] = "taken" ~> /\ payments[p] # Null
                             /\ payments[p].status = "paid" \/ payments[p].settledBy = "admin"

-----------------------------------------------------------------------------
(* Top-ups implement the abstract account: deposits and nothing else.      *)

Account == INSTANCE PrepaidLedger WITH
    Accounts  <- Orgs,
    Purchases <- {},
    Opening   <- OpeningBalance,
    Unsettled <- Null,
    settled   <- [p \in {} |-> Null],
    ledger    <- [o \in Orgs |-> [i \in DOMAIN ledger[o] |->
                    [type |-> "topup", amountMinor |-> ledger[o][i].amountMinor,
                     balanceAfter |-> ledger[o][i].balanceAfter]]]

\* However often and by whomever payments are settled, the wallets move only
\* by deposits that write their ledger row in the same step.
ImplementsAccount == Account!Spec

-----------------------------------------------------------------------------
(* To those who ask for its status, a payment is what PaymentStatus says.  *)

FieldOf(p, field, none) == IF payments[p] = Null THEN none ELSE payments[p][field]

Status == INSTANCE PaymentStatus WITH
    Unset   <- Null,
    Tracked <- Payments,
    Ways    <- Methods,
    status  <- [p \in Payments |-> FieldOf(p, "status", "none")],
    method  <- [p \in Payments |-> FieldOf(p, "method", Null)]

\* Whoever polls, calls back, confirms or times out, a payment is created once,
\* keeps its rail, and is decided once and for good: what the console's wallet
\* page relies on when it follows several payments with overlapping requests.
ImplementsStatus == Status!StatusSpec
=============================================================================
