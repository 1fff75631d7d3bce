----------------------------- MODULE PaymentsProofs -----------------------------
(***************************************************************************)
(* Online payments, for any number of payments, organizations, requests,   *)
(* callbacks and faults: a payment is credited once and in full, as its    *)
(* rail decided, and to those who ask for its status it is what            *)
(* PaymentStatus says.  Wallets move by deposits only.                     *)
(*                                                                         *)
(* The last sections are about both ways a wallet is filled: what is       *)
(* proved of payments stays true while administrators review invoice       *)
(* requests over the same wallets, and the other way round.                *)
(***************************************************************************)
EXTENDS WalletTopUps, SumTheorems, FiniteSetTheorems, SequenceTheorems, TLAPS

-----------------------------------------------------------------------------
(* Types.                                                                  *)

\* The request that starts a payment has created its row, unless it is still
\* to do so or was refused.
RowsFollowRequests ==
    \A p \in Payments : payments[p] = Null <=> initiation[p] \in {"new", "invalid"}

\* Whoever is about to ask the rail or to settle has read a row.
HandlersHaveRows ==
    \A h \in Handlers : handlers[h] # Null => payments[handlers[h].payment] # Null

WellFormed == TypeOK /\ RowsFollowRequests /\ HandlersHaveRows

LEMMA InitIsWellFormed == Init => WellFormed
  BY PaymentsAssumption
  DEF Init, WellFormed, TypeOK, RowsFollowRequests, HandlersHaveRows

\* Serving a request about a payment with a row.
LEMMA ServeIsWellFormed ==
    ASSUME WellFormed, NEW h \in Handlers, NEW p \in Payments, payments[p] # Null,
           NEW step \in {"ask", "settle"}, NEW success \in BOOLEAN,
           NEW by \in {"rail", "admin"},
           Serve(h, p, step, success, by), UNCHANGED payments
    PROVE  /\ handlers' \in [Handlers -> Call \cup {Null}]
           /\ HandlersHaveRows'
  <1> DEFINE call == [payment |-> p, step |-> step, success |-> success, by |-> by]
  <1>1. call \in Call /\ call.payment = p
    BY DEF Call
  <1>2. handlers' = [handlers EXCEPT ![h] = call]
    BY DEF Serve
  <1> HIDE DEF call
  <1> QED
    BY <1>1, <1>2 DEF WellFormed, TypeOK, HandlersHaveRows

\* A handler that has nothing more to do.
LEMMA ReplyIsWellFormed ==
    ASSUME WellFormed, NEW h \in Handlers, Reply(h),
           \A p \in Payments : payments[p] # Null => payments'[p] # Null
    PROVE  /\ handlers' \in [Handlers -> Call \cup {Null}]
           /\ HandlersHaveRows'
  BY DEF WellFormed, TypeOK, HandlersHaveRows, Reply, Call

\* The row that a request creates.
LEMMA CreateIsWellFormed ==
    ASSUME WellFormed, NEW p \in Payments, NEW o \in Orgs, NEW method \in Methods,
           NEW amount \in Amounts, Create(p, o, method, amount)
    PROVE  WellFormed'
  <1> DEFINE row == [org |-> o, method |-> method, amountMinor |-> amount,
                     status |-> "pending", checkout |-> FALSE, settledBy |-> "nobody"]
  <1>1. row \in Payment /\ row # Null
    <2>1. amount \in Nat
      BY PaymentsAssumption
    <2>2. row \in Payment
      BY <2>1 DEF Payment
    <2> QED
      BY <2>2, PaymentRowAssumption
  <1>2. /\ payments' = [payments EXCEPT ![p] = row]
        /\ initiation' = [initiation EXCEPT ![p] = "created"]
        /\ UNCHANGED <<rail, timers, callbacks, handlers, walletVars, faults>>
    BY DEF Create
  <1> HIDE DEF row
  <1>3. TypeOK'
    BY <1>1, <1>2 DEF WellFormed, TypeOK, walletVars
  <1>4. RowsFollowRequests' /\ HandlersHaveRows'
    BY <1>1, <1>2 DEF WellFormed, TypeOK, RowsFollowRequests, HandlersHaveRows, Call
  <1> QED
    BY <1>3, <1>4 DEF WellFormed

\* A bank transfer is refused before it has a row: paybillRef cannot be a
\* string and at least a number.
LEMMA TransferIsRefused ==
    ASSUME WellFormed, NEW p \in Payments, NEW o \in Orgs, NEW amount \in Amounts,
           confirmBankTransfer(p, o, amount, "string")
    PROVE  /\ initiation' = [initiation EXCEPT ![p] = "invalid"]
           /\ UNCHANGED <<payments, rail, timers, callbacks, handlers, walletVars, faults>>
           /\ WellFormed'
  <1>1. ~ConfirmBankTransferDto("string")
    BY DEF ConfirmBankTransferDto, IsString, IsAtLeast
  <1>2. /\ initiation[p] = "new"
        /\ initiation' = [initiation EXCEPT ![p] = "invalid"]
        /\ UNCHANGED <<payments, rail, timers, callbacks, handlers, walletVars, faults>>
    BY <1>1 DEF confirmBankTransfer
  <1>3. WellFormed'
    BY <1>2 DEF WellFormed, TypeOK, RowsFollowRequests, HandlersHaveRows, walletVars
  <1> QED
    BY <1>2, <1>3

\* The rail is asked, and the row gets its identifier.
LEMMA InitiationIsWellFormed ==
    ASSUME WellFormed, NEW p \in Payments,
           OpenCollection(p) \/ RailCallFails(p) \/ RecordCheckout(p)
    PROVE  WellFormed'
  <1>1. CASE OpenCollection(p)
    BY <1>1 DEF OpenCollection, initiateStk, stripeCreatePaymentIntent, paypalCreateOrder,
                RailOpens, WellFormed, TypeOK, RowsFollowRequests, HandlersHaveRows, walletVars
  <1>2. CASE RailCallFails(p)
    BY <1>2 DEF RailCallFails, Fault, WellFormed, TypeOK, RowsFollowRequests,
                HandlersHaveRows, walletVars
  <1>3. CASE RecordCheckout(p)
    <2>1. payments[p] \in Payment
      BY <1>3 DEF RecordCheckout, WellFormed, TypeOK, RowsFollowRequests
    <2>2. [payments[p] EXCEPT !.checkout = TRUE] \in Payment
      BY <2>1 DEF Payment
    <2>3. payments' = [payments EXCEPT ![p] = [payments[p] EXCEPT !.checkout = TRUE]]
      BY <1>3 DEF RecordCheckout
    <2>4. TypeOK'
      BY <1>3, <2>2, <2>3 DEF RecordCheckout, WellFormed, TypeOK, walletVars
    <2>5. \A q \in Payments : payments'[q] = Null <=> payments[q] = Null
      BY <2>1, <2>2, <2>3, PaymentRowAssumption DEF WellFormed, TypeOK
    <2>6. RowsFollowRequests' /\ HandlersHaveRows'
      BY <1>3, <2>5 DEF RecordCheckout, WellFormed, TypeOK, RowsFollowRequests,
                        HandlersHaveRows, Call
    <2> QED
      BY <2>4, <2>6 DEF WellFormed
  <1> QED
    BY <1>1, <1>2, <1>3

\* What the rail does leaves the rows alone.
LEMMA CustomerIsWellFormed ==
    ASSUME WellFormed, NEW p \in Payments, CustomerPays(p) \/ CustomerRefuses(p)
    PROVE  WellFormed'
  <1>1. /\ UNCHANGED <<payments, initiation, timers, handlers, walletVars, faults>>
        /\ \E state \in {"approved", "taken", "refused"} :
               rail' = [rail EXCEPT ![p] = state]
        /\ \E success \in BOOLEAN : callbacks' \subseteq callbacks \cup {<<p, success>>}
    BY DEF CustomerPays, CustomerRefuses
  <1>2. TypeOK'
    BY <1>1 DEF WellFormed, TypeOK, walletVars
  <1>3. RowsFollowRequests' /\ HandlersHaveRows'
    BY <1>1 DEF WellFormed, RowsFollowRequests, HandlersHaveRows
  <1> QED
    BY <1>2, <1>3 DEF WellFormed

\* A callback, a poll or a confirmation, the timer, an administrator: each
\* reads a row and starts to settle it.
LEMMA ReadersServe ==
    ASSUME WellFormed, NEW h \in Handlers, NEW p \in Payments,
           \/ \E success \in BOOLEAN :
                  applyCallback(h, p, success) \/ confirmBankPayment(h, p, success)
           \/ autoComplete(h, p)
           \/ Check(h, p)
    PROVE  /\ UNCHANGED <<payments, initiation, rail, callbacks, walletVars, faults>>
           /\ timers' \subseteq timers
           /\ \/ UNCHANGED handlers
              \/ /\ payments[p] # Null
                 /\ \E step \in {"ask", "settle"}, success \in BOOLEAN, by \in {"rail", "admin"} :
                        Serve(h, p, step, success, by)
  BY DEF applyCallback, confirmBankPayment, autoComplete, Check, syncStatus,
         confirmCardPayment, capturePayPalPayment, CheckOf, Recorded, IsPending

LEMMA ReadersAreWellFormed ==
    ASSUME WellFormed, NEW h \in Handlers, NEW p \in Payments,
           \/ \E success \in BOOLEAN :
                  applyCallback(h, p, success) \/ confirmBankPayment(h, p, success)
           \/ autoComplete(h, p)
           \/ Check(h, p)
    PROVE  WellFormed'
  <1>1. /\ UNCHANGED <<payments, initiation, rail, callbacks, walletVars, faults>>
        /\ timers' \subseteq timers
    BY ReadersServe
  <1>2. handlers' \in [Handlers -> Call \cup {Null}] /\ HandlersHaveRows'
    <2>1. CASE UNCHANGED handlers
      BY <1>1, <2>1 DEF WellFormed, TypeOK, HandlersHaveRows
    <2>2. CASE handlers' # handlers
      BY <1>1, <2>2, ReadersServe, ServeIsWellFormed
    <2> QED
      BY <2>1, <2>2
  <1> QED
    BY <1>1, <1>2 DEF WellFormed, TypeOK, RowsFollowRequests, walletVars

\* The rail's answer: the handler ends, or will settle what it was told.
LEMMA AnswersAreWellFormed ==
    ASSUME WellFormed, NEW h \in Handlers,
           queryStk(h) \/ stripeRetrievePaymentIntent(h) \/ CaptureOrder(h)
    PROVE  WellFormed'
  <1>1. /\ handlers[h] # Null
        /\ UNCHANGED <<payments, initiation, timers, callbacks, walletVars, faults>>
        /\ Reply(h) \/ \E success \in BOOLEAN : Learn(h, success)
    BY DEF queryStk, stripeRetrievePaymentIntent, CaptureOrder, RailTells, Asking
  <1>2. rail' \in [Payments -> {"none", "open", "approved", "taken", "refused"}]
    BY DEF queryStk, stripeRetrievePaymentIntent, CaptureOrder, RailTells, WellFormed, TypeOK
  <1>3. handlers' \in [Handlers -> Call \cup {Null}] /\ HandlersHaveRows'
    <2>1. CASE Reply(h)
      BY <1>1, <2>1, ReplyIsWellFormed
    <2>2. ASSUME NEW success \in BOOLEAN, Learn(h, success)
          PROVE  handlers' \in [Handlers -> Call \cup {Null}] /\ HandlersHaveRows'
      <3> DEFINE call == [handlers[h] EXCEPT !.step = "settle", !.success = success]
      <3>1. handlers[h] \in Call
        BY <1>1 DEF WellFormed, TypeOK
      <3>2. call \in Call /\ call.payment = handlers[h].payment
        BY <3>1 DEF Call
      <3>3. handlers' = [handlers EXCEPT ![h] = call]
        BY <2>2 DEF Learn
      <3> HIDE DEF call
      <3> QED
        BY <1>1, <3>2, <3>3 DEF WellFormed, TypeOK, HandlersHaveRows
    <2> QED
      BY <1>1, <2>1, <2>2
  <1> QED
    BY <1>1, <1>2, <1>3 DEF WellFormed, TypeOK, RowsFollowRequests, walletVars

\* A row is decided, and its success credited.
Settles(p, success, by) ==
    /\ payments[p] \in Payment
    /\ payments[p].status = "pending"
    /\ Decide(p, success, by)
    /\ \/ success /\ Credit(payments[p].org, payments[p].amountMinor, p)
       \/ ~success /\ UNCHANGED walletVars

\* finalize decides the row of its handler, or finds it decided.
LEMMA FinalizeSettles ==
    ASSUME WellFormed, NEW h \in Handlers, finalize(h)
    PROVE  /\ handlers[h] \in Call
           /\ handlers[h].step = "settle"
           /\ Reply(h)
           /\ UNCHANGED <<initiation, rail, timers, callbacks, faults>>
           /\ \/ UNCHANGED <<payments, walletVars>>
              \/ Settles(handlers[h].payment, handlers[h].success, handlers[h].by)
  <1>1. handlers[h] \in Call /\ payments[handlers[h].payment] \in Payment
    BY DEF finalize, WellFormed, TypeOK, HandlersHaveRows, Call
  <1> QED
    BY <1>1 DEF finalize, Settles

\* A settled row is the row it was, with its outcome.
LEMMA SettleEffect ==
    ASSUME WellFormed, NEW p \in Payments, NEW success \in BOOLEAN, NEW by \in {"rail", "admin"},
           Settles(p, success, by)
    PROVE  /\ payments[p] \in Payment /\ payments[p] # Null
           /\ payments[p].status = "pending"
           /\ payments' = [payments EXCEPT ![p] = payments'[p]]
           /\ payments'[p] \in Payment
           /\ payments'[p].status = IF success THEN "paid" ELSE "failed"
           /\ payments'[p].settledBy = by
           /\ payments'[p].method = payments[p].method
           /\ payments'[p].org = payments[p].org
           /\ payments'[p].amountMinor = payments[p].amountMinor
  <1> DEFINE outcome == IF success THEN "paid" ELSE "failed"
             row == [payments[p] EXCEPT !.status = outcome, !.settledBy = by]
  <1>1. payments[p] \in Payment /\ payments[p] # Null /\ payments[p].status = "pending"
    BY PaymentRowAssumption DEF Settles
  <1>2. outcome \in {"paid", "failed"}
    OBVIOUS
  <1>3. payments' = [payments EXCEPT ![p] = row]
    BY DEF Settles, Decide
  <1> HIDE DEF outcome
  <1>4. /\ row \in Payment
        /\ row.status = outcome
        /\ row.settledBy = by
        /\ row.method = payments[p].method
        /\ row.org = payments[p].org
        /\ row.amountMinor = payments[p].amountMinor
    BY <1>1, <1>2 DEF Payment
  <1> HIDE DEF row
  <1>5. payments'[p] = row
    BY <1>3 DEF WellFormed, TypeOK
  <1> QED
    BY <1>1, <1>3, <1>4, <1>5 DEF outcome

\* The row of a credit, and what it leaves of the wallets.
LEMMA CreditType ==
    ASSUME WellFormed, NEW o \in Orgs, NEW amount \in Nat, NEW p \in Sources,
           Credit(o, amount, p)
    PROVE  \E entry \in Entry :
               /\ entry = [amountMinor |-> amount, balanceAfter |-> balance[o] + amount, source |-> p]
               /\ balance' = [balance EXCEPT ![o] = @ + amount]
               /\ balance' \in [Orgs -> Int]
               /\ balance'[o] = balance[o] + amount
               /\ ledger' = [ledger EXCEPT ![o] = Append(@, entry)]
               /\ ledger' \in [Orgs -> Seq(Entry)]
  <1> DEFINE entry == [amountMinor |-> amount, balanceAfter |-> balance[o] + amount, source |-> p]
  <1>1. /\ balance' = [balance EXCEPT ![o] = @ + amount]
        /\ balance' \in [Orgs -> Int]
        /\ balance'[o] = balance[o] + amount
        /\ balance[o] \in Int
    BY DEF Credit, WellFormed, TypeOK
  <1>2. entry \in Entry
    BY <1>1, PaymentsAssumption DEF Entry
  <1>3. ledger' = [ledger EXCEPT ![o] = Append(@, entry)]
    BY <1>1 DEF Credit
  <1> HIDE DEF entry
  <1>4. ledger' \in [Orgs -> Seq(Entry)]
    BY <1>2, <1>3 DEF WellFormed, TypeOK
  <1> QED
    BY <1>1, <1>2, <1>3, <1>4 DEF entry

LEMMA FinalizeIsWellFormed ==
    ASSUME WellFormed, NEW h \in Handlers, finalize(h)
    PROVE  WellFormed'
  <1> DEFINE p == handlers[h].payment
  <1>1. /\ p \in Payments
        /\ handlers[h].success \in BOOLEAN
        /\ handlers[h].by \in {"rail", "admin"}
        /\ Reply(h)
        /\ UNCHANGED <<initiation, rail, timers, callbacks, faults>>
    BY FinalizeSettles DEF Call
  <1>2. CASE UNCHANGED <<payments, walletVars>>
    BY <1>1, <1>2, ReplyIsWellFormed DEF WellFormed, TypeOK, RowsFollowRequests, walletVars
  <1>3. CASE Settles(p, handlers[h].success, handlers[h].by)
    <2>1. /\ payments' = [payments EXCEPT ![p] = payments'[p]]
          /\ payments'[p] \in Payment
          /\ payments[p] \in Payment
      BY <1>1, <1>3, SettleEffect
    <2> HIDE DEF p
    <2>2. /\ payments' \in [Payments -> Payment \cup {Null}]
          /\ \A q \in Payments : payments'[q] = Null <=> payments[q] = Null
      BY <1>1, <2>1, PaymentRowAssumption DEF WellFormed, TypeOK
    <2>3. handlers' \in [Handlers -> Call \cup {Null}] /\ HandlersHaveRows'
      BY <1>1, <2>2, ReplyIsWellFormed
    <2>4. balance' \in [Orgs -> Int] /\ ledger' \in [Orgs -> Seq(Entry)]
      <3>1. CASE UNCHANGED walletVars
        BY <3>1 DEF WellFormed, TypeOK, walletVars
      <3>2. CASE Credit(payments[p].org, payments[p].amountMinor, p)
        <4>1. payments[p].org \in Orgs /\ payments[p].amountMinor \in Nat
          BY <2>1 DEF Payment
        <4> QED
          BY <1>1, <3>2, <4>1, CreditType, PaymentsAssumption
      <3> QED
        BY <1>3, <3>1, <3>2 DEF Settles
    <2> QED
      BY <1>1, <2>2, <2>3, <2>4 DEF WellFormed, TypeOK, RowsFollowRequests
  <1> QED
    BY <1>2, <1>3, FinalizeSettles

LEMMA FaultsAreWellFormed ==
    ASSUME WellFormed, (\E h \in Handlers : RequestFails(h)) \/ Crash
    PROVE  WellFormed'
  <1>1. ASSUME NEW h \in Handlers, RequestFails(h) PROVE WellFormed'
    <2>1. handlers' \in [Handlers -> Call \cup {Null}] /\ HandlersHaveRows'
      BY <1>1, ReplyIsWellFormed DEF RequestFails
    <2>2. rail' \in [Payments -> {"none", "open", "approved", "taken", "refused"}]
      BY <1>1 DEF RequestFails, WellFormed, TypeOK
    <2> QED
      BY <1>1, <2>1, <2>2 DEF RequestFails, Fault, WellFormed, TypeOK, RowsFollowRequests, walletVars
  <1>2. CASE Crash
    BY <1>2 DEF Crash, Fault, WellFormed, TypeOK, RowsFollowRequests, HandlersHaveRows, walletVars
  <1> QED
    BY <1>1, <1>2

LEMMA NextIsWellFormed == WellFormed /\ [Next]_vars => WellFormed'
  <1> SUFFICES ASSUME WellFormed, [Next]_vars PROVE WellFormed'
    OBVIOUS
  <1>1. ASSUME NEW p \in Payments, NEW o \in Orgs, NEW amount \in Amounts,
               \/ initiateStkPush(p, o, amount)
               \/ initiateCardTopUp(p, o, amount)
               \/ initiatePayPalTopUp(p, o, amount)
               \/ confirmBankTransfer(p, o, amount, "string")
        PROVE  WellFormed'
    BY <1>1, CreateIsWellFormed, TransferIsRefused
    DEF initiateStkPush, initiateCardTopUp, initiatePayPalTopUp, Methods
  <1>2. ASSUME NEW p \in Payments, OpenCollection(p) \/ RailCallFails(p) \/ RecordCheckout(p)
        PROVE  WellFormed'
    BY <1>2, InitiationIsWellFormed
  <1>3. ASSUME NEW p \in Payments, CustomerPays(p) \/ CustomerRefuses(p)
        PROVE  WellFormed'
    BY <1>3, CustomerIsWellFormed
  <1>4. ASSUME NEW h \in Handlers, NEW p \in Payments,
               \/ \E success \in BOOLEAN :
                      applyCallback(h, p, success) \/ confirmBankPayment(h, p, success)
               \/ autoComplete(h, p)
               \/ Check(h, p)
        PROVE  WellFormed'
    BY <1>4, ReadersAreWellFormed
  <1>5. ASSUME NEW h \in Handlers, Continue(h) PROVE WellFormed'
    BY <1>5, AnswersAreWellFormed, FinalizeIsWellFormed DEF Continue
  <1>6. CASE (\E h \in Handlers : RequestFails(h)) \/ Crash
    BY <1>6, FaultsAreWellFormed
  <1>7. CASE UNCHANGED vars
    BY <1>7 DEF vars, walletVars, WellFormed, TypeOK, RowsFollowRequests, HandlersHaveRows
  <1> QED
    BY <1>1, <1>2, <1>3, <1>4, <1>5, <1>6, <1>7 DEF Next

LEMMA AlwaysWellFormed == Spec => []WellFormed
  BY InitIsWellFormed, NextIsWellFormed, PTL DEF Spec

\* Rows, identifiers, requests, wallets and ledger keep their types; and a row
\* exists exactly when its request has created it, so that whoever settles a
\* payment has a row to settle.
THEOREM PaymentsTypeCorrect == Spec => [](TypeOK /\ RowsFollowRequests /\ HandlersHaveRows)
  BY AlwaysWellFormed, PTL DEF WellFormed

-----------------------------------------------------------------------------
(* What a step does to rows and wallets.                                   *)

\* A row is created, gets its identifier or is settled, or rows and wallets
\* are left alone.
RowStep ==
    \/ UNCHANGED <<payments, walletVars>>
    \/ \E p \in Payments, o \in Orgs, method \in Methods, amount \in Amounts :
           Create(p, o, method, amount)
    \/ \E p \in Payments : RecordCheckout(p)
    \/ \E p \in Payments, success \in BOOLEAN, by \in {"rail", "admin"} :
           Settles(p, success, by)

\* There are no other steps.
LEMMA StepsOfRows ==
    ASSUME WellFormed, [Next]_vars
    PROVE  RowStep
  <1>1. ASSUME NEW p \in Payments, NEW o \in Orgs, NEW amount \in Amounts,
               \/ initiateStkPush(p, o, amount)
               \/ initiateCardTopUp(p, o, amount)
               \/ initiatePayPalTopUp(p, o, amount)
               \/ confirmBankTransfer(p, o, amount, "string")
        PROVE  RowStep
    BY <1>1, TransferIsRefused
    DEF RowStep, initiateStkPush, initiateCardTopUp, initiatePayPalTopUp, Methods
  <1>2. ASSUME NEW p \in Payments, OpenCollection(p) \/ RailCallFails(p)
                                   \/ CustomerPays(p) \/ CustomerRefuses(p)
        PROVE  RowStep
    BY <1>2 DEF RowStep, OpenCollection, initiateStk, stripeCreatePaymentIntent, paypalCreateOrder,
                RailOpens, RailCallFails, CustomerPays, CustomerRefuses
  <1>3. ASSUME NEW h \in Handlers, NEW p \in Payments,
               \/ \E success \in BOOLEAN :
                      applyCallback(h, p, success) \/ confirmBankPayment(h, p, success)
               \/ autoComplete(h, p)
               \/ Check(h, p)
        PROVE  RowStep
    BY <1>3, ReadersServe DEF RowStep
  <1>4. ASSUME NEW h \in Handlers, finalize(h) PROVE RowStep
    BY <1>4, FinalizeSettles DEF RowStep, Call
  <1>5. ASSUME NEW h \in Handlers,
               \/ queryStk(h) \/ stripeRetrievePaymentIntent(h) \/ CaptureOrder(h)
               \/ RequestFails(h)
        PROVE  RowStep
    BY <1>5 DEF RowStep, queryStk, stripeRetrievePaymentIntent, CaptureOrder, RailTells, RequestFails
  <1>6. CASE Crash \/ UNCHANGED vars
    BY <1>6 DEF RowStep, Crash, vars
  <1>7. ASSUME NEW p \in Payments, RecordCheckout(p) PROVE RowStep
    BY <1>7 DEF RowStep
  <1>8. ASSUME NEW h \in Handlers, Continue(h) \/ RequestFails(h) PROVE RowStep
    BY <1>4, <1>5, <1>8 DEF Continue
  <1> QED
    BY <1>1, <1>2, <1>3, <1>6, <1>7, <1>8 DEF Next

\* A row is created where there was none.
LEMMA CreateEffect ==
    ASSUME WellFormed, NEW p \in Payments, NEW o \in Orgs, NEW method \in Methods,
           NEW amount \in Amounts, Create(p, o, method, amount)
    PROVE  /\ payments[p] = Null
           /\ payments'[p] \in Payment
           /\ payments'[p].status = "pending"
           /\ payments'[p].method = method
           /\ payments'[p].settledBy = "nobody"
           /\ payments' = [payments EXCEPT ![p] = payments'[p]]
           /\ UNCHANGED <<rail, timers, callbacks, handlers, walletVars>>
  <1>1. payments[p] = Null
    BY DEF Create, WellFormed, RowsFollowRequests
  <1>2. payments'[p] \in Payment /\ payments' = [payments EXCEPT ![p] = payments'[p]]
    <2>1. payments'[p] # Null
      BY CreateIsWellFormed DEF Create, WellFormed, TypeOK, RowsFollowRequests
    <2>2. payments'[p] \in Payment
      BY <2>1, CreateIsWellFormed DEF WellFormed, TypeOK
    <2> QED
      BY <2>2 DEF Create, WellFormed, TypeOK
  <1> QED
    BY <1>1, <1>2 DEF Create, WellFormed, TypeOK

\* An identifier changes nothing else of a row.
LEMMA RecordEffect ==
    ASSUME WellFormed, NEW p \in Payments, RecordCheckout(p)
    PROVE  /\ payments[p] \in Payment
           /\ payments'[p] = [payments[p] EXCEPT !.checkout = TRUE]
           /\ payments' = [payments EXCEPT ![p] = payments'[p]]
           /\ UNCHANGED <<rail, callbacks, handlers, walletVars>>
  BY DEF RecordCheckout, WellFormed, TypeOK, RowsFollowRequests

-----------------------------------------------------------------------------
(* Payments implement PaymentStatus.                                       *)

\* What others see of a payment.
statusOf == [p \in Payments |-> FieldOf(p, "status", "none")]
methodOf == [p \in Payments |-> FieldOf(p, "method", Null)]

\* Replacing one row replaces what others see of that payment.
LEMMA SeenOfRow ==
    ASSUME WellFormed, NEW p \in Payments, NEW row \in Payment,
           payments' = [payments EXCEPT ![p] = row]
    PROVE  /\ statusOf' = [statusOf EXCEPT ![p] = row.status]
           /\ methodOf' = [methodOf EXCEPT ![p] = row.method]
  <1>1. row # Null
    BY PaymentRowAssumption
  <1>2. \A q \in Payments : payments'[q] = IF q = p THEN row ELSE payments[q]
    BY DEF WellFormed, TypeOK
  <1>3. \A q \in Payments :
            /\ FieldOf(q, "status", "none")'
                   = IF q = p THEN row.status ELSE FieldOf(q, "status", "none")
            /\ FieldOf(q, "method", Null)'
                   = IF q = p THEN row.method ELSE FieldOf(q, "method", Null)
    BY <1>1, <1>2 DEF FieldOf
  <1> QED
    BY <1>3 DEF statusOf, methodOf

LEMMA InitSeen == Init => Status!StatusInit
  BY DEF Init, Status!StatusInit, FieldOf

LEMMA NextSeen ==
    WellFormed /\ [Next]_vars => [Status!StatusNext]_(Status!statusVars)
  <1> SUFFICES ASSUME WellFormed, [Next]_vars
               PROVE  Status!StatusNext \/ UNCHANGED <<statusOf, methodOf>>
    BY DEF Status!statusVars, statusOf, methodOf
  <1>1. CASE UNCHANGED payments
    BY <1>1 DEF statusOf, methodOf, FieldOf
  <1>2. ASSUME NEW p \in Payments, NEW o \in Orgs, NEW method \in Methods,
               NEW amount \in Amounts, Create(p, o, method, amount)
        PROVE  Status!StatusNext
    <2>1. statusOf' = [statusOf EXCEPT ![p] = "pending"]
          /\ methodOf' = [methodOf EXCEPT ![p] = method]
      BY <1>2, CreateEffect, SeenOfRow
    <2>2. statusOf[p] = "none"
      BY <1>2, CreateEffect DEF statusOf, FieldOf
    <2>3. Status!CreatePayment(p, method)
      BY <2>1, <2>2 DEF Status!CreatePayment, statusOf, methodOf
    <2> QED
      BY <2>3 DEF Status!StatusNext
  <1>3. ASSUME NEW p \in Payments, RecordCheckout(p)
        PROVE  UNCHANGED <<statusOf, methodOf>>
    <2>1. /\ payments[p] \in Payment /\ payments[p] # Null
          /\ payments'[p] \in Payment
          /\ payments'[p].status = payments[p].status
          /\ payments'[p].method = payments[p].method
          /\ payments' = [payments EXCEPT ![p] = payments'[p]]
      BY <1>3, RecordEffect, PaymentRowAssumption, ZenonT(60) DEF Payment
    <2>2. statusOf[p] = payments[p].status /\ methodOf[p] = payments[p].method
      BY <2>1 DEF statusOf, methodOf, FieldOf
    <2>3. /\ statusOf' = [statusOf EXCEPT ![p] = statusOf[p]]
          /\ methodOf' = [methodOf EXCEPT ![p] = methodOf[p]]
      BY <2>1, <2>2, SeenOfRow
    <2> QED
      BY <2>3 DEF statusOf, methodOf
  <1>4. ASSUME NEW p \in Payments, NEW success \in BOOLEAN, NEW by \in {"rail", "admin"},
               Settles(p, success, by)
        PROVE  Status!StatusNext
    <2> DEFINE outcome == IF success THEN "paid" ELSE "failed"
    <2>1. /\ payments[p] # Null /\ payments[p].status = "pending"
          /\ payments'[p] \in Payment
          /\ payments'[p].status = outcome
          /\ payments'[p].method = payments[p].method
          /\ payments' = [payments EXCEPT ![p] = payments'[p]]
      BY <1>4, SettleEffect
    <2>2. statusOf[p] = "pending" /\ methodOf[p] = payments[p].method
      BY <2>1 DEF statusOf, methodOf, FieldOf
    <2>3. /\ statusOf' = [statusOf EXCEPT ![p] = outcome]
          /\ methodOf' = [methodOf EXCEPT ![p] = methodOf[p]]
      BY <2>1, <2>2, SeenOfRow
    <2>4. methodOf' = methodOf
      BY <2>3 DEF methodOf
    <2>5. Status!DecidePayment(p, outcome)
      BY <2>2, <2>3, <2>4 DEF Status!DecidePayment, statusOf, methodOf
    <2> QED
      BY <2>5 DEF Status!StatusNext
  <1> QED
    BY <1>1, <1>2, <1>3, <1>4, StepsOfRows DEF RowStep

\* Whoever races to settle it, a payment is created once, for one rail, and
\* decided once and for good: what the console's pages rely on.
THEOREM PaymentsImplementStatus == Spec => ImplementsStatus
  BY InitSeen, NextSeen, AlwaysWellFormed, PTL
  DEF Spec, ImplementsStatus, Status!StatusSpec

-----------------------------------------------------------------------------
(* A payment is settled as its rail decided.  The property is not inductive *)
(* alone: a handler carries the outcome it learnt across any number of      *)
(* other steps, a callback for ever.  Both stay true because a rail that    *)
(* has taken or refused does not change its mind.                           *)

\* The rail agrees with an outcome.
Tells(p, success) == rail[p] = IF success THEN "taken" ELSE "refused"

\* No rail acts before it is asked.
RailAfterRequest ==
    \A p \in Payments : initiation[p] \in {"new", "invalid", "created"} => rail[p] = "none"

TimersAreSandbox == \A p \in timers : payments[p] # Null /\ ~IsLive(p)

CallbacksAreTrue ==
    \A p \in Payments, success \in BOOLEAN : <<p, success>> \in callbacks => Tells(p, success)

\* What a handler is about to settle on the word of a rail.
Carries(h, p, success) ==
    /\ handlers[h] # Null
    /\ handlers[h].payment = p
    /\ handlers[h].success = success
    /\ handlers[h].step = "settle"
    /\ handlers[h].by = "rail"

HandlersKnow ==
    \A h \in Handlers, p \in Payments, success \in BOOLEAN :
        Carries(h, p, success) /\ IsLive(p) => Tells(p, success)

RailIsKnown ==
    /\ RailAfterRequest
    /\ TimersAreSandbox
    /\ CallbacksAreTrue
    /\ HandlersKnow
    /\ SettledAsTheRailDid

\* A rail's decision is final, and a row keeps its method.
Lasting ==
    /\ \A p \in Payments : rail[p] \in {"taken", "refused"} => rail'[p] = rail[p]
    /\ \A p \in Payments : payments[p] # Null =>
           /\ payments'[p] # Null
           /\ payments'[p].method = payments[p].method

LEMMA RowsLast ==
    ASSUME WellFormed, [Next]_vars, NEW p \in Payments, payments[p] # Null
    PROVE  payments'[p] # Null /\ payments'[p].method = payments[p].method
  <1>1. payments[p] \in Payment
    BY DEF WellFormed, TypeOK
  <1>2. CASE UNCHANGED payments
    BY <1>2
  <1>3. ASSUME NEW q \in Payments, NEW o \in Orgs, NEW method \in Methods,
               NEW amount \in Amounts, Create(q, o, method, amount)
        PROVE  payments'[p] = payments[p]
    BY <1>3, CreateEffect DEF WellFormed, TypeOK
  <1>4. ASSUME NEW q \in Payments, RecordCheckout(q)
        PROVE  payments'[p] # Null /\ payments'[p].method = payments[p].method
    <2>1. /\ payments' = [payments EXCEPT ![q] = payments'[q]]
          /\ payments'[q] = [payments[q] EXCEPT !.checkout = TRUE]
          /\ payments[q] \in Payment
      BY <1>4, RecordEffect
    <2>2. payments'[q] \in Payment /\ payments'[q].method = payments[q].method
      BY <2>1 DEF Payment
    <2> QED
      BY <2>1, <2>2, PaymentRowAssumption DEF WellFormed, TypeOK
  <1>5. ASSUME NEW q \in Payments, NEW success \in BOOLEAN, NEW by \in {"rail", "admin"},
               Settles(q, success, by)
        PROVE  payments'[p] # Null /\ payments'[p].method = payments[p].method
    <2>1. /\ payments' = [payments EXCEPT ![q] = payments'[q]]
          /\ payments'[q] \in Payment
          /\ payments'[q].method = payments[q].method
      BY <1>5, SettleEffect
    <2> QED
      BY <2>1, PaymentRowAssumption DEF WellFormed, TypeOK
  <1> QED
    BY <1>2, <1>3, <1>4, <1>5, StepsOfRows DEF RowStep

LEMMA RailsLast ==
    ASSUME WellFormed, RailAfterRequest, [Next]_vars,
           NEW p \in Payments, rail[p] \in {"taken", "refused"}
    PROVE  rail'[p] = rail[p]
  <1>1. ASSUME NEW q \in Payments,
               \/ OpenCollection(q) \/ RailCallFails(q)
               \/ CustomerPays(q) \/ CustomerRefuses(q)
        PROVE  rail'[p] = rail[p]
    BY <1>1 DEF OpenCollection, initiateStk, stripeCreatePaymentIntent, paypalCreateOrder,
                RailOpens, RailCallFails, CustomerPays, CustomerRefuses, RailAfterRequest,
                WellFormed, TypeOK
  <1>2. ASSUME NEW h \in Handlers, Continue(h) \/ RequestFails(h)
        PROVE  rail'[p] = rail[p]
    BY <1>2 DEF Continue, queryStk, stripeRetrievePaymentIntent, RailTells, CaptureOrder,
                finalize, RequestFails, WellFormed, TypeOK
  <1>3. ASSUME NEW q \in Payments, RecordCheckout(q) PROVE UNCHANGED rail
    BY <1>3 DEF RecordCheckout
  <1>4. ASSUME NEW h \in Handlers, NEW q \in Payments,
               \/ \E success \in BOOLEAN :
                      applyCallback(h, q, success) \/ confirmBankPayment(h, q, success)
               \/ autoComplete(h, q)
               \/ Check(h, q)
        PROVE  UNCHANGED rail
    BY <1>4, ReadersServe
  <1>5. ASSUME NEW q \in Payments, NEW o \in Orgs, NEW amount \in Amounts,
               \/ initiateStkPush(q, o, amount)
               \/ initiateCardTopUp(q, o, amount)
               \/ initiatePayPalTopUp(q, o, amount)
               \/ confirmBankTransfer(q, o, amount, "string")
        PROVE  UNCHANGED rail
    BY <1>5 DEF initiateStkPush, initiateCardTopUp, initiatePayPalTopUp,
                confirmBankTransfer, Create
  <1>6. CASE Crash \/ UNCHANGED vars
    BY <1>6 DEF Crash, vars
  <1> QED
    BY <1>1, <1>2, <1>3, <1>4, <1>5, <1>6 DEF Next

LEMMA StepsLast ==
    ASSUME WellFormed, RailAfterRequest, [Next]_vars
    PROVE  Lasting
  BY RowsLast, RailsLast DEF Lasting

LEMMA InitRailIsKnown == Init => RailIsKnown
  BY DEF Init, RailIsKnown, RailAfterRequest, TimersAreSandbox, CallbacksAreTrue,
         HandlersKnow, Carries, SettledAsTheRailDid

\* What lasts keeps what was known, for what is not new.
LEMMA KnownLasts ==
    ASSUME WellFormed, RailIsKnown, Lasting
    PROVE  /\ \A p \in timers : payments'[p] # Null /\ ~IsLive(p)'
           /\ \A p \in Payments, success \in BOOLEAN :
                  (Tells(p, success) => Tells(p, success)')
           /\ \A p \in Payments, success \in BOOLEAN :
                  (<<p, success>> \in callbacks => Tells(p, success)')
           /\ \A h \in Handlers, p \in Payments, success \in BOOLEAN :
                  Carries(h, p, success) /\ IsLive(p)' => Tells(p, success)'
  <1>1. \A p \in Payments, success \in BOOLEAN :
            (Tells(p, success) => Tells(p, success)')
    BY DEF Tells, Lasting
  <1>2. \A p \in timers : payments'[p] # Null /\ ~IsLive(p)'
    BY DEF RailIsKnown, TimersAreSandbox, IsLive, Lasting, WellFormed, TypeOK
  <1>3. ASSUME NEW h \in Handlers, NEW p \in Payments, NEW success \in BOOLEAN,
               Carries(h, p, success), IsLive(p)'
        PROVE  Tells(p, success)'
    <2>1. payments[p] # Null
      BY <1>3 DEF WellFormed, HandlersHaveRows, Carries
    <2>2. IsLive(p)
      BY <1>3, <2>1 DEF IsLive, Lasting
    <2>3. Tells(p, success)
      BY <1>3, <2>2 DEF RailIsKnown, HandlersKnow
    <2> QED
      BY <1>1, <2>3
  <1> QED
    BY <1>1, <1>2, <1>3 DEF RailIsKnown, CallbacksAreTrue

\* A handler that has just read, and knows what it will settle.
LEMMA ServeKnows ==
    ASSUME WellFormed, RailIsKnown, Lasting, NEW h \in Handlers, NEW p \in Payments,
           NEW step \in {"ask", "settle"}, NEW success \in BOOLEAN, NEW by \in {"rail", "admin"},
           Serve(h, p, step, success, by),
           step = "settle" /\ by = "rail" /\ IsLive(p)' => Tells(p, success)'
    PROVE  HandlersKnow'
  <1>1. ASSUME NEW k \in Handlers, NEW q \in Payments, NEW outcome \in BOOLEAN,
               Carries(k, q, outcome)', k # h
        PROVE  Carries(k, q, outcome)
    BY <1>1 DEF Serve, Carries, WellFormed, TypeOK
  <1>2. ASSUME NEW q \in Payments, NEW outcome \in BOOLEAN, Carries(h, q, outcome)'
        PROVE  q = p /\ outcome = success /\ step = "settle" /\ by = "rail"
    BY <1>2 DEF Serve, Carries, WellFormed, TypeOK
  <1> QED
    BY <1>1, <1>2, KnownLasts DEF HandlersKnow

LEMMA ReplyKnows ==
    ASSUME WellFormed, RailIsKnown, Lasting, NEW h \in Handlers, Reply(h)
    PROVE  HandlersKnow'
  <1>1. ASSUME NEW k \in Handlers, NEW q \in Payments, NEW outcome \in BOOLEAN,
               Carries(k, q, outcome)'
        PROVE  Carries(k, q, outcome)
    BY <1>1 DEF Reply, Carries, WellFormed, TypeOK
  <1> QED
    BY <1>1, KnownLasts DEF HandlersKnow

\* Rows that keep their outcome stay as their rail decided.
LEMMA OutcomeLasts ==
    ASSUME WellFormed, RailIsKnown, Lasting, NEW p \in Payments,
           payments'[p] # Null, payments'[p].settledBy = "rail", IsLive(p)',
           payments[p] # Null,
           payments'[p].status = payments[p].status,
           payments'[p].settledBy = payments[p].settledBy
    PROVE  /\ payments'[p].status = "paid" => rail'[p] = "taken"
           /\ payments'[p].status = "failed" => rail'[p] = "refused"
  BY DEF RailIsKnown, SettledAsTheRailDid, Lasting, IsLive

LEMMA UnchangedRowsLast ==
    ASSUME WellFormed, RailIsKnown, Lasting, UNCHANGED payments
    PROVE  SettledAsTheRailDid'
  BY OutcomeLasts DEF SettledAsTheRailDid

\* A request that starts a payment: the rail has not been asked before.
LEMMA RequestsKnow ==
    ASSUME WellFormed, RailIsKnown, Lasting, NEW p \in Payments, NEW o \in Orgs,
           NEW amount \in Amounts,
           \/ \E method \in Methods : Create(p, o, method, amount)
           \/ confirmBankTransfer(p, o, amount, "string")
    PROVE  RailIsKnown'
  <1>1. /\ initiation[p] = "new"
        /\ \E step \in {"created", "invalid"} : initiation' = [initiation EXCEPT ![p] = step]
        /\ UNCHANGED <<rail, timers, callbacks, handlers>>
    BY TransferIsRefused DEF Create, confirmBankTransfer
  <1>2. RailAfterRequest'
    BY <1>1 DEF RailIsKnown, RailAfterRequest, WellFormed, TypeOK
  <1>3. TimersAreSandbox' /\ CallbacksAreTrue'
    BY <1>1, KnownLasts DEF TimersAreSandbox, CallbacksAreTrue
  <1>4. HandlersKnow'
    BY <1>1, KnownLasts DEF HandlersKnow, Carries
  <1>5. SettledAsTheRailDid'
    <2>1. CASE \E method \in Methods : Create(p, o, method, amount)
      <3>1. /\ payments' = [payments EXCEPT ![p] = payments'[p]]
            /\ payments'[p].settledBy = "nobody"
        BY <2>1, CreateEffect
      <3>2. ASSUME NEW q \in Payments, payments'[q] # Null, payments'[q].settledBy = "rail"
            PROVE  payments'[q] = payments[q]
        BY <3>1, <3>2 DEF WellFormed, TypeOK
      <3> QED
        BY <3>2, OutcomeLasts DEF SettledAsTheRailDid
    <2>2. CASE confirmBankTransfer(p, o, amount, "string")
      BY <2>2, TransferIsRefused, UnchangedRowsLast
    <2> QED
      BY <2>1, <2>2
  <1> QED
    BY <1>2, <1>3, <1>4, <1>5 DEF RailIsKnown

\* The rail is asked, the identifier recorded, the customer decides.
LEMMA InitiationKnows ==
    ASSUME WellFormed, RailIsKnown, Lasting, NEW p \in Payments,
           \/ OpenCollection(p) \/ RailCallFails(p)
           \/ CustomerPays(p) \/ CustomerRefuses(p)
    PROVE  RailIsKnown'
  <1> USE DEF OpenCollection, initiateStk, stripeCreatePaymentIntent, paypalCreateOrder,
              RailOpens, RailCallFails, CustomerPays, CustomerRefuses
  <1>1. UNCHANGED <<payments, handlers>>
    OBVIOUS
  <1>2. RailAfterRequest'
    BY DEF RailIsKnown, RailAfterRequest, WellFormed, TypeOK
  <1>3. TimersAreSandbox'
    <2>1. \A q \in timers' \ timers : payments[q] # Null /\ ~IsLive(q)
      BY DEF WellFormed, RowsFollowRequests
    <2> QED
      BY <1>1, <2>1 DEF RailIsKnown, TimersAreSandbox, IsLive
  <1>4. CallbacksAreTrue'
    <2>1. CASE callbacks' = callbacks
      BY <2>1, KnownLasts DEF CallbacksAreTrue
    <2>2. CASE CustomerPays(p) /\ callbacks' = callbacks \cup {<<p, TRUE>>}
      BY <2>2, KnownLasts DEF CallbacksAreTrue, Tells, WellFormed, TypeOK
    <2>3. CASE CustomerRefuses(p) /\ callbacks' = callbacks \cup {<<p, FALSE>>}
      BY <2>3, KnownLasts DEF CallbacksAreTrue, Tells, WellFormed, TypeOK
    <2> QED
      BY <2>1, <2>2, <2>3
  <1>5. HandlersKnow'
    BY <1>1, KnownLasts DEF HandlersKnow, Carries
  <1> QED
    BY <1>1, <1>2, <1>3, <1>4, <1>5, UnchangedRowsLast DEF RailIsKnown

LEMMA RecordKnows ==
    ASSUME WellFormed, RailIsKnown, Lasting, NEW p \in Payments, RecordCheckout(p)
    PROVE  RailIsKnown'
  <1>1. /\ UNCHANGED <<rail, callbacks, handlers>>
        /\ payments[p] \in Payment
        /\ payments'[p] = [payments[p] EXCEPT !.checkout = TRUE]
        /\ payments' = [payments EXCEPT ![p] = payments'[p]]
    BY RecordEffect
  <1>2. /\ payments'[p].status = payments[p].status
        /\ payments'[p].settledBy = payments[p].settledBy
        /\ payments'[p].method = payments[p].method
    BY <1>1 DEF Payment
  <1>3. RailAfterRequest'
    BY <1>1 DEF RecordCheckout, RailIsKnown, RailAfterRequest, WellFormed, TypeOK
  <1>4. TimersAreSandbox'
    <2>1. \A q \in timers' \ timers : q = p /\ ~IsLive(q)
      BY DEF RecordCheckout
    <2>2. payments'[p] # Null
      BY <1>1, PaymentRowAssumption DEF Lasting
    <2> QED
      BY <1>2, <2>1, <2>2, KnownLasts DEF TimersAreSandbox, IsLive
  <1>5. CallbacksAreTrue' /\ HandlersKnow'
    BY <1>1, KnownLasts DEF CallbacksAreTrue, HandlersKnow, Carries
  <1>6. SettledAsTheRailDid'
    <2>1. ASSUME NEW q \in Payments, payments'[q] # Null
          PROVE  /\ payments[q] # Null
                 /\ payments'[q].status = payments[q].status
                 /\ payments'[q].settledBy = payments[q].settledBy
      <3>1. CASE q = p
        BY <1>1, <1>2, <3>1, PaymentRowAssumption
      <3>2. CASE q # p
        BY <1>1, <2>1, <3>2 DEF WellFormed, TypeOK
      <3> QED
        BY <3>1, <3>2
    <2> QED
      BY <2>1, OutcomeLasts DEF SettledAsTheRailDid
  <1> QED
    BY <1>3, <1>4, <1>5, <1>6 DEF RailIsKnown

\* A callback brings its rail's word, a timer belongs to the sandbox, a check
\* of a live rail has yet to ask it, an administrator needs no rail.
LEMMA ReadersKnow ==
    ASSUME WellFormed, RailIsKnown, Lasting, NEW h \in Handlers, NEW p \in Payments,
           \/ \E success \in BOOLEAN :
                  applyCallback(h, p, success) \/ confirmBankPayment(h, p, success)
           \/ autoComplete(h, p)
           \/ Check(h, p)
    PROVE  RailIsKnown'
  <1>1. /\ UNCHANGED <<payments, initiation, rail, callbacks>>
        /\ timers' \subseteq timers
    BY ReadersServe
  <1>2. RailAfterRequest' /\ CallbacksAreTrue'
    BY <1>1 DEF RailIsKnown, RailAfterRequest, CallbacksAreTrue, Tells
  <1>3. TimersAreSandbox'
    BY <1>1, KnownLasts DEF TimersAreSandbox
  <1>4. HandlersKnow'
    <2>1. ASSUME NEW success \in BOOLEAN, applyCallback(h, p, success) PROVE HandlersKnow'
      BY <1>1, <2>1, ServeKnows, KnownLasts DEF applyCallback
    <2>2. ASSUME NEW success \in BOOLEAN, confirmBankPayment(h, p, success)
          PROVE  HandlersKnow'
      BY <2>2, ServeKnows DEF confirmBankPayment
    <2>3. CASE autoComplete(h, p)
      <3>1. ~IsLive(p)'
        BY <2>3, KnownLasts DEF autoComplete
      <3>2. CASE UNCHANGED handlers
        BY <1>1, <3>2, KnownLasts DEF HandlersKnow, Carries
      <3>3. CASE Serve(h, p, "settle", TRUE, "rail")
        BY <3>1, <3>3, ServeKnows
      <3> QED
        BY <2>3, <3>2, <3>3 DEF autoComplete
    <2>4. CASE Check(h, p)
      <3>1. IsLive(p)' <=> IsLive(p)
        BY <1>1 DEF IsLive
      <3>2. Serve(h, p, IF IsLive(p) THEN "ask" ELSE "settle", TRUE, "rail")
        BY <2>4 DEF Check, syncStatus, confirmCardPayment, capturePayPalPayment, CheckOf
      <3>3. CASE IsLive(p)
        BY <3>2, <3>3, ServeKnows
      <3>4. CASE ~IsLive(p)
        BY <3>1, <3>2, <3>4, ServeKnows
      <3> QED
        BY <3>3, <3>4
    <2> QED
      BY <2>1, <2>2, <2>3, <2>4
  <1> QED
    BY <1>1, <1>2, <1>3, <1>4, UnchangedRowsLast DEF RailIsKnown

\* A rail's answer is its decision; capturing an approved order is one.
LEMMA AnswersKnow ==
    ASSUME WellFormed, RailIsKnown, Lasting, NEW h \in Handlers,
           queryStk(h) \/ stripeRetrievePaymentIntent(h) \/ CaptureOrder(h)
    PROVE  RailIsKnown'
  <1> USE DEF queryStk, stripeRetrievePaymentIntent, CaptureOrder, RailTells
  <1>1. /\ UNCHANGED <<payments, initiation, timers, callbacks>>
        /\ handlers[h] \in Call
        /\ payments[handlers[h].payment] # Null
    BY DEF Asking, WellFormed, TypeOK, HandlersHaveRows
  <1>2. RailAfterRequest'
    <2>1. ASSUME NEW p \in Payments, rail'[p] # rail[p] PROVE rail[p] = "approved"
      BY <2>1 DEF WellFormed, TypeOK
    <2> QED
      BY <1>1, <2>1 DEF RailIsKnown, RailAfterRequest
  <1>3. TimersAreSandbox' /\ CallbacksAreTrue'
    BY <1>1, KnownLasts DEF TimersAreSandbox, CallbacksAreTrue
  <1>4. HandlersKnow'
    <2>1. CASE Reply(h)
      BY <2>1, ReplyKnows
    <2>2. ASSUME NEW p \in Payments, p = handlers[h].payment,
                 NEW success \in BOOLEAN, Learn(h, success), Tells(p, success)'
          PROVE  HandlersKnow'
      <3>1. ASSUME NEW k \in Handlers, NEW q \in Payments, NEW outcome \in BOOLEAN,
                   Carries(k, q, outcome)', k # h
            PROVE  Carries(k, q, outcome)
        BY <2>2, <3>1 DEF Learn, Carries, WellFormed, TypeOK
      <3>2. ASSUME NEW q \in Payments, NEW outcome \in BOOLEAN, Carries(h, q, outcome)'
            PROVE  q = p /\ outcome = success
        BY <1>1, <2>2, <3>2 DEF Learn, Carries, WellFormed, TypeOK, Call
      <3> QED
        BY <2>2, <3>1, <3>2, KnownLasts DEF HandlersKnow
    <2>3. PICK p \in Payments : p = handlers[h].payment
      BY <1>1 DEF Call
    <2>4. \/ Reply(h)
          \/ Learn(h, TRUE) /\ Tells(p, TRUE)'
          \/ Learn(h, FALSE) /\ Tells(p, FALSE)'
      BY <2>3 DEF Tells, WellFormed, TypeOK
    <2> QED
      BY <2>1, <2>2, <2>3, <2>4
  <1> QED
    BY <1>1, <1>2, <1>3, <1>4, UnchangedRowsLast DEF RailIsKnown

\* A row is settled with what its handler knows, or not at all.
LEMMA FinalizeKnows ==
    ASSUME WellFormed, RailIsKnown, Lasting, NEW h \in Handlers, finalize(h)
    PROVE  RailIsKnown'
  <1>1. /\ handlers[h] \in Call /\ handlers[h] # Null
        /\ handlers[h].step = "settle"
        /\ Reply(h)
        /\ UNCHANGED <<initiation, rail, timers, callbacks>>
    BY FinalizeSettles, PaymentRowAssumption
  <1>2. PICK p \in Payments, success \in BOOLEAN, by \in {"rail", "admin"} :
            p = handlers[h].payment /\ success = handlers[h].success /\ by = handlers[h].by
    BY <1>1 DEF Call
  <1>3. RailAfterRequest' /\ TimersAreSandbox' /\ CallbacksAreTrue'
    BY <1>1, KnownLasts
    DEF RailIsKnown, RailAfterRequest, TimersAreSandbox, CallbacksAreTrue
  <1>4. HandlersKnow'
    BY <1>1, ReplyKnows
  <1>5. SettledAsTheRailDid'
    <2>1. CASE UNCHANGED payments
      BY <2>1, UnchangedRowsLast
    <2>2. CASE Settles(p, success, by)
      <3>1. /\ payments' = [payments EXCEPT ![p] = payments'[p]]
            /\ payments'[p].status = IF success THEN "paid" ELSE "failed"
            /\ payments'[p].settledBy = by
        BY <2>2, SettleEffect
      <3>2. by = "rail" => Carries(h, p, success)
        BY <1>1, <1>2 DEF Carries
      <3>3. ASSUME payments'[p].settledBy = "rail", IsLive(p)'
            PROVE  /\ payments'[p].status = "paid" => rail'[p] = "taken"
                   /\ payments'[p].status = "failed" => rail'[p] = "refused"
        <4>1. Tells(p, success)'
          BY <3>1, <3>2, <3>3, KnownLasts
        <4> QED
          BY <3>1, <4>1 DEF Tells
      <3>4. ASSUME NEW q \in Payments, q # p PROVE payments'[q] = payments[q]
        BY <3>1, <3>4 DEF WellFormed, TypeOK
      <3>5. ASSUME NEW q \in Payments, payments'[q] # Null, payments'[q].settledBy = "rail",
                   IsLive(q)', q # p
            PROVE  /\ payments'[q].status = "paid" => rail'[q] = "taken"
                   /\ payments'[q].status = "failed" => rail'[q] = "refused"
        BY <3>4, <3>5, OutcomeLasts
      <3> QED
        BY <3>3, <3>5 DEF SettledAsTheRailDid
    <2> QED
      BY <1>2, <2>1, <2>2, FinalizeSettles
  <1> QED
    BY <1>3, <1>4, <1>5 DEF RailIsKnown

LEMMA FaultsKnow ==
    ASSUME WellFormed, RailIsKnown, Lasting, (\E h \in Handlers : RequestFails(h)) \/ Crash
    PROVE  RailIsKnown'
  <1>1. ASSUME NEW h \in Handlers, RequestFails(h) PROVE RailIsKnown'
    <2>1. Reply(h) /\ UNCHANGED <<payments, initiation, timers, callbacks>>
      BY <1>1 DEF RequestFails
    <2>2. ASSUME NEW p \in Payments, rail'[p] # rail[p] PROVE rail[p] = "approved"
      BY <1>1, <2>2 DEF RequestFails, WellFormed, TypeOK
    <2>3. RailAfterRequest'
      BY <2>1, <2>2 DEF RailIsKnown, RailAfterRequest
    <2>4. TimersAreSandbox' /\ CallbacksAreTrue'
      BY <2>1, KnownLasts DEF TimersAreSandbox, CallbacksAreTrue
    <2> QED
      BY <2>1, <2>3, <2>4, ReplyKnows, UnchangedRowsLast DEF RailIsKnown
  <1>2. CASE Crash
    <2>1. /\ handlers' = [h \in Handlers |-> Null]
          /\ timers' = {}
          /\ UNCHANGED <<payments, rail, callbacks>>
          /\ initiation' = [p \in Payments |->
                 IF initiation[p] \in {"created", "answered"} THEN "error" ELSE initiation[p]]
      BY <1>2 DEF Crash
    <2>2. RailAfterRequest'
      BY <2>1 DEF RailIsKnown, RailAfterRequest
    <2>3. TimersAreSandbox' /\ HandlersKnow'
      BY <2>1 DEF TimersAreSandbox, HandlersKnow, Carries
    <2>4. CallbacksAreTrue'
      BY <2>1, KnownLasts DEF CallbacksAreTrue
    <2> QED
      BY <2>1, <2>2, <2>3, <2>4, UnchangedRowsLast DEF RailIsKnown
  <1> QED
    BY <1>1, <1>2

LEMMA NextKnows == WellFormed /\ RailIsKnown /\ [Next]_vars => RailIsKnown'
  <1> SUFFICES ASSUME WellFormed, RailIsKnown, [Next]_vars PROVE RailIsKnown'
    OBVIOUS
  <1>1. Lasting
    BY StepsLast DEF RailIsKnown
  <1>2. ASSUME NEW p \in Payments, NEW o \in Orgs, NEW amount \in Amounts,
               \/ initiateStkPush(p, o, amount)
               \/ initiateCardTopUp(p, o, amount)
               \/ initiatePayPalTopUp(p, o, amount)
               \/ confirmBankTransfer(p, o, amount, "string")
        PROVE  RailIsKnown'
    BY <1>1, <1>2, RequestsKnow
    DEF initiateStkPush, initiateCardTopUp, initiatePayPalTopUp, Methods
  <1>3. ASSUME NEW p \in Payments,
               \/ OpenCollection(p) \/ RailCallFails(p)
               \/ CustomerPays(p) \/ CustomerRefuses(p)
               \/ RecordCheckout(p)
        PROVE  RailIsKnown'
    BY <1>1, <1>3, InitiationKnows, RecordKnows
  <1>4. ASSUME NEW h \in Handlers, NEW p \in Payments,
               \/ \E success \in BOOLEAN :
                      applyCallback(h, p, success) \/ confirmBankPayment(h, p, success)
               \/ autoComplete(h, p)
               \/ Check(h, p)
        PROVE  RailIsKnown'
    BY <1>1, <1>4, ReadersKnow
  <1>5. ASSUME NEW h \in Handlers, Continue(h) PROVE RailIsKnown'
    BY <1>1, <1>5, AnswersKnow, FinalizeKnows DEF Continue
  <1>6. CASE (\E h \in Handlers : RequestFails(h)) \/ Crash
    BY <1>1, <1>6, FaultsKnow
  <1>7. CASE UNCHANGED vars
    BY <1>7 DEF vars, RailIsKnown, RailAfterRequest, TimersAreSandbox, CallbacksAreTrue,
                HandlersKnow, Carries, Tells, SettledAsTheRailDid, IsLive
  <1> QED
    BY <1>2, <1>3, <1>4, <1>5, <1>6, <1>7 DEF Next

\* Unless an administrator decided it, a live payment is paid only if its rail
\* took the money and failed only if its rail refused it, however many requests,
\* late callbacks, crashes and lost answers come between.
THEOREM RailDecides == Spec => []SettledAsTheRailDid
  <1>1. RailIsKnown => SettledAsTheRailDid
    BY DEF RailIsKnown
  <1> QED
    BY <1>1, InitRailIsKnown, NextKnows, AlwaysWellFormed, PTL DEF Spec

-----------------------------------------------------------------------------
(* A payment is credited once.                                             *)

PaidTo(p, o) ==
    /\ payments[p] # Null
    /\ payments[p].status = "paid"
    /\ payments[p].org = o

\* The top-up rows of a payment, without counting them.
CreditsMatch ==
    \A p \in Payments, o \in Orgs :
        \/ /\ PaidTo(p, o)
           /\ \E i \in DOMAIN ledger[o] :
                  /\ CreditsOf(p, o) = {i}
                  /\ ledger[o][i].amountMinor = payments[p].amountMinor
        \/ ~PaidTo(p, o) /\ CreditsOf(p, o) = {}

LEMMA InitCreditsMatch == Init => CreditsMatch
  BY DEF Init, CreditsMatch, PaidTo, CreditsOf

LEMMA CreditsAreCounted == CreditsMatch => CreditedOnce
  <1> SUFFICES ASSUME CreditsMatch, NEW p \in Payments, NEW o \in Orgs
               PROVE  /\ Cardinality(CreditsOf(p, o)) = IF PaidTo(p, o) THEN 1 ELSE 0
                      /\ \A i \in CreditsOf(p, o) :
                             ledger[o][i].amountMinor = payments[p].amountMinor
    BY DEF CreditedOnce, PaidTo
  <1>1. CASE PaidTo(p, o)
    <2>1. PICK i \in DOMAIN ledger[o] :
              CreditsOf(p, o) = {i} /\ ledger[o][i].amountMinor = payments[p].amountMinor
      BY <1>1 DEF CreditsMatch
    <2>2. Cardinality({i}) = 1
      BY FS_Singleton
    <2> QED
      BY <1>1, <2>1, <2>2
  <1>2. CASE ~PaidTo(p, o)
    <2>1. CreditsOf(p, o) = {}
      BY <1>2 DEF CreditsMatch
    <2>2. Cardinality(CreditsOf(p, o)) = 0
      BY <2>1, FS_EmptySet
    <2> QED
      BY <1>2, <2>1, <2>2
  <1> QED
    BY <1>1, <1>2

\* A payment whose row keeps what it is paid and whose credits are not touched.
LEMMA MatchLasts ==
    ASSUME CreditsMatch, NEW p \in Payments, NEW o \in Orgs,
           CreditsOf(p, o)' = CreditsOf(p, o),
           \A i \in CreditsOf(p, o) : ledger'[o][i] = ledger[o][i],
           PaidTo(p, o)' <=> PaidTo(p, o),
           PaidTo(p, o) => payments'[p].amountMinor = payments[p].amountMinor
    PROVE  \/ /\ PaidTo(p, o)'
              /\ \E i \in DOMAIN ledger'[o] :
                     /\ CreditsOf(p, o)' = {i}
                     /\ ledger'[o][i].amountMinor = payments'[p].amountMinor
           \/ ~PaidTo(p, o)' /\ CreditsOf(p, o)' = {}
  <1>1. CASE PaidTo(p, o)
    <2>1. PICK i \in DOMAIN ledger[o] :
              CreditsOf(p, o) = {i} /\ ledger[o][i].amountMinor = payments[p].amountMinor
      BY <1>1 DEF CreditsMatch
    <2>2. i \in DOMAIN ledger'[o]
      BY <2>1 DEF CreditsOf
    <2> QED
      BY <1>1, <2>1, <2>2
  <1>2. CASE ~PaidTo(p, o)
    BY <1>2 DEF CreditsMatch
  <1> QED
    BY <1>1, <1>2

\* A credit adds its row to the payment's, in one wallet.
LEMMA CreditAddsOne ==
    ASSUME WellFormed, NEW o \in Orgs, NEW amount \in Nat, NEW p \in Sources,
           Credit(o, amount, p)
    PROVE  /\ \A q \in Sources, w \in Orgs : \A i \in CreditsOf(q, w) :
                  ledger'[w][i] = ledger[w][i]
           /\ \A q \in Sources, w \in Orgs :
                  q # p \/ w # o => CreditsOf(q, w)' = CreditsOf(q, w)
           /\ CreditsOf(p, o)' = CreditsOf(p, o) \cup {Len(ledger[o]) + 1}
           /\ Len(ledger[o]) + 1 \in DOMAIN ledger'[o]
           /\ ledger'[o][Len(ledger[o]) + 1].amountMinor = amount
  <1>1. PICK entry \in Entry :
            /\ entry = [amountMinor |-> amount, balanceAfter |-> balance[o] + amount, source |-> p]
            /\ ledger' = [ledger EXCEPT ![o] = Append(@, entry)]
    BY CreditType
  <1>2. entry.source = p /\ entry.amountMinor = amount
    BY <1>1
  <1> DEFINE n == Len(ledger[o])
  <1>3. /\ n \in Nat
        /\ DOMAIN ledger[o] = 1 .. n
        /\ DOMAIN ledger'[o] = 1 .. (n + 1)
        /\ \A i \in 1 .. n : ledger'[o][i] = ledger[o][i]
        /\ ledger'[o][n + 1] = entry
    <2>1. ledger[o] \in Seq(Entry) /\ ledger'[o] = Append(ledger[o], entry)
      BY <1>1 DEF WellFormed, TypeOK
    <2> QED
      BY <2>1
  <1>4. \A w \in Orgs : w # o => ledger'[w] = ledger[w]
    BY <1>1 DEF WellFormed, TypeOK
  <1>5. \A q \in Sources, w \in Orgs : w # o => CreditsOf(q, w)' = CreditsOf(q, w)
    BY <1>4 DEF CreditsOf
  <1>6. \A q \in Sources : q # p => CreditsOf(q, o)' = CreditsOf(q, o)
    BY <1>2, <1>3 DEF CreditsOf
  <1>7. CreditsOf(p, o)' = CreditsOf(p, o) \cup {n + 1}
    BY <1>2, <1>3 DEF CreditsOf
  <1>8. \A q \in Sources, w \in Orgs : \A i \in CreditsOf(q, w) :
            ledger'[w][i] = ledger[w][i]
    BY <1>3, <1>4 DEF CreditsOf
  <1> QED
    BY <1>2, <1>3, <1>5, <1>6, <1>7, <1>8

LEMMA SettleMatches ==
    ASSUME WellFormed, CreditsMatch, NEW p \in Payments, NEW success \in BOOLEAN,
           NEW by \in {"rail", "admin"}, Settles(p, success, by)
    PROVE  CreditsMatch'
  <1>1. /\ payments[p] \in Payment /\ payments[p] # Null
        /\ payments[p].status = "pending"
        /\ payments' = [payments EXCEPT ![p] = payments'[p]]
        /\ payments'[p] \in Payment
        /\ payments'[p].status = IF success THEN "paid" ELSE "failed"
        /\ payments'[p].org = payments[p].org
        /\ payments'[p].amountMinor = payments[p].amountMinor
    BY SettleEffect
  <1>2. PICK to \in Orgs, amount \in Nat :
            to = payments[p].org /\ amount = payments[p].amountMinor
    BY <1>1 DEF Payment
  <1>3. \A q \in Payments : q # p => payments'[q] = payments[q]
    BY <1>1 DEF WellFormed, TypeOK
  <1>4. \A o \in Orgs : ~PaidTo(p, o) /\ CreditsOf(p, o) = {}
    BY <1>1 DEF PaidTo, CreditsMatch
  <1>5. CASE ~success
    <2>1. UNCHANGED ledger
      BY <1>5 DEF Settles, walletVars
    <2>2. ASSUME NEW q \in Payments, NEW o \in Orgs
          PROVE  /\ CreditsOf(q, o)' = CreditsOf(q, o)
                 /\ PaidTo(q, o)' <=> PaidTo(q, o)
                 /\ PaidTo(q, o) => payments'[q].amountMinor = payments[q].amountMinor
      BY <1>1, <1>3, <1>4, <1>5, <2>1 DEF PaidTo, CreditsOf
    <2> QED
      BY <2>1, <2>2, MatchLasts DEF CreditsMatch
  <1>6. CASE success
    <2>1. Credit(to, amount, p)
      BY <1>2, <1>6 DEF Settles
    <2>2. ASSUME NEW q \in Payments, NEW o \in Orgs, q # p \/ o # to
          PROVE  /\ CreditsOf(q, o)' = CreditsOf(q, o)
                 /\ \A i \in CreditsOf(q, o) : ledger'[o][i] = ledger[o][i]
                 /\ PaidTo(q, o)' <=> PaidTo(q, o)
                 /\ PaidTo(q, o) => payments'[q].amountMinor = payments[q].amountMinor
      <3>1. /\ CreditsOf(q, o)' = CreditsOf(q, o)
            /\ \A i \in CreditsOf(q, o) : ledger'[o][i] = ledger[o][i]
        BY <2>1, <2>2, CreditAddsOne, PaymentsAssumption
      <3>2. /\ PaidTo(q, o)' <=> PaidTo(q, o)
            /\ PaidTo(q, o) => payments'[q].amountMinor = payments[q].amountMinor
        BY <1>1, <1>2, <1>3, <1>4, <2>2 DEF PaidTo
      <3> QED
        BY <3>1, <3>2
    <2>3. PaidTo(p, to)'
      BY <1>1, <1>2, <1>6, PaymentRowAssumption DEF PaidTo
    <2>4. \E i \in DOMAIN ledger'[to] :
              /\ CreditsOf(p, to)' = {i}
              /\ ledger'[to][i].amountMinor = payments'[p].amountMinor
      BY <1>1, <1>2, <1>4, <2>1, CreditAddsOne, PaymentsAssumption
    <2> QED
      BY <2>2, <2>3, <2>4, MatchLasts DEF CreditsMatch
  <1> QED
    BY <1>5, <1>6

LEMMA NextMatches == WellFormed /\ CreditsMatch /\ [Next]_vars => CreditsMatch'
  <1> SUFFICES ASSUME WellFormed, CreditsMatch, [Next]_vars PROVE CreditsMatch'
    OBVIOUS
  <1>1. CASE UNCHANGED <<payments, walletVars>>
    BY <1>1 DEF CreditsMatch, PaidTo, CreditsOf, walletVars
  <1>2. ASSUME NEW p \in Payments, UNCHANGED ledger,
               payments' = [payments EXCEPT ![p] = payments'[p]],
               \A o \in Orgs : ~PaidTo(p, o)' /\ ~PaidTo(p, o)
        PROVE  CreditsMatch'
    <2>1. \A q \in Payments : q # p => payments'[q] = payments[q]
      BY <1>2 DEF WellFormed, TypeOK
    <2>2. ASSUME NEW q \in Payments, NEW o \in Orgs
          PROVE  /\ CreditsOf(q, o)' = CreditsOf(q, o)
                 /\ PaidTo(q, o)' <=> PaidTo(q, o)
                 /\ PaidTo(q, o) => payments'[q].amountMinor = payments[q].amountMinor
      BY <1>2, <2>1 DEF PaidTo, CreditsOf
    <2> QED
      BY <1>2, <2>2, MatchLasts DEF CreditsMatch
  <1>3. ASSUME NEW p \in Payments, NEW o \in Orgs, NEW method \in Methods,
               NEW amount \in Amounts, Create(p, o, method, amount)
        PROVE  CreditsMatch'
    <2>1. \A w \in Orgs : ~PaidTo(p, w)' /\ ~PaidTo(p, w)
      BY <1>3, CreateEffect DEF PaidTo
    <2> QED
      BY <1>2, <1>3, <2>1, CreateEffect DEF walletVars
  <1>4. ASSUME NEW p \in Payments, RecordCheckout(p) PROVE CreditsMatch'
    <2>1. /\ payments[p] \in Payment
          /\ payments'[p] = [payments[p] EXCEPT !.checkout = TRUE]
          /\ payments' = [payments EXCEPT ![p] = payments'[p]]
          /\ UNCHANGED ledger
      BY <1>4, RecordEffect DEF walletVars
    <2>2. /\ payments'[p] \in Payment
          /\ payments'[p].status = payments[p].status
          /\ payments'[p].org = payments[p].org
          /\ payments'[p].amountMinor = payments[p].amountMinor
      BY <2>1 DEF Payment
    <2>3. \A q \in Payments : q # p => payments'[q] = payments[q]
      BY <2>1 DEF WellFormed, TypeOK
    <2>4. ASSUME NEW q \in Payments, NEW o \in Orgs
          PROVE  /\ PaidTo(q, o)' <=> PaidTo(q, o)
                 /\ PaidTo(q, o) => payments'[q].amountMinor = payments[q].amountMinor
      BY <2>1, <2>2, <2>3, PaymentRowAssumption DEF PaidTo
    <2>5. \A q \in Payments, o \in Orgs :
              /\ CreditsOf(q, o)' = CreditsOf(q, o)
              /\ \A i \in CreditsOf(q, o) : ledger'[o][i] = ledger[o][i]
      BY <2>1 DEF CreditsOf
    <2> QED
      BY <2>4, <2>5, MatchLasts DEF CreditsMatch
  <1>5. ASSUME NEW p \in Payments, NEW success \in BOOLEAN, NEW by \in {"rail", "admin"},
               Settles(p, success, by)
        PROVE  CreditsMatch'
    BY <1>5, SettleMatches
  <1> QED
    BY <1>1, <1>3, <1>4, <1>5, StepsOfRows DEF RowStep

\* Whatever callbacks, polls, timers and administrators race, a paid payment has
\* exactly one top-up row, of its amount and in its organization's wallet, and
\* any other payment has none.
THEOREM CreditedExactlyOnce == Spec => []CreditedOnce
  BY InitCreditsMatch, NextMatches, CreditsAreCounted, AlwaysWellFormed, PTL DEF Spec

-----------------------------------------------------------------------------
(* Wallets move by deposits.                                               *)

\* A ledger as the abstract account sees it.
AccountRow(entry) == Account!Row("topup", entry.amountMinor, entry.balanceAfter)
AccountRows(rows) == [i \in DOMAIN rows |-> AccountRow(rows[i])]
accountLedger == [o \in Orgs |-> AccountRows(ledger[o])]

LEMMA RowsOfAppend ==
    ASSUME NEW rows \in Seq(Entry), NEW entry \in Entry
    PROVE  AccountRows(Append(rows, entry)) = Append(AccountRows(rows), AccountRow(entry))
  <1> DEFINE n == Len(rows)
             seen == AccountRows(rows)
             longer == Append(rows, entry)
             S == {AccountRow(e) : e \in Entry}
  <1>1. /\ n \in Nat /\ DOMAIN rows = 1 .. n
        /\ longer \in Seq(Entry) /\ Len(longer) = n + 1
        /\ \A i \in 1 .. n : longer[i] = rows[i] /\ rows[i] \in Entry
        /\ longer[n + 1] = entry
    BY AppendProperties
  <1>2. seen \in [1 .. n -> S]
    BY <1>1 DEF AccountRows
  <1>3. seen \in Seq(S) /\ Len(seen) = n
    BY <1>1, <1>2
  <1>4. /\ Append(seen, AccountRow(entry)) \in Seq(S)
        /\ Len(Append(seen, AccountRow(entry))) = n + 1
        /\ \A i \in 1 .. n : Append(seen, AccountRow(entry))[i] = seen[i]
        /\ Append(seen, AccountRow(entry))[n + 1] = AccountRow(entry)
    BY <1>3, AppendProperties
  <1>5. /\ DOMAIN AccountRows(longer) = 1 .. (n + 1)
        /\ \A i \in 1 .. n : AccountRows(longer)[i] = seen[i]
        /\ AccountRows(longer)[n + 1] = AccountRow(entry)
    BY <1>1 DEF AccountRows
  <1>6. AccountRows(longer) \in [1 .. (n + 1) -> S]
    BY <1>1 DEF AccountRows
  <1>7. AccountRows(longer) \in Seq(S) /\ Len(AccountRows(longer)) = n + 1
    BY <1>1, <1>6
  <1> HIDE DEF n, seen, longer, S
  <1>8. \A i \in 1 .. (n + 1) :
            AccountRows(longer)[i] = Append(seen, AccountRow(entry))[i]
    BY <1>1, <1>4, <1>5
  <1>9. AccountRows(longer) = Append(seen, AccountRow(entry))
    BY <1>4, <1>7, <1>8, SeqEqual
  <1> QED
    BY <1>9 DEF longer, seen

LEMMA InitIsAccount == Init => Account!Init
  <1> SUFFICES ASSUME Init PROVE Account!Init
    OBVIOUS
  <1>1. accountLedger \in [Orgs -> {<< >>, <<Account!Row("topup", OpeningBalance, OpeningBalance)>>}]
    <2>1. \A o \in Orgs : AccountRows(ledger[o]) = << >>
      BY DEF Init, AccountRows
    <2> QED
      BY <2>1 DEF accountLedger
  <1> QED
    BY <1>1 DEF Init, Account!Init, accountLedger, AccountRows, AccountRow, Account!Row

LEMMA CreditDeposits ==
    ASSUME WellFormed, NEW o \in Orgs, NEW amount \in Nat, NEW p \in Sources,
           Credit(o, amount, p)
    PROVE  Account!Deposit(o)
  <1>1. PICK entry \in Entry :
            /\ entry = [amountMinor |-> amount, balanceAfter |-> balance[o] + amount, source |-> p]
            /\ balance' = [balance EXCEPT ![o] = @ + amount]
            /\ balance'[o] = balance[o] + amount
            /\ ledger' = [ledger EXCEPT ![o] = Append(@, entry)]
    BY CreditType
  <1>2. balance[o] \in Int /\ ledger[o] \in Seq(Entry)
    BY DEF WellFormed, TypeOK
  <1>3. Account!Moved(o) = amount
    BY <1>1, <1>2 DEF Account!Moved
  <1>4. AccountRow(entry) = Account!Row("topup", amount, balance'[o])
    BY <1>1 DEF AccountRow, Account!Row
  <1>5. accountLedger' = [accountLedger EXCEPT ![o] = Append(@, AccountRow(entry))]
    <2>1. \A w \in Orgs : ledger'[w] = IF w = o THEN Append(ledger[o], entry) ELSE ledger[w]
      BY <1>1 DEF WellFormed, TypeOK
    <2>2. AccountRows(Append(ledger[o], entry)) = Append(AccountRows(ledger[o]), AccountRow(entry))
      BY <1>2, RowsOfAppend
    <2> QED
      BY <2>1, <2>2 DEF accountLedger
  <1>6. Account!Post(o, "topup", Account!Moved(o))
    BY <1>1, <1>3, <1>4, <1>5
    DEF Account!Post, accountLedger, AccountRows, AccountRow, Account!Row
  <1> QED
    BY <1>3, <1>6 DEF Account!Deposit

LEMMA NextIsAccount ==
    WellFormed /\ [Next]_vars => [Account!Next]_(Account!abstractVars)
  <1> SUFFICES ASSUME WellFormed, [Next]_vars
               PROVE  Account!Next \/ UNCHANGED Account!abstractVars
    OBVIOUS
  <1>1. CASE UNCHANGED walletVars
    BY <1>1 DEF walletVars, Account!abstractVars
  <1>2. ASSUME NEW p \in Payments, NEW success \in BOOLEAN, NEW by \in {"rail", "admin"},
               Settles(p, success, by), success
        PROVE  Account!Next
    <2>1. PICK o \in Orgs, amount \in Nat : Credit(o, amount, p)
      BY <1>2 DEF Settles, Payment
    <2> QED
      BY <2>1, CreditDeposits, PaymentsAssumption DEF Account!Next
  <1>3. ASSUME NEW p \in Payments, NEW success \in BOOLEAN, NEW by \in {"rail", "admin"},
               Settles(p, success, by), ~success
        PROVE  UNCHANGED walletVars
    BY <1>3 DEF Settles
  <1> QED
    BY <1>1, <1>2, <1>3, StepsOfRows DEF RowStep, Create, RecordCheckout

\* However often and by whomever payments are settled, the wallets move only by
\* deposits that write their ledger row in the same step.
THEOREM PaymentsImplementAccount == Spec => ImplementsAccount
  BY InitIsAccount, NextIsAccount, AlwaysWellFormed, PTL
  DEF Spec, ImplementsAccount, Account!Spec

-----------------------------------------------------------------------------
(* Invoice requests alone.                                                 *)

\* A review has read a request that exists.
ReviewsHaveRequests ==
    \A v \in Reviewers : reviews[v] # Null => topUps[reviews[v].topUp] # Null

InvoicesWell ==
    /\ Invoice!TypeOK
    /\ ReviewsHaveRequests
    /\ InvoicesStayAtomic

\* What a step of an invoice does to the wallets: it deposits the amount of a
\* request, or leaves them alone.
InvoicePosts ==
    \/ UNCHANGED walletVars
    \/ \E t \in TopUps, o \in Orgs, amount \in Nat : Credit(o, amount, t)

InvoiceStep ==
    /\ Invoice!Next
    /\ UNCHANGED <<payments, initiation, rail, timers, callbacks, handlers, faults>>

\* A review commits: it decides its request, and an approval deposits.
LEMMA ReviewEffect ==
    ASSUME WellFormed, InvoicesWell, NEW v \in Reviewers, Invoice!CommitReview(v)
    PROVE  \E t \in TopUps, row \in Invoice!TopUpRequest :
               /\ topUps[t] # Null
               /\ row.org = topUps[t].org
               /\ row.status # "pending"
               /\ topUps' = [topUps EXCEPT ![t] = row]
               /\ reviews' = [reviews EXCEPT ![v] = Null]
               /\ \/ UNCHANGED walletVars
                  \/ \E amount \in Nat : Credit(row.org, amount, t)
  <1>1. PICK call \in Invoice!Review : call = reviews[v]
    BY DEF Invoice!CommitReview, InvoicesWell, Invoice!TypeOK
  <1>2. PICK t \in TopUps : t = call.topUp
    BY <1>1 DEF Invoice!Review
  <1>3. topUps[t] # Null /\ topUps[t] \in Invoice!TopUpRequest
    BY <1>1, <1>2 DEF Invoice!CommitReview, InvoicesWell, ReviewsHaveRequests, Invoice!TypeOK
  <1> DEFINE outcome == IF call.approve THEN "approved" ELSE "rejected"
             row == [topUps[t] EXCEPT !.status = outcome]
  <1>4. /\ row \in Invoice!TopUpRequest
        /\ row.org = topUps[t].org
        /\ row.status = outcome
        /\ outcome # "pending"
        /\ topUps[t].amountMinor \in Nat
    BY <1>3 DEF Invoice!TopUpRequest
  <1>5. /\ topUps' = [topUps EXCEPT ![t] = row]
        /\ reviews' = [reviews EXCEPT ![v] = Null]
        /\ \/ UNCHANGED walletVars
           \/ Credit(topUps[t].org, topUps[t].amountMinor, t)
    BY <1>1, <1>2 DEF Invoice!CommitReview, Invoice!credit, Credit, walletVars
  <1> HIDE DEF row
  <1> QED
    BY <1>3, <1>4, <1>5

LEMMA InvoicesPost ==
    ASSUME WellFormed, InvoicesWell, InvoiceStep
    PROVE  InvoicePosts
  <1>1. ASSUME NEW v \in Reviewers, Invoice!CommitReview(v) PROVE InvoicePosts
    <2>1. PICK t \in TopUps, row \in Invoice!TopUpRequest :
              \/ UNCHANGED walletVars
              \/ \E amount \in Nat : Credit(row.org, amount, t)
      BY <1>1, ReviewEffect
    <2>2. row.org \in Orgs
      BY DEF Invoice!TopUpRequest
    <2> QED
      BY <2>1, <2>2 DEF InvoicePosts
  <1> QED
    BY <1>1 DEF InvoiceStep, Invoice!Next, Invoice!requestTopUp, Invoice!ReadTopUp,
                Invoice!RollBack, InvoicePosts, walletVars

\* Nothing else credits for a request, and a request stays its organization's.
LEMMA NoOtherCredit ==
    ASSUME WellFormed, InvoicesWell, UNCHANGED <<topUps, reviews>>,
           \/ UNCHANGED ledger
           \/ \E p \in Payments, o \in Orgs, amount \in Nat : Credit(o, amount, p)
    PROVE  InvoicesWell'
  <1>1. \A t \in TopUps, o \in Orgs : Invoice!CreditsFor(t, o)' = Invoice!CreditsFor(t, o)
    <2>1. CASE UNCHANGED ledger
      BY <2>1 DEF Invoice!CreditsFor
    <2>2. ASSUME NEW p \in Payments, NEW w \in Orgs, NEW amount \in Nat,
                 Credit(w, amount, p)
          PROVE  \A t \in TopUps, o \in Orgs :
                     Invoice!CreditsFor(t, o)' = Invoice!CreditsFor(t, o)
      <3>1. \A q \in Sources, o \in Orgs : q # p => CreditsOf(q, o)' = CreditsOf(q, o)
        BY <2>2, CreditAddsOne, PaymentsAssumption
      <3> QED
        BY <3>1, TopUpAssumption DEF CreditsOf, Invoice!CreditsFor
    <2> QED
      BY <2>1, <2>2
  <1>2. Invoice!TypeOK' /\ ReviewsHaveRequests'
    BY DEF InvoicesWell, Invoice!TypeOK, ReviewsHaveRequests
  <1>3. InvoicesStayAtomic'
    BY <1>1 DEF InvoicesWell, InvoicesStayAtomic, Invoice!OnlyReviewedIsCredited
  <1> QED
    BY <1>2, <1>3 DEF InvoicesWell

LEMMA OnlineKeepsInvoices ==
    ASSUME WellFormed, InvoicesWell, [Next]_vars, UNCHANGED <<topUps, reviews>>
    PROVE  InvoicesWell'
  <1>1. ASSUME NEW p \in Payments, NEW success \in BOOLEAN, NEW by \in {"rail", "admin"},
               Settles(p, success, by)
        PROVE  \/ UNCHANGED ledger
               \/ \E o \in Orgs, amount \in Nat : Credit(o, amount, p)
    BY <1>1 DEF Settles, Payment, walletVars
  <1> QED
    BY <1>1, StepsOfRows, NoOtherCredit DEF RowStep, Create, RecordCheckout, walletVars

\* A request is credited as it is decided, and its decision is not taken back
\* to pending.
LEMMA InvoicesKeepInvoices ==
    ASSUME WellFormed, InvoicesWell, InvoiceStep
    PROVE  InvoicesWell'
  <1> USE DEF Invoice!TypeOK, ReviewsHaveRequests
  <1>1. ASSUME NEW t \in TopUps, NEW o \in Orgs, NEW amount \in TopUpAmounts,
               Invoice!requestTopUp(t, o, amount)
        PROVE  InvoicesWell'
    <2> DEFINE row == [org |-> o, amountMinor |-> amount, status |-> "pending"]
    <2>1. row \in Invoice!TopUpRequest
      BY TopUpAssumption DEF Invoice!TopUpRequest
    <2>2. topUps' = [topUps EXCEPT ![t] = row] /\ topUps[t] = Null
          /\ UNCHANGED <<reviews, ledger>>
      BY <1>1 DEF Invoice!requestTopUp
    <2>3. row # Null
      BY <2>1, TopUpRowAssumption
    <2> HIDE DEF row
    <2>4. Invoice!TypeOK' /\ ReviewsHaveRequests'
      BY <2>1, <2>2, <2>3 DEF InvoicesWell, Invoice!Review
    <2>5. \A w \in Orgs : Invoice!CreditsFor(t, w) = {}
      BY <2>2 DEF InvoicesWell, InvoicesStayAtomic, Invoice!OnlyReviewedIsCredited
    <2>6. InvoicesStayAtomic'
      BY <2>2, <2>5 DEF InvoicesWell, InvoicesStayAtomic, Invoice!OnlyReviewedIsCredited,
                        Invoice!CreditsFor
    <2> QED
      BY <2>4, <2>6 DEF InvoicesWell
  <1>2. ASSUME NEW v \in Reviewers, NEW t \in TopUps, NEW approve \in BOOLEAN, NEW scope,
               Invoice!ReadTopUp(v, t, approve, scope)
        PROVE  InvoicesWell'
    <2> DEFINE call == [topUp |-> t, approve |-> approve]
    <2>1. call \in Invoice!Review /\ call.topUp = t
      BY DEF Invoice!Review
    <2>2. reviews' = [reviews EXCEPT ![v] = call] /\ topUps[t] # Null
          /\ UNCHANGED <<topUps, ledger>>
      BY <1>2 DEF Invoice!ReadTopUp
    <2> HIDE DEF call
    <2>3. Invoice!TypeOK' /\ ReviewsHaveRequests'
      BY <2>1, <2>2 DEF InvoicesWell
    <2> QED
      BY <2>2, <2>3 DEF InvoicesWell, InvoicesStayAtomic, Invoice!OnlyReviewedIsCredited,
                        Invoice!CreditsFor
  <1>3. ASSUME NEW v \in Reviewers, Invoice!CommitReview(v) PROVE InvoicesWell'
    <2>1. PICK t \in TopUps, row \in Invoice!TopUpRequest :
              /\ topUps[t] # Null
              /\ row.org = topUps[t].org
              /\ row.status # "pending"
              /\ topUps' = [topUps EXCEPT ![t] = row]
              /\ reviews' = [reviews EXCEPT ![v] = Null]
              /\ \/ UNCHANGED walletVars
                 \/ \E amount \in Nat : Credit(row.org, amount, t)
      BY <1>3, ReviewEffect
    <2>2. row # Null /\ row.org \in Orgs
      BY TopUpRowAssumption DEF Invoice!TopUpRequest
    <2>3. Invoice!TypeOK' /\ ReviewsHaveRequests'
      BY <2>1, <2>2 DEF InvoicesWell, Invoice!Review
    <2>4. ASSUME NEW s \in TopUps, NEW w \in Orgs, s # t \/ w # row.org
          PROVE  Invoice!CreditsFor(s, w)' = Invoice!CreditsFor(s, w)
      <3>1. CASE UNCHANGED walletVars
        BY <3>1 DEF Invoice!CreditsFor, walletVars
      <3>2. ASSUME NEW amount \in Nat, Credit(row.org, amount, t)
            PROVE  Invoice!CreditsFor(s, w)' = Invoice!CreditsFor(s, w)
        <4>1. \A q \in Sources, o \in Orgs :
                  q # t \/ o # row.org => CreditsOf(q, o)' = CreditsOf(q, o)
          BY <2>2, <3>2, CreditAddsOne, TopUpAssumption
        <4> QED
          BY <2>4, <4>1, TopUpAssumption DEF CreditsOf, Invoice!CreditsFor
      <3> QED
        BY <2>1, <3>1, <3>2
    <2>5. InvoicesStayAtomic'
      <3> SUFFICES ASSUME NEW s \in TopUps, NEW w \in Orgs,
                          Invoice!CreditsFor(s, w)' # {}
                   PROVE  /\ topUps'[s] # Null
                          /\ topUps'[s].org = w
                          /\ topUps'[s].status # "pending"
        BY DEF InvoicesStayAtomic, Invoice!OnlyReviewedIsCredited
      <3>1. CASE s # t \/ w # row.org
        BY <2>1, <2>4, <3>1
        DEF InvoicesWell, InvoicesStayAtomic, Invoice!OnlyReviewedIsCredited
      <3>2. CASE s = t /\ w = row.org
        BY <2>1, <2>2, <3>2 DEF InvoicesWell
      <3> QED
        BY <3>1, <3>2
    <2> QED
      BY <2>3, <2>5 DEF InvoicesWell
  <1>4. ASSUME NEW v \in Reviewers, Invoice!RollBack(v) PROVE InvoicesWell'
    BY <1>4 DEF Invoice!RollBack, InvoicesWell, InvoicesStayAtomic,
                Invoice!OnlyReviewedIsCredited, Invoice!CreditsFor
  <1> QED
    BY <1>1, <1>2, <1>3, <1>4 DEF InvoiceStep, Invoice!Next

-----------------------------------------------------------------------------
(* Online payments, while invoices are reviewed.                           *)

LEMMA InvoicesKeepPayments ==
    ASSUME WellFormed, InvoicesWell, RailIsKnown, CreditsMatch, InvoiceStep
    PROVE  WellFormed' /\ RailIsKnown' /\ CreditsMatch'
  <1>1. UNCHANGED <<payments, initiation, rail, timers, callbacks, handlers, faults>>
    BY DEF InvoiceStep
  <1>2. RailIsKnown'
    BY <1>1 DEF RailIsKnown, RailAfterRequest, TimersAreSandbox, CallbacksAreTrue,
                HandlersKnow, SettledAsTheRailDid, Carries, Tells, IsLive
  <1>3. CASE UNCHANGED walletVars
    <2>1. WellFormed'
      BY <1>1, <1>3 DEF WellFormed, TypeOK, RowsFollowRequests, HandlersHaveRows, walletVars
    <2>2. CreditsMatch'
      BY <1>1, <1>3 DEF CreditsMatch, PaidTo, CreditsOf, walletVars
    <2> QED
      BY <1>2, <2>1, <2>2
  <1>4. ASSUME NEW t \in TopUps, NEW o \in Orgs, NEW amount \in Nat, Credit(o, amount, t)
        PROVE  WellFormed' /\ CreditsMatch'
    <2>1. t \in Sources /\ t \notin Payments
      BY TopUpAssumption
    <2>2. balance' \in [Orgs -> Int] /\ ledger' \in [Orgs -> Seq(Entry)]
      BY <1>4, <2>1, CreditType
    <2>3. WellFormed'
      BY <1>1, <2>2 DEF WellFormed, TypeOK, RowsFollowRequests, HandlersHaveRows
    <2>4. ASSUME NEW q \in Payments, NEW w \in Orgs
          PROVE  /\ CreditsOf(q, w)' = CreditsOf(q, w)
                 /\ \A i \in CreditsOf(q, w) : ledger'[w][i] = ledger[w][i]
                 /\ PaidTo(q, w)' <=> PaidTo(q, w)
                 /\ PaidTo(q, w) => payments'[q].amountMinor = payments[q].amountMinor
      <3>1. /\ CreditsOf(q, w)' = CreditsOf(q, w)
            /\ \A i \in CreditsOf(q, w) : ledger'[w][i] = ledger[w][i]
        BY <1>4, <2>1, CreditAddsOne, PaymentsAssumption
      <3> QED
        BY <1>1, <3>1 DEF PaidTo
    <2>5. CreditsMatch'
      BY <2>4, MatchLasts DEF CreditsMatch
    <2> QED
      BY <2>3, <2>5
  <1> QED
    BY <1>2, <1>3, <1>4, InvoicesPost DEF InvoicePosts

-----------------------------------------------------------------------------
(* Both together.                                                          *)

WalletsWell == WellFormed /\ RailIsKnown /\ CreditsMatch /\ InvoicesWell

LEMMA InitWalletsWell == WalletInit => WalletsWell
  <1> SUFFICES ASSUME WalletInit PROVE WalletsWell
    OBVIOUS
  <1>1. Init /\ Invoice!Init
    BY DEF WalletInit
  <1>2. InvoicesWell
    BY <1>1 DEF Invoice!Init, Init, InvoicesWell, Invoice!TypeOK, ReviewsHaveRequests,
                InvoicesStayAtomic, Invoice!OnlyReviewedIsCredited, Invoice!CreditsFor
  <1> QED
    BY <1>1, <1>2, InitIsWellFormed, InitRailIsKnown, InitCreditsMatch DEF WalletsWell

\* A step of the whole is one of online payments or one of an invoice.
LEMMA WalletSteps ==
    ASSUME [WalletNext]_allVars
    PROVE  \/ [Next]_vars /\ UNCHANGED <<topUps, reviews>>
           \/ InvoiceStep
  BY DEF WalletNext, allVars, vars, InvoiceStep

LEMMA NextWalletsWell == WalletsWell /\ [WalletNext]_allVars => WalletsWell'
  <1> SUFFICES ASSUME WalletsWell, [WalletNext]_allVars PROVE WalletsWell'
    OBVIOUS
  <1>1. CASE [Next]_vars /\ UNCHANGED <<topUps, reviews>>
    BY <1>1, NextIsWellFormed, NextKnows, NextMatches, OnlineKeepsInvoices DEF WalletsWell
  <1>2. CASE InvoiceStep
    BY <1>2, InvoicesKeepPayments, InvoicesKeepInvoices DEF WalletsWell
  <1> QED
    BY <1>1, <1>2, WalletSteps

LEMMA AlwaysWalletsWell == WalletSpec => []WalletsWell
  BY InitWalletsWell, NextWalletsWell, PTL DEF WalletSpec

\* Nothing is credited for an invoice request that is still open, or to the
\* wallet of another organization: a review that rolls back, at any point and
\* beside any other step, takes its credit along.
THEOREM ReviewsAreAtomic == WalletSpec => []InvoicesStayAtomic
  BY AlwaysWalletsWell, PTL DEF WalletsWell, InvoicesWell

\* Invoices reviewed over the same wallets do not disturb online payments:
\* each paid one has exactly one top-up row, and the rows of invoices are
\* never taken for it.
THEOREM StillCreditedOnce == WalletSpec => []CreditedOnce
  BY AlwaysWalletsWell, CreditsAreCounted, PTL DEF WalletsWell

\* Nor do they settle a payment otherwise than its rail did.
THEOREM StillSettledByTheRail == WalletSpec => []SettledAsTheRailDid
  BY AlwaysWalletsWell, PTL DEF WalletsWell, RailIsKnown

-----------------------------------------------------------------------------
(* What the rails collected.                                               *)

\* Dropping the cents loses less than a shilling.
LEMMA WholeShillings ==
    ASSUME NEW amount \in Nat, NEW unit \in Nat \ {0}
    PROVE  /\ (amount \div unit) * unit \in Nat
           /\ (amount \div unit) * unit <= amount
           /\ amount <= (amount \div unit) * unit + (unit - 1)
  <1> DEFINE q == amount \div unit
             r == amount % unit
  <1>1. q \in Int
    OBVIOUS
  <1>2. r \in 0 .. (unit - 1)
    OBVIOUS
  <1>3. amount = unit * q + r
    OBVIOUS
  <1> HIDE DEF q, r
  <1>4. q >= 0
    <2> SUFFICES ASSUME q <= -1 PROVE FALSE
      BY <1>1
    <2>1. unit * q <= unit * (-1)
      BY <1>1
    <2> QED
      BY <1>1, <1>2, <1>3, <2>1
  <1>5. unit * q = q * unit /\ q * unit \in Nat
    BY <1>1, <1>4
  <1>6. q * unit \in Nat /\ q * unit <= amount /\ amount <= q * unit + (unit - 1)
    BY <1>2, <1>3, <1>5
  <1> QED
    BY <1>6 DEF q

\* What a rail leaves uncollected of a payment in a currency is less than this much
\* and one cent.
DroppedMinor(currency) == IF currency = "KES" THEN MinorPerShilling - 1 ELSE 0

LEMMA DroppedIsNat ==
    ASSUME NEW currency
    PROVE  DroppedMinor(currency) \in Nat
  BY PaymentsAssumption DEF DroppedMinor

LEMMA CollectedIsClose ==
    ASSUME NEW p \in Payments, payments[p].amountMinor \in Nat
    PROVE  /\ CollectedMinor(p) \in Int
           /\ CollectedMinor(p) <= payments[p].amountMinor
           /\ payments[p].amountMinor <= CollectedMinor(p) + DroppedMinor(CurrencyOf(p))
  <1> DEFINE amount == payments[p].amountMinor
             whole == (amount \div MinorPerShilling) * MinorPerShilling
  <1>1. amount \in Nat /\ MinorPerShilling \in Nat \ {0}
    BY PaymentsAssumption
  <1>2. whole \in Nat /\ whole <= amount /\ amount <= whole + (MinorPerShilling - 1)
    BY <1>1, WholeShillings
  <1>3. CollectedMinor(p) = IF payments[p].method = "stk" THEN whole ELSE amount
    BY DEF CollectedMinor
  <1>4. payments[p].method = "stk" => CurrencyOf(p) = "KES"
    BY DEF CurrencyOf
  <1>5. DroppedMinor(CurrencyOf(p)) \in Nat
    BY DroppedIsNat
  <1> HIDE DEF amount, whole
  <1>6. /\ CollectedMinor(p) \in Int
        /\ CollectedMinor(p) <= amount
        /\ amount <= CollectedMinor(p) + DroppedMinor(CurrencyOf(p))
    <2>1. CASE payments[p].method = "stk"
      BY <1>1, <1>2, <1>3, <1>4, <2>1 DEF DroppedMinor
    <2>2. CASE payments[p].method # "stk"
      BY <1>1, <1>3, <1>5, <2>2
    <2> QED
      BY <2>1, <2>2
  <1> QED
    BY <1>6 DEF amount

\* Each collected payment has one row, so the rows and the payments pair up.
LEMMA CreditsMatchInCurrency ==
    ASSUME WellFormed, CreditsMatch, NEW o \in Orgs, NEW currency
    PROVE  /\ IsFiniteSet(Collected(o, currency))
           /\ TookMinor(o, currency) \in Int /\ GainedMinor(o, currency) \in Int
           /\ TookMinor(o, currency) <= GainedMinor(o, currency)
           /\ GainedMinor(o, currency) <= TookMinor(o, currency)
                  + Cardinality(Collected(o, currency)) * DroppedMinor(currency)
  <1> DEFINE S == CollectedRows(o, currency)
             T == Collected(o, currency)
             f == [i \in S |-> ledger[o][i].amountMinor]
             g == [p \in T |-> payments[p].amountMinor]
             c == [p \in T |-> CollectedMinor(p)]
             h == [i \in S |-> ledger[o][i].source]
  <1>1. S \subseteq DOMAIN ledger[o] /\ IsFiniteSet(S)
    <2>1. ledger[o] \in Seq(Entry)
      BY DEF WellFormed, TypeOK
    <2>2. DOMAIN ledger[o] = 1 .. Len(ledger[o]) /\ Len(ledger[o]) \in Nat
      BY <2>1
    <2>3. S \subseteq DOMAIN ledger[o]
      BY DEF CollectedRows
    <2>4. IsFiniteSet(DOMAIN ledger[o])
      BY <2>2, FS_Interval
    <2> QED
      BY <2>3, <2>4, FS_Subset
  <1>2. \A p \in T : /\ p \in Payments /\ PaidTo(p, o)
                     /\ payments[p].amountMinor \in Nat
    BY DEF Collected, PaidTo, WellFormed, TypeOK, Payment
  <1>3. \A p \in T : \E i \in DOMAIN ledger[o] :
            CreditsOf(p, o) = {i} /\ ledger[o][i].amountMinor = payments[p].amountMinor
    BY <1>2 DEF CreditsMatch
  <1>4. ASSUME NEW i \in S
        PROVE  /\ h[i] \in T
               /\ f[i] = g[h[i]] /\ f[i] \in Int
               /\ CreditsOf(h[i], o) = {i}
    <2>1. h[i] \in T /\ i \in CreditsOf(h[i], o)
      BY DEF CollectedRows, CreditsOf
    <2>2. PICK j \in DOMAIN ledger[o] :
              /\ CreditsOf(h[i], o) = {j}
              /\ ledger[o][j].amountMinor = payments[h[i]].amountMinor
      BY <1>3, <2>1
    <2>3. i = j
      BY <2>1, <2>2
    <2> QED
      BY <1>2, <2>1, <2>2, <2>3
  <1>5. ASSUME NEW p \in T
        PROVE  p \in {h[i] : i \in S}
    <2>1. PICK i \in DOMAIN ledger[o] : CreditsOf(p, o) = {i}
      BY <1>3
    <2>2. i \in S /\ h[i] = p
      BY <2>1 DEF CreditsOf, CollectedRows
    <2> QED
      BY <2>2
  <1>6. {h[i] : i \in S} = T
    BY <1>4, <1>5
  <1>7. \A p \in T : /\ g[p] \in Int /\ c[p] \in Int /\ c[p] <= g[p]
                     /\ g[p] <= c[p] + DroppedMinor(currency)
    <2>1. \A p \in T : CurrencyOf(p) = currency
      BY DEF Collected
    <2> QED
      BY <1>2, <2>1, CollectedIsClose
  <1>8. /\ GainedMinor(o, currency) = SumFunctionOnSet(f, S)
        /\ TookMinor(o, currency) = SumFunctionOnSet(c, T)
    BY DEF GainedMinor, TookMinor
  <1> HIDE DEF S, T, f, g, c, h
  <1>9. \A i, j \in S : h[i] = h[j] => i = j
    BY <1>4
  <1>10. IsFiniteSet(T) /\ SumFunctionOnSet(g, T) = SumFunctionOnSet(f, S)
    <2>1. \A i \in S : f[i] \in Int /\ g[h[i]] = f[i]
      BY <1>4
    <2>2. IsFiniteSet(S)
      BY <1>1
    <2>3. /\ IsFiniteSet({h[i] : i \in S})
          /\ SumFunctionOnSet(g, {h[i] : i \in S}) = SumFunctionOnSet(f, S)
      BY <1>9, <2>1, <2>2, SumAcross
    <2> QED
      BY <1>6, <2>3
  <1>11. DroppedMinor(currency) \in Nat
    BY DroppedIsNat
  <1>12. /\ SumFunctionOnSet(c, T) <= SumFunctionOnSet(g, T)
         /\ SumFunctionOnSet(g, T) <= SumFunctionOnSet(c, T)
                + Cardinality(T) * DroppedMinor(currency)
    BY <1>7, <1>10, <1>11, SumsApart
  <1>13. /\ SumFunctionOnSet(c, T) \in Int
         /\ SumFunctionOnSet(g, T) \in Int
    BY <1>7, <1>10, SumOfIntegers
  <1> QED
    BY <1>8, <1>10, <1>12, <1>13 DEF T

LEMMA CreditsMatchCollection == WellFormed /\ CreditsMatch => CreditMatchesCollection
  <1> SUFFICES ASSUME WellFormed, CreditsMatch, NEW o \in Orgs
               PROVE  /\ TookMinor(o, "KES") <= GainedMinor(o, "KES")
                      /\ GainedMinor(o, "KES") <= TookMinor(o, "KES")
                             + Cardinality(Collected(o, "KES")) * (MinorPerShilling - 1)
                      /\ GainedMinor(o, PAYPAL_CURRENCY) = TookMinor(o, PAYPAL_CURRENCY)
    BY DEF CreditMatchesCollection
  <1>1. DroppedMinor("KES") = MinorPerShilling - 1 /\ DroppedMinor(PAYPAL_CURRENCY) = 0
    BY PaymentsAssumption DEF DroppedMinor
  <1>2. GainedMinor(o, PAYPAL_CURRENCY) = TookMinor(o, PAYPAL_CURRENCY)
    <2> DEFINE took == TookMinor(o, PAYPAL_CURRENCY)
               gained == GainedMinor(o, PAYPAL_CURRENCY)
               many == Cardinality(Collected(o, PAYPAL_CURRENCY))
    <2>1. /\ took \in Int /\ gained \in Int /\ took <= gained
          /\ gained <= took + many * 0
          /\ IsFiniteSet(Collected(o, PAYPAL_CURRENCY))
      BY <1>1, CreditsMatchInCurrency
    <2>2. many \in Nat
      BY <2>1, FS_CardinalityType
    <2> HIDE DEF took, gained, many
    <2>3. took = gained
      BY <2>1, <2>2
    <2> QED
      BY <2>3 DEF took, gained
  <1> QED
    BY <1>1, <1>2, CreditsMatchInCurrency

\* The wallets gain at least the shillings that M-Pesa and cards collected for
\* paid payments, and less than a shilling per payment more; by PayPal they gain
\* as many cents as it collected of its own currency, whatever the shilling is
\* worth; and whatever invoices are reviewed meanwhile.
THEOREM CreditsAreBacked == WalletSpec => []CreditMatchesCollection
  BY AlwaysWalletsWell, CreditsMatchCollection, PTL DEF WalletsWell

LEMMA WalletStepsAreAccount ==
    WalletsWell /\ [WalletNext]_allVars => [Account!Next]_(Account!abstractVars)
  <1> SUFFICES ASSUME WalletsWell, [WalletNext]_allVars
               PROVE  [Account!Next]_(Account!abstractVars)
    OBVIOUS
  <1>1. CASE [Next]_vars
    BY <1>1, NextIsAccount DEF WalletsWell
  <1>2. CASE InvoiceStep
    <2>1. CASE UNCHANGED walletVars
      BY <2>1 DEF walletVars, Account!abstractVars
    <2>2. ASSUME NEW t \in TopUps, NEW o \in Orgs, NEW amount \in Nat,
                 Credit(o, amount, t)
          PROVE  Account!Next
      BY <2>2, CreditDeposits, TopUpAssumption DEF Account!Next, WalletsWell
    <2> QED
      BY <1>2, <2>1, <2>2, InvoicesPost DEF InvoicePosts, WalletsWell
  <1> QED
    BY <1>1, <1>2, WalletSteps

\* Both ways together move the wallets only by deposits that write their
\* ledger row in the same step, as the abstract account allows.
THEOREM WalletsImplementAccount == WalletSpec => ImplementsAccount
  <1>1. WalletInit => Account!Init
    BY InitIsAccount DEF WalletInit
  <1> QED
    BY <1>1, WalletStepsAreAccount, AlwaysWalletsWell, PTL
    DEF WalletSpec, ImplementsAccount, Account!Spec

\* A review of an invoice is no step of any online payment's status.
THEOREM WalletsImplementStatus == WalletSpec => ImplementsStatus
  <1>1. WalletInit => Status!StatusInit
    BY InitSeen DEF WalletInit
  <1>2. WalletsWell /\ [WalletNext]_allVars => [Status!StatusNext]_(Status!statusVars)
    <2>1. InvoiceStep => UNCHANGED Status!statusVars
      BY DEF InvoiceStep, Status!statusVars, FieldOf
    <2> QED
      BY <2>1, NextSeen, WalletSteps DEF WalletsWell
  <1> QED
    BY <1>1, <1>2, AlwaysWalletsWell, PTL
    DEF WalletSpec, ImplementsStatus, Status!StatusSpec
=============================================================================
