------------------------------ MODULE WalletTopUps ------------------------------
(***************************************************************************)
(* Both ways a wallet is filled, over the same wallets and ledger: online  *)
(* payments (Payments) and reviewed invoice requests (TopUpReview).        *)
(***************************************************************************)
EXTENDS Payments, Functions

CONSTANTS TopUps, TopUpAmounts, MinimumTopUp, Reviewers

VARIABLES topUps, reviews

allVars == <<vars, topUps, reviews>>

Invoice == INSTANCE TopUpReview

\* Requests and online payments are rows of different tables.
ASSUME TopUpAssumption ==
    /\ TopUpAmounts \subseteq Nat
    /\ MinimumTopUp \in Nat
    /\ TopUps \subseteq Sources
    /\ TopUps \cap Payments = {}

ASSUME TopUpRowAssumption == Null \notin Invoice!TopUpRequest \cup Invoice!Review

WalletInit == Init /\ Invoice!Init

WalletNext ==
    \/ Next /\ UNCHANGED <<topUps, reviews>>
    \/ Invoice!Next
       /\ UNCHANGED <<payments, initiation, rail, timers, callbacks, handlers, faults>>

WalletSpec == WalletInit /\ [][WalletNext]_allVars

-----------------------------------------------------------------------------
\* Reviews roll back as a whole while payments settle on the same wallets.
InvoicesStayAtomic == Invoice!OnlyReviewedIsCredited

\* A review of a request, whatever else credits the wallet, decides it once.
InvoicesDecidedOnce == Invoice!DecidedOnce

\* Payments that a live rail collected in a currency and that are paid to
\* organization o, and the rows of its ledger that are for one of them.
Collected(o, currency) ==
    {p \in Payments : /\ payments[p] # Null
                      /\ payments[p].org = o
                      /\ payments[p].status = "paid"
                      /\ rail[p] = "taken"
                      /\ CurrencyOf(p) = currency}
CollectedRows(o, currency) ==
    {i \in DOMAIN ledger[o] : ledger[o][i].source \in Collected(o, currency)}

\* What the rails took, in hundredths of the currency, and what the wallet, kept
\* in shillings, gained by it.
TookMinor(o, currency) ==
    SumFunctionOnSet([p \in Collected(o, currency) |-> CollectedMinor(p)],
                     Collected(o, currency))
GainedMinor(o, currency) ==
    SumFunctionOnSet([i \in CollectedRows(o, currency) |-> ledger[o][i].amountMinor],
                     CollectedRows(o, currency))

\* M-Pesa and cards collect shillings: the wallets gained at least what they
\* took for the payments that are paid, and less than a shilling per payment
\* more, as Daraja is not asked for the cents.  PayPal collects another
\* currency, and no rate is applied anywhere: a wallet gained as many cents
\* of a shilling as PayPal took cents of a unit of PAYPAL_CURRENCY, so nothing
\* is said about the value of one against that of the other.
CreditMatchesCollection ==
    \A o \in Orgs :
        /\ TookMinor(o, "KES") <= GainedMinor(o, "KES")
        /\ GainedMinor(o, "KES") <= TookMinor(o, "KES")
               + Cardinality(Collected(o, "KES")) * (MinorPerShilling - 1)
        /\ GainedMinor(o, PAYPAL_CURRENCY) = TookMinor(o, PAYPAL_CURRENCY)
=============================================================================
