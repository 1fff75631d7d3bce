---------------------------- MODULE PrepaidLedger ----------------------------
(***************************************************************************)
(* What the wallets promise, with no word of prices, locks, providers or   *)
(* months: accounts that are credited, and purchases that are settled at   *)
(* most once each, at a cost the account holds at that moment.  Every move *)
(* of a balance writes one row of the account's ledger in the same step.   *)
(***************************************************************************)
EXTENDS Integers, Sequences

CONSTANTS Accounts, Purchases, Opening, Unsettled

VARIABLES
    balance,   \* what each account holds
    ledger,    \* rows of each account, oldest first
    settled    \* what each purchase cost, or Unsettled

abstractVars == <<balance, ledger, settled>>

Row(type, amount, after) ==
    [type |-> type, amountMinor |-> amount, balanceAfter |-> after]

Init ==
    /\ balance = [a \in Accounts |-> Opening]
    /\ ledger \in [Accounts -> {<< >>, <<Row("topup", Opening, Opening)>>}]
    /\ settled = [p \in Purchases |-> Unsettled]

\* The amount of a move is what the step changes the balance by.
Moved(a) == balance'[a] - balance[a]

Post(a, type, amount) ==
    /\ balance' = [balance EXCEPT ![a] = @ + Moved(a)]
    /\ ledger' = [ledger EXCEPT ![a] = Append(@, Row(type, amount, balance'[a]))]

Deposit(a) ==
    /\ Moved(a) >= 0
    /\ Post(a, "topup", Moved(a))
    /\ UNCHANGED settled

\* A purchase that costs something is paid from what the account holds.
Buy(a, p) ==
    /\ settled[p] = Unsettled
    /\ Moved(a) < 0
    /\ balance'[a] >= 0
    /\ Post(a, "charge", -Moved(a))
    /\ settled' = [settled EXCEPT ![p] = -Moved(a)]

\* A purchase that failed is settled for nothing and touches no account.
Waive(p) ==
    /\ settled[p] = Unsettled
    /\ settled' = [settled EXCEPT ![p] = 0]
    /\ UNCHANGED <<balance, ledger>>

Next ==
    \/ \E a \in Accounts : Deposit(a)
    \/ \E a \in Accounts, p \in Purchases : Buy(a, p)
    \/ \E p \in Purchases : Waive(p)

Spec == Init /\ [][Next]_abstractVars
=============================================================================
