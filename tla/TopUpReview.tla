------------------------------ MODULE TopUpReview ------------------------------
(***************************************************************************)
(* Invoice top-ups: a client asks for credit (WalletService.requestTopUp)  *)
(* and an administrator approves or rejects the request (reviewTopUp).     *)
(*                                                                         *)
(* A review is one READ COMMITTED transaction: it reads the request with a *)
(* plain SELECT, which locks nothing, and then updates the row, credits    *)
(* the wallet and commits.  Two reviews of one request wait for each other *)
(* only at the update, which no longer looks at the status.                *)
(*                                                                         *)
(* The assumptions about the constants are those of WalletTopUps.          *)
(***************************************************************************)
EXTENDS Integers, FiniteSets, Sequences

CONSTANTS
    Null,           \* absent row, idle reviewer
    TopUps,         \* requests clients may make
    Orgs,
    TopUpAmounts,   \* amounts clients may ask for
    MinimumTopUp,   \* KES 1,000 in minor units
    Reviewers,      \* reviews being executed
    Sources         \* what a top-up row can be for: requests and others

TopUpRequest == [org : Orgs, amountMinor : Nat,
                 status : {"pending", "approved", "rejected"}]

Review == [topUp : TopUps, approve : BOOLEAN]

VARIABLES
    topUps,     \* top_up_requests
    reviews,    \* reviews that have read a pending request
    balance,    \* wallets.balanceMinor
    ledger      \* top-up rows of each wallet, oldest first

TypeOK ==
    /\ topUps \in [TopUps -> TopUpRequest \cup {Null}]
    /\ reviews \in [Reviewers -> Review \cup {Null}]

Init ==
    /\ topUps = [t \in TopUps |-> Null]
    /\ reviews = [v \in Reviewers |-> Null]

requestTopUp(t, o, amount) ==
    /\ topUps[t] = Null
    /\ amount >= MinimumTopUp
    /\ topUps' = [topUps EXCEPT ![t] =
          [org |-> o, amountMinor |-> amount, status |-> "pending"]]
    /\ UNCHANGED <<reviews, balance, ledger>>

\* A request that is gone, reviewed or another organization's is refused:
\* orgScope is the reviewer's organization, Null for a platform administrator.
ReadTopUp(v, t, approve, orgScope) ==
    /\ reviews[v] = Null
    /\ topUps[t] # Null
    /\ topUps[t].status = "pending"
    /\ orgScope \in {Null, topUps[t].org}
    /\ reviews' = [reviews EXCEPT ![v] = [topUp |-> t, approve |-> approve]]
    /\ UNCHANGED <<topUps, balance, ledger>>

credit(o, amount, t) ==
    /\ balance' = [balance EXCEPT ![o] = @ + amount]
    /\ ledger' = [ledger EXCEPT ![o] = Append(@,
          [amountMinor |-> amount, balanceAfter |-> balance'[o], source |-> t])]

\* Mutant of CommitReview: the credit is committed before the status.
CommitCreditOnly(v) ==
    /\ reviews[v] # Null
    /\ LET t == reviews[v].topUp
       IN  IF reviews[v].approve
           THEN credit(topUps[t].org, topUps[t].amountMinor, t) /\ UNCHANGED topUps
           ELSE /\ topUps' = [topUps EXCEPT ![t].status = "rejected"]
                /\ UNCHANGED <<balance, ledger>>
    /\ reviews' = [reviews EXCEPT ![v] = Null]

CommitReview(v) ==
    /\ reviews[v] # Null
    /\ LET t == reviews[v].topUp
       IN  /\ topUps' = [topUps EXCEPT ![t].status =
                 IF reviews[v].approve THEN "approved" ELSE "rejected"]
           /\ IF reviews[v].approve
              THEN credit(topUps[t].org, topUps[t].amountMinor, t)
              ELSE UNCHANGED <<balance, ledger>>
    /\ reviews' = [reviews EXCEPT ![v] = Null]

\* A query fails or the server stops: the transaction rolls back.
RollBack(v) ==
    /\ reviews[v] # Null
    /\ reviews' = [reviews EXCEPT ![v] = Null]
    /\ UNCHANGED <<topUps, balance, ledger>>

Next ==
    \/ \E t \in TopUps, o \in Orgs, amount \in TopUpAmounts : requestTopUp(t, o, amount)
    \/ \E v \in Reviewers, t \in TopUps, approve \in BOOLEAN, orgScope \in Orgs \cup {Null} :
           ReadTopUp(v, t, approve, orgScope)
    \/ \E v \in Reviewers : CommitReview(v)
    \/ \E v \in Reviewers : RollBack(v)

-----------------------------------------------------------------------------
(* Properties.                                                             *)

CreditsFor(t, o) == {i \in DOMAIN ledger[o] : ledger[o][i].source = t}

\* Nothing is credited for a request that is still open, or in the wallet of
\* another organization: whatever review rolls back takes its credit along.
OnlyReviewedIsCredited ==
    \A t \in TopUps, o \in Orgs :
        CreditsFor(t, o) # {} =>
            /\ topUps[t] # Null
            /\ topUps[t].org = o
            /\ topUps[t].status # "pending"

\* What the service says of a second review ("Already reviewed"): a request
\* is decided once, so an approved one is credited once and a rejected one
\* is not.
DecidedOnce ==
    \A t \in TopUps : topUps[t] # Null =>
        Cardinality(CreditsFor(t, topUps[t].org)) =
            IF topUps[t].status = "approved" THEN 1 ELSE 0
=============================================================================
