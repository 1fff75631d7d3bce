----------------------------- MODULE PaymentStatus -----------------------------
(***************************************************************************)
(* What a payment is to those who only ask for its status: it is created   *)
(* once, for one rail, waits, and is decided once.  Payments implements    *)
(* this; the wallet page of the console is built on it.                    *)
(***************************************************************************)
CONSTANTS
    Unset,          \* no method yet
    Tracked,        \* payments
    Ways            \* payment methods

VARIABLES status, method

statusVars == <<status, method>>

StatusInit ==
    /\ status = [p \in Tracked |-> "none"]
    /\ method = [p \in Tracked |-> Unset]

CreatePayment(p, way) ==
    /\ status[p] = "none"
    /\ status' = [status EXCEPT ![p] = "pending"]
    /\ method' = [method EXCEPT ![p] = way]

DecidePayment(p, outcome) ==
    /\ status[p] = "pending"
    /\ status' = [status EXCEPT ![p] = outcome]
    /\ UNCHANGED method

StatusNext ==
    \E p \in Tracked :
        \/ \E way \in Ways : CreatePayment(p, way)
        \/ \E outcome \in {"paid", "failed"} : DecidePayment(p, outcome)

StatusSpec == StatusInit /\ [][StatusNext]_statusVars
=============================================================================
