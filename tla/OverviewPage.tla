------------------------------ MODULE OverviewPage ------------------------------
(***************************************************************************)
(* The console's overview (app/console/page.tsx).  A load asks for five    *)
(* things at once and, when all are settled, for the last movement of the  *)
(* wallet.  It is started on mount, on focus, every 60 seconds and by the  *)
(* retry button, whether or not an earlier load is still under way, and    *)
(* every load writes the same state when it gets there.                    *)
(*                                                                         *)
(* The server is a counter of changes; a request reads it at some moment   *)
(* between the start of its load and its answer.  The figures of stats,    *)
(* history and analytics are left out (Reports has them).                  *)
(***************************************************************************)
EXTENDS Integers

CONSTANTS
    Nothing,      \* a part that is not there
    MaxChanges,   \* bound on the changes of the server
    MaxLoads      \* bound on the loads under way

ASSUME OverviewAssumption == MaxChanges \in Nat /\ MaxLoads \in Nat /\ Nothing \notin Nat

VARIABLES
    changes,         \* how often catalogue and wallet were changed
    loads,           \* loads under way: since which change, and the balance read
    catalogueShown,  \* the catalogue shown
    walletShown,     \* balance and last movement shown
    overviewStatus   \* of the page: loading, error

overviewPageVars == <<loads, catalogueShown, walletShown, overviewStatus>>
overviewVars == <<changes, overviewPageVars>>

Versions == 0 .. MaxChanges

\* balance is Nothing until the five requests are settled.
Loading(since, balance) == [since |-> since, balance |-> balance]

OverviewInit ==
    /\ changes = 0
    /\ loads = [n \in 1 .. MaxLoads |-> IF n = 1 THEN Loading(0, Nothing) ELSE Nothing]
    /\ catalogueShown = Nothing
    /\ walletShown = Nothing
    /\ overviewStatus = [loading |-> TRUE, error |-> FALSE]

ServerChanges ==
    /\ changes < MaxChanges
    /\ changes' = changes + 1
    /\ UNCHANGED overviewPageVars

\* Focus, visibility, the interval and the retry.
loadOverview(n) ==
    /\ loads[n] = Nothing
    /\ loads' = [loads EXCEPT ![n] = Loading(changes, Nothing)]
    /\ overviewStatus' = [loading |-> TRUE, error |-> FALSE]
    /\ UNCHANGED <<changes, catalogueShown, walletShown>>

Ends(n) ==
    /\ loads' = [loads EXCEPT ![n] = Nothing]
    /\ overviewStatus' = [overviewStatus EXCEPT !.loading = FALSE]

\* Mutant of ShowProducts: a catalogue that is shown is kept.
ShowProductsOnce(answer) == catalogueShown' = IF catalogueShown = Nothing THEN answer ELSE catalogueShown

\* A catalogue that could not be read is shown as empty.
ShowProducts(answer) == catalogueShown' = answer

\* The five requests are settled: catalogue and balance were read, each at its
\* moment, or failed; without the history and the counts the load gives up.
Settled(n, catalogue, balance, figures) ==
    /\ loads[n] # Nothing /\ loads[n].balance = Nothing
    /\ {catalogue, balance} \subseteq (loads[n].since .. changes) \cup {Nothing}
    /\ IF ~figures
       THEN /\ loads' = [loads EXCEPT ![n] = Nothing]
            /\ overviewStatus' = [loading |-> FALSE, error |-> TRUE]
            /\ UNCHANGED <<catalogueShown, walletShown>>
       ELSE /\ ShowProducts(catalogue)
            /\ IF balance = Nothing
               THEN Ends(n) /\ walletShown' = Nothing
               ELSE /\ loads' = [loads EXCEPT ![n].balance = balance]
                    /\ UNCHANGED <<walletShown, overviewStatus>>
    /\ UNCHANGED changes

\* The last movement is read after the balance, or fails and is left out.
MovementAnswered(n) ==
    /\ loads[n] # Nothing /\ loads[n].balance # Nothing
    /\ \E movement \in (loads[n].balance .. changes) \cup {Nothing} :
           walletShown' = [balance |-> loads[n].balance, movement |-> movement]
    /\ Ends(n)
    /\ UNCHANGED <<changes, catalogueShown>>

AllSettled(n) ==
    \E catalogue, balance \in Versions \cup {Nothing}, figures \in BOOLEAN :
        Settled(n, catalogue, balance, figures)

OverviewNext ==
    \/ ServerChanges
    \/ \E n \in 1 .. MaxLoads : loadOverview(n) \/ AllSettled(n) \/ MovementAnswered(n)
=============================================================================
