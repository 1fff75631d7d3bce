------------------------------- MODULE AdminPage -------------------------------
(***************************************************************************)
(* The administration page (app/admin/page.tsx, admin-command-center.tsx)  *)
(* and, on it, the panel of one organization's availability                *)
(* (components/org-management.tsx).                                        *)
(*                                                                         *)
(* The page is loaded as a whole, on mount, by its retry buttons and after *)
(* every review, toggle and price; while a load is under way the panel is  *)
(* not on the page and what was ticked is lost, but a save goes on.  The   *)
(* panel loads an organization on Manage and after a save; its loads may   *)
(* overlap, and each sets rows, ticks and organization together when it is *)
(* answered.  A save writes one check after the other; the server replaces *)
(* a row in two statements (AdminController.setOrgEnabledChecks).          *)
(*                                                                         *)
(* Left out: figures, the queue of top-ups, prices, API keys, and what     *)
(* other administrators save meanwhile.                                    *)
(***************************************************************************)
EXTENDS Integers, FiniteSets, FiniteSetsExt, Functions

CONSTANTS
    Orgs,        \* organizations
    Checks,      \* checks by their place in VERIFICATION_TYPES
    Locked,      \* checks that are off in the whole deployment
    Absent,      \* no row, no organization
    RowsAtFirst, \* bound: rows of the organizations
    MaxOrgLoads, \* bound on the panel's loads under way
    MaxReloads,  \* bound on the page's loads under way
    MaxSaves,    \* bound on saves under way
    Edits        \* bound: <<org, check, enabled>> the user may tick

ASSUME AdminAssumption ==
    /\ Checks \subseteq Nat /\ Locked \subseteq Checks
    /\ RowsAtFirst \in [Orgs -> [Checks -> BOOLEAN \cup {Absent}]]
    /\ {MaxOrgLoads, MaxReloads, MaxSaves} \subseteq Nat

VARIABLES
    orgRows,    \* server: of each organization and check, enabled or Absent
    command,    \* the page: its loads under way, whether one is awaited, and
                \* whether it knows the organizations
    panel,      \* the organization shown, its rows as answered, the ticks
    orgLoads,   \* loads of the panel under way
    saves,      \* saves under way
    meant       \* <<org, check, enabled>> the user has ticked for that organization

panelVars == <<panel, orgLoads, saves, meant>>
adminVars == <<orgRows, command, panelVars>>

\* A panel that has just been mounted.
EmptyPanel == [selected |-> Absent, rows |-> [c \in Checks |-> Absent],
               ticks |-> [c \in Checks |-> TRUE], loading |-> FALSE, busy |-> FALSE,
               error |-> FALSE]

AdminInit ==
    /\ orgRows = RowsAtFirst
    /\ command = [loads |-> 1, loading |-> TRUE, orgs |-> FALSE]
    /\ panel = EmptyPanel
    /\ orgLoads = {} /\ saves = {} /\ meant = {}

PanelShown == ~command.loading /\ panel.selected # Absent

-----------------------------------------------------------------------------
(* The page.                                                               *)

\* The panel leaves the page: its loads have no effect any more, its saves go on.
loadAdmin ==
    /\ command.loads < MaxReloads
    /\ command' = [command EXCEPT !.loads = @ + 1, !.loading = TRUE]
    /\ panel' = EmptyPanel /\ orgLoads' = {}
    /\ saves' = {[s EXCEPT !.mounted = FALSE] : s \in saves}
    /\ UNCHANGED <<orgRows, meant>>

\* Six requests are settled; a list that failed is empty.  Of an earlier load this
\* mounts the panel although a later one is awaited.
AdminAnswered ==
    /\ command.loads > 0
    /\ \E orgs \in BOOLEAN :
           /\ command' = [loads |-> command.loads - 1, loading |-> FALSE, orgs |-> orgs]
           /\ panel' = IF orgs THEN panel ELSE [panel EXCEPT !.selected = Absent]
    /\ UNCHANGED <<orgRows, orgLoads, saves, meant>>

-----------------------------------------------------------------------------
(* The panel.                                                              *)

Loads(org, ofSave) == [org |-> org, rows |-> << >>, ofSave |-> ofSave]

\* Mutant of loadOrgDetails: the organization is shown before its rows are there.
loadOrgDetailsSelected(org, ofSave) ==
    /\ orgLoads' = orgLoads \cup {Loads(org, ofSave)}
    /\ panel' = [panel EXCEPT !.selected = org, !.loading = TRUE, !.error = FALSE]

loadOrgDetails(org, ofSave) ==
    /\ orgLoads' = orgLoads \cup {Loads(org, ofSave)}
    /\ panel' = [panel EXCEPT !.loading = TRUE, !.error = FALSE]

\* Manage, in the table of organizations.
Manage(org) ==
    /\ ~command.loading /\ command.orgs
    /\ Cardinality(orgLoads) < MaxOrgLoads
    /\ loadOrgDetails(org, FALSE)
    /\ UNCHANGED <<orgRows, command, saves, meant>>

\* GET organizations/:id/enabled-checks.
getOrgEnabledChecks(load) ==
    /\ load.rows = << >>
    /\ orgLoads' = (orgLoads \ {load}) \cup {[load EXCEPT !.rows = orgRows[load.org]]}
    /\ UNCHANGED <<orgRows, command, panel, saves, meant>>

\* A check without a row is ticked.  An organization that is not in the table is
\* deselected again.
OrgAnswered(load) ==
    /\ load.rows # << >>
    /\ orgLoads' = orgLoads \ {load}
    /\ panel' = [selected |-> IF command.orgs THEN load.org ELSE Absent, rows |-> load.rows,
                 ticks |-> [c \in Checks |-> load.rows[c] \in {Absent, TRUE}],
                 loading |-> FALSE, busy |-> panel.busy /\ ~load.ofSave, error |-> panel.error]
    /\ UNCHANGED <<orgRows, command, saves, meant>>

\* One of its three requests fails: the panel keeps what it shows.
OrgFails(load) ==
    /\ orgLoads' = orgLoads \ {load}
    /\ panel' = [panel EXCEPT !.loading = FALSE, !.busy = @ /\ ~load.ofSave]
    /\ UNCHANGED <<orgRows, command, saves, meant>>

Clear ==
    /\ PanelShown
    /\ panel' = [panel EXCEPT !.selected = Absent]
    /\ UNCHANGED <<orgRows, command, orgLoads, saves, meant>>

Tick(c) ==
    /\ PanelShown /\ c \notin Locked
    /\ LET edit == <<panel.selected, c, ~panel.ticks[c]>>
       IN  edit \in Edits /\ meant' = meant \cup {edit}
    /\ panel' = [panel EXCEPT !.ticks[c] = ~@]
    /\ UNCHANGED <<orgRows, command, orgLoads, saves>>

-----------------------------------------------------------------------------
(* A save: the checks that are still to be written, with their ticks.      *)

\* mounted: the panel it was started on is still there.
Saving(org, todo, rowless) ==
    [org |-> org, todo |-> todo, rowless |-> rowless, put |-> "sent", mounted |-> TRUE]

\* The button waits for the loads of the panel, the Retry below an error does not.
saveEnabledChecks ==
    /\ PanelShown /\ ~panel.busy /\ (panel.loading => panel.error)
    /\ Cardinality(saves) < MaxSaves
    /\ LET changed == {c \in Checks \ Locked : panel.rows[c] # panel.ticks[c]}
       IN  saves' = saves \cup
               {Saving(panel.selected, Restrict(panel.ticks, changed),
                       {c \in changed : panel.rows[c] = Absent})}
    /\ panel' = [panel EXCEPT !.busy = TRUE, !.error = FALSE]
    /\ UNCHANGED <<orgRows, command, orgLoads, meant>>

Becomes(save, next) == saves' = (saves \ {save}) \cup {next}

\* PUT organizations/:id/enabled-checks: the row is deleted, then created.
deleteRow(save) ==
    /\ save.todo # << >> /\ save.put = "sent"
    /\ orgRows' = [orgRows EXCEPT ![save.org][Min(DOMAIN save.todo)] = Absent]
    /\ Becomes(save, [save EXCEPT !.put = "deleted"])
    /\ UNCHANGED <<command, panel, orgLoads, meant>>

createRow(save) ==
    LET c == Min(DOMAIN save.todo)
    IN  /\ save.put = "deleted"
        /\ orgRows[save.org][c] = Absent
        /\ orgRows' = [orgRows EXCEPT ![save.org][c] = save.todo[c]]
        /\ Becomes(save, [save EXCEPT !.put = "created"])
        /\ UNCHANGED <<command, panel, orgLoads, meant>>

PutAnswered(save) ==
    /\ save.put = "created"
    /\ Becomes(save, [save EXCEPT !.put = "sent",
                                  !.todo = Restrict(@, (DOMAIN @) \ {Min(DOMAIN @)})])
    /\ UNCHANGED <<orgRows, command, panel, orgLoads, meant>>

\* The request is refused, also because another save's row is there, or its answer
\* is lost: the remaining checks are not written.
PutFails(save) ==
    /\ save.todo # << >>
    /\ saves' = saves \ {save}
    /\ panel' = IF save.mounted THEN [panel EXCEPT !.busy = FALSE, !.error = TRUE]
                ELSE panel
    /\ UNCHANGED <<orgRows, command, orgLoads, meant>>

\* Everything is written; the organization that was saved is loaded and shown.
Saved(save) ==
    /\ save.todo = << >>
    /\ saves' = saves \ {save}
    /\ IF save.mounted THEN loadOrgDetails(save.org, TRUE) ELSE UNCHANGED <<panel, orgLoads>>
    /\ UNCHANGED <<orgRows, command, meant>>

AdminNext ==
    \/ loadAdmin \/ AdminAnswered
    \/ \E org \in Orgs : Manage(org)
    \/ \E load \in orgLoads : getOrgEnabledChecks(load) \/ OrgAnswered(load) \/ OrgFails(load)
    \/ Clear
    \/ \E c \in Checks : Tick(c)
    \/ saveEnabledChecks
    \/ \E save \in saves : deleteRow(save) \/ createRow(save) \/ PutAnswered(save)
                               \/ PutFails(save) \/ Saved(save)

-----------------------------------------------------------------------------
(* Property.                                                               *)

\* What a save of this page still writes was ticked for that very organization, or
\* gives a check that had no row the row it stands for: over overlapping and failed
\* loads, reloads of the page and saves that outlive their panel, no organization
\* gets another's ticks, although each save brings its organization back into view.
TicksStayWithTheirOrg ==
    \A save \in saves : \A c \in DOMAIN save.todo :
        \/ <<save.org, c, save.todo[c]>> \in meant
        \/ c \in save.rowless /\ save.todo[c]
=============================================================================
