-------------------------------- MODULE Catalog --------------------------------
(***************************************************************************)
(* The product catalogue that clients see before they buy                  *)
(* (VerificationsService.products), read from the tables of Billing, and   *)
(* the tier lookup in a list of tiers (selectTierInMemory, mirrored by the *)
(* administration console) next to the one in the database.                *)
(***************************************************************************)
EXTENDS Billing

\* The entry of one check for an organization.  The override row wins, then
\* the tier of this month's volume, then the base price; a backup price is
\* shown only when a backup is routed.  Null prices are shown as missing.
products(o, type) ==
    LET row     == pricing[type]
        tier    == getCurrentTier(tiers[type], usage[<<o, month, type>>])
        orgTier == orgTiers[<<o, type>>]
        shown(minor) == IF minor = Null THEN Null ELSE minor + PLATFORM_MARGIN_MINOR
    IN  [enabled  |-> /\ type \in EnabledChecks
                      /\ row # Null /\ row.active
                      /\ enabledRow[<<o, type>>] # FALSE,
         unit     |-> shown(UnitPrice(orgTier, tier, IF row = Null THEN Null
                                                     ELSE row.priceMinor)),
         backup   |-> IF type \in BackupTypes THEN shown(BackupPrice(orgTier, tier))
                      ELSE Null]

TopTier(rows) == CHOOSE t \in rows : \A u \in rows : u.minVolume <= t.minVolume

\* Mutant of selectTierInMemory: the upper bound is taken as exclusive.
selectTierExclusive(rows, volume) ==
    LET matching == {t \in rows : /\ t.minVolume <= volume
                                  /\ t.maxVolume = Null \/ t.maxVolume > volume}
    IN  IF matching # {} THEN TopTier(matching)
        ELSE IF rows = {} \/ \A t \in rows : volume < t.minVolume THEN Null
        ELSE TopTier(rows)

\* The first match of a list sorted by descending minVolume; below the whole
\* list nothing, and otherwise its first tier, whether it covers or not.
selectTierInMemory(rows, volume) ==
    LET matching == {t \in rows : Covers(t, volume)}
    IN  IF matching # {} THEN TopTier(matching)
        ELSE IF rows = {} \/ \A t \in rows : volume < t.minVolume THEN Null
        ELSE TopTier(rows)

-----------------------------------------------------------------------------
(* Properties.                                                             *)

\* A volume that no band covers although some band starts below it.
InGap(rows, volume) ==
    /\ \A t \in rows : ~Covers(t, volume)
    /\ \E t \in rows : t.minVolume <= volume

\* Whatever bands administrators create, move or overlap, the lookup in
\* memory and the lookup in the database choose the same tier for every
\* volume outside a gap (in a gap the first falls back to the top tier, and
\* the second to the base price).
LookupsAgree ==
    \A type \in Products, volume \in 0 .. 4 :
        ~InGap(tiers[type], volume) =>
            selectTierInMemory(tiers[type], volume) = getCurrentTier(tiers[type], volume)

\* At the moment a check is charged the catalogue shows the price that is
\* charged: no run in parallel moves the volume between pricing and commit.
\* A backup pays the backup price shown, unless none is shown or it is the
\* margin alone (a backup price of 0): then it pays the unit price.
\* Scanned statements are priced per page, which the catalogue cannot show,
\* and a run that crosses the end of a month is billed in the month it began.
ChargedAsShown ==
    [][\A r \in Requests :
          LET f     == records'[r]
              shown == products(f.org, f.type)
          IN  /\ records[r] = Null
              /\ f # Null
              /\ f.status = "success"
              /\ f.type # SCANNED_STATEMENT
              /\ f.monthKey = month
              /\ edits = 0
              => f.costMinor =
                     IF f.isBackup /\ shown.backup \notin {Null, PLATFORM_MARGIN_MINOR}
                     THEN shown.backup ELSE shown.unit]_vars
=============================================================================
