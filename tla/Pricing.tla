------------------------------- MODULE Pricing -------------------------------
(***************************************************************************)
(* What a verification costs.  Pure operators shared by the billing        *)
(* pipeline (VerificationsService.run), the product catalogue              *)
(* (VerificationsService.products) and the batch estimate: the tier        *)
(* lookup of getCurrentTier and the choice between organization override,  *)
(* tier, base price and scanned-statement price.                           *)
(*                                                                         *)
(* Amounts are minor units (cents).  Null stands for an absent row or a    *)
(* NULL column.                                                            *)
(***************************************************************************)
EXTENDS Integers, FiniteSets

CONSTANTS
    Null,                         \* absent row, NULL column
    SCANNED_STATEMENT,            \* the product priced per page
    SCANNED_STATEMENT_BASE_MINOR,
    SCANNED_STATEMENT_PAGE_MINOR,
    PLATFORM_MARGIN_MINOR         \* margin added to every successful check

ASSUME PricingAssumption ==
    /\ Null \notin Int
    /\ SCANNED_STATEMENT_BASE_MINOR \in Nat
    /\ SCANNED_STATEMENT_PAGE_MINOR \in Nat
    /\ PLATFORM_MARGIN_MINOR \in Nat

Nullable(S) == S \cup {Null}

\* A row of product_pricing_tiers: one volume band of one product.
Tier == [minVolume : Nat, maxVolume : Nullable(Nat),
         unitPriceMinor : Nat, backupPriceMinor : Nullable(Nat)]

\* A row of org_pricing_tiers: run() and products() use only its two prices,
\* whatever its volume bounds are.
OrgTier == [unitPriceMinor : Nat, backupPriceMinor : Nullable(Nat)]

Status == {"success", "not_found", "failed"}

-----------------------------------------------------------------------------
(* Tier lookup.                                                            *)

Covers(tier, volume) ==
    /\ tier.minVolume <= volume
    /\ tier.maxVolume = Null \/ tier.maxVolume >= volume

\* Mutant of getCurrentTier: the bounds are dropped.
TopmostTier(rows, volume) ==
    IF rows = {} THEN Null
    ELSE CHOOSE t \in rows : \A u \in rows : u.minVolume <= t.minVolume

\* findFirst, ordered by minVolume descending, over one product's rows.
getCurrentTier(rows, volume) ==
    LET matching == {t \in rows : Covers(t, volume)}
    IN  IF matching = {} THEN Null
        ELSE CHOOSE t \in matching :
                 \A u \in matching : u.minVolume <= t.minVolume

-----------------------------------------------------------------------------
(* The price of one check.                                                 *)

\* The organization's own price wins, then the tier, then the base price.
\* basePrice is Null when the product has no product_pricing row.
UnitPrice(orgTier, tier, basePrice) ==
    IF orgTier # Null THEN orgTier.unitPriceMinor
    ELSE IF tier # Null THEN tier.unitPriceMinor
    ELSE basePrice

BackupPrice(orgTier, tier) ==
    IF orgTier # Null THEN orgTier.backupPriceMinor
    ELSE IF tier # Null THEN tier.backupPriceMinor
    ELSE Null

\* Scanned statements are priced per page unless the organization has its
\* own price.
LockedUnit(type, pages, orgTier, tier, basePrice) ==
    IF type = SCANNED_STATEMENT /\ orgTier = Null
    THEN SCANNED_STATEMENT_BASE_MINOR + SCANNED_STATEMENT_PAGE_MINOR * pages
    ELSE UnitPrice(orgTier, tier, basePrice)

\* Only a success is charged; a backup price of NULL or 0 falls back to the
\* unit price (the code tests the price's truthiness).
VendorMinor(status, isBackup, unit, backup) ==
    IF status # "success" THEN 0
    ELSE IF isBackup /\ backup # Null /\ backup # 0 THEN backup
    ELSE unit

\* Mutant of MarginMinor: the margin is booked on every record.
MarginOnEveryRun(status) == PLATFORM_MARGIN_MINOR

MarginMinor(status) ==
    IF status = "success" THEN PLATFORM_MARGIN_MINOR ELSE 0

\* Mutant of CostMinor: failed and empty-handed runs pay the margin.
CostOfEveryRun(status, vendor) == vendor + PLATFORM_MARGIN_MINOR

CostMinor(status, vendor) ==
    IF status = "success" THEN vendor + PLATFORM_MARGIN_MINOR ELSE 0

\* The total a backup retry is quoted at when a primary check is down.
BackupOffer(quotedBackup) == quotedBackup + PLATFORM_MARGIN_MINOR
=============================================================================
