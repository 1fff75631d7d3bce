---------------------------- MODULE PricingProofs ----------------------------
(***************************************************************************)
(* The tier lookup and the price of a check, for every table of bands:     *)
(* what the proofs about single checks and about batches share.            *)
(***************************************************************************)
EXTENDS Pricing, WellFoundedInduction, TLAPS

-----------------------------------------------------------------------------
(* The tier lookup.                                                        *)

\* Any non-empty set of band starts that stays below a volume has a largest
\* one, so "ORDER BY minVolume DESC LIMIT 1" has an answer.
LEMMA LargestStart ==
    ASSUME NEW volume \in Nat,
           NEW S \in SUBSET Nat,
           S # {},
           \A m \in S : m <= volume
    PROVE  \E m \in S : \A n \in S : n <= m
  <1> DEFINE Gaps == {g \in Nat : \E m \in S : g = volume - m}
  <1>1. Gaps # {}
    <2>1. PICK m \in S : TRUE
      OBVIOUS
    <2>2. volume - m \in Nat
      OBVIOUS
    <2> QED
      BY <2>1, <2>2
  <1>2. PICK least \in Gaps : \A g \in Gaps : ~ (<<g, least>> \in OpToRel(<, Nat))
    <2> HIDE DEF Gaps
    <2>1. Gaps \subseteq Nat
      BY DEF Gaps
    <2> QED
      BY <1>1, <2>1, NatLessThanWellFounded, WFMin, Zenon
  <1>3. \A g \in Gaps : least <= g
    <2> TAKE g \in Gaps
    <2>1. g \in Nat /\ least \in Nat
      OBVIOUS
    <2>2. ~ (g < least)
      <3> HIDE DEF Gaps
      <3> QED
        BY <1>2, <2>1 DEF OpToRel
    <2> QED
      BY <2>1, <2>2
  <1>4. PICK m \in S : least = volume - m
    OBVIOUS
  <1>5. \A n \in S : n <= m
    <2> TAKE n \in S
    <2>1. volume - n \in Gaps
      OBVIOUS
    <2> QED
      BY <1>3, <1>4, <2>1
  <1> QED
    BY <1>5

\* getCurrentTier answers Null exactly when no band covers the volume, and
\* otherwise a covering band with the largest start.
LEMMA TierLookup ==
    ASSUME NEW rows \in SUBSET Tier,
           NEW volume \in Nat
    PROVE  LET t == getCurrentTier(rows, volume)
           IN  \/ t = Null /\ \A u \in rows : ~Covers(u, volume)
               \/ /\ t \in rows
                  /\ Covers(t, volume)
                  /\ \A u \in rows : Covers(u, volume) => u.minVolume <= t.minVolume
  <1> DEFINE matching == {t \in rows : Covers(t, volume)}
  <1>1. CASE matching = {}
    BY <1>1 DEF getCurrentTier
  <1>2. CASE matching # {}
    <2> DEFINE starts == {m \in Nat : \E t \in matching : m = t.minVolume}
    <2>1. /\ starts # {}
          /\ \A m \in starts : m <= volume
      BY <1>2 DEF Tier, Covers
    <2>2. PICK m \in starts : \A n \in starts : n <= m
      <3> HIDE DEF starts
      <3>1. starts \subseteq Nat
        BY DEF starts
      <3> QED
        BY <2>1, <3>1, LargestStart
    <2>3. PICK t \in matching : m = t.minVolume
      OBVIOUS
    <2>4. \A u \in matching : u.minVolume <= t.minVolume
      <3> TAKE u \in matching
      <3>1. u.minVolume \in starts
        BY DEF Tier
      <3> QED
        BY <2>2, <2>3, <3>1
    <2> DEFINE chosen == CHOOSE c \in matching : \A u \in matching : u.minVolume <= c.minVolume
    <2>5. chosen \in matching /\ \A u \in matching : u.minVolume <= chosen.minVolume
      <3> HIDE DEF matching
      <3> QED
        BY <2>4, Zenon
    <2>6. getCurrentTier(rows, volume) = chosen
      BY <1>2, Zenon DEF getCurrentTier
    <2> QED
      BY <2>5, <2>6, Zenon
  <1> QED
    BY <1>1, <1>2

-----------------------------------------------------------------------------
(* The price of a check.                                                   *)

\* Prices read from well-typed rows are amounts.
LEMMA PriceTypes ==
    ASSUME NEW orgTier \in Nullable(OrgTier), NEW tier \in Nullable(Tier),
           NEW basePrice \in Nat, NEW type, NEW pages \in Nat,
           Null \notin OrgTier, Null \notin Tier
    PROVE  /\ LockedUnit(type, pages, orgTier, tier, basePrice) \in Nat
           /\ UnitPrice(orgTier, tier, basePrice) \in Nat
           /\ BackupPrice(orgTier, tier) \in Nullable(Nat)
  <1>1. SCANNED_STATEMENT_BASE_MINOR + SCANNED_STATEMENT_PAGE_MINOR * pages \in Nat
    BY PricingAssumption
  <1>2. orgTier # Null => orgTier \in OrgTier
    BY DEF Nullable
  <1>3. tier # Null => tier \in Tier
    BY DEF Nullable
  <1>4. UnitPrice(orgTier, tier, basePrice) \in Nat
    BY <1>2, <1>3 DEF UnitPrice, OrgTier, Tier
  <1>5. BackupPrice(orgTier, tier) \in Nullable(Nat)
    BY <1>2, <1>3 DEF BackupPrice, OrgTier, Tier, Nullable
  <1> QED
    BY <1>1, <1>4, <1>5 DEF LockedUnit

\* A charge is an amount, and only a success is charged.
LEMMA CostTypes ==
    ASSUME NEW status \in Status, NEW isBackup \in BOOLEAN,
           NEW unit \in Nat, NEW backup \in Nullable(Nat)
    PROVE  LET vendor == VendorMinor(status, isBackup, unit, backup)
           IN  /\ vendor \in Nat
               /\ CostMinor(status, vendor) \in Nat
               /\ MarginMinor(status) \in Nat
               /\ CostMinor(status, vendor) = vendor + MarginMinor(status)
               /\ CostMinor(status, vendor) > 0 => status = "success"
  <1>1. VendorMinor(status, isBackup, unit, backup) \in Nat
    BY DEF VendorMinor, Nullable
  <1>2. status # "success" => VendorMinor(status, isBackup, unit, backup) = 0
    BY DEF VendorMinor
  <1> QED
    BY <1>1, <1>2, PricingAssumption DEF CostMinor, MarginMinor
=============================================================================
