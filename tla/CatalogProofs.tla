---------------------------- MODULE CatalogProofs ----------------------------
(***************************************************************************)
(* What a check costs, for every price table, any edits and any number of  *)
(* concurrent runs: the band that prices it covers the position it is      *)
(* billed at, both tier lookups choose the same band, and the catalogue    *)
(* shows the price that is charged.                                        *)
(***************************************************************************)
EXTENDS Catalog, BillingProofs

-----------------------------------------------------------------------------
(* The two lookups.                                                        *)

\* Outside a gap the lookup in memory and the lookup in the database choose
\* the same tier, for every table and every volume.
LEMMA SameTier ==
    ASSUME NEW rows \in SUBSET Tier, NEW volume \in Nat, ~InGap(rows, volume)
    PROVE  selectTierInMemory(rows, volume) = getCurrentTier(rows, volume)
  <1> DEFINE matching == {t \in rows : Covers(t, volume)}
  <1>1. CASE matching # {}
    <2>1. selectTierInMemory(rows, volume) = TopTier(matching)
      BY <1>1, Zenon DEF selectTierInMemory
    <2>2. getCurrentTier(rows, volume) = TopTier(matching)
      BY <1>1, Zenon DEF getCurrentTier, TopTier
    <2> QED
      BY <2>1, <2>2
  <1>2. CASE matching = {}
    <2>1. \A t \in rows : ~Covers(t, volume)
      BY <1>2
    <2>2. \A t \in rows : volume < t.minVolume
      BY <2>1 DEF InGap, Tier
    <2> QED
      BY <1>2, <2>2 DEF selectTierInMemory, getCurrentTier
  <1> QED
    BY <1>1, <1>2

\* Whatever bands administrators have made, the console's lookup and the
\* one that charges choose the same tier outside a gap.
THEOREM LookupsChooseTheSame == Spec => []LookupsAgree
  <1>1. TypeOK => LookupsAgree
    BY SameTier DEF LookupsAgree, TypeOK, CatalogOK
  <1> QED
    BY <1>1, TypeCorrect, PTL

-----------------------------------------------------------------------------
(* The price of a run, from its start to its commit.                       *)

\* The tier and the charge that the tables give for the local variables f.
LockedTier(f) == getCurrentTier(tiers[f.type], f.lockedVolume)

Charge(f) ==
    CostMinor(f.status,
              VendorMinor(f.status, f.isBackup,
                          LockedUnit(f.type, f.pages, f.orgTier, LockedTier(f),
                                     f.basePrice),
                          BackupPrice(f.orgTier, LockedTier(f))))

\* What a run that stands at a label knows of the tables: while nobody edits
\* them, the prices it read are the prices they hold.
Priced(f, label) ==
    /\ f.isBackup => f.type \in BackupTypes
    /\ label \in {"wallet", "commit"} /\ f.lockedTier # Null =>
           Covers(f.lockedTier, f.lockedVolume)
    /\ edits = 0 =>
           /\ pricing[f.type] # Null
           /\ f.basePrice = pricing[f.type].priceMinor
           /\ label # "overrides" => f.orgTier = orgTiers[<<f.org, f.type>>]
           /\ label \in {"wallet", "commit"} => f.costMinor = Charge(f)

AllPriced ==
    /\ \A r \in Requests : pc[r] \in Running => Priced(run[r], pc[r])
    /\ \A r \in Requests : records[r] # Null /\ records[r].lockedTier # Null =>
           Covers(records[r].lockedTier, records[r].lockedVolume)

\* A step of one run reads the tables and leaves the other runs alone.
StepOf(r) ==
    /\ UNCHANGED <<catalogVars, boundVars, month>>
    /\ \A q \in Requests \ {r} :
           pc'[q] = pc[q] /\ run'[q] = run[q] /\ records'[q] = records[q]

LEMMA PricedKept ==
    ASSUME NEW f, NEW label, Priced(f, label), UNCHANGED <<catalogVars, edits>>
    PROVE  Priced(f, label)'
  BY DEF Priced, catalogVars, Charge, LockedTier

\* It is enough to look at the run that moves.
LEMMA OneRunPriced ==
    ASSUME AllPriced, NEW r \in Requests, StepOf(r),
           pc'[r] \in Running => Priced(run'[r], pc'[r]),
           records'[r] = records[r]
    PROVE  AllPriced'
  <1>1. ASSUME NEW q \in Requests, pc'[q] \in Running
        PROVE  Priced(run[q], pc[q])'
    <2>1. UNCHANGED <<catalogVars, edits>>
      BY DEF StepOf, boundVars
    <2>2. Priced(run'[q], pc'[q])
      BY <1>1 DEF AllPriced, StepOf
    <2> QED
      BY <2>1, <2>2 DEF Priced, catalogVars, Charge, LockedTier
  <1>2. \A q \in Requests : records'[q] = records[q]
    BY DEF StepOf
  <1> QED
    BY <1>1, <1>2 DEF AllPriced

LEMMA LeavePriced ==
    ASSUME TypeOK, AllPriced, NEW r \in Requests, NEW outcome \in Finished,
           Leave(r, outcome), UNCHANGED <<catalogVars, month, moneyVars, boundVars>>
    PROVE  AllPriced'
  <1>1. StepOf(r) /\ records'[r] = records[r]
    BY DEF StepOf, Leave, TypeOK, RunsOK, moneyVars
  <1>2. pc'[r] \notin Running
    BY DEF Leave, TypeOK, RunsOK, Finished, Running, InTransaction
  <1> QED
    BY <1>1, <1>2, OneRunPriced

\* A step of the run that goes on to the next label with the locals f.
LEMMA GoesOnPriced ==
    ASSUME TypeOK, AllPriced, NEW r \in Requests, NEW label, NEW f,
           Goto(r, label), run' = [run EXCEPT ![r] = f], Priced(f, label),
           UNCHANGED <<catalogVars, month, moneyVars, boundVars>>
    PROVE  AllPriced'
  <1>1. StepOf(r) /\ records'[r] = records[r]
    BY DEF StepOf, Goto, TypeOK, RunsOK, moneyVars
  <1>2. pc'[r] = label /\ run'[r] = f
    BY DEF Goto, TypeOK, RunsOK
  <1> QED
    BY <1>1, <1>2, OneRunPriced

LEMMA StartPriced ==
    ASSUME TypeOK, AllPriced, NEW r \in Requests, NEW o \in Orgs,
           NEW type \in Products, NEW b \in BOOLEAN, NEW n \in Pages,
           Start(r, o, type, b, n)
    PROVE  AllPriced'
  <1>1. CASE Leave(r, "rejected")
    BY <1>1, LeavePriced DEF Start, Finished
  <1>2. CASE ~Leave(r, "rejected")
    <2> DEFINE f == [org |-> o, type |-> type, useBackup |-> b,
               pages |-> n, basePrice |-> pricing[type].priceMinor,
               orgTier |-> Null, monthKey |-> month, currentVolume |-> 0,
               quotedBackup |-> Null, status |-> "success",
               isBackup |-> FALSE, offer |-> Null, lockedVolume |-> 0,
               lockedTier |-> Null, vendorMinor |-> 0, costMinor |-> 0]
    <2>1. /\ pricing[type] # Null
          /\ run' = [run EXCEPT ![r] = f]
          /\ Goto(r, "overrides")
      BY <1>2 DEF Start
    <2>2. Priced(f, "overrides")
      BY <2>1 DEF Priced
    <2> HIDE DEF f
    <2> QED
      BY <2>1, <2>2, GoesOnPriced DEF Start
  <1> QED
    BY <1>1, <1>2

LEMMA PreparationPriced ==
    ASSUME TypeOK, AllPriced, NEW r \in Requests,
           \/ ReadOverrides(r) \/ ReadUsage(r) \/ Quote(r)
           \/ \E answer : ProviderAnswers(r, answer)
    PROVE  AllPriced'
  <1>1. /\ run[r] \in Frame
        /\ Priced(run[r], pc[r])
    BY KeyType DEF TypeOK, AllPriced, Running, ReadOverrides, ReadUsage, Quote,
                   ProviderAnswers
  <1>2. CASE ReadOverrides(r)
    <2>1. CASE Leave(r, "rejected")
      BY <1>2, <2>1, LeavePriced DEF ReadOverrides, Finished
    <2>2. CASE ~Leave(r, "rejected")
      <3> DEFINE ot == orgTiers[<<run[r].org, run[r].type>>]
                 f == [run[r] EXCEPT !.orgTier = ot, !.monthKey = month]
      <3>1. run' = [run EXCEPT ![r] = f] /\ Goto(r, "usage") /\ pc[r] = "overrides"
        BY <1>2, <2>2 DEF ReadOverrides
      <3>2. /\ f.orgTier = ot /\ f.org = run[r].org /\ f.type = run[r].type
            /\ f.isBackup = run[r].isBackup /\ f.basePrice = run[r].basePrice
        BY <1>1 DEF Frame
      <3>3. Priced(f, "usage")
        <4> HIDE DEF f
        <4> QED
          BY <1>1, <3>1, <3>2 DEF Priced
      <3> HIDE DEF f
      <3> QED
        BY <1>2, <3>1, <3>3, GoesOnPriced DEF ReadOverrides
    <2> QED
      BY <2>1, <2>2
  <1>3. CASE ReadUsage(r)
    <2> DEFINE volume == usage[UsageKey(r)]
               f == [run[r] EXCEPT !.currentVolume = volume]
    <2>1. /\ f.orgTier = run[r].orgTier /\ f.org = run[r].org /\ f.type = run[r].type
          /\ f.isBackup = run[r].isBackup /\ f.basePrice = run[r].basePrice
      BY <1>1 DEF Frame
    <2>2. run' = [run EXCEPT ![r] = f] /\ Goto(r, "quote") /\ pc[r] = "usage"
      BY <1>3 DEF ReadUsage
    <2> HIDE DEF f
    <2>3. Priced(f, "quote")
      BY <1>1, <2>1, <2>2 DEF Priced
    <2> QED
      BY <1>3, <2>2, <2>3, GoesOnPriced DEF ReadUsage
  <1>4. CASE Quote(r)
    <2> DEFINE price == BackupPrice(run[r].orgTier,
                            getCurrentTier(tiers[run[r].type], run[r].currentVolume))
               f == [run[r] EXCEPT !.quotedBackup = price]
    <2>1. /\ f.orgTier = run[r].orgTier /\ f.org = run[r].org /\ f.type = run[r].type
          /\ f.isBackup = run[r].isBackup /\ f.basePrice = run[r].basePrice
      BY <1>1 DEF Frame
    <2>2. run' = [run EXCEPT ![r] = f] /\ Goto(r, "provider") /\ pc[r] = "quote"
      BY <1>4 DEF Quote
    <2> HIDE DEF f
    <2>3. Priced(f, "provider")
      BY <1>1, <2>1, <2>2 DEF Priced
    <2> QED
      BY <1>4, <2>2, <2>3, GoesOnPriced DEF Quote
  <1>5. ASSUME NEW answer, ProviderAnswers(r, answer) PROVE AllPriced'
    <2> DEFINE routed == run[r].useBackup /\ run[r].type \in BackupTypes
               offered == /\ answer = "UPSTREAM_DOWN"
                          /\ ~run[r].useBackup
                          /\ run[r].type \in BackupTypes
                          /\ run[r].quotedBackup # Null
               status == CASE answer = "RESULT"    -> "success"
                           [] answer = "NOT_FOUND" -> "not_found"
                           [] OTHER                -> "failed"
               offer == IF offered THEN BackupOffer(run[r].quotedBackup) ELSE Null
               f == [run[r] EXCEPT !.isBackup = routed, !.status = status,
                                   !.offer = offer]
    <2>1. run' = [run EXCEPT ![r] = f] /\ Goto(r, "lock") /\ pc[r] = "provider"
      BY <1>5, ZenonT(60) DEF ProviderAnswers
    <2> HIDE DEF status, offer
    <2>2. /\ f.orgTier = run[r].orgTier /\ f.org = run[r].org /\ f.type = run[r].type
          /\ f.isBackup = routed /\ f.basePrice = run[r].basePrice
      BY <1>1 DEF Frame
    <2> HIDE DEF f
    <2>3. Priced(f, "lock")
      BY <1>1, <2>1, <2>2 DEF Priced
    <2> QED
      BY <1>5, <2>1, <2>3, GoesOnPriced DEF ProviderAnswers
  <1> QED
    BY <1>2, <1>3, <1>4, <1>5

LEMMA LockUsagePriced ==
    ASSUME TypeOK, AllPriced, NEW r \in Requests, LockUsage(r)
    PROVE  AllPriced'
  <1>1. /\ run[r] \in Frame
        /\ Priced(run[r], "lock")
    BY KeyType DEF TypeOK, AllPriced, Running, LockUsage
  <1> DEFINE f == [run[r] EXCEPT !.lockedVolume = usage[UsageKey(r)]]
  <1>2. /\ f.orgTier = run[r].orgTier /\ f.org = run[r].org /\ f.type = run[r].type
        /\ f.isBackup = run[r].isBackup /\ f.basePrice = run[r].basePrice
    BY <1>1 DEF Frame
  <1>3. run' = [run EXCEPT ![r] = f] /\ Goto(r, "tier")
    BY DEF LockUsage
  <1> HIDE DEF f
  <1>4. Priced(f, "tier")
    BY <1>1, <1>2 DEF Priced
  <1> QED
    BY <1>3, <1>4, GoesOnPriced DEF LockUsage

\* The tier that is read under the lock covers the locked volume, and the
\* charge is the one the tables give.
LEMMA ReadLockedTierPriced ==
    ASSUME TypeOK, AllPriced, NEW r \in Requests, ReadLockedTier(r)
    PROVE  AllPriced'
  <1>1. /\ run[r] \in Frame
        /\ run[r].type \in Products
        /\ Priced(run[r], "tier")
    BY KeyType DEF TypeOK, AllPriced, Running, InTransaction, ReadLockedTier
  <1>2. LockedTier(run[r]) # Null =>
            Covers(LockedTier(run[r]), run[r].lockedVolume)
    <2>1. tiers[run[r].type] \in SUBSET Tier
      BY <1>1 DEF TypeOK, CatalogOK
    <2> QED
      BY <1>1, <2>1, FrameFields, TierLookup DEF LockedTier
  <1>3. PICK tier, cost, vendor :
            /\ tier = LockedTier(run[r])
            /\ cost = Charge(run[r])
            /\ run' = [run EXCEPT ![r] = [run[r] EXCEPT
                   !.lockedTier = tier, !.vendorMinor = vendor, !.costMinor = cost]]
            /\ Goto(r, IF cost > 0 THEN "wallet" ELSE "commit")
    BY DEF ReadLockedTier, Charge, LockedTier
  <1> DEFINE f == [run[r] EXCEPT !.lockedTier = tier, !.vendorMinor = vendor,
                                 !.costMinor = cost]
             label == IF cost > 0 THEN "wallet" ELSE "commit"
  <1>4. /\ f.orgTier = run[r].orgTier /\ f.org = run[r].org /\ f.type = run[r].type
        /\ f.isBackup = run[r].isBackup /\ f.basePrice = run[r].basePrice
        /\ f.status = run[r].status /\ f.pages = run[r].pages
        /\ f.lockedVolume = run[r].lockedVolume
        /\ f.lockedTier = tier /\ f.costMinor = cost
    BY <1>1 DEF Frame
  <1>5. run' = [run EXCEPT ![r] = f] /\ Goto(r, label)
    BY <1>3
  <1>6. Charge(f) = Charge(run[r])
    <2> HIDE DEF f
    <2> QED
      BY <1>4 DEF Charge, LockedTier
  <1> HIDE DEF f, label
  <1>7. Priced(f, label)
    BY <1>1, <1>2, <1>3, <1>4, <1>6 DEF Priced
  <1> QED
    BY <1>5, <1>7, GoesOnPriced DEF ReadLockedTier

LEMMA LockWalletPriced ==
    ASSUME TypeOK, AllPriced, NEW r \in Requests, LockWallet(r)
    PROVE  AllPriced'
  <1>1. Priced(run[r], "wallet")
    BY DEF AllPriced, LockWallet, Running, InTransaction
  <1>2. CASE Leave(r, "insufficient")
    BY <1>2, LeavePriced DEF LockWallet, Finished
  <1>3. CASE Goto(r, "commit") /\ UNCHANGED run
    <2>1. run' = [run EXCEPT ![r] = run[r]]
      BY <1>3 DEF TypeOK, RunsOK
    <2>2. Priced(run[r], "commit")
      BY <1>1 DEF Priced
    <2> QED
      BY <1>3, <2>1, <2>2, GoesOnPriced DEF LockWallet
  <1> QED
    BY <1>2, <1>3 DEF LockWallet

LEMMA CommitPriced ==
    ASSUME TypeOK, AllPriced, NEW r \in Requests, Commit(r)
    PROVE  AllPriced'
  <1>1. /\ Priced(run[r], "commit")
        /\ records'[r] = NewRecord(run[r])
        /\ pc'[r] = "done"
        /\ \A q \in Requests \ {r} : /\ pc'[q] = pc[q] /\ run'[q] = run[q]
                                     /\ records'[q] = records[q]
    BY CommitEffect DEF AllPriced, Running, InTransaction
  <1>2. UNCHANGED <<catalogVars, edits>>
    BY DEF Commit, boundVars
  <1>3. ASSUME NEW q \in Requests, pc'[q] \in Running
        PROVE  Priced(run[q], pc[q])'
    <2>1. Priced(run'[q], pc'[q])
      BY <1>1, <1>3 DEF AllPriced, Running, InTransaction
    <2> QED
      BY <1>2, <2>1 DEF Priced, catalogVars, Charge, LockedTier
  <1>4. records'[r].lockedTier # Null =>
            Covers(records'[r].lockedTier, records'[r].lockedVolume)
    BY <1>1 DEF Priced, NewRecord
  <1> QED
    BY <1>1, <1>3, <1>4 DEF AllPriced

LEMMA NextPriced == TypeOK /\ AllPriced /\ [Next]_vars => AllPriced'
  <1> SUFFICES ASSUME TypeOK, AllPriced, [Next]_vars PROVE AllPriced'
    OBVIOUS
  <1>1. CASE \E r \in Requests, o \in Orgs, type \in Products, b \in BOOLEAN, n \in Pages :
                 Start(r, o, type, b, n)
    BY <1>1, StartPriced
  <1>2. ASSUME NEW r \in Requests, RunStep(r) PROVE AllPriced'
    BY <1>2, PreparationPriced, LockUsagePriced, ReadLockedTierPriced,
       LockWalletPriced, CommitPriced DEF RunStep
  <1>3. CASE \E r \in Requests : Fail(r)
    BY <1>3, LeavePriced DEF Fail, Finished
  <1>4. CASE \/ \E o \in Orgs, amount \in CreditInputs : Credit(o, amount)
             \/ NextMonth \/ UNCHANGED vars
    <2>1. UNCHANGED <<catalogVars, edits, pc, run, records>>
      BY <1>4 DEF Credit, NextMonth, Event, vars, moneyVars, boundVars
    <2>2. \A q \in Requests : pc[q] \in Running => Priced(run[q], pc[q])'
      BY <2>1 DEF AllPriced, Priced, catalogVars, Charge, LockedTier
    <2> QED
      BY <2>1, <2>2 DEF AllPriced
  <1>5. CASE AdminStep
    <2>1. UNCHANGED <<pc, run, records>> /\ edits' # 0
      BY <1>5, AdminFrame DEF TypeOK, Edit, moneyVars
    <2>2. \A q \in Requests : pc[q] \in Running => Priced(run[q], pc[q])'
      BY <2>1 DEF AllPriced, Priced
    <2> QED
      BY <2>1, <2>2 DEF AllPriced
  <1> QED
    BY <1>1, <1>2, <1>3, <1>4, <1>5 DEF Next

LEMMA InitPriced == Init => AllPriced
  BY DEF Init, AllPriced, Running, InTransaction

LEMMA AlwaysPriced == Spec => [](TypeOK /\ AllPriced)
  BY InitType, InitPriced, NextType, NextPriced, PTL DEF Spec

\* Whatever bands administrators create or move while runs are under way,
\* each success is billed under a band that covers its own position, or
\* under none.
THEOREM BandCoversPosition == Spec => []BilledInBand
  <1>1. AllPriced => BilledInBand
    BY DEF AllPriced, BilledInBand, Successes
  <1> QED
    BY <1>1, AlwaysPriced, PTL

\* The charge of a run at its commit, in the terms of the catalogue.
LEMMA CommitShown ==
    ASSUME TypeOK, Isolated, AllPriced, NEW r \in Requests, Commit(r),
           edits = 0, run[r].status = "success",
           run[r].type # SCANNED_STATEMENT, run[r].monthKey = month
    PROVE  LET f     == run[r]
               shown == products(f.org, f.type)
           IN  f.costMinor = IF f.isBackup /\ shown.backup \notin {Null, PLATFORM_MARGIN_MINOR}
                             THEN shown.backup ELSE shown.unit
  <1> DEFINE f == run[r]
             shown == products(f.org, f.type)
             row == pricing[f.type]
             tier == LockedTier(f)
             orgTier == orgTiers[<<f.org, f.type>>]
             unit == UnitPrice(orgTier, tier, row.priceMinor)
             backup == BackupPrice(orgTier, tier)
  <1>1. /\ f \in Frame
        /\ pc[r] = "commit"
        /\ Priced(f, "commit")
        /\ f.lockedVolume = usage[<<f.org, month, f.type>>]
    BY CommitEffect DEF AllPriced, Isolated, TransactionsAreIsolated, UsageKey,
                        Running, InTransaction
  <1>2. /\ row # Null
        /\ f.basePrice = row.priceMinor
        /\ f.orgTier = orgTier
        /\ f.isBackup => f.type \in BackupTypes
        /\ f.costMinor = Charge(f)
    BY <1>1 DEF Priced
  <1>3. tier = getCurrentTier(tiers[f.type], usage[<<f.org, month, f.type>>])
    BY <1>1 DEF LockedTier
  <1>4. unit \in Nat /\ backup \in Nullable(Nat)
    <2>1. tier \in Nullable(Tier)
      <3>1. tiers[f.type] \in SUBSET Tier
        BY <1>1, FrameFields DEF TypeOK, CatalogOK
      <3> QED
        BY <1>1, <3>1, FrameFields, TierLookup DEF LockedTier, Nullable
    <2>2. orgTier \in Nullable(OrgTier) /\ row.priceMinor \in Nat
      BY <1>1, <1>2, FrameFields
    <2> HIDE DEF tier, orgTier
    <2>3. LockedUnit(f.type, f.pages, orgTier, tier, row.priceMinor) \in Nat
      BY <1>1, <2>1, <2>2, FrameFields, PriceTypes, RowAssumption
    <2>4. LockedUnit(f.type, f.pages, orgTier, tier, row.priceMinor) = unit
      BY DEF LockedUnit
    <2>5. backup \in Nullable(Nat)
      BY <2>1, <2>2, PriceTypes, RowAssumption
    <2> QED
      BY <2>3, <2>4, <2>5
  <1>5. /\ shown.unit = unit + PLATFORM_MARGIN_MINOR
        /\ f.isBackup => shown.backup = IF backup = Null THEN Null
                                        ELSE backup + PLATFORM_MARGIN_MINOR
    <2>1. unit # Null
      BY <1>4, PricingAssumption
    <2> HIDE DEF unit, backup
    <2>2. shown.unit = unit + PLATFORM_MARGIN_MINOR
      BY <1>2, <1>3, <2>1 DEF products, unit
    <2>3. f.type \in BackupTypes =>
              shown.backup = IF backup = Null THEN Null ELSE backup + PLATFORM_MARGIN_MINOR
      BY <1>3 DEF products, backup
    <2> QED
      BY <1>2, <2>2, <2>3
  <1>6. f.costMinor = (IF f.isBackup /\ backup # Null /\ backup # 0 THEN backup ELSE unit)
                          + PLATFORM_MARGIN_MINOR
    <2>1. LockedUnit(f.type, f.pages, f.orgTier, LockedTier(f), f.basePrice) = unit
      BY <1>2 DEF LockedUnit
    <2>2. BackupPrice(f.orgTier, LockedTier(f)) = backup
      BY <1>2
    <2> HIDE DEF unit, backup
    <2> QED
      BY <1>2, <2>1, <2>2 DEF Charge, CostMinor, VendorMinor
  <1> HIDE DEF unit, backup, shown
  <1>7. PLATFORM_MARGIN_MINOR \in Nat /\ Null \notin Int
    BY PricingAssumption
  <1>8. CASE f.isBackup /\ backup # Null /\ backup # 0
    <2>1. backup \in Nat
      BY <1>4, <1>8 DEF Nullable
    <2>2. shown.backup = backup + PLATFORM_MARGIN_MINOR
      BY <1>5, <1>8
    <2>3. shown.backup \notin {Null, PLATFORM_MARGIN_MINOR}
      BY <1>7, <1>8, <2>1, <2>2
    <2> QED
      BY <1>6, <1>8, <2>2, <2>3 DEF shown
  <1>9. CASE ~(f.isBackup /\ backup # Null /\ backup # 0)
    <2>1. f.isBackup => shown.backup \in {Null, PLATFORM_MARGIN_MINOR}
      BY <1>5, <1>7, <1>9
    <2> QED
      BY <1>5, <1>6, <1>9, <2>1 DEF shown
  <1> QED
    BY <1>8, <1>9

\* While nobody edits the prices, a client is charged what the catalogue
\* shows at that moment, however many runs of its organization are under way.
THEOREM ShownPriceIsCharged == Spec => ChargedAsShown
  <1>1. TypeOK /\ Isolated /\ AllPriced /\ [Next]_vars =>
            [\A r \in Requests :
                LET f     == records'[r]
                    shown == products(f.org, f.type)
                IN  /\ records[r] = Null
                    /\ f # Null
                    /\ f.status = "success"
                    /\ f.type # SCANNED_STATEMENT
                    /\ f.monthKey = month
                    /\ edits = 0
                    => f.costMinor =
                           IF f.isBackup /\ shown.backup \notin {Null, PLATFORM_MARGIN_MINOR}
                           THEN shown.backup ELSE shown.unit]_vars
    <2> SUFFICES ASSUME TypeOK, Isolated, AllPriced, Next,
                        NEW r \in Requests, NEW f, f = records'[r],
                        records[r] = Null, f # Null, f.status = "success",
                        f.type # SCANNED_STATEMENT, f.monthKey = month, edits = 0
                 PROVE  f.costMinor =
                            IF /\ f.isBackup
                               /\ products(f.org, f.type).backup
                                      \notin {Null, PLATFORM_MARGIN_MINOR}
                            THEN products(f.org, f.type).backup
                            ELSE products(f.org, f.type).unit
      OBVIOUS
    <2>1. Commit(r)
      <3>1. records' # records
        OBVIOUS
      <3>2. \E q \in Requests : Commit(q)
        BY <3>1, AdminFrame, ZenonT(60)
        DEF Next, RunStep, Start, ReadOverrides, ReadUsage, Quote, ProviderAnswers,
            LockUsage, ReadLockedTier, LockWallet, Fail, Credit, NextMonth, moneyVars
      <3>3. PICK q \in Requests : Commit(q)
        BY <3>2
      <3>4. q = r
        BY <3>3, CommitEffect
      <3> QED
        BY <3>3, <3>4
    <2>2. f = NewRecord(run[r])
      BY <2>1, CommitEffect
    <2>3. /\ f.status = run[r].status /\ f.type = run[r].type /\ f.org = run[r].org
          /\ f.monthKey = run[r].monthKey /\ f.isBackup = run[r].isBackup
          /\ f.costMinor = run[r].costMinor
      BY <2>2 DEF NewRecord
    <2> QED
      BY <2>1, <2>3, CommitShown
  <1> QED
    BY <1>1, AlwaysPriced, AlwaysIsolated, PTL DEF ChargedAsShown, Spec
=============================================================================
