---------------------------- MODULE BillingProofs ----------------------------
(***************************************************************************)
(* Proofs about the billing pipeline, for any number of runs,              *)
(* organizations, products and months, any price tables and any edits.     *)
(***************************************************************************)
EXTENDS Billing, PricingProofs, SumTheorems, SequenceTheorems

-----------------------------------------------------------------------------
(* A run's local variables keep their types.                               *)

LEMMA FrameFields ==
    ASSUME NEW f \in Frame
    PROVE  /\ f.org \in Orgs /\ f.type \in Products /\ f.useBackup \in BOOLEAN
           /\ f.pages \in Nat /\ f.basePrice \in Nat
           /\ f.orgTier \in Nullable(OrgTier) /\ f.monthKey \in Months
           /\ f.currentVolume \in Nat /\ f.quotedBackup \in Nullable(Nat)
           /\ f.status \in Status /\ f.isBackup \in BOOLEAN
           /\ f.offer \in Nullable(Nat) /\ f.lockedVolume \in Nat
           /\ f.lockedTier \in Nullable(Tier) /\ f.vendorMinor \in Nat
           /\ f.costMinor \in Nat
  BY BillingAssumption DEF Frame

LEMMA FrameUpdates ==
    ASSUME NEW f \in Frame,
           NEW orgTier \in Nullable(OrgTier), NEW monthKey \in Months,
           NEW volume \in Nat, NEW price \in Nullable(Nat),
           NEW isBackup \in BOOLEAN, NEW status \in Status,
           NEW tier \in Nullable(Tier), NEW vendor \in Nat, NEW cost \in Nat
    PROVE  /\ [f EXCEPT !.orgTier = orgTier, !.monthKey = monthKey] \in Frame
           /\ [f EXCEPT !.currentVolume = volume] \in Frame
           /\ [f EXCEPT !.quotedBackup = price] \in Frame
           /\ [f EXCEPT !.isBackup = isBackup, !.status = status,
                        !.offer = price] \in Frame
           /\ [f EXCEPT !.lockedVolume = volume] \in Frame
           /\ [f EXCEPT !.lockedTier = tier, !.vendorMinor = vendor,
                        !.costMinor = cost] \in Frame
  BY DEF Frame

LEMMA GotoType ==
    ASSUME RunsOK, NEW r \in Requests, NEW label \in Running, NEW f \in Frame,
           Goto(r, label), run' = [run EXCEPT ![r] = f]
    PROVE  RunsOK'
  <1> USE DEF RunsOK
  <1>1. pc' \in [Requests -> {"new"} \cup Running \cup Finished]
    BY DEF Goto
  <1>2. run' \in [Requests -> Nullable(Frame)]
    BY DEF Nullable
  <1>3. \A q \in Requests : pc'[q] \in Running => run'[q] \in Frame
    BY DEF Goto
  <1> QED
    BY <1>1, <1>2, <1>3

LEMMA LeaveType ==
    ASSUME RunsOK, NEW r \in Requests, NEW outcome \in Finished, Leave(r, outcome)
    PROVE  RunsOK'
  <1> USE DEF RunsOK
  <1>1. pc' \in [Requests -> {"new"} \cup Running \cup Finished]
    BY DEF Leave
  <1>2. run' \in [Requests -> Nullable(Frame)]
    BY DEF Leave, Nullable
  <1>3. outcome \notin Running
    BY DEF Finished, Running, InTransaction
  <1>4. \A q \in Requests : pc'[q] \in Running => run'[q] \in Frame
    BY <1>3 DEF Leave
  <1> QED
    BY <1>1, <1>2, <1>4

LEMMA ReleaseType ==
    ASSUME LocksOK, NEW r \in Requests, ReleaseLocks(r)
    PROVE  LocksOK'
  BY DEF LocksOK, ReleaseLocks, Nullable

LEMMA KeyType ==
    ASSUME RunsOK, NEW r \in Requests, pc[r] \in Running
    PROVE  /\ run[r] \in Frame
           /\ run[r].org \in Orgs
           /\ run[r].type \in Products
           /\ <<run[r].org, run[r].type>> \in OrgChecks
           /\ UsageKey(r) \in UsageKeys
  <1>1. run[r] \in Frame
    BY DEF RunsOK
  <1>2. /\ run[r].org \in Orgs
        /\ run[r].type \in Products
        /\ run[r].monthKey \in Months
    BY <1>1, FrameFields
  <1> QED
    BY <1>1, <1>2 DEF UsageKey, UsageKeys, OrgChecks

-----------------------------------------------------------------------------
(* Type correctness, one action at a time.                                 *)

\* Steps of a run before its transaction, and the tier read inside it,
\* change nothing but the run's control state.
LEMMA QuietType ==
    ASSUME TypeOK, RunsOK', LocksOK',
           UNCHANGED <<catalogVars, month, moneyVars, boundVars>>
    PROVE  TypeOK'
  BY DEF TypeOK, CatalogOK, MoneyOK, catalogVars, moneyVars, boundVars

LEMMA LocksKept == LocksOK /\ UNCHANGED lockVars => LocksOK'
  BY DEF LocksOK, lockVars

LEMMA StartType ==
    ASSUME TypeOK, NEW r \in Requests, NEW o \in Orgs, NEW type \in Products,
           NEW b \in BOOLEAN, NEW n \in Pages, Start(r, o, type, b, n)
    PROVE  TypeOK'
  <1>1. LocksOK'
    BY LocksKept DEF TypeOK, Start
  <1>2. RunsOK'
    <2>1. CASE Leave(r, "rejected")
      BY <2>1, LeaveType DEF TypeOK, Finished
    <2>2. CASE ~Leave(r, "rejected")
      <3> DEFINE f == [org |-> o, type |-> type, useBackup |-> b,
                 pages |-> n, basePrice |-> pricing[type].priceMinor,
                 orgTier |-> Null, monthKey |-> month, currentVolume |-> 0,
                 quotedBackup |-> Null, status |-> "success",
                 isBackup |-> FALSE, offer |-> Null, lockedVolume |-> 0,
                 lockedTier |-> Null, vendorMinor |-> 0, costMinor |-> 0]
      <3>1. /\ pricing[type] # Null
            /\ run' = [run EXCEPT ![r] = f]
            /\ Goto(r, "overrides")
        BY <2>2 DEF Start
      <3>2. pricing[type] \in PriceRow
        BY <3>1 DEF TypeOK, CatalogOK, Nullable
      <3>3. f \in Frame
        BY <3>2 DEF TypeOK, PriceRow, Frame, Nullable, Status
      <3> QED
        BY <3>1, <3>3, GotoType DEF TypeOK, Running
    <2> QED
      BY <2>1, <2>2
  <1> QED
    BY <1>1, <1>2, QuietType DEF Start

LEMMA ReadOverridesType ==
    ASSUME TypeOK, NEW r \in Requests, ReadOverrides(r)
    PROVE  TypeOK'
  <1>1. LocksOK'
    BY LocksKept DEF TypeOK, ReadOverrides
  <1>2. /\ run[r] \in Frame
        /\ <<run[r].org, run[r].type>> \in OrgChecks
    BY KeyType DEF TypeOK, ReadOverrides, Running
  <1>3. RunsOK'
    <2>1. CASE Leave(r, "rejected")
      BY <2>1, LeaveType DEF TypeOK, Finished
    <2>2. CASE ~Leave(r, "rejected")
      <3> DEFINE ot == orgTiers[<<run[r].org, run[r].type>>]
      <3>1. ot \in Nullable(OrgTier)
        BY <1>2 DEF TypeOK, CatalogOK
      <3>2. [run[r] EXCEPT !.orgTier = ot, !.monthKey = month] \in Frame
        BY <1>2, <3>1, FrameUpdates, ZenonT(60) DEF TypeOK, Frame
      <3>3. /\ run' = [run EXCEPT ![r] = [run[r] EXCEPT !.orgTier = ot, !.monthKey = month]]
            /\ Goto(r, "usage")
        BY <2>2 DEF ReadOverrides
      <3> QED
        BY <3>2, <3>3, GotoType DEF TypeOK, Running
    <2> QED
      BY <2>1, <2>2
  <1> QED
    BY <1>1, <1>3, QuietType DEF ReadOverrides

LEMMA ReadUsageType ==
    ASSUME TypeOK, NEW r \in Requests, ReadUsage(r)
    PROVE  TypeOK'
  <1>1. LocksOK'
    BY LocksKept DEF TypeOK, ReadUsage
  <1>2. run[r] \in Frame /\ UsageKey(r) \in UsageKeys
    BY KeyType DEF TypeOK, ReadUsage, Running
  <1>3. [run[r] EXCEPT !.currentVolume = usage[UsageKey(r)]] \in Frame
    <2>1. usage[UsageKey(r)] \in Nat
      BY <1>2 DEF TypeOK, MoneyOK
    <2> QED
      BY <1>2, <2>1 DEF Frame
  <1>4. RunsOK'
    BY <1>3, GotoType DEF TypeOK, ReadUsage, Running
  <1> QED
    BY <1>1, <1>4, QuietType DEF ReadUsage

LEMMA QuoteType ==
    ASSUME TypeOK, NEW r \in Requests, Quote(r)
    PROVE  TypeOK'
  <1> DEFINE tier == getCurrentTier(tiers[run[r].type], run[r].currentVolume)
             price == BackupPrice(run[r].orgTier, tier)
  <1>1. LocksOK'
    BY LocksKept DEF TypeOK, Quote
  <1>2. run[r] \in Frame /\ run[r].type \in Products
    BY KeyType DEF TypeOK, Quote, Running
  <1>3. price \in Nullable(Nat)
    <2>1. tiers[run[r].type] \in SUBSET Tier
      BY <1>2 DEF TypeOK, CatalogOK
    <2>2. tier \in Nullable(Tier)
      BY <1>2, <2>1, FrameFields, TierLookup DEF Nullable
    <2> HIDE DEF tier
    <2>3. run[r].orgTier \in Nullable(OrgTier)
      BY <1>2, FrameFields
    <2> QED
      BY <2>2, <2>3, PriceTypes, RowAssumption
  <1>4. [run[r] EXCEPT !.quotedBackup = price] \in Frame
    <2> HIDE DEF price
    <2> QED
      BY <1>2, <1>3 DEF Frame
  <1>5. RunsOK'
    BY <1>4, GotoType DEF TypeOK, Quote, Running
  <1> QED
    BY <1>1, <1>5, QuietType DEF Quote

LEMMA ProviderAnswersType ==
    ASSUME TypeOK, NEW r \in Requests, NEW answer, ProviderAnswers(r, answer)
    PROVE  TypeOK'
  <1>1. LocksOK'
    BY LocksKept DEF TypeOK, ProviderAnswers
  <1>2. run[r] \in Frame
    BY KeyType DEF TypeOK, ProviderAnswers, Running
  <1> DEFINE routed == run[r].useBackup /\ run[r].type \in BackupTypes
             offered == /\ answer = "UPSTREAM_DOWN"
                        /\ ~run[r].useBackup
                        /\ run[r].type \in BackupTypes
                        /\ run[r].quotedBackup # Null
             status == CASE answer = "RESULT"    -> "success"
                         [] answer = "NOT_FOUND" -> "not_found"
                         [] OTHER                -> "failed"
             offer == IF offered THEN BackupOffer(run[r].quotedBackup) ELSE Null
  <1>3. status \in Status
    BY DEF Status
  <1>4. offer \in Nullable(Nat)
    <2>1. run[r].quotedBackup \in Nullable(Nat)
      BY <1>2, FrameFields
    <2> QED
      BY <2>1, PricingAssumption DEF Nullable, BackupOffer
  <1>5. [run[r] EXCEPT !.isBackup = routed, !.status = status, !.offer = offer]
            \in Frame
    <2>1. routed \in BOOLEAN
      BY <1>2, FrameFields
    <2> HIDE DEF routed, status, offer
    <2> QED
      BY <1>2, <1>3, <1>4, <2>1 DEF Frame
  <1>6. RunsOK'
    BY <1>5, GotoType, ZenonT(60) DEF TypeOK, ProviderAnswers, Running
  <1> QED
    BY <1>1, <1>6, QuietType DEF ProviderAnswers

LEMMA LockUsageType ==
    ASSUME TypeOK, NEW r \in Requests, LockUsage(r)
    PROVE  TypeOK'
  <1>1. LocksOK'
    BY DEF TypeOK, LocksOK, LockUsage, Nullable
  <1>2. run[r] \in Frame /\ UsageKey(r) \in UsageKeys
    BY KeyType DEF TypeOK, LockUsage, Running
  <1>3. [run[r] EXCEPT !.lockedVolume = usage[UsageKey(r)]] \in Frame
    <2>1. usage[UsageKey(r)] \in Nat
      BY <1>2 DEF TypeOK, MoneyOK
    <2> QED
      BY <1>2, <2>1 DEF Frame
  <1>4. RunsOK'
    BY <1>3, GotoType DEF TypeOK, LockUsage, Running, InTransaction
  <1> QED
    BY <1>1, <1>4, QuietType DEF LockUsage

\* The charge decided under the lock is an amount, and only of a success.
LEMMA LockedCharge ==
    ASSUME TypeOK, NEW r \in Requests, ReadLockedTier(r)
    PROVE  \E tier \in Nullable(Tier), vendor \in Nat, cost \in Nat :
             /\ run' = [run EXCEPT ![r] =
                   [run[r] EXCEPT !.lockedTier = tier,
                                  !.vendorMinor = vendor, !.costMinor = cost]]
             /\ Goto(r, IF cost > 0 THEN "wallet" ELSE "commit")
             /\ cost > 0 => run[r].status = "success"
             /\ cost = vendor + MarginMinor(run[r].status)
             /\ tier # Null => Covers(tier, run[r].lockedVolume)
  <1> DEFINE f      == run[r]
             tier   == getCurrentTier(tiers[f.type], f.lockedVolume)
             unit   == LockedUnit(f.type, f.pages, f.orgTier, tier, f.basePrice)
             backup == BackupPrice(f.orgTier, tier)
             vendor == VendorMinor(f.status, f.isBackup, unit, backup)
             cost   == CostMinor(f.status, vendor)
  <1>1. f \in Frame /\ f.type \in Products
    BY KeyType DEF TypeOK, ReadLockedTier, Running, InTransaction
  <1>2. /\ tier \in Nullable(Tier)
        /\ tier # Null => Covers(tier, f.lockedVolume)
    <2>1. tiers[f.type] \in SUBSET Tier
      BY <1>1 DEF TypeOK, CatalogOK
    <2> QED
      BY <1>1, <2>1, FrameFields, TierLookup DEF Nullable
  <1>3. unit \in Nat /\ backup \in Nullable(Nat)
    <2> HIDE DEF tier
    <2> QED
      BY <1>1, <1>2, FrameFields, PriceTypes, RowAssumption
  <1>4. /\ vendor \in Nat /\ cost \in Nat /\ (cost > 0 => f.status = "success")
        /\ cost = vendor + MarginMinor(f.status)
    <2> HIDE DEF unit, backup
    <2> QED
      BY <1>1, <1>3, FrameFields, CostTypes
  <1>5. /\ run' = [run EXCEPT ![r] =
              [run[r] EXCEPT !.lockedTier = tier,
                             !.vendorMinor = vendor, !.costMinor = cost]]
        /\ Goto(r, IF cost > 0 THEN "wallet" ELSE "commit")
    BY DEF ReadLockedTier
  <1> HIDE DEF tier, vendor, cost
  <1> QED
    BY <1>2, <1>4, <1>5

LEMMA ReadLockedTierType ==
    ASSUME TypeOK, NEW r \in Requests, ReadLockedTier(r)
    PROVE  TypeOK'
  <1>1. LocksOK'
    BY LocksKept DEF TypeOK, ReadLockedTier
  <1>2. run[r] \in Frame
    BY KeyType DEF TypeOK, ReadLockedTier, Running, InTransaction
  <1>3. PICK tier \in Nullable(Tier), vendor \in Nat, cost \in Nat :
            /\ run' = [run EXCEPT ![r] =
                  [run[r] EXCEPT !.lockedTier = tier,
                                 !.vendorMinor = vendor, !.costMinor = cost]]
            /\ Goto(r, IF cost > 0 THEN "wallet" ELSE "commit")
    BY LockedCharge
  <1>4. [run[r] EXCEPT !.lockedTier = tier, !.vendorMinor = vendor,
                       !.costMinor = cost] \in Frame
    BY <1>2 DEF Frame
  <1>5. RunsOK'
    BY <1>3, <1>4, GotoType DEF TypeOK, Running, InTransaction
  <1> QED
    BY <1>1, <1>5, QuietType DEF ReadLockedTier

\* The charge of a run in its transaction moves to "commit" or ends the run.
LEMMA LockWalletType ==
    ASSUME TypeOK, NEW r \in Requests, LockWallet(r)
    PROVE  TypeOK'
  <1>1. CASE balance[run[r].org] >= run[r].costMinor
    <2>1. run[r] \in Frame /\ run[r].org \in Orgs
      BY KeyType DEF TypeOK, LockWallet, Running, InTransaction
    <2>2. /\ walletLock' = [walletLock EXCEPT ![run[r].org] = r]
          /\ Goto(r, "commit")
          /\ UNCHANGED <<usageLock, run>>
      <3>1. balance[run[r].org] \in Int /\ run[r].costMinor \in Int
        BY <2>1, FrameFields DEF TypeOK, MoneyOK
      <3> QED
        BY <1>1, <3>1 DEF LockWallet
    <2>3. LocksOK'
      BY <2>2 DEF TypeOK, LocksOK, Nullable
    <2>4. run' = [run EXCEPT ![r] = run[r]]
      BY <2>2 DEF TypeOK, RunsOK
    <2>5. RunsOK'
      BY <2>1, <2>2, <2>4, GotoType DEF TypeOK, Running, InTransaction
    <2> QED
      BY <2>3, <2>5, QuietType DEF LockWallet
  <1>2. CASE ~(balance[run[r].org] >= run[r].costMinor)
    <2>1. ReleaseLocks(r) /\ Leave(r, "insufficient")
      BY <1>2 DEF LockWallet
    <2> QED
      BY <2>1, ReleaseType, LeaveType, QuietType DEF TypeOK, LockWallet, Finished
  <1> QED
    BY <1>1, <1>2

LEMMA NewRecordType ==
    ASSUME NEW f \in Frame
    PROVE  NewRecord(f) \in Record
  <1>1. MarginMinor(f.status) \in Nat
    BY PricingAssumption DEF MarginMinor
  <1> QED
    BY <1>1, FrameFields DEF NewRecord, Record

LEMMA EntryType ==
    ASSUME NEW type \in {"topup", "charge"}, NEW amount \in Nat, NEW before \in Int
    PROVE  /\ LedgerEntry(type, amount, before) \in Entry
           /\ LedgerEntry(type, amount, before).type = type
           /\ LedgerEntry(type, amount, before).amountMinor = amount
           /\ LedgerEntry(type, amount, before).balanceAfter
                  = before + Signed(LedgerEntry(type, amount, before))
  BY DEF LedgerEntry, Entry, Signed

LEMMA CommitType ==
    ASSUME TypeOK, NEW r \in Requests, Commit(r)
    PROVE  TypeOK'
  <1> DEFINE f == run[r]
  <1>1. f \in Frame /\ f.org \in Orgs /\ UsageKey(r) \in UsageKeys
    BY KeyType DEF TypeOK, Commit, Running, InTransaction
  <1>2. LocksOK' /\ RunsOK'
    BY ReleaseType, LeaveType DEF TypeOK, Commit, Finished
  <1>3. balance' \in [Orgs -> Int] /\ ledger' \in [Orgs -> Seq(Entry)]
    <2>1. /\ f.costMinor \in Nat
          /\ balance[f.org] \in Int
          /\ ledger[f.org] \in Seq(Entry)
      BY <1>1, FrameFields DEF TypeOK, MoneyOK
    <2>2. LedgerEntry("charge", f.costMinor, balance[f.org]) \in Entry
      BY <2>1, EntryType
    <2> DEFINE rows == Append(ledger[f.org], LedgerEntry("charge", f.costMinor, balance[f.org]))
    <2>3. rows \in Seq(Entry)
      BY <2>1, <2>2, AppendProperties
    <2>4. \/ /\ balance' = [balance EXCEPT ![f.org] = @ - f.costMinor]
             /\ ledger' = [ledger EXCEPT ![f.org] = rows]
          \/ UNCHANGED <<balance, ledger>>
      BY DEF Commit
    <2> HIDE DEF rows, f
    <2>5. balance' \in [Orgs -> Int]
      BY <1>1, <2>1, <2>4 DEF TypeOK, MoneyOK
    <2>6. ledger' \in [Orgs -> Seq(Entry)]
      BY <2>3, <2>4 DEF TypeOK, MoneyOK
    <2> QED
      BY <2>5, <2>6
  <1>4. usage' \in [UsageKeys -> Nat]
    BY <1>1 DEF TypeOK, MoneyOK, Commit
  <1>5. records' \in [Requests -> Nullable(Record)]
    BY <1>1, NewRecordType DEF TypeOK, MoneyOK, Commit, Nullable
  <1> QED
    BY <1>2, <1>3, <1>4, <1>5
    DEF TypeOK, CatalogOK, MoneyOK, Commit, catalogVars, boundVars

LEMMA FailType ==
    ASSUME TypeOK, NEW r \in Requests, Fail(r)
    PROVE  TypeOK'
  BY ReleaseType, LeaveType, QuietType DEF TypeOK, Fail, Finished

LEMMA CreditType ==
    ASSUME TypeOK, NEW o \in Orgs, NEW amount \in CreditInputs, Credit(o, amount)
    PROVE  TypeOK'
  <1>1. amount \in Nat
    BY BillingAssumption
  <1>2. balance' \in [Orgs -> Int]
    BY <1>1 DEF TypeOK, MoneyOK, Credit
  <1>3. ledger' \in [Orgs -> Seq(Entry)]
    <2>1. balance[o] \in Int /\ ledger[o] \in Seq(Entry)
      BY DEF TypeOK, MoneyOK
    <2>2. Append(ledger[o], LedgerEntry("topup", amount, balance[o])) \in Seq(Entry)
      BY <1>1, <2>1, EntryType, AppendProperties
    <2> QED
      BY <2>2 DEF TypeOK, MoneyOK, Credit
  <1> QED
    BY <1>2, <1>3 DEF TypeOK, CatalogOK, MoneyOK, LocksOK, RunsOK, Credit, Event,
                      catalogVars, lockVars

LEMMA OptionalBackup ==
    ASSUME NEW backup \in Optional(Nullable(PriceInputs)), backup # << >>
    PROVE  backup[1] \in Nullable(Nat)
  <1>1. PICK v \in Nullable(PriceInputs) : backup = <<v>>
    BY DEF Optional
  <1>2. v \in Nullable(Nat)
    BY BillingAssumption DEF Nullable
  <1> QED
    BY <1>1, <1>2

\* Every step of an administrator keeps the tables typed.
LEMMA CatalogType ==
    ASSUME TypeOK, AdminStep
    PROVE  CatalogOK'
  <1> USE BillingAssumption DEF TypeOK, CatalogOK, Nullable
  <1>1. ASSUME NEW type \in Products, NEW price \in PriceInputs, setPricing(type, price)
        PROVE  CatalogOK'
    BY <1>1 DEF setPricing, PriceRow
  <1>2. ASSUME NEW type \in Products, NEW active \in BOOLEAN,
               setProductActive(type, active)
        PROVE  CatalogOK'
    BY <1>2 DEF setProductActive, PriceRow
  <1>3. ASSUME NEW type \in Products, NEW row \in Tier, createTier(type, row)
        PROVE  CatalogOK'
    BY <1>3 DEF createTier
  <1>4. ASSUME NEW type \in Products, NEW row \in tiers[type],
               NEW max \in Nullable(VolumeInputs), NEW unit \in Nullable(PriceInputs),
               NEW backup \in Optional(Nullable(PriceInputs)),
               updateTier(type, row, max, unit, backup)
        PROVE  CatalogOK'
    <2> DEFINE new == [row EXCEPT !.maxVolume = IF max = Null THEN @ ELSE max,
                                  !.unitPriceMinor = IF unit = Null THEN @ ELSE unit,
                                  !.backupPriceMinor = IF backup = << >> THEN @
                                                       ELSE backup[1]]
    <2>1. row \in Tier
      OBVIOUS
    <2>2. backup # << >> => backup[1] \in Nullable(Nat)
      BY OptionalBackup
    <2>3. new \in Tier
      BY <2>1, <2>2 DEF Tier
    <2>4. tiers' = [tiers EXCEPT ![type] = (@ \ {row}) \cup {new}]
      BY <1>4 DEF updateTier
    <2> HIDE DEF new
    <2> QED
      BY <1>4, <2>3, <2>4 DEF updateTier
  <1>5. ASSUME NEW o \in Orgs, NEW type \in Products, NEW row \in OrgTier,
               createOrgPricingTier(o, type, row)
        PROVE  CatalogOK'
    BY <1>5 DEF createOrgPricingTier, OrgChecks
  <1>6. ASSUME NEW o \in Orgs, NEW type \in Products,
               NEW unit \in Nullable(PriceInputs),
               NEW backup \in Optional(Nullable(PriceInputs)),
               updateOrgPricingTier(o, type, unit, backup)
        PROVE  CatalogOK'
    <2> DEFINE key == <<o, type>>
               new == [unitPriceMinor |-> IF unit = Null THEN orgTiers[key].unitPriceMinor
                                          ELSE unit,
                       backupPriceMinor |-> IF backup = << >>
                                            THEN orgTiers[key].backupPriceMinor
                                            ELSE backup[1]]
    <2>1. key \in OrgChecks
      BY DEF OrgChecks
    <2>2. orgTiers[key] \in OrgTier
      BY <1>6, <2>1 DEF updateOrgPricingTier
    <2>3. backup # << >> => backup[1] \in Nullable(Nat)
      BY OptionalBackup
    <2>4. new \in OrgTier
      BY <2>2, <2>3 DEF OrgTier
    <2>5. /\ orgTiers' = [orgTiers EXCEPT ![key] = new]
          /\ UNCHANGED <<pricing, tiers, enabledRow>>
      BY <1>6 DEF updateOrgPricingTier
    <2> HIDE DEF new, key
    <2> QED
      BY <2>1, <2>4, <2>5
  <1>7. ASSUME NEW o \in Orgs, NEW type \in Products,
               \/ deleteOrgEnabledCheck(o, type)
               \/ \E enabled \in BOOLEAN : createOrgEnabledCheck(o, type, enabled)
        PROVE  CatalogOK'
    BY <1>7 DEF deleteOrgEnabledCheck, createOrgEnabledCheck, OrgChecks
  <1>8. \A min \in VolumeInputs, max \in Nullable(VolumeInputs),
           unit \in PriceInputs, backup \in Nullable(PriceInputs) :
            [minVolume |-> min, maxVolume |-> max,
             unitPriceMinor |-> unit, backupPriceMinor |-> backup] \in Tier
    BY DEF Tier
  <1>9. \A unit \in PriceInputs, backup \in Nullable(PriceInputs) :
            [unitPriceMinor |-> unit, backupPriceMinor |-> backup] \in OrgTier
    BY DEF OrgTier
  <1> USE DEF AdminStep
  <1> HIDE DEF TypeOK, CatalogOK, Nullable
  <1> QED
    BY <1>1, <1>2, <1>3, <1>4, <1>5, <1>6, <1>7, <1>8, <1>9 DEF AdminStep

\* An administrator's step leaves money, locks and runs alone.
LEMMA AdminFrame ==
    ASSUME AdminStep
    PROVE  /\ UNCHANGED <<month, moneyVars, lockVars, pc, run>>
           /\ Edit
  BY DEF AdminStep, setPricing, setProductActive, createTier, updateTier,
         createOrgPricingTier, updateOrgPricingTier, deleteOrgEnabledCheck,
         createOrgEnabledCheck

LEMMA AdminType ==
    ASSUME TypeOK, AdminStep
    PROVE  TypeOK'
  BY CatalogType, AdminFrame
  DEF TypeOK, MoneyOK, LocksOK, RunsOK, moneyVars, lockVars, Edit

LEMMA NextMonthType ==
    ASSUME TypeOK, NextMonth
    PROVE  TypeOK'
  BY DEF TypeOK, CatalogOK, MoneyOK, LocksOK, RunsOK, NextMonth, Event,
         catalogVars, moneyVars, lockVars

LEMMA InitType == Init => TypeOK
  <1> SUFFICES ASSUME Init PROVE TypeOK
    OBVIOUS
  <1> USE BillingAssumption DEF Init
  <1>1. CatalogOK
    BY DEF CatalogOK, Nullable
  <1>2. MoneyOK
    <2>1. LedgerEntry("topup", OpeningBalance, 0) \in Entry
      BY EntryType
    <2> DEFINE opening == LedgerEntry("topup", OpeningBalance, 0)
    <2>2. << >> \in Seq(Entry) /\ <<opening>> \in Seq(Entry)
      BY <2>1
    <2> HIDE DEF opening
    <2>3. ledger \in [Orgs -> {<< >>, <<opening>>}]
      BY DEF opening
    <2>4. ledger \in [Orgs -> Seq(Entry)]
      BY <2>2, <2>3
    <2> QED
      BY <2>4 DEF MoneyOK, Nullable
  <1>3. LocksOK
    BY DEF LocksOK, Nullable
  <1>4. RunsOK
    BY DEF RunsOK, Nullable, Running, InTransaction
  <1>5. month \in Months
    BY DEF Months
  <1> QED
    BY <1>1, <1>2, <1>3, <1>4, <1>5 DEF TypeOK

LEMMA NextType == TypeOK /\ [Next]_vars => TypeOK'
  <1> SUFFICES ASSUME TypeOK, [Next]_vars PROVE TypeOK'
    OBVIOUS
  <1>1. CASE \E r \in Requests, o \in Orgs, type \in Products, b \in BOOLEAN, n \in Pages :
                 Start(r, o, type, b, n)
    BY <1>1, StartType
  <1>2. ASSUME NEW r \in Requests, RunStep(r) PROVE TypeOK'
    BY <1>2, ReadOverridesType, ReadUsageType, QuoteType, ProviderAnswersType,
       LockUsageType, ReadLockedTierType, LockWalletType, CommitType DEF RunStep
  <1>3. CASE \E r \in Requests : Fail(r)
    BY <1>3, FailType
  <1>4. CASE \E o \in Orgs, amount \in CreditInputs : Credit(o, amount)
    BY <1>4, CreditType
  <1>5. CASE NextMonth
    BY <1>5, NextMonthType
  <1>6. CASE AdminStep
    BY <1>6, AdminType
  <1>7. CASE UNCHANGED vars
    BY <1>7 DEF vars, catalogVars, moneyVars, lockVars, boundVars,
                TypeOK, CatalogOK, MoneyOK, LocksOK, RunsOK
  <1> QED
    BY <1>1, <1>2, <1>3, <1>4, <1>5, <1>6, <1>7 DEF Next

\* Every table, ledger and run keeps its type in every execution: no edit of
\* a price table and no interleaving of runs makes an ill-typed charge.
THEOREM TypeCorrect == Spec => []TypeOK
  BY InitType, NextType, PTL DEF Spec

-----------------------------------------------------------------------------
(* The safety of the pipeline: the row locks isolate the billing           *)
(* transactions, and therefore no wallet is overdrawn, no volume position  *)
(* is billed twice and the counter that prices the next check is the       *)
(* number of successes recorded.  Every step is one the abstract prepaid   *)
(* account (PrepaidLedger) allows.                                         *)

\* A run has its record exactly when it has committed.
Settled == \A r \in Requests : records[r] # Null <=> pc[r] = "done"

Isolated ==
    /\ Settled
    /\ LocksFollowTransactions
    /\ TransactionsAreIsolated
    /\ NoOverdraft

-----------------------------------------------------------------------------
(* The steps of the system, by what they do to locks and money.            *)

\* A step of a run outside its transaction.
Quiet(r) ==
    /\ UNCHANGED <<moneyVars, lockVars>>
    /\ pc[r] \notin InTransaction \cup {"done"}
    /\ pc'[r] \notin InTransaction \cup {"done"}
    /\ \A q \in Requests \ {r} : pc'[q] = pc[q] /\ run'[q] = run[q]

\* The transaction, or what comes before it, ends without a commit.
Abort(r) ==
    /\ UNCHANGED moneyVars
    /\ ReleaseLocks(r)
    /\ pc[r] \in Running
    /\ pc'[r] \notin InTransaction \cup {"done"}
    /\ \A q \in Requests \ {r} : pc'[q] = pc[q] /\ run'[q] = run[q]

\* A step that no run takes.
Outside == UNCHANGED <<moneyVars, lockVars, pc, run>>

LEMMA StartIsQuiet ==
    ASSUME TypeOK, NEW r \in Requests, NEW o, NEW type, NEW b, NEW n,
           Start(r, o, type, b, n)
    PROVE  Quiet(r)
  BY DEF Quiet, TypeOK, RunsOK, Start, Leave, Goto, InTransaction

LEMMA PreparationIsQuiet ==
    ASSUME TypeOK, NEW r \in Requests,
           \/ ReadOverrides(r) \/ ReadUsage(r) \/ Quote(r)
           \/ \E answer \in {"RESULT", "NOT_FOUND", "UPSTREAM_DOWN", "OTHER"} :
                  ProviderAnswers(r, answer)
    PROVE  Quiet(r)
  <1> USE DEF Quiet, TypeOK, RunsOK, Leave, Goto, InTransaction
  <1>1. CASE ReadOverrides(r)
    BY <1>1 DEF ReadOverrides
  <1>2. CASE ReadUsage(r)
    BY <1>2 DEF ReadUsage
  <1>3. CASE Quote(r)
    BY <1>3 DEF Quote
  <1>4. ASSUME NEW answer, ProviderAnswers(r, answer) PROVE Quiet(r)
    BY <1>4 DEF ProviderAnswers
  <1> HIDE DEF Quiet
  <1> QED
    BY <1>1, <1>2, <1>3, <1>4

LEMMA FailIsAbort ==
    ASSUME TypeOK, NEW r \in Requests, Fail(r)
    PROVE  Abort(r)
  BY DEF Abort, TypeOK, RunsOK, Fail, Leave, InTransaction

\* A run either locks a wallet that can pay, or aborts.
LEMMA WalletCases ==
    ASSUME TypeOK, NEW r \in Requests, LockWallet(r)
    PROVE  \/ Abort(r)
           \/ /\ pc[r] = "wallet"
              /\ walletLock[run[r].org] = Null
              /\ run[r].costMinor <= balance[run[r].org]
              /\ walletLock' = [walletLock EXCEPT ![run[r].org] = r]
              /\ pc' = [pc EXCEPT ![r] = "commit"]
              /\ UNCHANGED <<usageLock, run, moneyVars>>
  <1>1. run[r] \in Frame /\ run[r].org \in Orgs
    BY KeyType DEF TypeOK, LockWallet, Running, InTransaction
  <1>2. balance[run[r].org] \in Int /\ run[r].costMinor \in Int
    BY <1>1, FrameFields DEF TypeOK, MoneyOK
  <1>3. CASE balance[run[r].org] >= run[r].costMinor
    BY <1>2, <1>3 DEF LockWallet, Goto
  <1>4. CASE ~(balance[run[r].org] >= run[r].costMinor)
    BY <1>2, <1>4 DEF LockWallet, Leave, Abort, TypeOK, RunsOK, Running, InTransaction
  <1> QED
    BY <1>3, <1>4

-----------------------------------------------------------------------------
(* Isolation: the locks do what FOR UPDATE is there for.                   *)

LEMMA InitIsolated == Init => Isolated
  BY BillingAssumption
  DEF Init, Isolated, Settled, LocksFollowTransactions, TransactionsAreIsolated,
      NoOverdraft, InTransaction

LEMMA QuietIsolated ==
    ASSUME TypeOK, Isolated, NEW r \in Requests, Quiet(r)
    PROVE  Isolated'
  <1> USE DEF Isolated, Quiet, moneyVars, lockVars
  <1>1. Settled'
    BY DEF Settled
  <1>2. LocksFollowTransactions'
    BY DEF LocksFollowTransactions, TypeOK, LocksOK, Nullable, UsageKey, InTransaction
  <1>3. TransactionsAreIsolated'
    BY DEF TransactionsAreIsolated, UsageKey, InTransaction
  <1>4. NoOverdraft'
    BY DEF NoOverdraft
  <1> QED
    BY <1>1, <1>2, <1>3, <1>4

\* The end of a transaction takes its own locks away and no other.
LEMMA ReleaseKeepsLocks ==
    ASSUME TypeOK, LocksFollowTransactions, NEW r \in Requests, ReleaseLocks(r),
           pc'[r] \notin InTransaction,
           \A q \in Requests \ {r} : pc'[q] = pc[q] /\ run'[q] = run[q]
    PROVE  LocksFollowTransactions'
  <1>1. ASSUME NEW k \in UsageKeys, usageLock'[k] # Null
        PROVE  /\ pc'[usageLock'[k]] \in InTransaction
               /\ UsageKey(usageLock[k])' = k
    <2>1. usageLock'[k] = usageLock[k] /\ usageLock[k] # r
      BY <1>1 DEF ReleaseLocks
    <2>2. usageLock[k] \in Requests \ {r}
      BY <1>1, <2>1 DEF TypeOK, LocksOK, Nullable
    <2> QED
      BY <1>1, <2>1, <2>2 DEF LocksFollowTransactions, UsageKey
  <1>2. ASSUME NEW o \in Orgs, walletLock'[o] # Null
        PROVE  /\ pc'[walletLock'[o]] = "commit"
               /\ run'[walletLock'[o]].org = o
    <2>1. walletLock'[o] = walletLock[o] /\ walletLock[o] # r
      BY <1>2 DEF ReleaseLocks
    <2>2. walletLock[o] \in Requests \ {r}
      BY <1>2, <2>1 DEF TypeOK, LocksOK, Nullable
    <2> QED
      BY <1>2, <2>1, <2>2 DEF LocksFollowTransactions
  <1>3. ASSUME NEW q \in Requests, pc'[q] \in InTransaction
        PROVE  usageLock'[UsageKey(q)'] = q
    <2>1. q # r /\ pc[q] \in InTransaction /\ UsageKey(q)' = UsageKey(q)
      BY <1>3 DEF UsageKey
    <2>2. UsageKey(q) \in UsageKeys /\ usageLock[UsageKey(q)] = q
      BY <2>1, KeyType DEF LocksFollowTransactions, TypeOK, Running
    <2> QED
      BY <2>1, <2>2 DEF ReleaseLocks
  <1> QED
    BY <1>1, <1>2, <1>3 DEF LocksFollowTransactions, UsageKey

LEMMA AbortIsolated ==
    ASSUME TypeOK, Isolated, NEW r \in Requests, Abort(r)
    PROVE  Isolated'
  <1>1. ASSUME NEW q \in Requests, pc'[q] \in InTransaction
        PROVE  /\ q # r /\ pc[q] = pc'[q] /\ run'[q] = run[q]
               /\ UsageKey(q) \in UsageKeys /\ run[q].org \in Orgs
    BY <1>1, KeyType DEF Abort, TypeOK, Running
  <1>2. Settled'
    BY DEF Abort, Isolated, Settled, moneyVars, Running, InTransaction
  <1>3. LocksFollowTransactions'
    BY ReleaseKeepsLocks DEF Abort, Isolated
  <1>4. TransactionsAreIsolated'
    <2> SUFFICES ASSUME NEW q \in Requests, pc'[q] \in InTransaction
                 PROVE  /\ run'[q].lockedVolume = usage'[UsageKey(q)']
                        /\ pc'[q] \in {"wallet", "commit"} /\ run'[q].costMinor > 0 =>
                               run'[q].status = "success"
                        /\ pc'[q] = "commit" /\ run'[q].costMinor > 0 =>
                               /\ walletLock'[run'[q].org] = q
                               /\ run'[q].costMinor <= balance'[run'[q].org]
      BY DEF TransactionsAreIsolated, InTransaction, UsageKey
    <2> QED
      BY <1>1 DEF Abort, Isolated, TransactionsAreIsolated, UsageKey, ReleaseLocks, moneyVars
  <1>5. NoOverdraft'
    BY DEF Abort, Isolated, NoOverdraft, moneyVars
  <1> QED
    BY <1>2, <1>3, <1>4, <1>5 DEF Isolated

LEMMA OutsideIsolated ==
    ASSUME Isolated, Outside
    PROVE  Isolated'
  BY DEF Isolated, Outside, Settled, LocksFollowTransactions, TransactionsAreIsolated,
         NoOverdraft, UsageKey, moneyVars, lockVars

\* The volume a run locks is the counter's, and its key stays what it was.
LEMMA LockUsageEffect ==
    ASSUME TypeOK, NEW r \in Requests, LockUsage(r)
    PROVE  /\ UsageKey(r) \in UsageKeys
           /\ pc[r] = "lock" /\ pc'[r] = "tier"
           /\ run'[r].lockedVolume = usage[UsageKey(r)]
           /\ run'[r].org = run[r].org
           /\ UsageKey(r)' = UsageKey(r)
           /\ \A q \in Requests \ {r} : pc'[q] = pc[q] /\ run'[q] = run[q]
  <1>1. run[r] \in Frame /\ UsageKey(r) \in UsageKeys
    BY KeyType DEF TypeOK, LockUsage, Running
  <1>2. pc[r] = "lock" /\ pc'[r] = "tier"
    BY DEF TypeOK, RunsOK, LockUsage, Goto
  <1>3. run'[r] = [run[r] EXCEPT !.lockedVolume = usage[UsageKey(r)]]
    BY DEF TypeOK, RunsOK, LockUsage
  <1>4. /\ run'[r].lockedVolume = usage[UsageKey(r)]
        /\ run'[r].org = run[r].org
        /\ run'[r].monthKey = run[r].monthKey
        /\ run'[r].type = run[r].type
    BY <1>1, <1>3 DEF Frame
  <1>5. \A q \in Requests \ {r} : pc'[q] = pc[q] /\ run'[q] = run[q]
    BY DEF TypeOK, RunsOK, LockUsage, Goto
  <1> QED
    BY <1>1, <1>2, <1>4, <1>5 DEF UsageKey

LEMMA LockUsageIsolated ==
    ASSUME TypeOK, Isolated, NEW r \in Requests, LockUsage(r)
    PROVE  Isolated'
  <1> DEFINE key == UsageKey(r)
  <1>1. /\ key \in UsageKeys
        /\ pc[r] = "lock" /\ pc'[r] = "tier"
        /\ run'[r].lockedVolume = usage[key]
        /\ run'[r].org = run[r].org
        /\ UsageKey(r)' = key
        /\ \A q \in Requests \ {r} : pc'[q] = pc[q] /\ run'[q] = run[q]
    BY LockUsageEffect
  <1>2. /\ usageLock[key] = Null
        /\ usageLock' = [usageLock EXCEPT ![key] = r]
        /\ UNCHANGED <<moneyVars, walletLock>>
    BY DEF LockUsage
  <1>3. /\ usageLock'[key] = r
        /\ \A k \in UsageKeys \ {key} : usageLock'[k] = usageLock[k]
    BY <1>1, <1>2 DEF TypeOK, LocksOK
  <1>4. \A q \in Requests \ {r} : UsageKey(q)' = UsageKey(q)
    BY <1>1 DEF UsageKey
  <1> HIDE DEF key
  <1>5. Settled'
    BY <1>1, <1>2 DEF Isolated, Settled, moneyVars
  <1>6. LocksFollowTransactions'
    <2>1. ASSUME NEW k \in UsageKeys, usageLock'[k] # Null
          PROVE  /\ pc'[usageLock'[k]] \in InTransaction
                 /\ UsageKey(usageLock[k])' = k
      <3>1. CASE k = key
        BY <1>1, <1>3, <3>1 DEF InTransaction, UsageKey
      <3>2. CASE k # key
        <4>1. usageLock'[k] = usageLock[k] /\ usageLock[k] \in Requests
          BY <1>3, <2>1, <3>2 DEF TypeOK, LocksOK, Nullable
        <4>2. pc[usageLock[k]] \in InTransaction /\ UsageKey(usageLock[k]) = k
          BY <2>1, <4>1 DEF Isolated, LocksFollowTransactions
        <4>3. usageLock[k] # r
          BY <1>1, <4>2 DEF InTransaction
        <4> QED
          BY <1>1, <4>1, <4>2, <4>3 DEF UsageKey
      <3> QED
        BY <3>1, <3>2
    <2>2. ASSUME NEW o \in Orgs, walletLock'[o] # Null
          PROVE  /\ pc'[walletLock'[o]] = "commit"
                 /\ run'[walletLock'[o]].org = o
      BY <1>1, <1>2, <2>2 DEF Isolated, LocksFollowTransactions, TypeOK, LocksOK, Nullable
    <2>3. ASSUME NEW q \in Requests, pc'[q] \in InTransaction
          PROVE  usageLock'[UsageKey(q)'] = q
      <3>1. CASE q = r
        BY <1>1, <1>3, <3>1
      <3>2. CASE q # r
        <4>1. pc[q] \in InTransaction /\ UsageKey(q)' = UsageKey(q)
          BY <1>1, <1>4, <2>3, <3>2
        <4>2. UsageKey(q) \in UsageKeys /\ usageLock[UsageKey(q)] = q
          BY <4>1, KeyType DEF Isolated, LocksFollowTransactions, Running, TypeOK
        <4>3. UsageKey(q) # key
          BY <1>2, <4>2, RowAssumption
        <4> QED
          BY <1>3, <4>1, <4>2, <4>3
      <3> QED
        BY <3>1, <3>2
    <2> QED
      BY <2>1, <2>2, <2>3 DEF LocksFollowTransactions, UsageKey
  <1>7. TransactionsAreIsolated'
    BY <1>1, <1>2, <1>4
    DEF Isolated, TransactionsAreIsolated, UsageKey, moneyVars, InTransaction
  <1>8. NoOverdraft'
    BY <1>2 DEF Isolated, NoOverdraft, moneyVars
  <1> QED
    BY <1>5, <1>6, <1>7, <1>8 DEF Isolated

LEMMA ReadLockedTierIsolated ==
    ASSUME TypeOK, Isolated, NEW r \in Requests, ReadLockedTier(r)
    PROVE  Isolated'
  <1>1. run[r] \in Frame /\ UsageKey(r) \in UsageKeys
    BY KeyType DEF TypeOK, ReadLockedTier, Running, InTransaction
  <1>2. PICK tier \in Nullable(Tier), vendor \in Nat, cost \in Nat :
            /\ run' = [run EXCEPT ![r] =
                  [run[r] EXCEPT !.lockedTier = tier,
                                 !.vendorMinor = vendor, !.costMinor = cost]]
            /\ Goto(r, IF cost > 0 THEN "wallet" ELSE "commit")
            /\ cost > 0 => run[r].status = "success"
    BY LockedCharge
  <1>3. run'[r] = [run[r] EXCEPT !.lockedTier = tier,
                                 !.vendorMinor = vendor, !.costMinor = cost]
    BY <1>2 DEF TypeOK, RunsOK
  <1>4. /\ run'[r].org = run[r].org
        /\ run'[r].monthKey = run[r].monthKey
        /\ run'[r].type = run[r].type
        /\ run'[r].status = run[r].status
        /\ run'[r].lockedVolume = run[r].lockedVolume
        /\ run'[r].costMinor = cost
    BY <1>1, <1>3 DEF Frame
  <1>5. /\ pc[r] = "tier"
        /\ pc'[r] = IF cost > 0 THEN "wallet" ELSE "commit"
        /\ UNCHANGED <<moneyVars, lockVars>>
        /\ \A q \in Requests \ {r} : pc'[q] = pc[q] /\ run'[q] = run[q]
    BY <1>2 DEF TypeOK, RunsOK, ReadLockedTier, Goto
  <1>6. \A q \in Requests : UsageKey(q)' = UsageKey(q) /\ run'[q].org = run[q].org
    BY <1>4, <1>5 DEF UsageKey
  <1>7. Settled'
    BY <1>5 DEF Isolated, Settled, moneyVars
  <1>8. LocksFollowTransactions'
    <2>1. \A q \in Requests : pc'[q] \in InTransaction <=> pc[q] \in InTransaction
      BY <1>5 DEF InTransaction
    <2>2. \A q \in Requests : pc[q] = "commit" => pc'[q] = "commit"
      BY <1>5
    <2> QED
      BY <1>5, <1>6, <2>1, <2>2
      DEF Isolated, LocksFollowTransactions, lockVars, UsageKey, TypeOK, LocksOK, Nullable
  <1>9. TransactionsAreIsolated'
    BY <1>2, <1>4, <1>5, <1>6
    DEF Isolated, TransactionsAreIsolated, UsageKey, moneyVars, lockVars, InTransaction
  <1>10. NoOverdraft'
    BY <1>5 DEF Isolated, NoOverdraft, moneyVars
  <1> QED
    BY <1>7, <1>8, <1>9, <1>10 DEF Isolated

LEMMA LockWalletIsolated ==
    ASSUME TypeOK, Isolated, NEW r \in Requests, LockWallet(r)
    PROVE  Isolated'
  <1>1. CASE Abort(r)
    BY <1>1, AbortIsolated
  <1>2. CASE /\ pc[r] = "wallet"
             /\ walletLock[run[r].org] = Null
             /\ run[r].costMinor <= balance[run[r].org]
             /\ walletLock' = [walletLock EXCEPT ![run[r].org] = r]
             /\ pc' = [pc EXCEPT ![r] = "commit"]
             /\ UNCHANGED <<usageLock, run, moneyVars>>
    <2> DEFINE org == run[r].org
    <2>1. org \in Orgs
      BY <1>2, KeyType DEF TypeOK, Running, InTransaction
    <2>2. /\ walletLock'[org] = r
          /\ \A o \in Orgs \ {org} : walletLock'[o] = walletLock[o]
      BY <1>2, <2>1 DEF TypeOK, LocksOK
    <2>3. /\ pc'[r] = "commit"
          /\ \A q \in Requests \ {r} : pc'[q] = pc[q]
          /\ \A q \in Requests : UsageKey(q)' = UsageKey(q)
      BY <1>2 DEF TypeOK, RunsOK, UsageKey
    <2>4. ASSUME NEW q \in Requests \ {r}, pc[q] = "commit", run[q].costMinor > 0
          PROVE  run[q].org # org
      BY <1>2, <2>4, RowAssumption DEF Isolated, TransactionsAreIsolated
    <2>5. Settled'
      BY <1>2, <2>3 DEF Isolated, Settled, moneyVars
    <2>6. LocksFollowTransactions'
      <3>1. \A q \in Requests : pc'[q] \in InTransaction <=> pc[q] \in InTransaction
        BY <1>2, <2>3 DEF InTransaction
      <3>2. ASSUME NEW o \in Orgs, walletLock'[o] # Null
            PROVE  /\ pc'[walletLock'[o]] = "commit"
                   /\ run'[walletLock'[o]].org = o
        <4>1. CASE o = org
          BY <1>2, <2>2, <2>3, <4>1
        <4>2. CASE o # org
          BY <1>2, <2>2, <2>3, <3>2, <4>2
          DEF Isolated, LocksFollowTransactions, TypeOK, LocksOK, Nullable
        <4> QED
          BY <4>1, <4>2
      <3> QED
        BY <1>2, <2>3, <3>1, <3>2
        DEF Isolated, LocksFollowTransactions, UsageKey, TypeOK, LocksOK, Nullable
    <2>7. TransactionsAreIsolated'
      <3> SUFFICES ASSUME NEW q \in Requests, pc'[q] \in InTransaction
                   PROVE  /\ run'[q].lockedVolume = usage'[UsageKey(q)']
                          /\ pc'[q] \in {"wallet", "commit"} /\ run'[q].costMinor > 0 =>
                                 run'[q].status = "success"
                          /\ pc'[q] = "commit" /\ run'[q].costMinor > 0 =>
                                 /\ walletLock'[run'[q].org] = q
                                 /\ run'[q].costMinor <= balance'[run'[q].org]
        BY DEF TransactionsAreIsolated, InTransaction, UsageKey
      <3>1. CASE q = r
        BY <1>2, <2>2, <2>3, <3>1
        DEF Isolated, TransactionsAreIsolated, moneyVars, InTransaction
      <3>2. CASE q # r
        <4>1. pc[q] \in InTransaction /\ pc'[q] = pc[q] /\ run[q].org \in Orgs
          BY <2>3, <3>2, KeyType DEF TypeOK, Running
        <4> QED
          BY <1>2, <2>2, <2>3, <2>4, <3>2, <4>1
          DEF Isolated, TransactionsAreIsolated, moneyVars
      <3> QED
        BY <3>1, <3>2
    <2>8. NoOverdraft'
      BY <1>2 DEF Isolated, NoOverdraft, moneyVars
    <2> QED
      BY <2>5, <2>6, <2>7, <2>8 DEF Isolated
  <1> QED
    BY <1>1, <1>2, WalletCases

\* What a commit changes: one counter, one wallet, one record, one run.
LEMMA CommitEffect ==
    ASSUME TypeOK, NEW r \in Requests, Commit(r)
    PROVE  /\ run[r] \in Frame
           /\ run[r].org \in Orgs
           /\ run[r].costMinor \in Nat
           /\ UsageKey(r) \in UsageKeys
           /\ pc[r] = "commit" /\ pc'[r] = "done"
           /\ \A q \in Requests \ {r} : pc'[q] = pc[q] /\ run'[q] = run[q]
           /\ ReleaseLocks(r)
           /\ usage'[UsageKey(r)] = usage[UsageKey(r)]
                  + (IF run[r].status = "success" THEN 1 ELSE 0)
           /\ \A k \in UsageKeys \ {UsageKey(r)} : usage'[k] = usage[k]
           /\ balance'[run[r].org] = balance[run[r].org] - run[r].costMinor
           /\ \A o \in Orgs \ {run[r].org} : balance'[o] = balance[o]
           /\ records'[r] = NewRecord(run[r])
           /\ \A q \in Requests \ {r} : records'[q] = records[q]
  <1>1. run[r] \in Frame /\ run[r].org \in Orgs /\ UsageKey(r) \in UsageKeys
    BY KeyType DEF TypeOK, Commit, Running, InTransaction
  <1>2. run[r].costMinor \in Nat
    BY <1>1, FrameFields
  <1>3. /\ pc[r] = "commit" /\ pc'[r] = "done"
        /\ \A q \in Requests \ {r} : pc'[q] = pc[q] /\ run'[q] = run[q]
        /\ ReleaseLocks(r)
    BY DEF Commit, Leave, TypeOK, RunsOK
  <1>4. /\ usage'[UsageKey(r)] = usage[UsageKey(r)]
                  + (IF run[r].status = "success" THEN 1 ELSE 0)
        /\ \A k \in UsageKeys \ {UsageKey(r)} : usage'[k] = usage[k]
    <2> DEFINE key == UsageKey(r)
    <2>1. usage' = IF run[r].status = "success"
                   THEN [usage EXCEPT ![key] = @ + 1] ELSE usage
      BY DEF Commit
    <2>2. key \in UsageKeys
      BY <1>1
    <2> HIDE DEF key
    <2>3. usage'[key] = usage[key] + (IF run[r].status = "success" THEN 1 ELSE 0)
      BY <2>1, <2>2 DEF TypeOK, MoneyOK
    <2>4. \A k \in UsageKeys \ {key} : usage'[k] = usage[k]
      BY <2>1, <2>2 DEF TypeOK, MoneyOK
    <2> QED
      BY <2>3, <2>4 DEF key
  <1>5. /\ balance'[run[r].org] = balance[run[r].org] - run[r].costMinor
        /\ \A o \in Orgs \ {run[r].org} : balance'[o] = balance[o]
    <2>1. balance' = IF run[r].costMinor > 0
                     THEN [balance EXCEPT ![run[r].org] = @ - run[r].costMinor]
                     ELSE balance
      BY DEF Commit
    <2> QED
      BY <1>1, <1>2, <2>1 DEF TypeOK, MoneyOK
  <1>6. /\ records'[r] = NewRecord(run[r])
        /\ \A q \in Requests \ {r} : records'[q] = records[q]
    BY DEF Commit, TypeOK, MoneyOK
  <1> QED
    BY <1>1, <1>2, <1>3, <1>4, <1>5, <1>6

LEMMA CommitIsolated ==
    ASSUME TypeOK, Isolated, NEW r \in Requests, Commit(r)
    PROVE  Isolated'
  <1> DEFINE key == UsageKey(r)
             org == run[r].org
             cost == run[r].costMinor
  <1>1. /\ org \in Orgs /\ cost \in Nat /\ key \in UsageKeys
        /\ pc[r] = "commit" /\ pc'[r] = "done"
        /\ \A q \in Requests \ {r} : pc'[q] = pc[q] /\ run'[q] = run[q]
        /\ ReleaseLocks(r)
        /\ \A k \in UsageKeys \ {key} : usage'[k] = usage[k]
        /\ balance'[org] = balance[org] - cost
        /\ \A o \in Orgs \ {org} : balance'[o] = balance[o]
        /\ records'[r] = NewRecord(run[r])
        /\ \A q \in Requests \ {r} : records'[q] = records[q]
    BY CommitEffect
  <1>2. ASSUME NEW q \in Requests \ {r}, pc[q] \in InTransaction
        PROVE  /\ UsageKey(q) \in UsageKeys \ {key}
               /\ run[q].org \in Orgs
               /\ UsageKey(q)' = UsageKey(q)
    <2>1. UsageKey(q) \in UsageKeys /\ run[q].org \in Orgs
      BY <1>2, KeyType DEF TypeOK, Running
    <2>2. usageLock[UsageKey(q)] = q /\ usageLock[key] = r
      BY <1>1, <1>2 DEF Isolated, LocksFollowTransactions, InTransaction
    <2> QED
      BY <1>1, <2>1, <2>2 DEF UsageKey
  <1>3. ASSUME NEW q \in Requests \ {r}, pc[q] = "commit", run[q].costMinor > 0
        PROVE  balance'[run[q].org] = balance[run[q].org]
    <2>1. run[q].org \in Orgs /\ walletLock[run[q].org] = q
      BY <1>2, <1>3 DEF Isolated, TransactionsAreIsolated, InTransaction
    <2>2. CASE run[q].org # org
      BY <1>1, <2>1, <2>2
    <2>3. CASE run[q].org = org
      <3>1. ~(cost > 0)
        BY <1>1, <2>1, <2>3 DEF Isolated, TransactionsAreIsolated
      <3>2. cost = 0 /\ balance[org] \in Int
        BY <1>1, <3>1 DEF TypeOK, MoneyOK
      <3> QED
        BY <1>1, <2>3, <3>2
    <2> QED
      BY <2>2, <2>3
  <1>4. Settled'
    <2>1. NewRecord(run[r]) # Null
      BY CommitEffect, NewRecordType, RowAssumption
    <2> QED
      BY <1>1, <2>1 DEF Isolated, Settled
  <1>5. LocksFollowTransactions'
    BY <1>1, ReleaseKeepsLocks DEF Isolated, InTransaction
  <1>6. TransactionsAreIsolated'
    <2> SUFFICES ASSUME NEW q \in Requests, pc'[q] \in InTransaction
                 PROVE  /\ run'[q].lockedVolume = usage'[UsageKey(q)']
                        /\ pc'[q] \in {"wallet", "commit"} /\ run'[q].costMinor > 0 =>
                               run'[q].status = "success"
                        /\ pc'[q] = "commit" /\ run'[q].costMinor > 0 =>
                               /\ walletLock'[run'[q].org] = q
                               /\ run'[q].costMinor <= balance'[run'[q].org]
      BY DEF TransactionsAreIsolated, InTransaction, UsageKey
    <2>1. q # r /\ pc[q] = pc'[q] /\ pc[q] \in InTransaction /\ run'[q] = run[q]
      BY <1>1 DEF InTransaction
    <2>2. usage'[UsageKey(q)'] = usage[UsageKey(q)]
      BY <1>1, <1>2, <2>1
    <2>3. pc[q] = "commit" /\ run[q].costMinor > 0 =>
              /\ walletLock'[run[q].org] = q
              /\ balance'[run[q].org] = balance[run[q].org]
      BY <1>1, <1>2, <1>3, <2>1 DEF Isolated, TransactionsAreIsolated, ReleaseLocks
    <2> QED
      BY <2>1, <2>2, <2>3 DEF Isolated, TransactionsAreIsolated
  <1>7. NoOverdraft'
    <2>1. balance[org] \in Int /\ balance[org] >= 0
      BY <1>1 DEF Isolated, NoOverdraft, TypeOK, MoneyOK
    <2>2. cost > 0 => cost <= balance[org]
      BY <1>1 DEF Isolated, TransactionsAreIsolated
    <2>3. balance'[org] >= 0
      BY <1>1, <2>1, <2>2
    <2> QED
      BY <1>1, <2>3 DEF Isolated, NoOverdraft
  <1> QED
    BY <1>4, <1>5, <1>6, <1>7 DEF Isolated

LEMMA CreditIsolated ==
    ASSUME TypeOK, Isolated, NEW o \in Orgs, NEW amount \in CreditInputs,
           Credit(o, amount)
    PROVE  Isolated'
  <1>1. /\ UNCHANGED <<usage, records, lockVars, pc, run>>
        /\ walletLock[o] = Null
        /\ balance' = [balance EXCEPT ![o] = @ + amount]
        /\ amount \in Nat
    BY BillingAssumption DEF Credit
  <1>2. \A p \in Orgs : balance'[p] >= balance[p] /\ balance'[p] \in Int
    BY <1>1 DEF TypeOK, MoneyOK
  <1>3. Settled' /\ LocksFollowTransactions'
    BY <1>1 DEF Isolated, Settled, LocksFollowTransactions, UsageKey, lockVars
  <1>4. TransactionsAreIsolated'
    <2>1. ASSUME NEW q \in Requests, pc[q] = "commit", run[q].costMinor > 0
          PROVE  run[q].costMinor <= balance'[run[q].org]
      <3>1. run[q] \in Frame /\ run[q].org \in Orgs
        BY <2>1, KeyType DEF TypeOK, Running, InTransaction
      <3>2. run[q].costMinor \in Nat
        BY <3>1, FrameFields
      <3>3. run[q].costMinor <= balance[run[q].org] /\ balance[run[q].org] \in Int
        BY <2>1, <3>1 DEF Isolated, TransactionsAreIsolated, TypeOK, MoneyOK
      <3> QED
        BY <1>2, <3>1, <3>2, <3>3
    <2>2. /\ pc' = pc /\ run' = run /\ usage' = usage /\ walletLock' = walletLock
          /\ TransactionsAreIsolated
      BY <1>1 DEF Isolated, lockVars
    <2> QED
      BY <2>1, <2>2 DEF TransactionsAreIsolated, UsageKey
  <1>5. NoOverdraft'
    <2>1. \A p \in Orgs : balance[p] \in Int /\ balance[p] >= 0
      BY DEF Isolated, NoOverdraft, TypeOK, MoneyOK
    <2> QED
      BY <1>2, <2>1 DEF NoOverdraft
  <1> QED
    BY <1>3, <1>4, <1>5 DEF Isolated

LEMMA NextIsolated == TypeOK /\ Isolated /\ [Next]_vars => Isolated'
  <1> SUFFICES ASSUME TypeOK, Isolated, [Next]_vars PROVE Isolated'
    OBVIOUS
  <1>1. CASE \E r \in Requests, o \in Orgs, type \in Products, b \in BOOLEAN, n \in Pages :
                 Start(r, o, type, b, n)
    BY <1>1, StartIsQuiet, QuietIsolated
  <1>2. ASSUME NEW r \in Requests, RunStep(r) PROVE Isolated'
    BY <1>2, PreparationIsQuiet, QuietIsolated, LockUsageIsolated,
       ReadLockedTierIsolated, LockWalletIsolated, CommitIsolated DEF RunStep
  <1>3. CASE \E r \in Requests : Fail(r)
    BY <1>3, FailIsAbort, AbortIsolated
  <1>4. CASE \E o \in Orgs, amount \in CreditInputs : Credit(o, amount)
    BY <1>4, CreditIsolated
  <1>5. CASE NextMonth \/ AdminStep \/ UNCHANGED vars
    BY <1>5, AdminFrame, OutsideIsolated
    DEF Outside, NextMonth, vars
  <1> QED
    BY <1>1, <1>2, <1>3, <1>4, <1>5 DEF Next

LEMMA AlwaysIsolated == Spec => [](TypeOK /\ Isolated)
  BY InitType, InitIsolated, NextType, NextIsolated, PTL DEF Spec

\* No interleaving of runs, top-ups and edits overdraws a wallet: the
\* balance is checked again under the wallet's row lock.
THEOREM NeverOverdrawn == Spec => []NoOverdraft
  <1>1. Isolated => NoOverdraft
    BY DEF Isolated
  <1> QED
    BY <1>1, AlwaysIsolated, PTL

\* Row locks are held by open transactions only, and by the right ones.
THEOREM LocksAreSound == Spec => []LocksFollowTransactions
  <1>1. Isolated => LocksFollowTransactions
    BY DEF Isolated
  <1> QED
    BY <1>1, AlwaysIsolated, PTL

\* A billing transaction prices the position the counter stands at and
\* debits money the locked wallet holds, however many others run.
THEOREM TransactionIsolation == Spec => []TransactionsAreIsolated
  <1>1. Isolated => TransactionsAreIsolated
    BY DEF Isolated
  <1> QED
    BY <1>1, AlwaysIsolated, PTL

-----------------------------------------------------------------------------
(* The monthly counter.                                                    *)

Counted ==
    /\ UsageCountsSuccesses
    /\ PositionsBilledOnce

LEMMA SuccessesFinite ==
    ASSUME NEW k
    PROVE  IsFiniteSet(Successes(k)) /\ Cardinality(Successes(k)) \in Nat
  BY BillingAssumption, FS_Subset, FS_CardinalityType DEF Successes

\* Steps that write neither records nor counters.
LEMMA CountersKept ==
    ASSUME Counted, UNCHANGED <<usage, records>>
    PROVE  Counted'
  BY DEF Counted, UsageCountsSuccesses, PositionsBilledOnce, Successes

\* A commit adds its run to the successes of its own key, if it is one.
LEMMA CommitSuccesses ==
    ASSUME TypeOK, Isolated, NEW r \in Requests, Commit(r), NEW k \in UsageKeys
    PROVE  /\ r \notin Successes(k)
           /\ Successes(k)' = IF k = UsageKey(r) /\ run[r].status = "success"
                              THEN Successes(k) \cup {r} ELSE Successes(k)
  <1>1. /\ run[r] \in Frame
        /\ pc[r] = "commit"
        /\ records'[r] = NewRecord(run[r])
        /\ \A q \in Requests \ {r} : records'[q] = records[q]
    BY CommitEffect
  <1>2. records[r] = Null
    BY <1>1 DEF Isolated, Settled
  <1>3. /\ records'[r] # Null
        /\ records'[r].status = run[r].status
        /\ <<records'[r].org, records'[r].monthKey, records'[r].type>> = UsageKey(r)
    <2>1. NewRecord(run[r]) # Null
      BY <1>1, NewRecordType, RowAssumption
    <2> QED
      BY <1>1, <2>1 DEF NewRecord, UsageKey
  <1>4. r \notin Successes(k)
    BY <1>2 DEF Successes
  <1>5. \A q \in Requests \ {r} : q \in Successes(k)' <=> q \in Successes(k)
    BY <1>1 DEF Successes
  <1>6. r \in Successes(k)' <=> k = UsageKey(r) /\ run[r].status = "success"
    BY <1>3 DEF Successes
  <1>7. Successes(k) \subseteq Requests /\ Successes(k)' \subseteq Requests
    BY DEF Successes
  <1> QED
    BY <1>4, <1>5, <1>6, <1>7

LEMMA CommitCounted ==
    ASSUME TypeOK, Isolated, Counted, NEW r \in Requests, Commit(r)
    PROVE  Counted'
  <1> DEFINE key == UsageKey(r)
             success == run[r].status = "success"
  <1>1. /\ key \in UsageKeys
        /\ usage'[key] = usage[key] + (IF success THEN 1 ELSE 0)
        /\ \A k \in UsageKeys \ {key} : usage'[k] = usage[k]
        /\ \A q \in Requests \ {r} : records'[q] = records[q]
    BY CommitEffect
  <1>2. \A k \in UsageKeys : usage[k] \in Nat
    BY DEF TypeOK, MoneyOK
  <1>3. \A k \in UsageKeys :
            /\ r \notin Successes(k)
            /\ Successes(k)' = IF k = key /\ success
                               THEN Successes(k) \cup {r} ELSE Successes(k)
    BY CommitSuccesses
  <1>4. records'[r].lockedVolume = usage[key]
    <2>1. run[r].lockedVolume = usage[key]
      BY CommitEffect DEF Isolated, TransactionsAreIsolated, InTransaction
    <2>2. records'[r] = NewRecord(run[r])
      BY CommitEffect
    <2> QED
      BY <2>1, <2>2 DEF NewRecord
  <1>5. \A k \in UsageKeys : Successes(k) \subseteq Requests
    BY DEF Successes
  <1> HIDE DEF key, success
  <1>6. UsageCountsSuccesses'
    <2> SUFFICES ASSUME NEW k \in UsageKeys
                 PROVE  usage'[k] = Cardinality(Successes(k)')
      BY DEF UsageCountsSuccesses
    <2>1. usage[k] = Cardinality(Successes(k)) /\ IsFiniteSet(Successes(k))
      BY SuccessesFinite DEF Counted, UsageCountsSuccesses
    <2>2. CASE k = key /\ success
      <3>1. Cardinality(Successes(k) \cup {r}) = Cardinality(Successes(k)) + 1
        BY <1>3, <2>1, FS_AddElement
      <3> QED
        BY <1>1, <1>3, <2>1, <2>2, <3>1
    <2>3. CASE ~(k = key /\ success)
      <3>1. Successes(k)' = Successes(k)
        BY <1>3, <2>3
      <3>2. usage'[k] = usage[k]
        BY <1>1, <1>2, <2>3
      <3> QED
        BY <2>1, <3>1, <3>2
    <2> QED
      BY <2>2, <2>3
  <1>7. PositionsBilledOnce'
    <2> SUFFICES ASSUME NEW k \in UsageKeys, NEW p \in Successes(k)'
                 PROVE  /\ records'[p].lockedVolume < usage'[k]
                        /\ \A s \in Successes(k)' : p # s =>
                               records'[p].lockedVolume # records'[s].lockedVolume
      BY DEF PositionsBilledOnce
    <2>1. \A q \in Successes(k) :
              /\ records'[q] = records[q]
              /\ records[q].lockedVolume < usage[k]
              /\ \A s \in Successes(k) : q # s =>
                     records[q].lockedVolume # records[s].lockedVolume
      BY <1>1, <1>3, <1>5 DEF Counted, PositionsBilledOnce
    <2>2. CASE k = key /\ success
      <3>1. Successes(k)' = Successes(k) \cup {r} /\ usage'[k] = usage[k] + 1
        BY <1>1, <1>3, <2>2
      <3>2. records'[r].lockedVolume = usage[k] /\ usage[k] \in Nat
        BY <1>2, <1>4, <2>2
      <3>3. \A q \in Successes(k) : records[q].lockedVolume \in Nat
        BY <1>5 DEF TypeOK, MoneyOK, Nullable, Record, Successes
      <3> QED
        BY <2>1, <3>1, <3>2, <3>3
    <2>3. CASE ~(k = key /\ success)
      <3>1. Successes(k)' = Successes(k)
        BY <1>3, <2>3
      <3>2. usage'[k] = usage[k]
        BY <1>1, <1>2, <2>3
      <3> QED
        BY <2>1, <3>1, <3>2
    <2> QED
      BY <2>2, <2>3
  <1> QED
    BY <1>6, <1>7 DEF Counted

LEMMA InitCounted == Init => Counted
  <1> SUFFICES ASSUME Init PROVE Counted
    OBVIOUS
  <1>1. \A k \in UsageKeys : Successes(k) = {} /\ usage[k] = 0
    BY DEF Init, Successes
  <1> QED
    BY <1>1, FS_EmptySet DEF Counted, UsageCountsSuccesses, PositionsBilledOnce

LEMMA NextCounted == TypeOK /\ Isolated /\ Counted /\ [Next]_vars => Counted'
  <1> SUFFICES ASSUME TypeOK, Isolated, Counted, [Next]_vars PROVE Counted'
    OBVIOUS
  <1>1. CASE \E r \in Requests, o \in Orgs, type \in Products, b \in BOOLEAN, n \in Pages :
                 Start(r, o, type, b, n)
    BY <1>1, CountersKept DEF Start, moneyVars
  <1>2. ASSUME NEW r \in Requests, RunStep(r) PROVE Counted'
    <2>1. CASE Commit(r)
      BY <2>1, CommitCounted
    <2>2. CASE ~Commit(r)
      BY <1>2, <2>2, CountersKept
      DEF RunStep, ReadOverrides, ReadUsage, Quote, ProviderAnswers, LockUsage,
          ReadLockedTier, LockWallet, moneyVars
    <2> QED
      BY <2>1, <2>2
  <1>3. CASE \E r \in Requests : Fail(r)
    BY <1>3, CountersKept DEF Fail, moneyVars
  <1>4. CASE \E o \in Orgs, amount \in CreditInputs : Credit(o, amount)
    BY <1>4, CountersKept DEF Credit
  <1>5. CASE NextMonth \/ AdminStep \/ UNCHANGED vars
    BY <1>5, AdminFrame, CountersKept DEF NextMonth, vars, moneyVars
  <1> QED
    BY <1>1, <1>2, <1>3, <1>4, <1>5 DEF Next

LEMMA AlwaysCounted == Spec => []Counted
  BY InitCounted, NextCounted, AlwaysIsolated, PTL DEF Spec

\* The counter that prices the next check equals the successes recorded for
\* the organization, month and type, at every instant.
THEOREM CounterIsExact == Spec => []UsageCountsSuccesses
  <1>1. Counted => UsageCountsSuccesses
    BY DEF Counted
  <1> QED
    BY <1>1, AlwaysCounted, PTL

\* However many runs of an organization commit at once, each success is
\* priced at a volume position of its own, below the counter.
THEOREM NoPositionBilledTwice == Spec => []PositionsBilledOnce
  <1>1. Counted => PositionsBilledOnce
    BY DEF Counted
  <1> QED
    BY <1>1, AlwaysCounted, PTL

-----------------------------------------------------------------------------
(* Money moves with its ledger row.                                        *)

\* One step moves the balance of wallet o and appends the row that says so.
Posts(o, entry) ==
    /\ entry \in Entry
    /\ entry.balanceAfter = balance[o] + Signed(entry)
    /\ balance' = [balance EXCEPT ![o] = entry.balanceAfter]
    /\ ledger' = [ledger EXCEPT ![o] = Append(@, entry)]

LEMMA CommitPosts ==
    ASSUME TypeOK, Isolated, NEW r \in Requests, Commit(r)
    PROVE  \/ /\ run[r].costMinor > 0
              /\ Posts(run[r].org,
                       LedgerEntry("charge", run[r].costMinor, balance[run[r].org]))
           \/ /\ run[r].costMinor = 0
              /\ UNCHANGED <<balance, ledger>>
  <1> DEFINE org == run[r].org
             cost == run[r].costMinor
             entry == LedgerEntry("charge", cost, balance[org])
  <1>1. org \in Orgs /\ cost \in Nat
    BY CommitEffect
  <1>2. balance[org] \in Int
    BY <1>1 DEF TypeOK, MoneyOK
  <1>3. /\ entry \in Entry
        /\ entry.balanceAfter = balance[org] + Signed(entry)
        /\ entry.balanceAfter = balance[org] - cost
    BY <1>1, <1>2, EntryType DEF LedgerEntry
  <1>4. \/ /\ cost > 0
           /\ balance' = [balance EXCEPT ![org] = @ - cost]
           /\ ledger' = [ledger EXCEPT ![org] = Append(@, entry)]
        \/ /\ ~(cost > 0)
           /\ UNCHANGED <<balance, ledger>>
    BY DEF Commit
  <1> HIDE DEF entry, org, cost
  <1>5. \/ cost > 0 /\ Posts(org, entry)
        \/ cost = 0 /\ UNCHANGED <<balance, ledger>>
    BY <1>1, <1>3, <1>4 DEF Posts
  <1> QED
    BY <1>5 DEF entry, org, cost

LEMMA CreditPosts ==
    ASSUME TypeOK, NEW o \in Orgs, NEW amount \in CreditInputs, Credit(o, amount)
    PROVE  /\ amount \in Nat
           /\ Posts(o, LedgerEntry("topup", amount, balance[o]))
  <1> DEFINE entry == LedgerEntry("topup", amount, balance[o])
  <1>1. amount \in Nat /\ balance[o] \in Int
    BY BillingAssumption DEF TypeOK, MoneyOK
  <1>2. /\ entry \in Entry
        /\ entry.balanceAfter = balance[o] + Signed(entry)
        /\ entry.balanceAfter = balance[o] + amount
    BY <1>1, EntryType DEF LedgerEntry
  <1>3. /\ balance' = [balance EXCEPT ![o] = @ + amount]
        /\ ledger' = [ledger EXCEPT ![o] = Append(@, entry)]
    BY DEF Credit
  <1> HIDE DEF entry
  <1>4. Posts(o, entry)
    BY <1>2, <1>3 DEF Posts
  <1> QED
    BY <1>1, <1>4 DEF entry

\* No other step touches a wallet or its ledger, or settles a run.
LEMMA OtherSteps ==
    ASSUME [Next]_vars,
           \A r \in Requests : ~Commit(r),
           \A o \in Orgs, amount \in CreditInputs : ~Credit(o, amount)
    PROVE  UNCHANGED <<balance, ledger, records>>
  <1>1. CASE \E r \in Requests, o \in Orgs, type \in Products, b \in BOOLEAN, n \in Pages :
                 Start(r, o, type, b, n)
    BY <1>1 DEF Start, moneyVars
  <1>2. CASE \E r \in Requests : RunStep(r)
    BY <1>2 DEF RunStep, ReadOverrides, ReadUsage, Quote, ProviderAnswers,
                LockUsage, ReadLockedTier, LockWallet, moneyVars
  <1>3. CASE \E r \in Requests : Fail(r)
    BY <1>3 DEF Fail, moneyVars
  <1>4. CASE NextMonth \/ AdminStep \/ UNCHANGED vars
    BY <1>4, AdminFrame DEF NextMonth, vars, moneyVars
  <1> QED
    BY <1>1, <1>2, <1>3, <1>4 DEF Next

-----------------------------------------------------------------------------
(* The ledger is a chain of running balances.                              *)

LEMMA ExtendChain ==
    ASSUME NEW rows \in Seq(Entry), NEW entry \in Entry, NEW before \in Int,
           IsChain(rows),
           rows # << >> => rows[Len(rows)].balanceAfter = before,
           entry.balanceAfter = before + Signed(entry)
    PROVE  /\ Append(rows, entry) # << >>
           /\ Append(rows, entry)[Len(Append(rows, entry))].balanceAfter
                  = entry.balanceAfter
           /\ IsChain(Append(rows, entry))
  <1> DEFINE n == Len(rows)
             longer == Append(rows, entry)
  <1>1. /\ n \in Nat
        /\ longer # << >>
        /\ Len(longer) = n + 1
        /\ \A i \in 1 .. n : longer[i] = rows[i]
        /\ longer[n + 1] = entry
    BY AppendProperties
  <1>2. rows # << >> <=> n > 0
    OBVIOUS
  <1> HIDE DEF longer
  <1>3. ASSUME NEW i \in 2 .. Len(longer)
        PROVE  longer[i].balanceAfter = longer[i - 1].balanceAfter + Signed(longer[i])
    <2>1. CASE i = n + 1
      <3>1. n > 0 /\ longer[i] = entry /\ longer[i - 1] = rows[n]
        BY <1>1, <2>1
      <3> QED
        BY <1>2, <3>1
    <2>2. CASE i # n + 1
      <3>1. i \in 2 .. n /\ longer[i] = rows[i] /\ longer[i - 1] = rows[i - 1]
        BY <1>1, <2>2
      <3> QED
        BY <3>1 DEF IsChain
    <2> QED
      BY <2>1, <2>2
  <1>4. longer # << >> /\ longer[Len(longer)].balanceAfter = entry.balanceAfter
    BY <1>1
  <1>5. IsChain(longer)
    BY <1>3 DEF IsChain
  <1> QED
    BY <1>4, <1>5 DEF longer

LEMMA PostExtendsChain ==
    ASSUME TypeOK, LedgerChain, NEW o \in Orgs, NEW entry, Posts(o, entry)
    PROVE  LedgerChain'
  <1>1. /\ balance[o] \in Int
        /\ ledger[o] \in Seq(Entry)
        /\ ledger'[o] = Append(ledger[o], entry)
        /\ balance'[o] = entry.balanceAfter
        /\ entry \in Entry
        /\ entry.balanceAfter = balance[o] + Signed(entry)
        /\ \A p \in Orgs \ {o} : ledger'[p] = ledger[p] /\ balance'[p] = balance[p]
    BY DEF Posts, TypeOK, MoneyOK
  <1>2. /\ ledger'[o][Len(ledger'[o])].balanceAfter = balance'[o]
        /\ IsChain(ledger'[o])
    <2>1. /\ IsChain(ledger[o])
          /\ ledger[o] # << >> => ledger[o][Len(ledger[o])].balanceAfter = balance[o]
      BY DEF LedgerChain
    <2> QED
      BY <1>1, <2>1, ExtendChain
  <1>3. \A p \in Orgs \ {o} :
            /\ ledger'[p] # << >> => ledger'[p][Len(ledger'[p])].balanceAfter = balance'[p]
            /\ IsChain(ledger'[p])
    BY <1>1 DEF LedgerChain
  <1>4. \A p \in Orgs :
            /\ ledger'[p] # << >> => ledger'[p][Len(ledger'[p])].balanceAfter = balance'[p]
            /\ IsChain(ledger'[p])
    BY <1>2, <1>3, Zenon
  <1> QED
    BY <1>4, Zenon DEF LedgerChain, IsChain, Signed

LEMMA InitChain == Init => LedgerChain
  <1> SUFFICES ASSUME Init, NEW o \in Orgs
               PROVE  /\ ledger[o] # << >> =>
                             ledger[o][Len(ledger[o])].balanceAfter = balance[o]
                      /\ IsChain(ledger[o])
    BY DEF LedgerChain
  <1> DEFINE opening == LedgerEntry("topup", OpeningBalance, 0)
  <1>1. opening.balanceAfter = OpeningBalance /\ OpeningBalance \in Nat
    BY BillingAssumption DEF LedgerEntry
  <1> HIDE DEF opening
  <1>2. ledger[o] \in {<< >>, <<opening>>} /\ balance[o] = OpeningBalance
    BY DEF Init, opening
  <1> QED
    BY <1>1, <1>2 DEF IsChain

LEMMA NextChain == TypeOK /\ Isolated /\ LedgerChain /\ [Next]_vars => LedgerChain'
  <1> SUFFICES ASSUME TypeOK, Isolated, LedgerChain, [Next]_vars PROVE LedgerChain'
    OBVIOUS
  <1>1. ASSUME UNCHANGED <<balance, ledger>> PROVE LedgerChain'
    BY <1>1 DEF LedgerChain, IsChain, Signed
  <1>2. ASSUME NEW r \in Requests, Commit(r) PROVE LedgerChain'
    BY <1>1, <1>2, CommitPosts, CommitEffect, PostExtendsChain
  <1>3. ASSUME NEW o \in Orgs, NEW amount \in CreditInputs, Credit(o, amount)
        PROVE  LedgerChain'
    BY <1>3, CreditPosts, PostExtendsChain
  <1> QED
    BY <1>1, <1>2, <1>3, OtherSteps

\* Whatever charges and top-ups interleave, the rows of a wallet form one
\* chain of running balances that ends at the wallet's balance.
THEOREM LedgerIsAChain == Spec => []LedgerChain
  BY InitChain, NextChain, AlwaysIsolated, PTL DEF Spec

-----------------------------------------------------------------------------
(* Charges.                                                                *)

\* The step property inside ChargeWithRecord.
Bought(o, r) ==
    /\ records[r] = Null
    /\ records'[r] # Null
    /\ records'[r].org = o
    /\ records'[r].status = "success"
    /\ records'[r].costMinor = balance[o] - balance'[o]

LEMMA CommitBuys ==
    ASSUME TypeOK, Isolated, NEW r \in Requests, Commit(r), NEW o \in Orgs,
           balance'[o] < balance[o]
    PROVE  Bought(o, r)
  <1> DEFINE cost == run[r].costMinor
  <1>1. /\ run[r] \in Frame /\ cost \in Nat
        /\ pc[r] = "commit"
        /\ balance'[run[r].org] = balance[run[r].org] - cost
        /\ \A p \in Orgs \ {run[r].org} : balance'[p] = balance[p]
        /\ records'[r] = NewRecord(run[r])
    BY CommitEffect
  <1>2. balance[o] \in Int
    BY DEF TypeOK, MoneyOK
  <1>3. o = run[r].org /\ cost > 0
    BY <1>1, <1>2
  <1>4. run[r].status = "success"
    BY <1>1, <1>3 DEF Isolated, TransactionsAreIsolated
  <1>5. records[r] = Null
    BY <1>1 DEF Isolated, Settled
  <1>6. NewRecord(run[r]) # Null
    BY <1>1, NewRecordType, RowAssumption
  <1>7. /\ NewRecord(run[r]).org = run[r].org
        /\ NewRecord(run[r]).status = run[r].status
        /\ NewRecord(run[r]).costMinor = cost
    BY DEF NewRecord
  <1>8. cost = balance[o] - balance'[o]
    BY <1>1, <1>2, <1>3
  <1> QED
    BY <1>1, <1>3, <1>4, <1>5, <1>6, <1>7, <1>8 DEF Bought

\* Money leaves a wallet only in the step that records the success it paid
\* for, and by the recorded amount.
THEOREM ChargesAreRecorded == Spec => ChargeWithRecord
  <1>1. TypeOK /\ Isolated /\ [Next]_vars =>
            [\A o \in Orgs : balance'[o] < balance[o] =>
                \E r \in Requests : Bought(o, r)]_vars
    <2> SUFFICES ASSUME TypeOK, Isolated, [Next]_vars,
                        NEW o \in Orgs, balance'[o] < balance[o]
                 PROVE  \E r \in Requests : Bought(o, r)
      OBVIOUS
    <2>1. balance[o] \in Int
      BY DEF TypeOK, MoneyOK
    <2>2. \A p \in Orgs, amount \in CreditInputs : ~Credit(p, amount)
      <3> SUFFICES ASSUME NEW p \in Orgs, NEW amount \in CreditInputs, Credit(p, amount)
                   PROVE  FALSE
        OBVIOUS
      <3>1. amount \in Nat /\ balance' = [balance EXCEPT ![p] = @ + amount]
        BY BillingAssumption DEF Credit
      <3> QED
        BY <2>1, <3>1 DEF TypeOK, MoneyOK
    <2>3. PICK r \in Requests : Commit(r)
      BY <2>1, <2>2, OtherSteps
    <2> QED
      BY <2>3, CommitBuys
  <1> QED
    BY <1>1, AlwaysIsolated, PTL DEF Spec, ChargeWithRecord, Bought

-----------------------------------------------------------------------------
(* The wallet and the records agree.                                       *)

\* What a run is about to debit is the sum of the two prices its record will
\* show.
PricedInParts ==
    \A r \in Requests : pc[r] \in {"wallet", "commit"} =>
        run[r].costMinor = run[r].vendorMinor + MarginMinor(run[r].status)

\* A wallet without rows is as it was opened.
RowlessAsOpened ==
    \A o \in Orgs : ledger[o] = << >> => balance[o] = OpeningBalance

Agreeing ==
    /\ PricedInParts
    /\ RowlessAsOpened
    /\ WalletMatchesRecords

\* A row more: what the top-ups brought in grows by the row's amount when the
\* row is a top-up, and what the wallet opened with stays.
LEMMA CreditedByRow ==
    ASSUME NEW rows \in Seq(Entry), NEW entry \in Entry, NEW before \in Int,
           rows = << >> => before = OpeningBalance,
           entry.balanceAfter = before + Signed(entry)
    PROVE  /\ Credited(rows) \in Int
           /\ Credited(Append(rows, entry))
                  = Credited(rows) + (IF entry.type = "topup" THEN entry.amountMinor ELSE 0)
           /\ OpenedWith(rows) \in Int
           /\ OpenedWith(Append(rows, entry)) = OpenedWith(rows)
  <1> DEFINE n == Len(rows)
             longer == Append(rows, entry)
             f == [i \in DOMAIN rows |-> rows[i].amountMinor]
             g == [i \in DOMAIN longer |-> longer[i].amountMinor]
  <1>1. /\ n \in Nat
        /\ DOMAIN rows = 1 .. n /\ DOMAIN longer = 1 .. (n + 1)
        /\ \A i \in 1 .. n : rows[i] \in Entry
        /\ \A i \in 1 .. n : longer[i] = rows[i]
        /\ longer[n + 1] = entry
        /\ longer # << >>
    BY AppendProperties
  <1>2. rows = << >> <=> n = 0
    OBVIOUS
  <1> HIDE DEF n, longer
  <1>3. \A e \in Entry : e.amountMinor \in Nat /\ e.balanceAfter \in Int /\ Signed(e) \in Int
    BY DEF Entry, Signed
  <1>4. /\ \A i \in 1 .. n : f[i] = rows[i].amountMinor /\ f[i] \in Int /\ g[i] = f[i]
        /\ g[n + 1] = entry.amountMinor /\ g[n + 1] \in Int
    BY <1>1, <1>3
  <1> DEFINE S == CreditRows(rows)
  <1>5. S \subseteq 1 .. n /\ IsFiniteSet(S) /\ n + 1 \notin S
    <2>1. IsFiniteSet(1 .. n)
      BY <1>1, FS_Interval
    <2>2. S \subseteq 1 .. n
      BY <1>1 DEF CreditRows
    <2> QED
      BY <1>1, <2>1, <2>2, FS_Subset
  <1>6. CreditRows(longer) = IF entry.type = "topup" THEN S \cup {n + 1} ELSE S
    <2>1. 1 .. (n + 1) = (1 .. n) \cup {n + 1}
      BY <1>1
    <2> QED
      BY <1>1, <2>1 DEF CreditRows
  <1> HIDE DEF f, g, S
  <1>7. SumFunctionOnSet(f, S) \in Int
    BY <1>4, <1>5, SumOfIntegers
  <1>8. SumFunctionOnSet(g, S) = SumFunctionOnSet(f, S)
    BY <1>4, <1>5, SumOfEquals
  <1>9. SumFunctionOnSet(g, S \cup {n + 1}) = SumFunctionOnSet(g, S) + g[n + 1]
    BY <1>4, <1>5, SumWith, ZenonT(60)
  <1>10. /\ SumFunctionOnSet(g, CreditRows(longer))
               = SumFunctionOnSet(f, S) + (IF entry.type = "topup" THEN entry.amountMinor ELSE 0)
    BY <1>3, <1>4, <1>6, <1>7, <1>8, <1>9
  <1>11. /\ Credited(rows) = SumFunctionOnSet(f, S)
         /\ Credited(longer) = SumFunctionOnSet(g, CreditRows(longer))
    BY DEF Credited, f, g, S
  <1>12. OpenedWith(rows) \in Int /\ OpenedWith(longer) = OpenedWith(rows)
    <2>1. CASE n = 0
      <3>1. OpenedWith(rows) = OpeningBalance /\ before = OpeningBalance
        BY <1>2, <2>1 DEF OpenedWith
      <3>2. OpenedWith(longer) = entry.balanceAfter - Signed(entry)
        BY <1>1, <2>1 DEF OpenedWith
      <3> QED
        BY <1>3, <3>1, <3>2
    <2>2. CASE n # 0
      <3>1. 1 \in 1 .. n
        BY <1>1, <2>2
      <3>2. OpenedWith(rows) = rows[1].balanceAfter - Signed(rows[1])
        BY <1>2, <2>2 DEF OpenedWith
      <3>3. OpenedWith(longer) = rows[1].balanceAfter - Signed(rows[1])
        BY <1>1, <3>1 DEF OpenedWith
      <3> QED
        BY <1>1, <1>3, <3>1, <3>2, <3>3
    <2> QED
      BY <2>1, <2>2
  <1> QED
    BY <1>7, <1>10, <1>11, <1>12 DEF longer

\* A wallet's row says how its balance, and what its top-ups brought, moved.
LEMMA PostAccounts ==
    ASSUME TypeOK, RowlessAsOpened, NEW o \in Orgs, NEW entry, Posts(o, entry)
    PROVE  /\ balance[o] \in Int
           /\ balance'[o] = balance[o] + Signed(entry)
           /\ Credited(ledger[o]) \in Int /\ OpenedWith(ledger[o]) \in Int
           /\ Credited(ledger'[o]) = Credited(ledger[o])
                  + (IF entry.type = "topup" THEN entry.amountMinor ELSE 0)
           /\ OpenedWith(ledger'[o]) = OpenedWith(ledger[o])
           /\ ledger'[o] # << >>
           /\ \A p \in Orgs \ {o} : balance'[p] = balance[p] /\ ledger'[p] = ledger[p]
  <1>1. /\ balance[o] \in Int /\ ledger[o] \in Seq(Entry) /\ entry \in Entry
        /\ entry.balanceAfter = balance[o] + Signed(entry)
        /\ balance'[o] = entry.balanceAfter
        /\ ledger'[o] = Append(ledger[o], entry)
        /\ \A p \in Orgs \ {o} : balance'[p] = balance[p] /\ ledger'[p] = ledger[p]
    BY DEF Posts, TypeOK, MoneyOK
  <1>2. ledger[o] = << >> => balance[o] = OpeningBalance
    BY DEF RowlessAsOpened
  <1>3. ledger'[o] # << >>
    BY <1>1, AppendProperties
  <1> QED
    BY <1>1, <1>2, <1>3, CreditedByRow

LEMMA SoldIsANumber ==
    ASSUME TypeOK, NEW o
    PROVE  /\ IsFiniteSet(RecordedFor(o))
           /\ \A r \in Requests : Price(records[r]) \in Nat
           /\ Sold(o) \in Int
  <1>1. RecordedFor(o) \subseteq Requests /\ IsFiniteSet(RecordedFor(o))
    BY BillingAssumption, FS_Subset DEF RecordedFor
  <1>2. ASSUME NEW r \in Requests PROVE Price(records[r]) \in Nat
    <2>1. records[r] \in Record \/ records[r] = Null
      BY DEF TypeOK, MoneyOK, Nullable
    <2> QED
      BY <2>1 DEF Price, Record
  <1>3. Sold(o) \in Int
    <2> DEFINE f == [r \in Requests |-> Price(records[r])]
    <2>1. \A r \in RecordedFor(o) : f[r] \in Int
      BY <1>1, <1>2
    <2> HIDE DEF f
    <2>2. SumFunctionOnSet(f, RecordedFor(o)) \in Int
      BY <1>1, <2>1, SumOfIntegers
    <2> QED
      BY <2>2 DEF Sold, f
  <1> QED
    BY <1>1, <1>2, <1>3

\* A commit adds its run's price to what its organization was sold.
LEMMA CommitSells ==
    ASSUME TypeOK, Isolated, PricedInParts, NEW r \in Requests, Commit(r), NEW o \in Orgs
    PROVE  Sold(o)' = Sold(o) + (IF o = run[r].org THEN run[r].costMinor ELSE 0)
  <1>1. /\ run[r] \in Frame /\ run[r].costMinor \in Nat
        /\ pc[r] = "commit"
        /\ records'[r] = NewRecord(run[r])
        /\ \A q \in Requests \ {r} : records'[q] = records[q]
    BY CommitEffect
  <1>2. records[r] = Null
    BY <1>1 DEF Isolated, Settled
  <1>3. /\ records'[r] # Null /\ records'[r].org = run[r].org
        /\ Price(records'[r]) = run[r].costMinor
    <2>1. NewRecord(run[r]) # Null
      BY <1>1, NewRecordType, RowAssumption
    <2>2. run[r].costMinor = run[r].vendorMinor + MarginMinor(run[r].status)
      BY <1>1 DEF PricedInParts
    <2> QED
      BY <1>1, <2>1, <2>2 DEF NewRecord, Price
  <1> DEFINE f == [q \in Requests |-> Price(records[q])]
             g == [q \in Requests |-> Price(records'[q])]
             S == RecordedFor(o)
  <1>4. r \notin S /\ S \subseteq Requests /\ IsFiniteSet(S)
    BY <1>2, SoldIsANumber DEF RecordedFor
  <1>5. RecordedFor(o)' = IF o = run[r].org THEN S \cup {r} ELSE S
    <2>1. \A q \in Requests \ {r} : q \in RecordedFor(o)' <=> q \in S
      BY <1>1 DEF RecordedFor
    <2>2. r \in RecordedFor(o)' <=> o = run[r].org
      BY <1>3 DEF RecordedFor
    <2>3. RecordedFor(o)' \subseteq Requests
      BY DEF RecordedFor
    <2> QED
      BY <1>4, <2>1, <2>2, <2>3
  <1>6. /\ \A q \in S : g[q] = f[q] /\ f[q] \in Int
        /\ g[r] = run[r].costMinor
    BY <1>1, <1>3, <1>4, SoldIsANumber
  <1>7. Sold(o) = SumFunctionOnSet(f, S) /\ Sold(o)' = SumFunctionOnSet(g, RecordedFor(o)')
    BY DEF Sold
  <1> HIDE DEF f, g, S
  <1>8. SumFunctionOnSet(g, S) = SumFunctionOnSet(f, S) /\ SumFunctionOnSet(f, S) \in Int
    BY <1>4, <1>6, SumOfEquals, SumOfIntegers
  <1>9. SumFunctionOnSet(g, S \cup {r}) = SumFunctionOnSet(g, S) + g[r]
    <2>1. \A q \in S \cup {r} : g[q] \in Int
      BY <1>1, <1>6
    <2> QED
      BY <1>4, <2>1, SumWith
  <1> QED
    BY <1>5, <1>6, <1>7, <1>8, <1>9

LEMMA InitAgreeing == Init => Agreeing
  <1> SUFFICES ASSUME Init PROVE Agreeing
    OBVIOUS
  <1>1. PricedInParts
    BY DEF Init, PricedInParts
  <1>2. RowlessAsOpened
    BY DEF Init, RowlessAsOpened
  <1>3. ASSUME NEW o \in Orgs
        PROVE  balance[o] = OpenedWith(ledger[o]) + Credited(ledger[o]) - Sold(o)
    <2> DEFINE opening == LedgerEntry("topup", OpeningBalance, 0)
    <2>1. /\ opening \in Entry /\ opening.type = "topup"
          /\ opening.amountMinor = OpeningBalance
          /\ opening.balanceAfter = OpeningBalance
          /\ OpeningBalance \in Nat
      <3>1. OpeningBalance \in Nat /\ 0 \in Int
        BY BillingAssumption
      <3>2. opening \in Entry
        BY <3>1, EntryType
      <3> QED
        BY <3>1, <3>2 DEF LedgerEntry
    <2>2. balance[o] = OpeningBalance /\ ledger[o] \in {<< >>, <<opening>>}
      BY DEF Init
    <2>3. Sold(o) = 0
      <3>1. RecordedFor(o) = {}
        BY DEF Init, RecordedFor
      <3> QED
        BY <3>1, SumOfEmpty DEF Sold
    <2>4. Credited(<< >>) = 0 /\ OpenedWith(<< >>) = OpeningBalance
      <3>1. CreditRows(<< >>) = {}
        BY DEF CreditRows
      <3> QED
        BY <3>1, SumOfEmpty DEF Credited, OpenedWith
    <2> HIDE DEF opening
    <2>5. Credited(<<opening>>) = OpeningBalance
      <3> DEFINE rows == <<opening>>
                 f == [i \in DOMAIN rows |-> rows[i].amountMinor]
      <3>1. CreditRows(rows) = {} \cup {1} /\ f[1] = OpeningBalance
        BY <2>1 DEF CreditRows
      <3>2. Credited(rows) = SumFunctionOnSet(f, {} \cup {1})
        BY <3>1 DEF Credited
      <3> HIDE DEF f
      <3>3. SumFunctionOnSet(f, {} \cup {1}) = SumFunctionOnSet(f, {}) + f[1]
        <4>1. IsFiniteSet({}) /\ 1 \notin {} /\ \A i \in {} \cup {1} : f[i] \in Int
          BY <2>1, <3>1, FS_EmptySet
        <4> QED
          BY <4>1, SumWith
      <3> QED
        BY <2>1, <3>1, <3>2, <3>3, SumOfEmpty
    <2>6. OpenedWith(<<opening>>) = 0
      BY <2>1 DEF OpenedWith, Signed
    <2> QED
      BY <2>1, <2>2, <2>3, <2>4, <2>5, <2>6
  <1> QED
    BY <1>1, <1>2, <1>3 DEF Agreeing, WalletMatchesRecords

\* Only the tier of the locked volume decides a charge.
LEMMA NextPricedInParts ==
    TypeOK /\ PricedInParts /\ [Next]_vars => PricedInParts'
  <1> SUFFICES ASSUME TypeOK, PricedInParts, [Next]_vars,
                      NEW q \in Requests, pc'[q] \in {"wallet", "commit"}
               PROVE  run'[q].costMinor = run'[q].vendorMinor + MarginMinor(run'[q].status)
    BY DEF PricedInParts
  <1> DEFINE Same == pc[q] \in {"wallet", "commit"} /\ run'[q] = run[q]
  <1>1. ASSUME Same
        PROVE  run'[q].costMinor = run'[q].vendorMinor + MarginMinor(run'[q].status)
    BY <1>1 DEF PricedInParts
  <1>2. ASSUME NEW r \in Requests, Quiet(r) PROVE Same
    BY <1>2 DEF Quiet, InTransaction
  <1>3. ASSUME NEW r \in Requests, Abort(r) PROVE Same
    BY <1>3 DEF Abort, InTransaction
  <1>4. ASSUME NEW r \in Requests, LockUsage(r) PROVE Same
    BY <1>4, LockUsageEffect
  <1>5. ASSUME NEW r \in Requests, LockWallet(r) PROVE Same
    BY <1>3, <1>5, WalletCases DEF TypeOK, RunsOK
  <1>6. ASSUME NEW r \in Requests, Commit(r) PROVE Same
    BY <1>6, CommitEffect
  <1>7. ASSUME NEW r \in Requests, ReadLockedTier(r)
        PROVE  run'[q].costMinor = run'[q].vendorMinor + MarginMinor(run'[q].status)
    <2>1. run[r] \in Frame
      BY <1>7, KeyType DEF TypeOK, ReadLockedTier, Running, InTransaction
    <2>2. PICK tier \in Nullable(Tier), vendor \in Nat, cost \in Nat :
              /\ run' = [run EXCEPT ![r] =
                    [run[r] EXCEPT !.lockedTier = tier,
                                   !.vendorMinor = vendor, !.costMinor = cost]]
              /\ Goto(r, IF cost > 0 THEN "wallet" ELSE "commit")
              /\ cost = vendor + MarginMinor(run[r].status)
      BY <1>7, LockedCharge, ZenonT(60)
    <2>3. CASE q = r
      <3>1. run'[r] = [run[r] EXCEPT !.lockedTier = tier,
                                     !.vendorMinor = vendor, !.costMinor = cost]
        BY <2>2 DEF TypeOK, RunsOK
      <3>2. /\ run'[r].vendorMinor = vendor /\ run'[r].costMinor = cost
            /\ run'[r].status = run[r].status
        BY <2>1, <3>1 DEF Frame
      <3> QED
        BY <2>2, <2>3, <3>2
    <2>4. CASE q # r
      BY <1>1, <2>2, <2>4 DEF TypeOK, RunsOK, Goto
    <2> QED
      BY <2>3, <2>4
  <1>8. ASSUME UNCHANGED <<pc, run>> PROVE Same
    BY <1>8
  <1> HIDE DEF Same
  <1>9. CASE \E r \in Requests, o \in Orgs, type \in Products, b \in BOOLEAN, n \in Pages :
                 Start(r, o, type, b, n)
    BY <1>1, <1>2, <1>9, StartIsQuiet
  <1>10. CASE \E r \in Requests : RunStep(r)
    BY <1>1, <1>2, <1>4, <1>5, <1>6, <1>7, <1>10, PreparationIsQuiet DEF RunStep
  <1>11. CASE \E r \in Requests : Fail(r)
    BY <1>1, <1>3, <1>11, FailIsAbort
  <1>12. CASE \E o \in Orgs, amount \in CreditInputs : Credit(o, amount)
    BY <1>1, <1>8, <1>12 DEF Credit
  <1>13. CASE NextMonth \/ AdminStep \/ UNCHANGED vars
    BY <1>1, <1>8, <1>13, AdminFrame DEF NextMonth, vars
  <1> QED
    BY <1>9, <1>10, <1>11, <1>12, <1>13 DEF Next

\* Wallets that no step touches keep what the property says of them.
LEMMA UntouchedAgree ==
    ASSUME WalletMatchesRecords, RowlessAsOpened, NEW o \in Orgs,
           balance'[o] = balance[o], ledger'[o] = ledger[o], Sold(o)' = Sold(o)
    PROVE  /\ ledger'[o] = << >> => balance'[o] = OpeningBalance
           /\ balance'[o] = OpenedWith(ledger'[o]) + Credited(ledger'[o]) - Sold(o)'
  BY DEF WalletMatchesRecords, RowlessAsOpened

LEMMA CommitAgrees ==
    ASSUME TypeOK, Isolated, Agreeing, NEW r \in Requests, Commit(r), NEW o \in Orgs
    PROVE  /\ ledger'[o] = << >> => balance'[o] = OpeningBalance
           /\ balance'[o] = OpenedWith(ledger'[o]) + Credited(ledger'[o]) - Sold(o)'
  <1> DEFINE org == run[r].org
             cost == run[r].costMinor
             entry == LedgerEntry("charge", cost, balance[org])
  <1>1. /\ org \in Orgs /\ cost \in Nat
        /\ \A p \in Orgs \ {org} : balance'[p] = balance[p]
    BY CommitEffect
  <1>2. Sold(o)' = Sold(o) + (IF o = org THEN cost ELSE 0) /\ Sold(o) \in Int
    BY CommitSells, SoldIsANumber DEF Agreeing
  <1>3. \/ cost > 0 /\ Posts(org, entry)
        \/ cost = 0 /\ UNCHANGED <<balance, ledger>>
    BY CommitPosts
  <1>4. entry.type = "charge" /\ Signed(entry) = -cost
    BY DEF LedgerEntry, Signed
  <1> HIDE DEF org, cost, entry
  <1>5. CASE cost = 0 /\ UNCHANGED <<balance, ledger>>
    BY <1>1, <1>2, <1>5, UntouchedAgree DEF Agreeing
  <1>6. CASE cost > 0 /\ Posts(org, entry)
    <2>1. CASE o = org
      <3>1. /\ balance[o] \in Int
            /\ balance'[o] = balance[o] - cost
            /\ Credited(ledger[o]) \in Int /\ OpenedWith(ledger[o]) \in Int
            /\ Credited(ledger'[o]) = Credited(ledger[o])
            /\ OpenedWith(ledger'[o]) = OpenedWith(ledger[o])
            /\ ledger'[o] # << >>
        BY <1>1, <1>4, <1>6, <2>1, PostAccounts DEF Agreeing
      <3>2. balance[o] = OpenedWith(ledger[o]) + Credited(ledger[o]) - Sold(o)
        BY DEF Agreeing, WalletMatchesRecords
      <3> QED
        BY <1>1, <1>2, <2>1, <3>1, <3>2
    <2>2. CASE o # org
      BY <1>1, <1>2, <1>6, <2>2, PostAccounts, UntouchedAgree DEF Agreeing
    <2> QED
      BY <2>1, <2>2
  <1> QED
    BY <1>3, <1>5, <1>6

LEMMA CreditAgrees ==
    ASSUME TypeOK, Agreeing, NEW w \in Orgs, NEW amount \in CreditInputs,
           Credit(w, amount), NEW o \in Orgs
    PROVE  /\ ledger'[o] = << >> => balance'[o] = OpeningBalance
           /\ balance'[o] = OpenedWith(ledger'[o]) + Credited(ledger'[o]) - Sold(o)'
  <1> DEFINE entry == LedgerEntry("topup", amount, balance[w])
  <1>1. amount \in Nat /\ Posts(w, entry)
    BY CreditPosts
  <1>2. entry.type = "topup" /\ entry.amountMinor = amount /\ Signed(entry) = amount
    BY DEF LedgerEntry, Signed
  <1>3. Sold(o)' = Sold(o) /\ Sold(o) \in Int
    <2>1. records' = records
      BY DEF Credit
    <2> QED
      BY <2>1, SoldIsANumber DEF Sold, RecordedFor
  <1> HIDE DEF entry
  <1>4. CASE o = w
    <2>1. /\ balance[o] \in Int
          /\ balance'[o] = balance[o] + amount
          /\ Credited(ledger[o]) \in Int /\ OpenedWith(ledger[o]) \in Int
          /\ Credited(ledger'[o]) = Credited(ledger[o]) + amount
          /\ OpenedWith(ledger'[o]) = OpenedWith(ledger[o])
          /\ ledger'[o] # << >>
      BY <1>1, <1>2, <1>4, PostAccounts DEF Agreeing
    <2>2. balance[o] = OpenedWith(ledger[o]) + Credited(ledger[o]) - Sold(o)
      BY DEF Agreeing, WalletMatchesRecords
    <2> QED
      BY <1>1, <1>3, <2>1, <2>2
  <1>5. CASE o # w
    BY <1>1, <1>3, <1>5, PostAccounts, UntouchedAgree DEF Agreeing
  <1> QED
    BY <1>4, <1>5

LEMMA NextAgreeing == TypeOK /\ Isolated /\ Agreeing /\ [Next]_vars => Agreeing'
  <1> SUFFICES ASSUME TypeOK, Isolated, Agreeing, [Next]_vars PROVE Agreeing'
    OBVIOUS
  <1>1. PricedInParts'
    BY NextPricedInParts DEF Agreeing
  <1>2. ASSUME NEW o \in Orgs
        PROVE  /\ ledger'[o] = << >> => balance'[o] = OpeningBalance
               /\ balance'[o] = OpenedWith(ledger'[o]) + Credited(ledger'[o]) - Sold(o)'
    <2>1. ASSUME UNCHANGED <<balance, ledger, records>>
          PROVE  balance'[o] = balance[o] /\ ledger'[o] = ledger[o] /\ Sold(o)' = Sold(o)
      BY <2>1 DEF Sold, RecordedFor
    <2>2. CASE UNCHANGED <<balance, ledger, records>>
      BY <2>1, <2>2, UntouchedAgree DEF Agreeing
    <2> QED
      BY <2>2, CommitAgrees, CreditAgrees, OtherSteps
  <1>3. RowlessAsOpened'
    BY <1>2 DEF RowlessAsOpened
  <1>4. WalletMatchesRecords'
    BY <1>2 DEF WalletMatchesRecords, OpenedWith, Credited, CreditRows, Signed
  <1> QED
    BY <1>1, <1>3, <1>4 DEF Agreeing

\* What a wallet holds is what it opened with, plus every top-up, minus what
\* the records say was sold: the revenue report and the wallets agree after
\* any interleaving of runs, failures and top-ups.
THEOREM WalletsAgreeWithRecords == Spec => []WalletMatchesRecords
  <1>1. Agreeing => WalletMatchesRecords
    BY DEF Agreeing
  <1> QED
    BY <1>1, InitAgreeing, NextAgreeing, AlwaysIsolated, PTL DEF Spec

-----------------------------------------------------------------------------
(* Refinement.                                                             *)

\* What the abstract account sees of the records.
settledOf == [r \in Requests |-> IF records[r] = Null THEN Null
                                 ELSE records[r].costMinor]

LEMMA InitRefines == Init => Account!Init
  <1> SUFFICES ASSUME Init PROVE Account!Init
    OBVIOUS
  <1>1. LedgerEntry("topup", OpeningBalance, 0)
            = Account!Row("topup", OpeningBalance, OpeningBalance)
    BY BillingAssumption DEF LedgerEntry, Account!Row
  <1> QED
    BY <1>1 DEF Init, Account!Init

LEMMA CreditRefines ==
    ASSUME TypeOK, NEW o \in Orgs, NEW amount \in CreditInputs, Credit(o, amount)
    PROVE  Account!Deposit(o)
  <1>1. /\ balance[o] \in Int /\ amount \in Nat
        /\ balance' = [balance EXCEPT ![o] = @ + amount]
        /\ ledger' = [ledger EXCEPT ![o] =
              Append(@, LedgerEntry("topup", amount, balance[o]))]
        /\ records' = records
    BY BillingAssumption DEF Credit, TypeOK, MoneyOK
  <1>2. balance'[o] = balance[o] + amount
    BY <1>1 DEF TypeOK, MoneyOK
  <1>3. Account!Moved(o) = amount
    BY <1>1, <1>2 DEF Account!Moved
  <1>4. LedgerEntry("topup", amount, balance[o])
            = Account!Row("topup", amount, balance'[o])
    BY <1>2 DEF LedgerEntry, Account!Row
  <1>5. Account!Post(o, "topup", Account!Moved(o))
    BY <1>1, <1>3, <1>4 DEF Account!Post
  <1> QED
    BY <1>1, <1>3, <1>5 DEF Account!Deposit

\* The commit of a run settles it, for the cost it recorded.
LEMMA CommitSettles ==
    ASSUME TypeOK, Isolated, NEW r \in Requests, Commit(r)
    PROVE  /\ settledOf[r] = Null
           /\ settledOf' = [settledOf EXCEPT ![r] = run[r].costMinor]
  <1>1. /\ run[r] \in Frame
        /\ pc[r] = "commit"
        /\ records'[r] = NewRecord(run[r])
        /\ \A q \in Requests \ {r} : records'[q] = records[q]
    BY CommitEffect
  <1>2. records[r] = Null
    BY <1>1 DEF Isolated, Settled
  <1>3. NewRecord(run[r]) # Null /\ NewRecord(run[r]).costMinor = run[r].costMinor
    BY <1>1, NewRecordType, RowAssumption DEF NewRecord
  <1> QED
    BY <1>1, <1>2, <1>3 DEF settledOf

LEMMA CommitRefines ==
    ASSUME TypeOK, Isolated, Isolated', NEW r \in Requests, Commit(r)
    PROVE  Account!Waive(r) \/ \E o \in Orgs : Account!Buy(o, r)
  <1> DEFINE org == run[r].org
             cost == run[r].costMinor
  <1>1. /\ org \in Orgs /\ cost \in Nat
        /\ balance'[org] = balance[org] - cost
    BY CommitEffect
  <1>2. balance[org] \in Int
    BY <1>1 DEF TypeOK, MoneyOK
  <1>3. /\ settledOf[r] = Null
        /\ settledOf' = [settledOf EXCEPT ![r] = cost]
    BY CommitSettles
  <1>4. CASE cost = 0
    <2>1. UNCHANGED <<balance, ledger>>
      BY <1>4, CommitPosts
    <2> QED
      BY <1>3, <1>4, <2>1 DEF Account!Waive, settledOf
  <1>5. CASE cost > 0
    <2>1. Posts(org, LedgerEntry("charge", cost, balance[org]))
      BY <1>5, CommitPosts
    <2>2. Account!Moved(org) = -cost /\ -Account!Moved(org) = cost
      BY <1>1, <1>2 DEF Account!Moved
    <2>3. balance'[org] >= 0
      BY <1>1 DEF Isolated, NoOverdraft
    <2>4. Account!Post(org, "charge", -Account!Moved(org))
      <3>1. LedgerEntry("charge", cost, balance[org])
                = Account!Row("charge", cost, balance'[org])
        BY <1>1, <1>2 DEF LedgerEntry, Account!Row
      <3>2. LedgerEntry("charge", cost, balance[org]).balanceAfter
                = balance[org] + Account!Moved(org)
        BY <1>1, <1>2, <2>2 DEF LedgerEntry
      <3> QED
        BY <2>1, <2>2, <3>1, <3>2 DEF Account!Post, Posts
    <2>5. Account!Moved(org) < 0
      BY <1>1, <1>5, <2>2
    <2>6. settledOf' = [settledOf EXCEPT ![r] = -Account!Moved(org)]
      BY <1>3, <2>2
    <2> HIDE DEF org, cost
    <2>7. Account!Buy(org, r)
      BY <1>3, <2>3, <2>4, <2>5, <2>6, Zenon DEF Account!Buy, settledOf
    <2> QED
      BY <1>1, <2>7
  <1> QED
    BY <1>1, <1>4, <1>5

LEMMA NextRefines ==
    TypeOK /\ Isolated /\ Isolated' /\ [Next]_vars
        => [Account!Next]_(Account!abstractVars)
  <1> SUFFICES ASSUME TypeOK, Isolated, Isolated', [Next]_vars
               PROVE  Account!Next \/ UNCHANGED Account!abstractVars
    OBVIOUS
  <1>1. CASE \E r \in Requests : Commit(r)
    BY <1>1, CommitRefines DEF Account!Next
  <1>2. CASE \E o \in Orgs, amount \in CreditInputs : Credit(o, amount)
    BY <1>2, CreditRefines DEF Account!Next
  <1>3. CASE /\ \A r \in Requests : ~Commit(r)
             /\ \A o \in Orgs, amount \in CreditInputs : ~Credit(o, amount)
    BY <1>3, OtherSteps DEF Account!abstractVars
  <1> QED
    BY <1>1, <1>2, <1>3

\* The pipeline implements the abstract account: deposits, purchases paid in
\* full and settled once, failed purchases that cost nothing, nothing else.
THEOREM PipelineImplementsAccount == Spec => ImplementsAccount
  BY InitRefines, NextRefines, AlwaysIsolated, PTL
  DEF Spec, ImplementsAccount, Account!Spec
=============================================================================
