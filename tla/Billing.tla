------------------------------- MODULE Billing -------------------------------
(***************************************************************************)
(* The prepaid billing pipeline: VerificationsService.run, executed        *)
(* concurrently by the API's request handlers and batch workers, against   *)
(* the wallets, the ledger, the monthly usage counters and the price       *)
(* tables that administrators edit at the same time.                       *)
(*                                                                         *)
(* One action per database round trip of run(): every await is a point     *)
(* where the other runs, the administrators, a top-up or the calendar may  *)
(* move.  The billing transaction runs at READ COMMITTED: it keeps the row *)
(* locks it takes (SELECT ... FOR UPDATE on the usage row, then on the     *)
(* wallet) until it ends, and its writes become visible together when it   *)
(* commits.                                                                *)
(***************************************************************************)
EXTENDS Pricing, Sequences, Functions

CONSTANTS
    Requests,        \* calls of run(), each made at most once
    Orgs,            \* organizations, each with one wallet
    Products,        \* verification types
    LastMonth,       \* bound on the calendar
    EnabledChecks,   \* types the deployment enables (registry.isEnabled)
    BackupTypes,     \* types with a backup route (registry.hasBackup)
    Pages,           \* statement page counts a request may name
    PriceInputs,     \* prices an administrator may enter
    VolumeInputs,    \* tier bounds an administrator may enter
    CreditInputs,    \* top-up amounts
    OpeningBalance,  \* balance of a newly registered organization
    InitialPrices,   \* product_pricing rows at the start
    InitialTiers,    \* product_pricing_tiers rows at the start
    MaxEvents,       \* bound on top-ups and month changes
    MaxEdits         \* bound on administrator edits

Months == 1 .. LastMonth    \* month keys

PriceRow == [priceMinor : Nat, active : BOOLEAN]

ASSUME BillingAssumption ==
    /\ IsFiniteSet(Requests)
    /\ LastMonth \in Nat \ {0}
    /\ EnabledChecks \subseteq Products
    /\ BackupTypes \subseteq Products
    /\ Pages \subseteq Nat
    /\ PriceInputs \subseteq Nat
    /\ VolumeInputs \subseteq Nat
    /\ CreditInputs \subseteq Nat
    /\ OpeningBalance \in Nat
    /\ InitialPrices \in [Products -> Nullable(PriceRow)]
    /\ InitialTiers \in [Products -> SUBSET Tier]
    /\ MaxEvents \in Nat
    /\ MaxEdits \in Nat

VARIABLES
    pricing,      \* product_pricing, by type
    tiers,        \* product_pricing_tiers, by type
    enabledRow,   \* org_enabled_checks: TRUE, FALSE or no row
    orgTiers,     \* org_pricing_tiers: at most one row per org and type
    month,        \* the server's clock, as a month key
    usage,        \* organization_monthly_usage.success_count
    usageLock,    \* which run holds the usage row FOR UPDATE
    balance,      \* wallets.balanceMinor
    walletLock,   \* which run holds the wallet row FOR UPDATE
    ledger,       \* transactions of each wallet, oldest first
    records,      \* verification_requests, by the run that created them
    pc,           \* where each run is
    run,          \* the local variables of a run in progress
    events,       \* how many top-ups and month changes happened
    edits         \* how many administrator edits happened

catalogVars == <<pricing, tiers, enabledRow, orgTiers>>
moneyVars   == <<usage, balance, ledger, records>>
lockVars    == <<usageLock, walletLock>>
boundVars   == <<events, edits>>
vars == <<catalogVars, month, moneyVars, lockVars, pc, run, boundVars>>

-----------------------------------------------------------------------------
(* Types.                                                                  *)

OrgChecks == Orgs \X Products
UsageKeys == Orgs \X Months \X Products

Frame == [org : Orgs, type : Products, useBackup : BOOLEAN, pages : Pages,
          basePrice : Nat, orgTier : Nullable(OrgTier), monthKey : Months,
          currentVolume : Nat, quotedBackup : Nullable(Nat),
          status : Status, isBackup : BOOLEAN, offer : Nullable(Nat),
          lockedVolume : Nat, lockedTier : Nullable(Tier),
          vendorMinor : Nat, costMinor : Nat]

Entry == [type : {"topup", "charge"}, amountMinor : Nat, balanceAfter : Int]

\* monthKey, lockedVolume and lockedTier are kept for the properties and offer
\* is part of the reply; the rest are columns.
Record == [org : Orgs, type : Products, status : Status, isBackup : BOOLEAN,
           costMinor : Nat, vendorCostMinor : Nat, marginMinor : Nat,
           monthKey : Months, lockedVolume : Nat, lockedTier : Nullable(Tier),
           offer : Nullable(Nat)]

\* An absent row is told from every row.
ASSUME RowAssumption ==
    /\ Null \notin Requests
    /\ Null \notin PriceRow
    /\ Null \notin Tier
    /\ Null \notin OrgTier
    /\ Null \notin Frame
    /\ Null \notin Record

InTransaction == {"tier", "wallet", "commit"}
Running == {"overrides", "usage", "quote", "provider", "lock"} \cup InTransaction
Finished == {"rejected", "insufficient", "error", "done"}

CatalogOK ==
    /\ pricing \in [Products -> Nullable(PriceRow)]
    /\ tiers \in [Products -> SUBSET Tier]
    /\ enabledRow \in [OrgChecks -> Nullable(BOOLEAN)]
    /\ orgTiers \in [OrgChecks -> Nullable(OrgTier)]

MoneyOK ==
    /\ usage \in [UsageKeys -> Nat]
    /\ balance \in [Orgs -> Int]
    /\ ledger \in [Orgs -> Seq(Entry)]
    /\ records \in [Requests -> Nullable(Record)]

LocksOK ==
    /\ usageLock \in [UsageKeys -> Nullable(Requests)]
    /\ walletLock \in [Orgs -> Nullable(Requests)]

RunsOK ==
    /\ pc \in [Requests -> {"new"} \cup Running \cup Finished]
    /\ run \in [Requests -> Nullable(Frame)]
    /\ \A r \in Requests : pc[r] \in Running => run[r] \in Frame

\* Type correctness: every row has the columns the schema gives it, amounts
\* stay in their ranges whatever is edited under way, and a run in progress
\* has its local variables.
TypeOK ==
    /\ CatalogOK
    /\ MoneyOK
    /\ LocksOK
    /\ RunsOK
    /\ month \in Months
    /\ events \in Nat
    /\ edits \in Nat

-----------------------------------------------------------------------------
(* Helpers.                                                                *)

\* Mutant of UsageKey: the month is taken again whenever the row is addressed.
UsageKeyOfToday(r) == <<run[r].org, month, run[r].type>>

UsageKey(r) == <<run[r].org, run[r].monthKey, run[r].type>>

Signed(entry) ==
    IF entry.type = "topup" THEN entry.amountMinor ELSE -entry.amountMinor

\* Mutant of LedgerEntry: balanceAfter is the value read before the UPDATE.
LedgerEntryOfRead(type, amount, before) ==
    [type |-> type, amountMinor |-> amount, balanceAfter |-> before]

\* Each row's running balance is the one before it moved by the row's amount.
IsChain(rows) ==
    \A i \in 2 .. Len(rows) :
        rows[i].balanceAfter = rows[i - 1].balanceAfter + Signed(rows[i])

\* A ledger row written in the transaction that moves the balance by its
\* amount: balanceAfter is the value the UPDATE returned.
LedgerEntry(type, amount, before) ==
    LET signed == IF type = "topup" THEN amount ELSE -amount
    IN  [type |-> type, amountMinor |-> amount, balanceAfter |-> before + signed]

\* The transaction of run r ends, by COMMIT or by ROLLBACK.
ReleaseLocks(r) ==
    /\ usageLock' = [k \in UsageKeys |-> IF usageLock[k] = r THEN Null ELSE usageLock[k]]
    /\ walletLock' = [o \in Orgs |-> IF walletLock[o] = r THEN Null ELSE walletLock[o]]

\* run() returns or throws: its locals are gone.
Leave(r, outcome) ==
    /\ pc' = [pc EXCEPT ![r] = outcome]
    /\ run' = [run EXCEPT ![r] = Null]

Goto(r, label) == pc' = [pc EXCEPT ![r] = label]

-----------------------------------------------------------------------------
(* Start: nothing has run yet.  Registration credits the opening balance   *)
(* with a ledger row; the seed script creates a wallet without one.        *)

Init ==
    /\ pricing = InitialPrices
    /\ tiers = InitialTiers
    /\ enabledRow = [k \in OrgChecks |-> Null]
    /\ orgTiers = [k \in OrgChecks |-> Null]
    /\ month = 1
    /\ usage = [k \in UsageKeys |-> 0]
    /\ usageLock = [k \in UsageKeys |-> Null]
    /\ balance = [o \in Orgs |-> OpeningBalance]
    /\ walletLock = [o \in Orgs |-> Null]
    /\ ledger \in [Orgs -> {<< >>, <<LedgerEntry("topup", OpeningBalance, 0)>>}]
    /\ records = [r \in Requests |-> Null]
    /\ pc = [r \in Requests |-> "new"]
    /\ run = [r \in Requests |-> Null]
    /\ events = 0
    /\ edits = 0

-----------------------------------------------------------------------------
(* run(), before the provider is called.                                   *)

\* registry.isEnabled, then the product_pricing row is read: a missing or
\* inactive product is refused.
Start(r, org, type, useBackup, pages) ==
    /\ pc[r] = "new"
    /\ \/ /\ type \in EnabledChecks
          /\ pricing[type] # Null
          /\ pricing[type].active
          /\ run' = [run EXCEPT ![r] =
                [org |-> org, type |-> type, useBackup |-> useBackup,
                 pages |-> pages, basePrice |-> pricing[type].priceMinor,
                 orgTier |-> Null, monthKey |-> month, currentVolume |-> 0,
                 quotedBackup |-> Null, status |-> "success",
                 isBackup |-> FALSE, offer |-> Null, lockedVolume |-> 0,
                 lockedTier |-> Null, vendorMinor |-> 0, costMinor |-> 0]]
          /\ Goto(r, "overrides")
       \/ /\ \/ type \notin EnabledChecks
             \/ pricing[type] = Null
             \/ pricing[type] # Null /\ ~pricing[type].active
          /\ Leave(r, "rejected")
    /\ UNCHANGED <<catalogVars, month, moneyVars, lockVars, boundVars>>

\* The organization's opt-outs and prices are read; an opt-out refuses the
\* run.  Missing consent or an invalid field refuses it too: the request's
\* content is abstracted to that choice.  The month key is taken here.
ReadOverrides(r) ==
    /\ pc[r] = "overrides"
    /\ LET key == <<run[r].org, run[r].type>>
       IN  \/ /\ enabledRow[key] # FALSE
              /\ run' = [run EXCEPT ![r].orgTier = orgTiers[key],
                                    ![r].monthKey = month]
              /\ Goto(r, "usage")
           \/ Leave(r, "rejected")
    /\ UNCHANGED <<catalogVars, month, moneyVars, lockVars, boundVars>>

\* The month's volume is read without a lock...
ReadUsage(r) ==
    /\ pc[r] = "usage"
    /\ run' = [run EXCEPT ![r].currentVolume = usage[UsageKey(r)]]
    /\ Goto(r, "quote")
    /\ UNCHANGED <<catalogVars, month, moneyVars, lockVars, boundVars>>

\* ...and gives the price a backup retry would be quoted at.
Quote(r) ==
    /\ pc[r] = "quote"
    /\ LET tier == getCurrentTier(tiers[run[r].type], run[r].currentVolume)
       IN  run' = [run EXCEPT ![r].quotedBackup = BackupPrice(run[r].orgTier, tier)]
    /\ Goto(r, "provider")
    /\ UNCHANGED <<catalogVars, month, moneyVars, lockVars, boundVars>>

\* The provider answers, or fails with one of its error codes.  A primary
\* that is down, with a routed and priced backup, makes a retry offer.
ProviderAnswers(r, answer) ==
    /\ pc[r] = "provider"
    /\ LET routed  == run[r].useBackup /\ run[r].type \in BackupTypes
           offered == /\ answer = "UPSTREAM_DOWN"
                      /\ ~run[r].useBackup
                      /\ run[r].type \in BackupTypes
                      /\ run[r].quotedBackup # Null
       IN  run' = [run EXCEPT
              ![r].isBackup = routed,
              ![r].status = CASE answer = "RESULT"    -> "success"
                              [] answer = "NOT_FOUND" -> "not_found"
                              [] OTHER                -> "failed",
              ![r].offer = IF offered THEN BackupOffer(run[r].quotedBackup)
                           ELSE Null]
    /\ Goto(r, "lock")
    /\ UNCHANGED <<catalogVars, month, moneyVars, lockVars, boundVars>>

-----------------------------------------------------------------------------
(* run(), the billing transaction.                                         *)

\* Mutant of LockUsage: SELECT without FOR UPDATE.
ReadUsageUnlocked(r) ==
    /\ pc[r] = "lock"
    /\ run' = [run EXCEPT ![r].lockedVolume = usage[UsageKey(r)]]
    /\ Goto(r, "tier")
    /\ UNCHANGED <<catalogVars, month, moneyVars, lockVars, boundVars>>

\* Mutant of LockUsage: the row is locked but the volume is the pre-read one.
LockUsageStale(r) ==
    /\ pc[r] = "lock"
    /\ usageLock[UsageKey(r)] = Null
    /\ usageLock' = [usageLock EXCEPT ![UsageKey(r)] = r]
    /\ run' = [run EXCEPT ![r].lockedVolume = run[r].currentVolume]
    /\ Goto(r, "tier")
    /\ UNCHANGED <<catalogVars, month, moneyVars, walletLock, boundVars>>

\* The usage row is created if absent and locked, and the volume re-read.
LockUsage(r) ==
    /\ pc[r] = "lock"
    /\ usageLock[UsageKey(r)] = Null
    /\ usageLock' = [usageLock EXCEPT ![UsageKey(r)] = r]
    /\ run' = [run EXCEPT ![r].lockedVolume = usage[UsageKey(r)]]
    /\ Goto(r, "tier")
    /\ UNCHANGED <<catalogVars, month, moneyVars, walletLock, boundVars>>

\* The tier of the locked volume is read, and decides the charge.
ReadLockedTier(r) ==
    /\ pc[r] = "tier"
    /\ LET f      == run[r]
           tier   == getCurrentTier(tiers[f.type], f.lockedVolume)
           unit   == LockedUnit(f.type, f.pages, f.orgTier, tier, f.basePrice)
           backup == BackupPrice(f.orgTier, tier)
           vendor == VendorMinor(f.status, f.isBackup, unit, backup)
           cost   == CostMinor(f.status, vendor)
       IN  /\ run' = [run EXCEPT ![r].lockedTier = tier,
                                ![r].vendorMinor = vendor, ![r].costMinor = cost]
           /\ Goto(r, IF cost > 0 THEN "wallet" ELSE "commit")
    /\ UNCHANGED <<catalogVars, month, moneyVars, lockVars, boundVars>>

\* Mutant of LockWallet: SELECT without FOR UPDATE.
CheckWalletUnlocked(r) ==
    /\ pc[r] = "wallet"
    /\ \/ /\ balance[run[r].org] >= run[r].costMinor
          /\ Goto(r, "commit")
          /\ UNCHANGED <<lockVars, run>>
       \/ /\ balance[run[r].org] < run[r].costMinor
          /\ ReleaseLocks(r)
          /\ Leave(r, "insufficient")
    /\ UNCHANGED <<catalogVars, month, moneyVars, boundVars>>

\* Mutant of LockWallet: a refused charge returns without ending the
\* transaction.
RefuseInTransaction(r) ==
    /\ pc[r] = "wallet"
    /\ walletLock[run[r].org] = Null
    /\ \/ /\ balance[run[r].org] >= run[r].costMinor
          /\ walletLock' = [walletLock EXCEPT ![run[r].org] = r]
          /\ Goto(r, "commit")
          /\ UNCHANGED <<usageLock, run>>
       \/ /\ balance[run[r].org] < run[r].costMinor
          /\ Leave(r, "insufficient")
          /\ UNCHANGED lockVars
    /\ UNCHANGED <<catalogVars, month, moneyVars, boundVars>>

\* The wallet row is locked and its balance checked; without the funds the
\* whole transaction rolls back and run() throws InsufficientFunds.
LockWallet(r) ==
    /\ pc[r] = "wallet"
    /\ walletLock[run[r].org] = Null
    /\ \/ /\ balance[run[r].org] >= run[r].costMinor
          /\ walletLock' = [walletLock EXCEPT ![run[r].org] = r]
          /\ Goto(r, "commit")
          /\ UNCHANGED <<usageLock, run>>
       \/ /\ balance[run[r].org] < run[r].costMinor
          /\ ReleaseLocks(r)
          /\ Leave(r, "insufficient")
    /\ UNCHANGED <<catalogVars, month, moneyVars, boundVars>>

\* The verification_requests row of the run.
NewRecord(f) ==
    [org |-> f.org, type |-> f.type, status |-> f.status,
     isBackup |-> f.isBackup, costMinor |-> f.costMinor,
     vendorCostMinor |-> f.vendorMinor, marginMinor |-> MarginMinor(f.status),
     monthKey |-> f.monthKey, lockedVolume |-> f.lockedVolume,
     lockedTier |-> f.lockedTier, offer |-> f.offer]

\* Debit and ledger row when something is charged, usage counter on
\* success, and the record: the writes of the transaction, at its commit.
Commit(r) ==
    /\ pc[r] = "commit"
    /\ LET f == run[r]
       IN  /\ IF f.costMinor > 0
              THEN /\ balance' = [balance EXCEPT ![f.org] = @ - f.costMinor]
                   /\ ledger' = [ledger EXCEPT ![f.org] =
                         Append(@, LedgerEntry("charge", f.costMinor, balance[f.org]))]
              ELSE UNCHANGED <<balance, ledger>>
           /\ usage' = IF f.status = "success"
                       THEN [usage EXCEPT ![UsageKey(r)] = @ + 1]
                       ELSE usage
           /\ records' = [records EXCEPT ![r] = NewRecord(f)]
    /\ ReleaseLocks(r)
    /\ Leave(r, "done")
    /\ UNCHANGED <<catalogVars, month, boundVars>>

\* A query fails, the interactive transaction times out or the server goes
\* down: the open transaction rolls back and the caller gets an error, even
\* if the provider had already answered.
Fail(r) ==
    /\ pc[r] \in Running
    /\ ReleaseLocks(r)
    /\ Leave(r, "error")
    /\ UNCHANGED <<catalogVars, month, moneyVars, boundVars>>

-----------------------------------------------------------------------------
(* The other writers of the shared rows.                                   *)

Event == events < MaxEvents /\ events' = events + 1 /\ UNCHANGED edits

Edit == edits < MaxEdits /\ edits' = edits + 1 /\ UNCHANGED events

\* A top-up settles: the wallet is credited and the ledger row written in
\* one transaction, which waits for a wallet row that is locked.
Credit(o, amount) ==
    /\ Event
    /\ walletLock[o] = Null
    /\ balance' = [balance EXCEPT ![o] = @ + amount]
    /\ ledger' = [ledger EXCEPT ![o] =
          Append(@, LedgerEntry("topup", amount, balance[o]))]
    /\ UNCHANGED <<catalogVars, month, usage, records, lockVars, pc, run>>

NextMonth ==
    /\ Event
    /\ month + 1 \in Months
    /\ month' = month + 1
    /\ UNCHANGED <<catalogVars, moneyVars, lockVars, pc, run>>

setPricing(type, price) ==
    /\ Edit
    /\ pricing' = [pricing EXCEPT ![type] =
          [priceMinor |-> price, active |-> IF @ = Null THEN TRUE ELSE @.active]]
    /\ UNCHANGED <<tiers, enabledRow, orgTiers, month, moneyVars, lockVars, pc, run>>

\* Activating a product that has no row creates it at price 0.
setProductActive(type, active) ==
    /\ Edit
    /\ pricing' = [pricing EXCEPT ![type] =
          [priceMinor |-> IF @ = Null THEN 0 ELSE @.priceMinor, active |-> active]]
    /\ UNCHANGED <<tiers, enabledRow, orgTiers, month, moneyVars, lockVars, pc, run>>

\* The (productType, minVolume) key is unique; nothing compares the bands.
createTier(type, row) ==
    /\ Edit
    /\ \A t \in tiers[type] : t.minVolume # row.minVolume
    /\ tiers' = [tiers EXCEPT ![type] = @ \cup {row}]
    /\ UNCHANGED <<pricing, enabledRow, orgTiers, month, moneyVars, lockVars, pc, run>>

\* A field of an update that may be absent (the empty sequence) or NULL.
Optional(S) == {<< >>} \cup {<<v>> : v \in S}

\* An absent or null bound or unit price (Null here) keeps the column, so a
\* bound can be moved but not removed.  Only the backup price tells an absent
\* field, which keeps it, from null, which clears it.
updateTier(type, row, max, unit, backup) ==
    /\ Edit
    /\ row \in tiers[type]
    /\ LET new == [row EXCEPT !.maxVolume = IF max = Null THEN @ ELSE max,
                              !.unitPriceMinor = IF unit = Null THEN @ ELSE unit,
                              !.backupPriceMinor = IF backup = << >> THEN @
                                                   ELSE backup[1]]
       IN  tiers' = [tiers EXCEPT ![type] = (@ \ {row}) \cup {new}]
    /\ UNCHANGED <<pricing, enabledRow, orgTiers, month, moneyVars, lockVars, pc, run>>

\* One row per organization and type: a second create violates the key.
createOrgPricingTier(o, type, row) ==
    /\ Edit
    /\ orgTiers[<<o, type>>] = Null
    /\ orgTiers' = [orgTiers EXCEPT ![<<o, type>>] = row]
    /\ UNCHANGED <<pricing, tiers, enabledRow, month, moneyVars, lockVars, pc, run>>

updateOrgPricingTier(o, type, unit, backup) ==
    /\ Edit
    /\ orgTiers[<<o, type>>] # Null
    /\ orgTiers' = [orgTiers EXCEPT ![<<o, type>>] =
          [unitPriceMinor |-> IF unit = Null THEN @.unitPriceMinor ELSE unit,
           backupPriceMinor |-> IF backup = << >> THEN @.backupPriceMinor
                                ELSE backup[1]]]
    /\ UNCHANGED <<pricing, tiers, enabledRow, month, moneyVars, lockVars, pc, run>>

\* setOrgEnabledChecks deletes the row and creates the new one in two
\* statements outside a transaction: between them there is no row.
deleteOrgEnabledCheck(o, type) ==
    /\ Edit
    /\ enabledRow' = [enabledRow EXCEPT ![<<o, type>>] = Null]
    /\ UNCHANGED <<pricing, tiers, orgTiers, month, moneyVars, lockVars, pc, run>>

createOrgEnabledCheck(o, type, enabled) ==
    /\ Edit
    /\ enabledRow[<<o, type>>] = Null
    /\ enabledRow' = [enabledRow EXCEPT ![<<o, type>>] = enabled]
    /\ UNCHANGED <<pricing, tiers, orgTiers, month, moneyVars, lockVars, pc, run>>
-----------------------------------------------------------------------------
(* The next-state relation.                                                *)

RunStep(r) ==
    \/ ReadOverrides(r)
    \/ ReadUsage(r)
    \/ Quote(r)
    \/ \E answer \in {"RESULT", "NOT_FOUND", "UPSTREAM_DOWN", "OTHER"} :
           ProviderAnswers(r, answer)
    \/ LockUsage(r)
    \/ ReadLockedTier(r)
    \/ LockWallet(r)
    \/ Commit(r)

AdminStep ==
    \/ \E type \in Products, price \in PriceInputs : setPricing(type, price)
    \/ \E type \in Products, active \in BOOLEAN : setProductActive(type, active)
    \/ \E type \in Products, min \in VolumeInputs, max \in Nullable(VolumeInputs),
          unit \in PriceInputs, backup \in Nullable(PriceInputs) :
           createTier(type, [minVolume |-> min, maxVolume |-> max,
                             unitPriceMinor |-> unit, backupPriceMinor |-> backup])
    \/ \E type \in Products : \E row \in tiers[type] :
       \E max \in Nullable(VolumeInputs), unit \in Nullable(PriceInputs),
          backup \in Optional(Nullable(PriceInputs)) :
           updateTier(type, row, max, unit, backup)
    \/ \E o \in Orgs, type \in Products, unit \in PriceInputs,
          backup \in Nullable(PriceInputs) :
           createOrgPricingTier(o, type, [unitPriceMinor |-> unit,
                                          backupPriceMinor |-> backup])
    \/ \E o \in Orgs, type \in Products, unit \in Nullable(PriceInputs),
          backup \in Optional(Nullable(PriceInputs)) :
           updateOrgPricingTier(o, type, unit, backup)
    \/ \E o \in Orgs, type \in Products : deleteOrgEnabledCheck(o, type)
    \/ \E o \in Orgs, type \in Products, enabled \in BOOLEAN :
           createOrgEnabledCheck(o, type, enabled)

Next ==
    \/ \E r \in Requests, o \in Orgs, type \in Products, b \in BOOLEAN, n \in Pages :
           Start(r, o, type, b, n)
    \/ \E r \in Requests : RunStep(r)
    \/ \E r \in Requests : Fail(r)
    \/ \E o \in Orgs, amount \in CreditInputs : Credit(o, amount)
    \/ NextMonth
    \/ AdminStep

Spec == Init /\ [][Next]_vars

\* A run that has started keeps going: the server keeps executing, a lock is
\* granted when its holder's transaction ends, and a provider call ends by
\* its own 30 s abort timer.  Nothing obliges a client to start a run.
FairSpec == Spec /\ \A r \in Requests : WF_vars(RunStep(r))

-----------------------------------------------------------------------------
(* Properties.                                                             *)

Successes(key) ==
    {r \in Requests : /\ records[r] # Null
                      /\ records[r].status = "success"
                      /\ <<records[r].org, records[r].monthKey, records[r].type>> = key}

\* A wallet drained between the check and the debit never goes negative:
\* run() re-reads the balance under the wallet's row lock.
NoOverdraft == \A o \in Orgs : balance[o] >= 0

\* The ledger rows of a wallet form one chain of running balances that ends
\* at the wallet's balance, whatever charges and top-ups interleave.
LedgerChain ==
    \A o \in Orgs :
        /\ ledger[o] # << >> => ledger[o][Len(ledger[o])].balanceAfter = balance[o]
        /\ IsChain(ledger[o])

\* The volume that prices the next check is the number of successes recorded
\* for the organization, the month the run began in and the type.
UsageCountsSuccesses ==
    \A k \in UsageKeys : usage[k] = Cardinality(Successes(k))

\* Concurrent runs never bill the same volume position twice, and none bills
\* a position the counter has not passed: each success moved the counter by
\* the one position it was priced at.
PositionsBilledOnce ==
    \A k \in UsageKeys : \A r \in Successes(k) :
        /\ records[r].lockedVolume < usage[k]
        /\ \A s \in Successes(k) :
               r # s => records[r].lockedVolume # records[s].lockedVolume

\* Every success is billed under a band that covers its own position, or
\* under none when no band does at that time.
BilledInBand ==
    \A k \in UsageKeys : \A r \in Successes(k) :
        records[r].lockedTier # Null =>
            Covers(records[r].lockedTier, records[r].lockedVolume)

\* A run that ended, however it ended, holds no row lock, and an open
\* transaction holds the lock of the usage row it will increment.
LocksFollowTransactions ==
    /\ \A k \in UsageKeys : usageLock[k] # Null =>
           /\ pc[usageLock[k]] \in InTransaction
           /\ UsageKey(usageLock[k]) = k
    /\ \A o \in Orgs : walletLock[o] # Null =>
           /\ pc[walletLock[o]] = "commit"
           /\ run[walletLock[o]].org = o
    /\ \A r \in Requests : pc[r] \in InTransaction => usageLock[UsageKey(r)] = r

\* Until it commits, a billing transaction prices exactly the position the
\* counter stands at, and what it will debit is in the wallet it has locked.
TransactionsAreIsolated ==
    \A r \in Requests :
        /\ pc[r] \in InTransaction =>
               run[r].lockedVolume = usage[UsageKey(r)]
        /\ pc[r] \in {"wallet", "commit"} /\ run[r].costMinor > 0 =>
               run[r].status = "success"
        /\ pc[r] = "commit" /\ run[r].costMinor > 0 =>
               /\ walletLock[run[r].org] = r
               /\ run[r].costMinor <= balance[run[r].org]

\* Money leaves a wallet only in the step that records the success that was
\* bought, for exactly the recorded cost.
ChargeWithRecord ==
    [][\A o \in Orgs : balance'[o] < balance[o] =>
          \E r \in Requests :
              /\ records[r] = Null
              /\ records'[r] # Null
              /\ records'[r].org = o
              /\ records'[r].status = "success"
              /\ records'[r].costMinor = balance[o] - balance'[o]]_vars

\* What the top-ups among the rows of a ledger brought in.
CreditRows(rows) == {i \in DOMAIN rows : rows[i].type = "topup"}
Credited(rows) ==
    SumFunctionOnSet([i \in DOMAIN rows |-> rows[i].amountMinor], CreditRows(rows))

\* The balance before the first row, which a seeded wallet has without a row.
OpenedWith(rows) ==
    IF rows = << >> THEN OpeningBalance ELSE rows[1].balanceAfter - Signed(rows[1])

\* What the records of an organization say was sold to it.
RecordedFor(o) == {r \in Requests : records[r] # Null /\ records[r].org = o}
Price(record) ==
    IF record = Null THEN 0 ELSE record.vendorCostMinor + record.marginMinor
Sold(o) == SumFunctionOnSet([r \in Requests |-> Price(records[r])], RecordedFor(o))

\* A wallet holds what it opened with, plus every top-up of its ledger, minus
\* what the records say was sold: the admin revenue report (built from the
\* records) and the wallet (built from debits) agree.
WalletMatchesRecords ==
    \A o \in Orgs :
        balance[o] = OpenedWith(ledger[o]) + Credited(ledger[o]) - Sold(o)

\* Every run that started ends: no lock order, refused charge or failure
\* leaves another run waiting for ever.
EveryRunEnds ==
    \A r \in Requests : pc[r] \in Running ~> pc[r] \in Finished

-----------------------------------------------------------------------------
(* The pipeline implements the abstract account: a purchase is a run, and  *)
(* it is settled when its verification_requests row exists.                *)

Account == INSTANCE PrepaidLedger WITH
    Accounts  <- Orgs,
    Purchases <- Requests,
    Opening   <- OpeningBalance,
    Unsettled <- Null,
    settled   <- [r \in Requests |-> IF records[r] = Null THEN Null
                                     ELSE records[r].costMinor]

\* Whatever the runs, top-ups, edits and failures interleave, wallets and
\* ledger move only as the abstract account allows: deposits, purchases paid
\* in full from the balance of that moment and settled once, and failed
\* purchases that cost nothing.
ImplementsAccount == Account!Spec
=============================================================================
