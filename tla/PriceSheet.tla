------------------------------- MODULE PriceSheet -------------------------------
(***************************************************************************)
(* The deployment's own prices: the tiers that prisma/tier-seed.ts writes, *)
(* and what the marketing site tells of them, on its cards, in the table   *)
(* of its pricing page and on the page of each product.  Prices of the     *)
(* sheets are shillings, those of the tables cents.                        *)
(***************************************************************************)
EXTENDS Integers, Sequences, CheckInputs

CONSTANT Open    \* the cap of the topmost band, the price of a missing backup

ASSUME PriceSheetAssumption == Open \notin Int

Prices == INSTANCE Pricing WITH
    Null <- Open, SCANNED_STATEMENT <- "scanned_statement",
    SCANNED_STATEMENT_BASE_MINOR <- 12000, SCANNED_STATEMENT_PAGE_MINOR <- 400,
    PLATFORM_MARGIN_MINOR <- 500

IdentityStandard ==
    {"iprs_standard", "match_id_phone", "employer_verification", "face_id_match",
     "bank_account_verification"}
IdentityPremium == {"alien_id", "aml_pep_screen", "passport_check"}
Utility ==
    {"sim_swap_check", "kplc_location_checker", "kra_pin_verification", "search_name_by_phone"}

-----------------------------------------------------------------------------
(* The seed.                                                               *)

Bands == <<<<0, 500>>, <<501, 2500>>, <<2501, 5000>>, <<5001, 10000>>, <<10001, 30000>>,
           <<30001, Open>>>>

Rows(bands, units, backups) ==
    {[minVolume |-> bands[k][1], maxVolume |-> bands[k][2], unitPriceMinor |-> 100 * units[k],
      backupPriceMinor |-> IF k \in DOMAIN backups THEN 100 * backups[k] ELSE Open] :
        k \in DOMAIN bands}

NoBackups == << >>
Flat(unit) == Rows(<<<<0, Open>>>>, <<unit>>, NoBackups)

PersonTiers ==
    [t \in IdentityStandard \cup IdentityPremium |->
        IF t \in IdentityStandard
        THEN Rows(Bands, <<30, 28, 26, 24, 22, 20>>, <<45, 43, 42, 38, 34, 32>>)
        ELSE Rows(Bands, <<75, 73, 70, 66, 63, 60>>, NoBackups)]

PhoneTiers ==
    [t \in Utility \cup {"search_phones_by_id"} |->
        IF t \in Utility THEN Rows(Bands, <<20, 18, 16, 14, 12, 10>>, NoBackups)
        ELSE Rows(Bands, <<50, 48, 46, 44, 40, 35>>, NoBackups)]

VehicleTiers ==
    [motor_vehicle_ownership |->
        Rows(Bands, <<1160, 1140, 1115, 1080, 1040, 1010>>, NoBackups),
     drivers_license_verification |->
        Rows(Bands, <<200, 195, 190, 180, 175, 170>>, <<260, 254, 248, 238, 229, 221>>)]

MetropolTiers ==
    [metropol_score_only      |-> Rows(Bands, <<85, 83, 80, 77, 74, 70>>, NoBackups),
     metropol_standard_report |-> Rows(Bands, <<150, 147, 143, 137, 132, 128>>, NoBackups),
     metropol_full_report     |-> Rows(Bands, <<300, 295, 285, 275, 265, 250>>, NoBackups)]

\* Flat prices.
CreditInfoTiers ==
    [creditinfo_score_only    |-> Flat(50),
     creditinfo_comprehensive |-> Flat(350),
     creditinfo_crb_status    |-> Flat(2000)]

SPIN_SCORE_TIERS ==
    Rows(<<<<0, 1000>>, <<1001, 5000>>, <<5001, 10000>>, <<10001, 20000>>, <<20001, 50000>>,
           <<50001, Open>>>>, <<130, 125, 120, 115, 105, 95>>, NoBackups)

BusinessTiers ==
    [brs               |-> Rows(Bands, <<1300, 1280, 1250, 1205, 1160, 1125>>, NoBackups),
     spin_score_only   |-> SPIN_SCORE_TIERS,
     scanned_statement |-> Flat(120)]

TIERS ==
    [t \in VERIFICATION_TYPES |->
        CASE t \in DOMAIN PersonTiers     -> PersonTiers[t]
          [] t \in DOMAIN PhoneTiers      -> PhoneTiers[t]
          [] t \in DOMAIN VehicleTiers    -> VehicleTiers[t]
          [] t \in DOMAIN MetropolTiers   -> MetropolTiers[t]
          [] t \in DOMAIN CreditInfoTiers -> CreditInfoTiers[t]
          [] OTHER                        -> BusinessTiers[t]]

\* Mutant of seedPricingTiers: a row that exists keeps its cap.
seedKeepingCaps(type, rows) ==
    LET kept(seeded) == {row \in rows : row.minVolume = seeded.minVolume}
    IN  {row \in rows : \A seeded \in TIERS[type] : seeded.minVolume # row.minVolume} \cup
        {IF kept(seeded) = {} THEN seeded
         ELSE [seeded EXCEPT !.maxVolume = (CHOOSE row \in kept(seeded) : TRUE).maxVolume] :
            seeded \in TIERS[type]}

\* The rows of one product are written over those with the same lower bound;
\* other rows stay.
seedPricingTiers(type, rows) ==
    {row \in rows : \A seeded \in TIERS[type] : seeded.minVolume # row.minVolume}
        \cup TIERS[type]

\* The base price is the first tier's.
seedPricing(type) ==
    (CHOOSE row \in TIERS[type] :
        \A other \in TIERS[type] : row.minVolume <= other.minVolume).unitPriceMinor

-----------------------------------------------------------------------------
(* The site.                                                               *)

Card(price, cbConsentRequired, upload) ==
    [basePriceKes |-> price, cbConsentRequired |-> cbConsentRequired,
     requiresFileUpload |-> upload]

StandardCards ==
    [t \in IdentityStandard |-> Card(30, FALSE, t = "face_id_match")]

PersonCards ==
    [t \in IdentityPremium \cup (Utility \ {"search_name_by_phone"}) |->
        Card(IF t \in IdentityPremium THEN 75 ELSE 20, FALSE, FALSE)]

RegisterCards ==
    [search_name_by_phone         |-> Card(20, FALSE, FALSE),
     search_phones_by_id          |-> Card(50, FALSE, FALSE),
     motor_vehicle_ownership      |-> Card(1160, TRUE, FALSE),
     drivers_license_verification |-> Card(200, TRUE, FALSE),
     metropol_score_only          |-> Card(85, TRUE, FALSE),
     metropol_standard_report     |-> Card(150, TRUE, FALSE)]

BureauCards ==
    [metropol_full_report     |-> Card(300, TRUE, FALSE),
     creditinfo_score_only    |-> Card(50, TRUE, FALSE),
     creditinfo_comprehensive |-> Card(350, TRUE, FALSE),
     creditinfo_crb_status    |-> Card(2000, TRUE, FALSE)]

BusinessCards ==
    [brs               |-> Card(1300, TRUE, TRUE),
     spin_score_only   |-> Card(130, TRUE, FALSE),
     scanned_statement |-> Card(120, FALSE, TRUE)]

PRODUCTS ==
    [t \in VERIFICATION_TYPES |->
        CASE t \in DOMAIN StandardCards -> StandardCards[t]
          [] t \in DOMAIN PersonCards   -> PersonCards[t]
          [] t \in DOMAIN RegisterCards -> RegisterCards[t]
          [] t \in DOMAIN BureauCards   -> BureauCards[t]
          [] OTHER                      -> BusinessCards[t]]

\* The columns of the pricing page, and the line below them.
PublishedBands == <<<<0, 500>>, <<501, 2500>>, <<2501, 5000>>, <<5001, 10000>>,
                    <<10001, 30000>>, <<30001, Open>>>>

PublishedRegisters ==
    [search_phones_by_id          |-> <<50, 48, 46, 44, 40, 35>>,
     motor_vehicle_ownership      |-> <<1160, 1140, 1115, 1080, 1040, 1010>>,
     drivers_license_verification |-> <<200, 195, 190, 180, 175, 170>>,
     metropol_score_only          |-> <<85, 83, 80, 77, 74, 70>>,
     metropol_standard_report     |-> <<150, 147, 143, 137, 132, 128>>,
     metropol_full_report         |-> <<300, 295, 285, 275, 265, 250>>,
     creditinfo_score_only        |-> <<50, 50, 50, 50, 50, 50>>,
     creditinfo_comprehensive     |-> <<350, 350, 350, 350, 350, 350>>,
     creditinfo_crb_status        |-> <<2000, 2000, 2000, 2000, 2000, 2000>>,
     brs                          |-> <<1300, 1280, 1250, 1205, 1160, 1125>>]

PublishedPrices ==
    [t \in IdentityStandard \cup IdentityPremium \cup Utility \cup DOMAIN PublishedRegisters |->
        CASE t \in IdentityStandard -> <<30, 28, 26, 24, 22, 20>>
          [] t \in IdentityPremium  -> <<75, 73, 70, 66, 63, 60>>
          [] t \in Utility          -> <<20, 18, 16, 14, 12, 10>>
          [] OTHER                  -> PublishedRegisters[t]]

PublishedBackups == [drivers_license_verification |-> <<260, 254, 248, 238, 229, 221>>]

\* The bands of SPIN Score, which overlap at their ends and end at 100,000.
SpinBands == <<<<1, 1000>>, <<1000, 5000>>, <<5000, 10000>>, <<10000, 20000>>,
               <<20000, 50000>>, <<50000, 100000>>>>
SpinPrices == <<130, 125, 120, 115, 105, 95>>

\* The prices by volume on the page of a product, in the bands of the pricing
\* page: fixed shares of the base price.  The branches for products of other
\* bands compare the slug with names that no slug has.
ProductPagePrices(type) ==
    LET Share(percent) == (PRODUCTS[type].basePriceKes * percent + 50) \div 100
    IN  <<PRODUCTS[type].basePriceKes, Share(93), Share(87), Share(80), Share(73), Share(67)>>

-----------------------------------------------------------------------------
(* Properties.                                                             *)

\* The tiers of a product cover every volume once, and cost less the larger it is.
Tiles(rows) ==
    /\ \A row \in rows : row.maxVolume = Open \/ row.minVolume <= row.maxVolume
    /\ \E row \in rows : row.minVolume = 0
    /\ \A row \in rows :
           IF row.maxVolume = Open
           THEN \A other \in rows : other.minVolume <= row.minVolume
           ELSE \E next \in rows : /\ next.minVolume = row.maxVolume + 1
                                   /\ next.unitPriceMinor < row.unitPriceMinor
    /\ \A row, other \in rows :
           row # other => \/ row.maxVolume # Open /\ row.maxVolume < other.minVolume
                          \/ other.maxVolume # Open /\ other.maxVolume < row.minVolume

\* Two volumes at the ends of a band.
EndsOf(band) == {band[1], IF band[2] = Open THEN 2 * band[1] ELSE band[2]}

Seeded(type, volume) == Prices!getCurrentTier(TIERS[type], volume)

\* Rows of an earlier seed that administrators have edited since.
EditedRows(type) ==
    {TIERS[type]} \cup
    {{[row EXCEPT !.maxVolume = IF row.minVolume = low THEN low + 1 ELSE @,
                  !.unitPriceMinor = @ + 100] : row \in TIERS[type]} :
        low \in {row.minVolume : row \in TIERS[type]}}

\* Seeding gives a product, whatever rows it had for the bands, tiers that cover
\* all volumes; the pricing page tells for both ends of each of its bands the
\* provider's price that a check there is billed at (to which run() adds the
\* platform's margin), inside the bands of SPIN Score too; a card tells the base
\* price, and the uploads and bureau consents that the server will ask for.  The
\* page of a product tells the price of the first band; the shares it tells for
\* the others are what is billed for the standard identity checks alone: a
\* check of alien_id in the second band is told at 70 and billed at 73.
Advertised(type) ==
    LET told == PRODUCTS[type]
        Tells(prices, ends, Price(_)) ==
            \A k \in 1 .. 6 : \A volume \in ends[k] : Price(Seeded(type, volume)) = 100 * prices[k]
        unit(tier)   == tier.unitPriceMinor
        backup(tier) == tier.backupPriceMinor
        bandEnds     == [k \in 1 .. 6 |-> EndsOf(PublishedBands[k])]
    IN  /\ \A rows \in EditedRows(type) \cup {{}} : Tiles(seedPricingTiers(type, rows))
        /\ told.basePriceKes * 100 = seedPricing(type)
        /\ \A volume \in bandEnds[1] :
               unit(Seeded(type, volume)) = 100 * ProductPagePrices(type)[1]
        /\ type \in IdentityStandard => Tells(ProductPagePrices(type), bandEnds, unit)
        /\ told.requiresFileUpload = requiresFileUpload(type)
        /\ type \in CB_CONSENT_REQUIRED_TYPES => told.cbConsentRequired
        /\ type \in DOMAIN PublishedPrices => Tells(PublishedPrices[type], bandEnds, unit)
        /\ type \in DOMAIN PublishedBackups => Tells(PublishedBackups[type], bandEnds, backup)
        /\ type = "spin_score_only" =>
               Tells(SpinPrices, [k \in 1 .. 6 |-> {SpinBands[k][1] + 1, SpinBands[k][2]}], unit)
        /\ type = "scanned_statement" =>
               Prices!LockedUnit(type, 3, Open, Seeded(type, 0), 0)
                   = 100 * (told.basePriceKes + 3 * 4)
=============================================================================
