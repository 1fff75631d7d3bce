------------------------------ MODULE MCBilling ------------------------------
(* Model-checking instance of Billing and Catalog: small tables and the     *)
(* symmetry of the requests, which differ in nothing but their identity.    *)
EXTENDS Catalog, TLC

Band(min, max, unit, backup) ==
    [minVolume |-> min, maxVolume |-> max,
     unitPriceMinor |-> unit, backupPriceMinor |-> backup]

\* One check in the first band, everything after it in the open one.
TwoBands == {Band(0, 0, 3, 4), Band(1, Null, 2, Null)}

CONSTANT Unpriced    \* products with neither a product_pricing row nor tiers

MCInitialPrices ==
    [p \in Products |-> IF p \in Unpriced THEN Null
                        ELSE [priceMinor |-> 3, active |-> TRUE]]

MCInitialTiers ==
    [p \in Products |-> IF p \in Unpriced \cup {SCANNED_STATEMENT} THEN {}
                        ELSE TwoBands]

RequestSymmetry == Permutations(Requests)

=============================================================================
