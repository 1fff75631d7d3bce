-------------------------------- MODULE MCBatch --------------------------------
(* Model-checking instance of Batch: price tables whose bands a batch of three *)
(* rows crosses.                                                               *)
EXTENDS Batch

MCBand(min, max, unit, backup) ==
    [minVolume |-> min, maxVolume |-> max,
     unitPriceMinor |-> unit, backupPriceMinor |-> backup]

MCTable(base, override, tiers) == [base |-> base, override |-> override, tiers |-> tiers]

\* Cheaper from the second success on, as in the seed.
Falling == MCTable(4, Null, {MCBand(0, 0, 3, 4), MCBand(1, Null, 2, 3)})

\* After the first band a gap, in which the base price holds.
WithGap == MCTable(4, Null, {MCBand(0, 0, 2, Null), MCBand(2, Null, 2, 5)})

\* The organization has a price of its own.
Overridden == MCTable(4, [unitPriceMinor |-> 2, backupPriceMinor |-> Null], {})

MCPriceTables == {Falling, WithGap, Overridden}
================================================================================
