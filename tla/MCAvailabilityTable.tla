------------------------- MODULE MCAvailabilityTable -------------------------
(* Instance of AvailabilityTable for TLC: the goroutines, and the addresses  *)
(* of the pool, are alike.                                                   *)
EXTENDS AvailabilityTable, TLC

Symmetry == Permutations(Goroutines) \cup Permutations(PoolAddresses)
=============================================================================
