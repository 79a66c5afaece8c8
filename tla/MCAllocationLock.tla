-------------------------- MODULE MCAllocationLock --------------------------
(* Instances of AllocationLock for TLC.  The tables of different allocations *)
(* do not interact, so one allocation is enough; a goroutine that ended may  *)
(* start again as another.  The run with liveness has no symmetry.           *)
EXTENDS AllocationLock, TLC

CONSTANTS g1, g2, g3, a1

MCGoroutines3 == {g1, g2, g3}
MCGoroutines2 == {g1, g2}
MCAllocations == {a1}

Symmetry == Permutations(Goroutines)
=============================================================================
