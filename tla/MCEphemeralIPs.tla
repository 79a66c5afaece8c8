--------------------------- MODULE MCEphemeralIPs ---------------------------
(* Instances of EphemeralIPs for TLC: what is not told apart is exchangeable. *)
EXTENDS EphemeralIPs, TLC

Symmetry == Permutations(Goroutines) \cup Permutations(Addresses)
=============================================================================
