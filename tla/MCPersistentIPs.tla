--------------------------- MODULE MCPersistentIPs ---------------------------
(* Instances of PersistentIPs for TLC. *)
EXTENDS PersistentIPsLedger, TLC

CONSTANTS s1, s2, a, b, p, q, g1, g2

(* One pool that admits both services, or two of which s1 may use one. *)
PoolA == (p :> {a})
PoolAB == (p :> {a, b})
PoolsAandB == (p :> {a} @@ q :> {b})
Open == [s \in Services |-> Pools]
OnlyP == [s \in Services |-> {p}]

(* externalIPs: both services ask for the same address; they overlap; s1 is *)
(* edited from one address to the other; s1 alone.              *)
BothWantA == (s1 :> {{a}} @@ s2 :> {{a}})
Overlap == (s1 :> {{a, b}} @@ s2 :> {{b}})
Moving == (s1 :> {{a}, {b}} @@ s2 :> {{a}})
AthenB == (s1 :> {{a}, {b}})
WantsA == (s1 :> {{a}})

Symmetry == Permutations(Goroutines)
=============================================================================
