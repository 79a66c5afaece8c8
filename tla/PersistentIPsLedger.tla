------------------------- MODULE PersistentIPsLedger -------------------------
(***************************************************************************)
(* The controller for persistent IPs implements AddressLedger: every step  *)
(* of its goroutines is a step of the ledger, or does not concern it.      *)
(***************************************************************************)
EXTENDS PersistentIPs

(* Where a goroutine of a deletion still owes its addresses to the pool;     *)
(* elsewhere what it holds is booked for the object it is about to write.    *)
OwingLocations == {"isLocked", "addToLock", "dealloc", "deallocCloud"}

(* The places in which the state of the controller has the address. *)
PlacesOf(a) ==
    {[stage |-> "bound", s |-> s] :
        s \in {t \in Services : alloc[t] # NoObject /\ a \in alloc[t].ips}}
    \cup {[stage |-> "owed", s |-> t.s] : t \in {u \in tasks : a \in Owed(u)}}
    \cup {[stage |-> IF w[g].kind = "delete" /\ w[g].pc \in OwingLocations
                     THEN "owed" ELSE "booked", s |-> w[g].s] :
             g \in {h \in Threads : a \in w[h].got}}
    \cup {[stage |-> "free"] : p \in {q \in Pools : a \in avail[q]}}

(* SingleOwner says that there is one at most. *)
PlaceOf(a) == IF PlacesOf(a) = {} THEN [stage |-> "lost"] ELSE CHOOSE x \in PlacesOf(a) : TRUE

Ledger == INSTANCE AddressLedger WITH place <- [a \in Addresses |-> PlaceOf(a)]

(* While services, node losses and retries interleave in any order, an       *)
(* address that UseIP booked goes to an object or back to its pool, leaves   *)
(* the object only with it, and comes to another service by way of the pool  *)
(* (poolsManager.go, persistentips/allocator.go): the goroutines together    *)
(* keep a ledger that none of them keeps alone.                              *)
ImplementsLedger == Ledger!LedgerSpec
=============================================================================
