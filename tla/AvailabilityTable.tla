-------------------------- MODULE AvailabilityTable --------------------------
(***************************************************************************)
(* The entry of one pool in availablesPools (persistentips/poolsManager.go)*)
(* and the goroutines that change it.                                      *)
(*                                                                         *)
(* UseIP, ReleaseIP and ProcessIPAvailabilityFromCacheList hold            *)
(* availabilityLock; EnsureAddressIsNotAvailable does not.  All of them    *)
(* read the addresses of the entry and write a new list back, through a    *)
(* pointer that a goroutine keeps while another one takes the entry off    *)
(* the table: an entry without addresses is removed, and made anew when    *)
(* the next address is released.  ControllerState has these operations as  *)
(* single steps; this module has their reads and writes.                   *)
(***************************************************************************)
EXTENDS Naturals, FiniteSets

CONSTANTS
    Goroutines,
    Addresses,          \* addresses that callers may name
    PoolAddresses,      \* spec.addresses of the pool
    NoOne               \* availabilityLock is free

ASSUME TableAssumption == PoolAddresses \subseteq Addresses /\ NoOne \notin Goroutines

VARIABLES
    entry,      \* the addresses of the entry, {} if there is none
    lock,       \* who holds availabilityLock
    op,         \* the call each goroutine is in, after its read
    inUse,      \* addresses that UseIP gave to a caller and ReleaseIP did not
                \* get back
    stored,     \* those of them that an IPAllocation in the store has
    touched     \* history: addresses that EnsureAddressIsNotAvailable or a
                \* recomputation made available or unavailable

vars == <<entry, lock, op, inUse, stored, touched>>

callers == <<inUse, stored>>

(* addr: the address the call is about; snap: the list that was read, or that *)
(* is going to be written; attached: the entry that was read is still in the *)
(* table.                                                                    *)
Call == [kind : {"none", "use", "release", "ensure", "process"}, addr : SUBSET Addresses,
         snap : SUBSET PoolAddresses, attached : BOOLEAN]

NoCall == [kind |-> "none", addr |-> {}, snap |-> {}, attached |-> FALSE]

TypeOK ==
    /\ entry \subseteq PoolAddresses
    /\ lock \in Goroutines \cup {NoOne}
    /\ op \in [Goroutines -> Call]
    /\ inUse \subseteq PoolAddresses /\ stored \subseteq inUse
    /\ touched \subseteq PoolAddresses

(* addPool has made the entry. *)
Init ==
    /\ entry = PoolAddresses
    /\ lock = NoOne
    /\ op = [g \in Goroutines |-> NoCall]
    /\ inUse = {} /\ stored = {} /\ touched = {}

-----------------------------------------------------------------------------
(* Reads and writes *)

Read(g, kind, a) ==
    /\ op[g].kind = "none"
    /\ op' = [op EXCEPT ![g] = [kind |-> kind, addr |-> {a}, snap |-> entry, attached |-> TRUE]]

(* The call of g is over and the entry is new: if that means that there is   *)
(* none any more, the pointers of the others lead to no entry of the table.  *)
Put(g, new) ==
    /\ entry' = new
    /\ op' = [h \in Goroutines |->
                 IF h = g THEN NoCall
                 ELSE IF new = {} THEN [op[h] EXCEPT !.attached = FALSE] ELSE op[h]]

(* removeIPFromPool: the list goes to where the pointer leads, but an entry  *)
(* that has no address left is removed from the table by name.               *)
RemoveIPFromPool(r) ==
    LET left == r.snap \ r.addr IN
    IF r.attached \/ left = {} THEN left ELSE entry

-----------------------------------------------------------------------------
(* UseIP *)

(* Mutant: the address is looked up without the lock. *)
UseIPUnlocked(g, a) ==
    /\ a \in entry
    /\ Read(g, "use", a)
    /\ UNCHANGED <<entry, lock, callers, touched>>

(* The pool is found, or else the call returns an error and changes nothing. *)
UseIP(g, a) ==
    /\ lock = NoOne
    /\ a \in entry
    /\ lock' = g
    /\ Read(g, "use", a)
    /\ UNCHANGED <<entry, callers, touched>>

UseIPReturns(g) ==
    /\ op[g].kind = "use"
    /\ Put(g, RemoveIPFromPool(op[g]))
    /\ inUse' = inUse \cup op[g].addr
    /\ lock' = NoOne
    /\ UNCHANGED <<stored, touched>>

(* The caller writes the object, and the informer stores it. *)
Store(a) ==
    /\ a \in inUse \ stored
    /\ stored' = stored \cup {a}
    /\ UNCHANGED <<entry, lock, op, inUse, touched>>

-----------------------------------------------------------------------------
(* ReleaseIP *)

(* Mutant: no look whether the pool still has the address. *)
ReleaseIPOfAnyPool(g, a) ==
    /\ lock = NoOne
    /\ a \notin PoolAddresses \ inUse
    /\ IF entry = {}
       THEN /\ entry' = {a}
            /\ inUse' = inUse \ {a} /\ stored' = stored \ {a}
            /\ UNCHANGED <<lock, op>>
       ELSE /\ a \notin entry
            /\ lock' = g
            /\ Read(g, "release", a)
            /\ UNCHANGED <<entry, callers>>
    /\ UNCHANGED touched

(* Without an entry the pool gets a new one; an address that is offered      *)
(* already changes nothing, and so does one that the pool does not have.     *)
ReleaseIP(g, a) ==
    /\ lock = NoOne
    /\ op[g].kind = "none"
    /\ a \in inUse \cup (Addresses \ PoolAddresses)
    /\ IF a \in entry \/ a \notin PoolAddresses
       THEN /\ inUse' = inUse \ {a} /\ stored' = stored \ {a}
            /\ UNCHANGED <<entry, lock, op>>
       ELSE IF entry = {}
       THEN /\ entry' = {a}
            /\ inUse' = inUse \ {a} /\ stored' = stored \ {a}
            /\ UNCHANGED <<lock, op>>
       ELSE /\ lock' = g
            /\ Read(g, "release", a)
            /\ UNCHANGED <<entry, callers>>
    /\ UNCHANGED touched

(* The address is appended, perhaps to a list that is no longer an entry. *)
ReleaseIPReturns(g) ==
    LET r == op[g] IN
    /\ r.kind = "release"
    /\ Put(g, IF r.attached THEN r.snap \cup r.addr ELSE entry)
    /\ inUse' = inUse \ r.addr /\ stored' = stored \ r.addr
    /\ lock' = NoOne
    /\ UNCHANGED touched

-----------------------------------------------------------------------------
(* EnsureAddressIsNotAvailable and ProcessIPAvailabilityFromCacheList *)

(* What the write changes.  Where it removes the entry, the address that is  *)
(* being released into it is lost with it.                                   *)
Releasing == {g \in Goroutines : op[g].kind = "release"}

Touch(new) ==
    touched' =
        touched \cup (new \ entry) \cup (entry \ new)
        \cup (IF new = {} THEN UNION {op[g].addr : g \in Releasing} ELSE {})

(* The copy of the allocation may be an old one, so that any address is one  *)
(* that a caller may name; without an entry nothing happens.                 *)
EnsureAddressIsNotAvailable(g, a) ==
    /\ entry # {}
    /\ Read(g, "ensure", a)
    /\ UNCHANGED <<entry, lock, callers, touched>>

EnsureReturns(g) ==
    LET new == RemoveIPFromPool(op[g]) IN
    /\ op[g].kind = "ensure"
    /\ Put(g, new)
    /\ Touch(new)
    /\ UNCHANGED <<lock, callers>>

(* persistentPoolModified lists the allocations ... *)
PersistentPoolModified(g) ==
    /\ op[g].kind = "none"
    /\ op' = [op EXCEPT ![g] = [NoCall EXCEPT !.kind = "process", !.snap = PoolAddresses \ stored]]
    /\ UNCHANGED <<entry, lock, callers, touched>>

(* ... and the addresses that none of them has become the available ones. *)
ProcessIPAvailability(g) ==
    LET new == IF op[g].snap # {} THEN op[g].snap ELSE entry IN
    /\ op[g].kind = "process"
    /\ lock = NoOne
    /\ entry' = new
    /\ op' = [op EXCEPT ![g] = NoCall]
    /\ Touch(new)
    /\ UNCHANGED <<lock, callers>>

-----------------------------------------------------------------------------
Next ==
    \/ \E g \in Goroutines :
          \/ \E a \in Addresses : \/ UseIP(g, a) \/ ReleaseIP(g, a)
                                  \/ EnsureAddressIsNotAvailable(g, a)
          \/ UseIPReturns(g) \/ ReleaseIPReturns(g) \/ EnsureReturns(g)
          \/ PersistentPoolModified(g) \/ ProcessIPAvailability(g)
    \/ \E a \in PoolAddresses : Store(a)

Spec == Init /\ [][Next]_vars

-----------------------------------------------------------------------------
(* poolsManager.go:35: availabilityLock keeps the table exact.  Through all  *)
(* removals and re-creations of the entry, an address of the pool is offered *)
(* if and only if nobody uses it, with one exception: an address that an     *)
(* unlocked EnsureAddressIsNotAvailable, or a recomputation from a list that *)
(* is out of date, has made available or unavailable.                        *)
TableIsExact ==
    \A a \in PoolAddresses \ touched : a \in entry <=> a \notin inUse
=============================================================================
