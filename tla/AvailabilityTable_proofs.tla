----------------------- MODULE AvailabilityTable_proofs -----------------------
(***************************************************************************)
(* Proofs about AvailabilityTable: for any number of goroutines and any    *)
(* pool, the entry of the pool is exact on every address that no unlocked  *)
(* or outdated write touched.                                              *)
(*                                                                         *)
(* A goroutine in UseIP or ReleaseIP writes back a list that it read some  *)
(* steps before.  Nobody else who holds the mutex can have written since,  *)
(* and whoever writes without it touches what he changes, so that the list *)
(* agrees with the entry on the other addresses (InStep).                  *)
(***************************************************************************)
EXTENDS AvailabilityTable, TLAPS

Holding(g) == op[g].kind \in {"use", "release"}

(* availabilityLock excludes. *)
Exclusive == \A g \in Goroutines : Holding(g) => lock = g

(* UseIP is about an address that it read, ReleaseIP about one of the pool. *)
Aimed ==
    \A g \in Goroutines :
        /\ op[g].kind = "use" => op[g].addr \subseteq op[g].snap
        /\ op[g].kind = "release" => op[g].addr \subseteq PoolAddresses

(* What the holder of the mutex read still is what the table has, up to the  *)
(* touched addresses; and if its entry was taken off the table, the removal  *)
(* touched all that the write is going to miss.                              *)
InStep ==
    \A g \in Goroutines :
        Holding(g) =>
            /\ \A a \in PoolAddresses \ touched : a \in op[g].snap <=> a \in entry
            /\ ~op[g].attached => op[g].snap \cup op[g].addr \subseteq touched

IInv == TypeOK /\ Exclusive /\ Aimed /\ InStep /\ TableIsExact

(* Without a call in progress everything is as addPool left it. *)
LEMMA InitIInv == Init => IInv
BY TableAssumption
   DEF Init, IInv, TypeOK, Exclusive, Aimed, InStep, TableIsExact, Holding, Call, NoCall

-----------------------------------------------------------------------------
(* The steps of one call *)

(* A free mutex means that no call is between its read and its write. *)
LEMMA NobodyHolds ==
    ASSUME IInv, lock = NoOne
    PROVE  \A g \in Goroutines : ~Holding(g)
BY TableAssumption DEF IInv, Exclusive

(* Nobody but the holder of the mutex is between its read and its write. *)
LEMMA NobodyElseHolds ==
    ASSUME IInv, NEW g \in Goroutines, Holding(g)
    PROVE  \A h \in Goroutines : h # g => ~Holding(h)
BY DEF IInv, Exclusive

(* The entry is read, and nothing is written yet. *)
LEMMA UseIPStep ==
    ASSUME IInv, NEW g \in Goroutines, NEW a \in Addresses, UseIP(g, a)
    PROVE  IInv'
<1>1. \A h \in Goroutines : ~Holding(h)
  BY NobodyHolds DEF UseIP
<1>2. \A h \in Goroutines : h # g => op'[h] = op[h]
  BY DEF UseIP, Read, IInv, TypeOK
<1>3. op'[g] = [kind |-> "use", addr |-> {a}, snap |-> entry, attached |-> TRUE]
  BY DEF UseIP, Read, IInv, TypeOK
<1>4. TypeOK'
  BY DEF UseIP, Read, IInv, TypeOK, Call, callers
<1>5. Exclusive' /\ Aimed' /\ InStep'
  BY <1>1, <1>2, <1>3 DEF UseIP, IInv, Exclusive, Aimed, InStep, Holding
<1>6. TableIsExact'
  BY DEF UseIP, IInv, TableIsExact, callers
<1> QED
  BY <1>4, <1>5, <1>6 DEF IInv

(* The list that is written differs from the entry in the address only, or   *)
(* in touched ones.                                                          *)
LEMMA UseIPReturnsStep ==
    ASSUME IInv, NEW g \in Goroutines, UseIPReturns(g)
    PROVE  IInv'
<1> DEFINE new == RemoveIPFromPool(op[g])
<1>1. Holding(g) /\ op[g].kind = "use" /\ op[g] \in Call /\ op[g].addr \subseteq op[g].snap
  BY DEF UseIPReturns, Holding, IInv, TypeOK, Aimed
<1>2. \A h \in Goroutines : h # g => ~Holding(h)
  BY <1>1, NobodyElseHolds
<1>3. new \subseteq PoolAddresses /\ entry' = new
  BY <1>1 DEF UseIPReturns, Put, RemoveIPFromPool, Call, IInv, TypeOK
<1>4. \A a \in PoolAddresses \ touched : a \in new <=> a \in entry /\ a \notin op[g].addr
  BY <1>1 DEF IInv, InStep, RemoveIPFromPool
<1> HIDE DEF new
<1>5. /\ op' \in [Goroutines -> Call]
      /\ \A h \in Goroutines : ~(op'[h].kind \in {"use", "release"})
  BY <1>2 DEF UseIPReturns, Put, NoCall, Call, IInv, TypeOK, Holding
<1>6. TypeOK'
  BY <1>1, <1>3, <1>5 DEF UseIPReturns, IInv, TypeOK, Call
<1>7. Exclusive' /\ Aimed' /\ InStep'
  BY <1>5 DEF Exclusive, Aimed, InStep, Holding
<1>8. TableIsExact'
  BY <1>3, <1>4 DEF UseIPReturns, IInv, TableIsExact
<1> QED
  BY <1>6, <1>7, <1>8 DEF IInv

(* An address comes back to a pool without an entry at once, to another one  *)
(* after a read.                                                             *)
LEMMA ReleaseIPStep ==
    ASSUME IInv, NEW g \in Goroutines, NEW a \in Addresses, ReleaseIP(g, a)
    PROVE  IInv'
<1>1. \A h \in Goroutines : ~Holding(h)
  BY NobodyHolds DEF ReleaseIP
<1>2. CASE a \in entry \/ a \notin PoolAddresses
  <2>1. UNCHANGED <<entry, lock, op, touched>> /\ inUse' = inUse \ {a} /\ stored' = stored \ {a}
    BY <1>2 DEF ReleaseIP
  <2>2. TypeOK'
    BY <2>1 DEF IInv, TypeOK
  <2>3. Exclusive' /\ Aimed' /\ InStep'
    BY <1>1, <2>1 DEF Exclusive, IInv, Aimed, InStep, Holding
  <2>4. TableIsExact'
    BY <1>2, <2>1 DEF IInv, TableIsExact
  <2> QED
    BY <2>2, <2>3, <2>4 DEF IInv
<1>3. CASE a \in PoolAddresses /\ entry = {}
  <2>1. /\ UNCHANGED <<lock, op, touched>>
        /\ entry' = {a} /\ inUse' = inUse \ {a} /\ stored' = stored \ {a}
    BY <1>3 DEF ReleaseIP
  <2>2. TypeOK'
    BY <1>3, <2>1 DEF IInv, TypeOK
  <2>3. Exclusive' /\ Aimed' /\ InStep'
    BY <1>1, <2>1 DEF Exclusive, IInv, Aimed, InStep, Holding
  <2>4. TableIsExact'
    BY <1>3, <2>1 DEF IInv, TableIsExact
  <2> QED
    BY <2>2, <2>3, <2>4 DEF IInv
<1>4. CASE a \in PoolAddresses /\ a \notin entry /\ entry # {}
  <2>1. lock' = g /\ Read(g, "release", a) /\ UNCHANGED <<entry, inUse, stored, touched>>
    BY <1>4 DEF ReleaseIP, callers
  <2>2. \A h \in Goroutines : h # g => op'[h] = op[h]
    BY <2>1 DEF Read, IInv, TypeOK
  <2>3. op'[g] = [kind |-> "release", addr |-> {a}, snap |-> entry, attached |-> TRUE]
    BY <2>1 DEF Read, IInv, TypeOK
  <2>4. TypeOK'
    BY <2>1 DEF Read, IInv, TypeOK, Call
  <2>5. Exclusive' /\ Aimed' /\ InStep'
    BY <1>1, <1>4, <2>1, <2>2, <2>3 DEF IInv, Exclusive, Aimed, InStep, Holding
  <2>6. TableIsExact'
    BY <2>1 DEF IInv, TableIsExact
  <2> QED
    BY <2>4, <2>5, <2>6 DEF IInv
<1> QED
  BY <1>2, <1>3, <1>4

(* The address is appended, or was touched when its entry was removed. *)
LEMMA ReleaseIPReturnsStep ==
    ASSUME IInv, NEW g \in Goroutines, ReleaseIPReturns(g)
    PROVE  IInv'
<1> DEFINE new == IF op[g].attached THEN op[g].snap \cup op[g].addr ELSE entry
<1>1. /\ Holding(g) /\ op[g].kind = "release" /\ op[g] \in Call
      /\ op[g].addr \subseteq PoolAddresses
  BY DEF ReleaseIPReturns, Holding, IInv, TypeOK, Aimed
<1>2. \A h \in Goroutines : h # g => ~Holding(h)
  BY <1>1, NobodyElseHolds
<1>3. new \subseteq PoolAddresses
  BY <1>1 DEF Call, IInv, TypeOK
<1>4. Put(g, new)
  BY DEF ReleaseIPReturns
<1>5. \A a \in PoolAddresses \ touched : a \in new <=> a \in entry \/ a \in op[g].addr
  BY <1>1 DEF IInv, InStep
<1> HIDE DEF new
<1>6. /\ op' \in [Goroutines -> Call] /\ entry' = new
      /\ \A h \in Goroutines : ~(op'[h].kind \in {"use", "release"})
  BY <1>2, <1>4 DEF Put, NoCall, Call, IInv, TypeOK, Holding
<1>7. TypeOK'
  BY <1>1, <1>3, <1>6 DEF ReleaseIPReturns, IInv, TypeOK, Call
<1>8. Exclusive' /\ Aimed' /\ InStep'
  BY <1>6 DEF Exclusive, Aimed, InStep, Holding
<1>9. TableIsExact'
  BY <1>5, <1>6 DEF ReleaseIPReturns, IInv, TableIsExact
<1> QED
  BY <1>7, <1>8, <1>9 DEF IInv

-----------------------------------------------------------------------------
(* The writes that touch *)

(* What Touch adds is all that changes, and when the entry is removed, the   *)
(* addresses that are being released.                                        *)
LEMMA TouchFacts ==
    ASSUME IInv, NEW new \in SUBSET PoolAddresses, Touch(new)
    PROVE  /\ touched' \subseteq PoolAddresses
           /\ touched \subseteq touched'
           /\ \A a \in PoolAddresses \ touched' : a \in new <=> a \in entry
           /\ new = {} => \A g \in Goroutines : op[g].kind = "release" => op[g].addr \subseteq touched'
<1> DEFINE U == UNION {op[g].addr : g \in Releasing}
<1>1. \A g \in Goroutines : op[g].kind = "release" => op[g].addr \subseteq U
  BY DEF Releasing
<1>2. U \subseteq PoolAddresses
  BY DEF Releasing, IInv, Aimed
<1>3. touched' = touched \cup (new \ entry) \cup (entry \ new) \cup (IF new = {} THEN U ELSE {})
  BY DEF Touch
<1> HIDE DEF U
<1> QED
  BY <1>1, <1>2, <1>3 DEF IInv, TypeOK

(* Only the touched addresses change, whatever list was read before. *)
LEMMA EnsureReturnsStep ==
    ASSUME IInv, NEW g \in Goroutines, EnsureReturns(g)
    PROVE  IInv'
<1> DEFINE new == RemoveIPFromPool(op[g])
<1>1. op[g].kind = "ensure" /\ op[g] \in Call
  BY DEF EnsureReturns, IInv, TypeOK
<1>2. new \in SUBSET PoolAddresses
  BY <1>1 DEF RemoveIPFromPool, Call, IInv, TypeOK
<1>3. Put(g, new) /\ Touch(new) /\ UNCHANGED <<lock, inUse, stored>>
  BY DEF EnsureReturns, callers
<1> HIDE DEF new
<1>4. /\ touched' \subseteq PoolAddresses
      /\ touched \subseteq touched'
      /\ \A a \in PoolAddresses \ touched' : a \in new <=> a \in entry
      /\ new = {} => \A h \in Goroutines : op[h].kind = "release" => op[h].addr \subseteq touched'
  BY <1>2, <1>3, TouchFacts
<1>5. /\ op' \in [Goroutines -> Call] /\ entry' = new
      /\ op'[g] = NoCall
  BY <1>3 DEF Put, NoCall, Call, IInv, TypeOK
<1>6. \A h \in Goroutines : h # g =>
          /\ op'[h].kind = op[h].kind /\ op'[h].addr = op[h].addr /\ op'[h].snap = op[h].snap
          /\ op'[h].attached = (op[h].attached /\ new # {})
  BY <1>3 DEF Put, Call, IInv, TypeOK
<1>7. TypeOK'
  BY <1>2, <1>3, <1>4, <1>5 DEF IInv, TypeOK
<1>8. Exclusive' /\ Aimed'
  BY <1>1, <1>3, <1>5, <1>6 DEF IInv, Exclusive, Aimed, Holding, NoCall
<1>9. InStep'
  <2> SUFFICES ASSUME NEW h \in Goroutines, Holding(h)'
               PROVE  /\ \A a \in PoolAddresses \ touched' : a \in op'[h].snap <=> a \in entry'
                      /\ ~op'[h].attached => op'[h].snap \cup op'[h].addr \subseteq touched'
    BY DEF InStep
  <2>1. h # g /\ Holding(h)
    BY <1>5, <1>6 DEF Holding, NoCall
  <2>2. \A a \in PoolAddresses \ touched' : a \in op'[h].snap <=> a \in entry'
    BY <1>4, <1>5, <1>6, <2>1 DEF IInv, InStep
  <2>3. op[h] \in Call
    BY DEF IInv, TypeOK
  <2>4. op'[h].snap \subseteq PoolAddresses
    BY <1>6, <2>1, <2>3 DEF Call
  <2>5. CASE new = {}
    <3>1. op'[h].snap \subseteq touched'
      BY <1>5, <2>2, <2>4, <2>5
    <3>2. op'[h].addr \subseteq touched'
      BY <1>4, <1>6, <2>1, <2>5, <3>1 DEF IInv, Aimed, Holding
    <3> QED
      BY <2>2, <3>1, <3>2
  <2>6. CASE new # {}
    BY <1>4, <1>6, <2>1, <2>2, <2>6 DEF IInv, InStep
  <2> QED
    BY <2>5, <2>6
<1>10. TableIsExact'
  BY <1>3, <1>4, <1>5 DEF IInv, TableIsExact
<1> QED
  BY <1>7, <1>8, <1>9, <1>10 DEF IInv

(* The recomputation holds the mutex, so that no call is in progress. *)
LEMMA ProcessStep ==
    ASSUME IInv, NEW g \in Goroutines, ProcessIPAvailability(g)
    PROVE  IInv'
<1> DEFINE new == IF op[g].snap # {} THEN op[g].snap ELSE entry
<1>1. op[g] \in Call /\ \A h \in Goroutines : ~Holding(h)
  BY NobodyHolds DEF ProcessIPAvailability, IInv, TypeOK
<1>2. new \in SUBSET PoolAddresses
  BY <1>1 DEF Call, IInv, TypeOK
<1>3. entry' = new /\ Touch(new) /\ UNCHANGED <<lock, inUse, stored>>
  BY DEF ProcessIPAvailability, callers
<1> HIDE DEF new
<1>4. /\ touched' \subseteq PoolAddresses
      /\ \A a \in PoolAddresses \ touched' : a \in new <=> a \in entry
      /\ touched \subseteq touched'
  BY <1>2, <1>3, TouchFacts
<1>5. /\ op' \in [Goroutines -> Call]
      /\ \A h \in Goroutines : ~(op'[h].kind \in {"use", "release"})
  BY <1>1 DEF ProcessIPAvailability, NoCall, Call, IInv, TypeOK, Holding
<1>6. TypeOK'
  BY <1>2, <1>3, <1>4, <1>5 DEF IInv, TypeOK
<1>7. Exclusive' /\ Aimed' /\ InStep'
  BY <1>5 DEF Exclusive, Aimed, InStep, Holding
<1>8. TableIsExact'
  BY <1>3, <1>4 DEF IInv, TableIsExact
<1> QED
  BY <1>6, <1>7, <1>8 DEF IInv

(* The reads of EnsureAddressIsNotAvailable and of persistentPoolModified    *)
(* change nothing that the invariant speaks about.                           *)
LEMMA ReadStep ==
    ASSUME IInv, NEW g \in Goroutines,
           PersistentPoolModified(g) \/ \E a \in Addresses : EnsureAddressIsNotAvailable(g, a)
    PROVE  IInv'
<1>1. UNCHANGED <<entry, lock, inUse, stored, touched>>
  BY DEF PersistentPoolModified, EnsureAddressIsNotAvailable, callers
<1>2. /\ op' \in [Goroutines -> Call]
      /\ ~(op'[g].kind \in {"use", "release"})
      /\ \A h \in Goroutines : h # g => op'[h] = op[h]
  <2>1. CASE PersistentPoolModified(g)
    BY <2>1 DEF PersistentPoolModified, NoCall, Call, IInv, TypeOK
  <2>2. CASE \E a \in Addresses : EnsureAddressIsNotAvailable(g, a)
    BY <2>2 DEF EnsureAddressIsNotAvailable, Read, Call, IInv, TypeOK
  <2> QED
    BY <2>1, <2>2
<1>3. TypeOK'
  BY <1>1, <1>2 DEF IInv, TypeOK
<1>4. Exclusive' /\ Aimed' /\ InStep'
  BY <1>1, <1>2 DEF IInv, Exclusive, Aimed, InStep, Holding
<1>5. TableIsExact'
  BY <1>1 DEF IInv, TableIsExact
<1> QED
  BY <1>3, <1>4, <1>5 DEF IInv

-----------------------------------------------------------------------------
(* The invariant is inductive. *)
LEMMA NextIInv == IInv /\ [Next]_vars => IInv'
<1> SUFFICES ASSUME IInv, [Next]_vars PROVE IInv'
  OBVIOUS
<1>1. ASSUME NEW g \in Goroutines, NEW a \in Addresses,
             UseIP(g, a) \/ ReleaseIP(g, a) \/ EnsureAddressIsNotAvailable(g, a)
      PROVE  IInv'
  BY <1>1, UseIPStep, ReleaseIPStep, ReadStep
<1>2. ASSUME NEW g \in Goroutines,
             \/ UseIPReturns(g) \/ ReleaseIPReturns(g) \/ EnsureReturns(g)
             \/ PersistentPoolModified(g) \/ ProcessIPAvailability(g)
      PROVE  IInv'
  BY <1>2, UseIPReturnsStep, ReleaseIPReturnsStep, EnsureReturnsStep, ReadStep, ProcessStep
<1>3. ASSUME NEW a \in PoolAddresses, Store(a)
      PROVE  IInv'
  <2>1. UNCHANGED <<entry, lock, op, inUse, touched>> /\ stored' \subseteq inUse
    BY <1>3 DEF Store, IInv, TypeOK
  <2>2. TypeOK'
    BY <2>1 DEF IInv, TypeOK
  <2>3. Exclusive' /\ Aimed' /\ InStep' /\ TableIsExact'
    BY <2>1 DEF IInv, Exclusive, Aimed, InStep, Holding, TableIsExact
  <2> QED
    BY <2>2, <2>3 DEF IInv
<1>4. CASE UNCHANGED vars
  BY <1>4 DEF vars, IInv, TypeOK, Exclusive, Aimed, InStep, Holding, TableIsExact
<1> QED
  BY <1>1, <1>2, <1>3, <1>4 DEF Next

(* The entry of the pool, the lists that the calls have read and the         *)
(* addresses in use are of the pool.                                         *)
THEOREM TypeCorrect == Spec => []TypeOK
<1>1. IInv => TypeOK
  BY DEF IInv
<1> QED
  BY <1>1, InitIInv, NextIInv, PTL DEF Spec

(* poolsManager.go: what UseIP and ReleaseIP do under availabilityLock keeps *)
(* the table exact, whatever other goroutines write without it: an address   *)
(* that they did not touch is offered if and only if nobody uses it.         *)
THEOREM TableStaysExact == Spec => []TableIsExact
<1>1. IInv => TableIsExact
  BY DEF IInv
<1> QED
  BY <1>1, InitIInv, NextIInv, PTL DEF Spec
=============================================================================
