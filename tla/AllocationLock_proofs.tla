------------------------ MODULE AllocationLock_proofs ------------------------
(***************************************************************************)
(* Proofs about AllocationLock: for any number of goroutines, allocations, *)
(* looks and attempts, neither table of lock.go keeps an entry that nobody *)
(* is going to remove.  The lock does not exclude (see MutualExclusion),   *)
(* so the argument never uses exclusion: an entry is justified by SOME     *)
(* goroutine, and a step that removes the last justification of an entry   *)
(* removes the entry.                                                      *)
(***************************************************************************)
EXTENDS AllocationLock, TLAPS

(* Only a retry loop is ever at these places. *)
ErrorKind ==
    \A g \in Goroutines :
        pc[g] \in {"isProcessing", "addProcessing", "unlock", "removeProcessing"}
            => kind[g] = "error"

(* NoStuckErrorEntry is not inductive without ErrorKind: AddProcessing lists *)
(* a key and is justified by its own goroutine, if that is a retry loop.     *)
IInv == TypeOK /\ ErrorKind /\ NoLeakedLock /\ NoStuckErrorEntry

(* The tables and the goroutines start out consistent. *)
LEMMA InitIInv == Init => IInv
BY LockStepsAssumption, ErrorStepsAssumption
   DEF Init, IInv, TypeOK, ErrorKind, NoLeakedLock, NoStuckErrorEntry, Locations

(* Every step keeps the counters of looks and attempts within the backoffs. *)
LEMMA TypeStep == TypeOK /\ [Next]_vars => TypeOK'
<1> SUFFICES ASSUME TypeOK, [Next]_vars PROVE TypeOK'
  OBVIOUS
<1> USE LockStepsAssumption, ErrorStepsAssumption DEF TypeOK, Locations, Goto
<1>1. ASSUME NEW g \in Goroutines, NEW a \in Allocations, NEW k \in {"plain", "error"},
             Spawn(g, a, k)
      PROVE  TypeOK'
  BY <1>1 DEF Spawn
<1>2. ASSUME NEW g \in Goroutines, Acquire(g)
      PROVE  TypeOK'
  <2>1. CASE FoundUnlocked(g)
    BY <2>1 DEF FoundUnlocked
  <2>2. CASE FoundLocked(g)
    BY <2>2 DEF FoundLocked
  <2>3. CASE LockTimeout(g)
    BY <2>3 DEF LockTimeout, RetryOrGiveUp
  <2>4. CASE AddToLock(g)
    BY <2>4 DEF AddToLock
  <2> QED
    BY <1>2, <2>1, <2>2, <2>3, <2>4 DEF Acquire
<1>3. ASSUME NEW g \in Goroutines, Finish(g)
      PROVE  TypeOK'
  <2>1. CASE AttemptFails(g)
    BY <2>1 DEF AttemptFails, RetryOrGiveUp
  <2>2. CASE Release(g) \/ NoLongerError(g)
    BY <2>2 DEF Release, NoLongerError
  <2>3. CASE ReleaseAfterLoop(g) \/ RemoveProcessing(g)
    BY <2>3 DEF ReleaseAfterLoop, RemoveProcessing
  <2> QED
    BY <1>3, <2>1, <2>2, <2>3 DEF Finish
<1>4. ASSUME NEW g \in Goroutines, IsProcessing(g) \/ AddProcessing(g)
      PROVE  TypeOK'
  BY <1>4 DEF IsProcessing, AddProcessing
<1>5. CASE UNCHANGED vars
  BY <1>5 DEF vars
<1> QED
  BY <1>1, <1>2, <1>3, <1>4, <1>5 DEF Next, Step

(* An entry of lockedObjects keeps a goroutine that will remove it. *)
LEMMA LockStep == IInv /\ [Next]_vars => NoLeakedLock'
<1> SUFFICES ASSUME IInv, [Next]_vars PROVE NoLeakedLock'
  OBVIOUS
<1> USE DEF IInv, TypeOK, NoLeakedLock, Goto
<1>1. ASSUME NEW g \in Goroutines, NEW a \in Allocations, NEW k \in {"plain", "error"},
             Spawn(g, a, k)
      PROVE  NoLeakedLock'
  BY <1>1 DEF Spawn
<1>2. ASSUME NEW g \in Goroutines, Acquire(g)
      PROVE  NoLeakedLock'
  <2>1. CASE FoundUnlocked(g)
    BY <2>1 DEF FoundUnlocked
  <2>2. CASE FoundLocked(g)
    BY <2>2 DEF FoundLocked
  <2>3. CASE LockTimeout(g)
    BY <2>3 DEF LockTimeout, RetryOrGiveUp
  <2>4. CASE AddToLock(g)
    BY <2>4 DEF AddToLock
  <2> QED
    BY <1>2, <2>1, <2>2, <2>3, <2>4 DEF Acquire
<1>3. ASSUME NEW g \in Goroutines, Finish(g)
      PROVE  NoLeakedLock'
  <2>1. CASE AttemptFails(g)
    BY <2>1 DEF AttemptFails, RetryOrGiveUp
  <2>2. CASE Release(g)
    BY <2>2 DEF Release
  <2>3. CASE NoLongerError(g)
    BY <2>3 DEF NoLongerError
  <2>4. CASE ReleaseAfterLoop(g)
    BY <2>4 DEF ReleaseAfterLoop
  <2>5. CASE RemoveProcessing(g)
    BY <2>5 DEF RemoveProcessing
  <2> QED
    BY <1>3, <2>1, <2>2, <2>3, <2>4, <2>5 DEF Finish
<1>4. ASSUME NEW g \in Goroutines, IsProcessing(g) \/ AddProcessing(g)
      PROVE  NoLeakedLock'
  BY <1>4 DEF IsProcessing, AddProcessing
<1>5. CASE UNCHANGED vars
  BY <1>5 DEF vars
<1> QED
  BY <1>1, <1>2, <1>3, <1>4, <1>5 DEF Next, Step

(* An entry of the processing list keeps a retry loop that will remove it. *)
LEMMA ListStep == IInv /\ [Next]_vars => ErrorKind' /\ NoStuckErrorEntry'
<1> SUFFICES ASSUME IInv, [Next]_vars PROVE ErrorKind' /\ NoStuckErrorEntry'
  OBVIOUS
<1> USE DEF IInv, TypeOK, NoStuckErrorEntry, ErrorKind, InRetryLoop, Goto
<1>1. ASSUME NEW g \in Goroutines, NEW a \in Allocations, NEW k \in {"plain", "error"},
             Spawn(g, a, k)
      PROVE  ErrorKind' /\ NoStuckErrorEntry'
  BY <1>1 DEF Spawn
<1>2. ASSUME NEW g \in Goroutines, Acquire(g)
      PROVE  ErrorKind' /\ NoStuckErrorEntry'
  <2>1. CASE FoundUnlocked(g)
    BY <2>1 DEF FoundUnlocked
  <2>2. CASE FoundLocked(g)
    BY <2>2 DEF FoundLocked
  <2>3. CASE LockTimeout(g)
    BY <2>3 DEF LockTimeout, RetryOrGiveUp
  <2>4. CASE AddToLock(g)
    BY <2>4 DEF AddToLock
  <2> QED
    BY <1>2, <2>1, <2>2, <2>3, <2>4 DEF Acquire
<1>3. ASSUME NEW g \in Goroutines, Finish(g)
      PROVE  ErrorKind' /\ NoStuckErrorEntry'
  <2>1. CASE AttemptFails(g)
    BY <2>1 DEF AttemptFails, RetryOrGiveUp
  <2>2. CASE Release(g)
    BY <2>2 DEF Release
  <2>3. CASE NoLongerError(g)
    BY <2>3 DEF NoLongerError
  <2>4. CASE ReleaseAfterLoop(g)
    BY <2>4 DEF ReleaseAfterLoop
  <2>5. CASE RemoveProcessing(g)
    BY <2>5 DEF RemoveProcessing
  <2> QED
    BY <1>3, <2>1, <2>2, <2>3, <2>4, <2>5 DEF Finish
<1>4. ASSUME NEW g \in Goroutines, IsProcessing(g) \/ AddProcessing(g)
      PROVE  ErrorKind' /\ NoStuckErrorEntry'
  BY <1>4 DEF IsProcessing, AddProcessing
<1>5. CASE UNCHANGED vars
  BY <1>5 DEF vars
<1> QED
  BY <1>1, <1>2, <1>3, <1>4, <1>5 DEF Next, Step

(* The strengthened invariant holds in every reachable state. *)
LEMMA Invariance == Spec => []IInv
<1>1. IInv /\ [Next]_vars => IInv'
  BY TypeStep, LockStep, ListStep DEF IInv
<1> QED
  BY InitIInv, <1>1, PTL DEF Spec

(* The tables hold keys of allocations and the counters of looks and         *)
(* attempts never reach the steps of their backoffs.                         *)
THEOREM TypeCorrect == Spec => []TypeOK
<1>1. IInv => TypeOK
  BY DEF IInv
<1> QED
  BY Invariance, <1>1, PTL

(* RemoveFromLock runs on every path: a locked allocation always has a       *)
(* goroutine that is going to unlock it.                                     *)
THEOREM LockIsNotLeaked == Spec => []NoLeakedLock
<1>1. IInv => NoLeakedLock
  BY DEF IInv
<1> QED
  BY Invariance, <1>1, PTL

(* An allocation that is in the processing list of the retry loop always has *)
(* a retry loop, although looking and listing are not one step.              *)
THEOREM ErrorEntryIsNotStuck == Spec => []NoStuckErrorEntry
<1>1. IInv => NoStuckErrorEntry
  BY DEF IInv
<1> QED
  BY Invariance, <1>1, PTL
=============================================================================
