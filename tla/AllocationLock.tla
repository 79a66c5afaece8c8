--------------------------- MODULE AllocationLock ---------------------------
(***************************************************************************)
(* pkg/controller/allocationsLock/lock.go and the goroutines that use it.  *)
(*                                                                         *)
(* The controller serialises the operations on one IPAllocation with two   *)
(* tables kept in memory: lockedObjects, the allocations somebody works    *)
(* on, and errorAllocationsBackoffDict, the allocations in error state for *)
(* which a goroutine is already in the retry loop.  Neither table is used  *)
(* atomically: AcquireAllocationLock looks an allocation up and stores it  *)
(* in two calls, and processAllocationStatusError asks whether the         *)
(* allocation is listed and lists it in two calls.  The model has a step   *)
(* for each call, so that another goroutine can run between the two.       *)
(*                                                                         *)
(* A goroutine is "plain" (the pending, success, node_error and deletion   *)
(* handlers and serviceChanged: acquire, work, release) or "error" (the    *)
(* retry loop: each attempt acquires, works and releases).                 *)
(***************************************************************************)
EXTENDS Naturals, FiniteSets

CONSTANTS
    Goroutines,     \* the goroutines the watchers may have running at once
    Allocations,    \* the keys "namespace/name" of the IPAllocations
    LockSteps,      \* utils.DefaultObjectBackoff.Steps: looks at the lock
    ErrorSteps      \* utils.ErrorBackoff.Steps: attempts of the retry loop

ASSUME LockStepsAssumption == LockSteps \in Nat \ {0}
ASSUME ErrorStepsAssumption == ErrorSteps \in Nat \ {0}

VARIABLES
    lockedObjects,      \* the keys present in the sync.Map
    errorAllocations,   \* the keys in errorAllocationsBackoffDict; Add never
                        \* inserts twice and nobody reads the order
    pc,                 \* where each goroutine is
    kind,               \* "plain" or "error"
    key,                \* the allocation each goroutine was spawned for
    looks,              \* failed looks at the lock in this acquisition
    attempts            \* failed attempts of the retry loop

vars == <<lockedObjects, errorAllocations, pc, kind, key, looks, attempts>>

Locations == {"idle", "isProcessing", "addProcessing", "isLocked", "addToLock",
              "working", "unlock", "removeProcessing"}

(* The goroutine owns the duty to take its key off the list. *)
InRetryLoop(g) ==
    /\ kind[g] = "error"
    /\ pc[g] \in {"isLocked", "addToLock", "working", "removeProcessing"}

TypeOK ==
    /\ lockedObjects \subseteq Allocations
    /\ errorAllocations \subseteq Allocations
    /\ pc \in [Goroutines -> Locations]
    /\ kind \in [Goroutines -> {"plain", "error"}]
    /\ key \in [Goroutines -> Allocations]
    /\ looks \in [Goroutines -> 0 .. LockSteps - 1]
    /\ attempts \in [Goroutines -> 0 .. ErrorSteps - 1]

Init ==
    /\ lockedObjects = {}
    /\ errorAllocations = {}
    /\ pc = [g \in Goroutines |-> "idle"]
    /\ kind = [g \in Goroutines |-> "plain"]
    /\ key \in [Goroutines -> Allocations]
    /\ looks = [g \in Goroutines |-> 0]
    /\ attempts = [g \in Goroutines |-> 0]

Goto(g, from, to) ==
    /\ pc[g] = from
    /\ pc' = [pc EXCEPT ![g] = to]

-----------------------------------------------------------------------------
(* An informer event spawns a goroutine for allocation a. *)
Spawn(g, a, k) ==
    /\ Goto(g, "idle", IF k = "error" THEN "isProcessing" ELSE "isLocked")
    /\ kind' = [kind EXCEPT ![g] = k]
    /\ key' = [key EXCEPT ![g] = a]
    /\ looks' = [looks EXCEPT ![g] = 0]
    /\ attempts' = [attempts EXCEPT ![g] = 0]
    /\ UNCHANGED <<lockedObjects, errorAllocations>>

(* IsErrorAllocationAlreadyProcessing: leave if somebody is already at it. *)
IsProcessing(g) ==
    /\ Goto(g, "isProcessing",
            IF key[g] \in errorAllocations THEN "idle" ELSE "addProcessing")
    /\ UNCHANGED <<lockedObjects, errorAllocations, kind, key, looks, attempts>>

(* AddErrorAllocationToProcessingList *)
AddProcessing(g) ==
    /\ Goto(g, "addProcessing", "isLocked")
    /\ errorAllocations' = errorAllocations \cup {key[g]}
    /\ UNCHANGED <<lockedObjects, kind, key, looks, attempts>>

-----------------------------------------------------------------------------
(* What an attempt that returned an error does next: another attempt after *)
(* a sleep, or the way out of the retry loop once ErrorSteps are used up.  *)
RetryOrGiveUp(g, from) ==
    IF attempts[g] + 1 < ErrorSteps
    THEN /\ Goto(g, from, "isLocked")
         /\ attempts' = [attempts EXCEPT ![g] = @ + 1]
    ELSE /\ Goto(g, from, "removeProcessing")
         /\ UNCHANGED attempts

(* isLocked finds no entry: AcquireAllocationLock goes on to addToLock. *)
FoundUnlocked(g) ==
    /\ key[g] \notin lockedObjects
    /\ Goto(g, "isLocked", "addToLock")
    /\ looks' = [looks EXCEPT ![g] = 0]
    /\ UNCHANGED <<lockedObjects, errorAllocations, kind, key, attempts>>

(* Mutants: the look is repeated beyond the steps of the backoff; it is not   *)
(* counted, so that it is repeated forever.                                   *)
FoundLockedUnbounded(g) ==
    /\ pc[g] = "isLocked"
    /\ key[g] \in lockedObjects
    /\ looks' = [looks EXCEPT ![g] = @ + 1]
    /\ UNCHANGED <<lockedObjects, errorAllocations, pc, kind, key, attempts>>

FoundLockedUncounted(g) ==
    /\ pc[g] = "isLocked"
    /\ key[g] \in lockedObjects
    /\ looks[g] + 1 < LockSteps
    /\ UNCHANGED vars

(* isLocked finds an entry and the backoff has steps left: sleep, look again. *)
FoundLocked(g) ==
    /\ pc[g] = "isLocked"
    /\ key[g] \in lockedObjects
    /\ looks[g] + 1 < LockSteps
    /\ looks' = [looks EXCEPT ![g] = @ + 1]
    /\ UNCHANGED <<lockedObjects, errorAllocations, pc, kind, key, attempts>>

(* The last look fails too: ErrObjectLocked.  A plain goroutine drops its  *)
(* work, the retry loop counts a failed attempt.                           *)
LockTimeout(g) ==
    /\ key[g] \in lockedObjects
    /\ looks[g] + 1 = LockSteps
    /\ looks' = [looks EXCEPT ![g] = 0]
    /\ IF kind[g] = "plain"
       THEN Goto(g, "isLocked", "idle") /\ UNCHANGED attempts
       ELSE RetryOrGiveUp(g, "isLocked")
    /\ UNCHANGED <<lockedObjects, errorAllocations, kind, key>>

(* addToLock: an unconditional Store. *)
AddToLock(g) ==
    /\ Goto(g, "addToLock", "working")
    /\ lockedObjects' = lockedObjects \cup {key[g]}
    /\ UNCHANGED <<errorAllocations, kind, key, looks, attempts>>

-----------------------------------------------------------------------------
(* The deferred RemoveFromLock of a plain goroutine: an unconditional       *)
(* Delete, whoever stored the entry.                                        *)
Release(g) ==
    /\ kind[g] = "plain"
    /\ Goto(g, "working", "idle")
    /\ lockedObjects' = lockedObjects \ {key[g]}
    /\ UNCHANGED <<errorAllocations, kind, key, looks, attempts>>

(* Mutant: the failed attempt returns before its RemoveFromLock is deferred. *)
AttemptFailsLocked(g) ==
    /\ kind[g] = "error"
    /\ RetryOrGiveUp(g, "working")
    /\ UNCHANGED <<lockedObjects, errorAllocations, kind, key, looks>>

(* The attempt failed: RemoveFromLock runs, then the loop goes on. *)
AttemptFails(g) ==
    /\ kind[g] = "error"
    /\ RetryOrGiveUp(g, "working")
    /\ lockedObjects' = lockedObjects \ {key[g]}
    /\ UNCHANGED <<errorAllocations, kind, key, looks>>

(* The allocation is no longer in error state: it leaves the list first,   *)
(* then the deferred RemoveFromLock runs and the loop ends.                *)
NoLongerError(g) ==
    /\ kind[g] = "error"
    /\ Goto(g, "working", "unlock")
    /\ errorAllocations' = errorAllocations \ {key[g]}
    /\ UNCHANGED <<lockedObjects, kind, key, looks, attempts>>

ReleaseAfterLoop(g) ==
    /\ Goto(g, "unlock", "idle")
    /\ lockedObjects' = lockedObjects \ {key[g]}
    /\ UNCHANGED <<errorAllocations, kind, key, looks, attempts>>

(* Mutant: the exhausted loop leaves its entry in the list. *)
KeepProcessing(g) ==
    /\ Goto(g, "removeProcessing", "idle")
    /\ UNCHANGED <<lockedObjects, errorAllocations, kind, key, looks, attempts>>

(* The loop is exhausted: RemoveErrorAllocationFromProcessingList. *)
RemoveProcessing(g) ==
    /\ Goto(g, "removeProcessing", "idle")
    /\ errorAllocations' = errorAllocations \ {key[g]}
    /\ UNCHANGED <<lockedObjects, kind, key, looks, attempts>>

-----------------------------------------------------------------------------
Acquire(g) == FoundUnlocked(g) \/ FoundLocked(g) \/ LockTimeout(g) \/ AddToLock(g)

Finish(g) == Release(g) \/ AttemptFails(g) \/ NoLongerError(g)
             \/ ReleaseAfterLoop(g) \/ RemoveProcessing(g)

Step(g) == IsProcessing(g) \/ AddProcessing(g) \/ Acquire(g) \/ Finish(g)

Next ==
    \E g \in Goroutines :
        \/ \E a \in Allocations, k \in {"plain", "error"} : Spawn(g, a, k)
        \/ Step(g)

(* The Go scheduler runs every runnable goroutine, a sleep in a backoff     *)
(* ends, and the work under the lock ends because every remote call in it   *)
(* has a deadline.                                                          *)
Fairness == \A g \in Goroutines : WF_vars(Step(g))

Spec == Init /\ [][Next]_vars

FairSpec == Spec /\ Fairness

-----------------------------------------------------------------------------
(* No entry is left behind in lockedObjects: an allocation that is locked  *)
(* has a goroutine at work on it that will remove the entry.  An entry     *)
(* without one would make every later handler of the allocation time out.  *)
NoLeakedLock ==
    \A a \in lockedObjects :
        \E g \in Goroutines : key[g] = a /\ pc[g] \in {"working", "unlock"}

(* No entry is left behind in the processing list: a listed allocation has *)
(* a goroutine in the retry loop.  An entry without one would make         *)
(* processAllocationStatusError skip the allocation forever.               *)
NoStuckErrorEntry ==
    \A a \in errorAllocations :
        \E g \in Goroutines : key[g] = a /\ InRetryLoop(g)

(* What lockedObjects is for according to lock.go:34: two goroutines are   *)
(* never at work on the same allocation.                                   *)
MutualExclusion ==
    \A g, h \in Goroutines :
        g # h /\ pc[g] = "working" /\ pc[h] = "working" => key[g] # key[h]

(* AcquireAllocationLock always returns, and so does the retry loop: a     *)
(* spawned goroutine ends, whatever the others do with the lock.           *)
GoroutinesEnd == \A g \in Goroutines : pc[g] # "idle" ~> pc[g] = "idle"
=============================================================================
