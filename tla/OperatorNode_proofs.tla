------------------------- MODULE OperatorNode_proofs -------------------------
(***************************************************************************)
(* Proofs about OperatorNode, for any set of addresses and any number of   *)
(* calls, crashes and changes by other programs: an address that was       *)
(* removed is not put back; and a missing address is always about to be    *)
(* looked at, unless the last look at it failed.                           *)
(***************************************************************************)
EXTENDS OperatorNode, TLAPS

(* What the steps that change several fields of op do, field by field. *)
LEMMA CleanupRestoresFacts ==
  ASSUME TypeOK, CleanupRestores
  PROVE  /\ op.kind = "cleanup" /\ op.todo = {}
         /\ op' \in Operation /\ op'.kind = "cleanup" /\ op'.pc = "add"
         /\ op'.infos = op.infos /\ op'.todo = op.infos /\ op'.lost = op.lost
         /\ UNCHANGED <<kernel, assigned, observer, updates, removed, overlooked, bounds>>
  BY DEF TypeOK, CleanupRestores, Operation

(* The watcher, with the lock, starts a scan of the list. *)
LEMMA ProcessAddressUpdateFacts ==
  ASSUME TypeOK, ProcessAddressUpdate
  PROVE  /\ op.kind = "free"
         /\ op' \in Operation /\ op'.kind = "scan" /\ op'.pc = "check"
         /\ op'.infos = {} /\ op'.todo = assigned /\ op'.lost = {}
         /\ observer' = "scanning"
         /\ UNCHANGED <<kernel, assigned, updates, removed, overlooked, bounds>>
  BY DEF TypeOK, ProcessAddressUpdate, Operation, Free

(* A scan looks at one address. *)
LEMMA IsAddressOnInterfaceFacts ==
  ASSUME TypeOK, NEW i \in op.todo, IsAddressOnInterface(i)
  PROVE  /\ op.kind = "scan" /\ op.pc = "check"
         /\ op' \in Operation /\ op'.kind = "scan"
         /\ op'.infos = op.infos /\ op'.todo = op.todo \ {i}
         /\ \/ /\ op'.pc = "check" /\ op'.lost = op.lost
               /\ \/ kernel[i] # "absent" /\ overlooked' = overlooked \ {i}
                  \/ overlooked' = overlooked \cup {i}
            \/ op'.pc = "add" /\ op'.lost = {i} /\ overlooked' = overlooked
         /\ overlooked' \subseteq Infos
         /\ UNCHANGED <<kernel, assigned, observer, updates, removed, bounds>>
<1>1. op.todo \ {i} \in SUBSET Infos /\ {i} \in SUBSET Infos /\ op \in Operation
  BY DEF TypeOK, Operation
<1>2. /\ op.kind = "scan" /\ op.pc = "check"
      /\ UNCHANGED <<kernel, assigned, observer, updates, removed, bounds>>
      /\ overlooked' \subseteq Infos
  BY <1>1 DEF IsAddressOnInterface, TypeOK
<1>3. CASE Did(i) /\ (\/ kernel[i] # "absent" /\ overlooked' = overlooked \ {i}
                      \/ overlooked' = overlooked \cup {i})
  BY <1>1, <1>2, <1>3 DEF Did, Operation
<1>4. CASE op' = [op EXCEPT !.todo = @ \ {i}, !.lost = {i}, !.pc = "add"]
           /\ overlooked' = overlooked
  <2>1. op' = [kind |-> op.kind, pc |-> "add", infos |-> op.infos,
               todo |-> op.todo \ {i}, lost |-> {i}]
    BY <1>1, <1>4, Zenon DEF Operation
  <2> QED
    BY <1>1, <1>2, <1>4, <2>1 DEF Operation
<1> QED
  BY <1>3, <1>4, Zenon DEF IsAddressOnInterface

(* A scan puts a missing address back, or fails to. *)
LEMMA RestoreFacts ==
  ASSUME TypeOK, NEW i \in op.lost, Restore(i)
  PROVE  /\ op.kind = "scan" /\ op.pc = "add"
         /\ op' \in Operation /\ op'.kind = "scan" /\ op'.pc = "check"
         /\ op'.infos = op.infos /\ op'.todo = op.todo /\ op'.lost = {}
         /\ \/ /\ \/ kernel[i] # "absent" /\ UNCHANGED <<kernel, updates>>
                  \/ kernel' = [kernel EXCEPT ![i] = "pllb"] /\ updates' = updates + 1
               /\ overlooked' = overlooked \ {i}
            \/ UNCHANGED <<kernel, updates>> /\ overlooked' = overlooked \cup {i}
         /\ overlooked' \subseteq Infos
         /\ UNCHANGED <<assigned, observer, removed, bounds>>
  BY DEF TypeOK, Restore, Operation, NetAdd, SetKernel

(* The type invariant is inductive. *)
LEMMA TypeStep == TypeOK /\ [Next]_vars => TypeOK'
<1> SUFFICES ASSUME TypeOK, [Next]_vars PROVE TypeOK'
  OBVIOUS
<1> USE BoundsAssumption DEF TypeOK, Operation, Free, bounds
<1>1. CASE Call
  BY <1>1 DEF Call, AddAddress, RemoveAddress, Cleanup, Begin
<1>2. ASSUME NEW i \in op.todo, Place(i) PROVE TypeOK'
  BY <1>2 DEF Place, NetAdd, SetKernel, Did, ReturnError
<1>3. ASSUME NEW i \in op.todo, Delete(i) PROVE TypeOK'
  BY <1>3 DEF Delete, NetDel, SetKernel, Did, ReturnError
<1>4. CASE AddAddressDone \/ RemoveAddressDone
  BY <1>4 DEF AddAddressDone, RemoveAddressDone
<1>5. CASE CleanupFails \/ CleanupDone
  BY <1>5 DEF CleanupFails, CleanupDone, ReturnError
<1>6. CASE CleanupRestores
  BY <1>6, CleanupRestoresFacts
<1>7. CASE Receive \/ ScanDone
  BY <1>7 DEF Receive, ScanDone
<1>8. CASE ProcessAddressUpdate
  BY <1>8, ProcessAddressUpdateFacts
<1>9. ASSUME NEW i \in op.todo, IsAddressOnInterface(i) PROVE TypeOK'
  BY <1>9, IsAddressOnInterfaceFacts
<1>10. ASSUME NEW i \in op.lost, Restore(i) PROVE TypeOK'
  BY <1>10, RestoreFacts
<1>11. ASSUME NEW i \in Infos, OtherProgram(i) PROVE TypeOK'
  BY <1>11 DEF OtherProgram, SetKernel
<1>12. CASE Crash
  BY <1>12 DEF Crash
<1>13. CASE UNCHANGED vars
  BY <1>13 DEF vars
<1> QED
  BY <1>1, <1>2, <1>3, <1>4, <1>5, <1>6, <1>7, <1>8, <1>9, <1>10, <1>11, <1>12, <1>13
     DEF Next, Handler, Scan

(* The list, the kernel and the counters keep their types. *)
THEOREM TypeCorrect == Spec => []TypeOK
<1>1. Init => TypeOK
  BY BoundsAssumption DEF Init, TypeOK, Operation, Free
<1> QED
  BY <1>1, TypeStep, PTL DEF Spec

-----------------------------------------------------------------------------
(* Why a removed address stays removed: what an operation is going to place, *)
(* and what a scan may restore, is disjoint from what was removed.           *)
Disjoint ==
    /\ assigned \cap removed = {}
    /\ op.kind \in {"add", "cleanup"} => op.infos \cap removed = {}
    /\ op.kind \in {"add", "cleanup"} /\ op.pc = "add" => op.todo \subseteq op.infos
    /\ op.kind = "scan" => op.todo \cup op.lost \subseteq assigned
    /\ op.kind = "remove" => \A i \in op.infos \ op.todo : kernel[i] # "pllb"

RInv == TypeOK /\ Disjoint /\ RemovedStaysRemoved

(* RInv is inductive. *)
LEMMA RemovedStep == RInv /\ [Next]_vars => Disjoint' /\ RemovedStaysRemoved'
<1> SUFFICES ASSUME RInv, [Next]_vars PROVE Disjoint' /\ RemovedStaysRemoved'
  OBVIOUS
<1> USE DEF RInv, TypeOK, Operation, Free, Disjoint, RemovedStaysRemoved, bounds
<1>1. CASE Call
  <2>1. ASSUME NEW i \in Infos, AddAddress(i) PROVE Disjoint' /\ RemovedStaysRemoved'
    BY <2>1 DEF AddAddress, Begin
  <2>2. ASSUME NEW i \in Infos, RemoveAddress(i) PROVE Disjoint' /\ RemovedStaysRemoved'
    BY <2>2 DEF RemoveAddress, Begin
  <2>3. ASSUME NEW k \in SUBSET Infos, Cleanup(k) PROVE Disjoint' /\ RemovedStaysRemoved'
    BY <2>3 DEF Cleanup, Begin
  <2> QED
    BY <1>1, <2>1, <2>2, <2>3 DEF Call
<1>2. ASSUME NEW i \in op.todo, Place(i) PROVE Disjoint' /\ RemovedStaysRemoved'
  BY <1>2 DEF Place, NetAdd, SetKernel, Did, ReturnError
<1>3. ASSUME NEW i \in op.todo, Delete(i) PROVE Disjoint' /\ RemovedStaysRemoved'
  BY <1>3 DEF Delete, NetDel, SetKernel, Did, ReturnError
<1>4. CASE AddAddressDone \/ RemoveAddressDone
  BY <1>4 DEF AddAddressDone, RemoveAddressDone
<1>5. CASE CleanupFails \/ CleanupDone
  BY <1>5 DEF CleanupFails, CleanupDone, ReturnError
<1>6. CASE CleanupRestores
  BY <1>6, CleanupRestoresFacts
<1>7. CASE Receive \/ ScanDone
  BY <1>7 DEF Receive, ScanDone
<1>8. CASE ProcessAddressUpdate
  BY <1>8, ProcessAddressUpdateFacts
<1>9. ASSUME NEW i \in op.todo, IsAddressOnInterface(i) PROVE Disjoint' /\ RemovedStaysRemoved'
  BY <1>9, IsAddressOnInterfaceFacts
<1>10. ASSUME NEW i \in op.lost, Restore(i) PROVE Disjoint' /\ RemovedStaysRemoved'
  BY <1>10, RestoreFacts
<1>11. ASSUME NEW i \in Infos, OtherProgram(i) PROVE Disjoint' /\ RemovedStaysRemoved'
  BY <1>11 DEF OtherProgram, SetKernel
<1>12. CASE Crash
  BY <1>12 DEF Crash
<1>13. CASE UNCHANGED vars
  BY <1>13 DEF vars
<1> QED
  BY <1>1, <1>2, <1>3, <1>4, <1>5, <1>6, <1>7, <1>8, <1>9, <1>10, <1>11, <1>12, <1>13
     DEF Next, Handler, Scan

(* An address whose RemoveAddress succeeded is not put back, whatever fails, *)
(* crashes or is cleaned up afterwards, until a call names it again.         *)
THEOREM RemovedForGood == Spec => []RemovedStaysRemoved
<1>1. Init => RInv
  BY BoundsAssumption
     DEF Init, RInv, TypeOK, Operation, Free, Disjoint, RemovedStaysRemoved
<1>2. RInv /\ [Next]_vars => RInv'
  BY TypeStep, RemovedStep DEF RInv
<1>3. RInv => RemovedStaysRemoved
  BY DEF RInv
<1> QED
  BY <1>1, <1>2, <1>3, PTL DEF Spec

-----------------------------------------------------------------------------
(* MissingIsNoticed is not inductive: an address that a handler has placed   *)
(* and not listed yet may be lost, and its notification consumed, before it  *)
(* is listed.  The watcher then waits for the lock the handler holds.        *)
Placed ==
    IF op.kind \in {"add", "cleanup"} /\ op.pc = "add" THEN op.infos \ op.todo ELSE {}

Noticed ==
    /\ \A i \in (assigned \cup Placed) \ overlooked :
          kernel[i] = "absent" => updates > 0 \/ observer = "waiting" \/ Scanning(i)
    /\ op.kind = "add" => op.pc = "add"
    /\ op.kind = "scan" => observer = "scanning"
    /\ op.kind = "scan" => op.todo \cup op.lost \subseteq assigned
    /\ op.kind = "scan" /\ op.pc = "check" => op.lost = {}
    /\ \A i, j \in op.lost : i = j

NInv == TypeOK /\ Noticed

(* NInv is inductive. *)
LEMMA NoticedStep ==
  ASSUME NInv, [Next]_vars
  PROVE  Noticed'
<1> USE DEF NInv, TypeOK, Operation, Free, Noticed, Placed, Scanning, bounds
<1>1. CASE Call
  <2>1. ASSUME NEW i \in Infos, AddAddress(i) PROVE Noticed'
    BY <2>1 DEF AddAddress, Begin
  <2>2. ASSUME NEW i \in Infos, RemoveAddress(i) PROVE Noticed'
    BY <2>2 DEF RemoveAddress, Begin
  <2>3. ASSUME NEW k \in SUBSET Infos, Cleanup(k) PROVE Noticed'
    BY <2>3 DEF Cleanup, Begin
  <2> QED
    BY <1>1, <2>1, <2>2, <2>3 DEF Call
<1>2. ASSUME NEW i \in op.todo, Place(i) PROVE Noticed'
  BY <1>2 DEF Place, NetAdd, SetKernel, Did, ReturnError
<1>3. ASSUME NEW i \in op.todo, Delete(i) PROVE Noticed'
  BY <1>3 DEF Delete, NetDel, SetKernel, Did, ReturnError
<1>4. CASE AddAddressDone \/ RemoveAddressDone
  BY <1>4 DEF AddAddressDone, RemoveAddressDone
<1>5. CASE CleanupFails \/ CleanupDone
  BY <1>5 DEF CleanupFails, CleanupDone, ReturnError
<1>6. CASE CleanupRestores
  BY <1>6, CleanupRestoresFacts
<1>7. CASE Receive \/ ScanDone
  BY <1>7 DEF Receive, ScanDone
<1>8. CASE ProcessAddressUpdate
  BY <1>8, ProcessAddressUpdateFacts
<1>9. ASSUME NEW i \in op.todo, IsAddressOnInterface(i) PROVE Noticed'
  BY <1>9, IsAddressOnInterfaceFacts
<1>10. ASSUME NEW i \in op.lost, Restore(i) PROVE Noticed'
  BY <1>10, RestoreFacts
<1>11. ASSUME NEW i \in Infos, OtherProgram(i) PROVE Noticed'
  BY <1>11 DEF OtherProgram, SetKernel
<1>12. CASE Crash
  BY <1>12 DEF Crash
<1>13. CASE UNCHANGED vars
  BY <1>13 DEF vars
<1> QED
  BY <1>1, <1>2, <1>3, <1>4, <1>5, <1>6, <1>7, <1>8, <1>9, <1>10, <1>11, <1>12, <1>13
     DEF Next, Handler, Scan

(* No interleaving of calls, notifications, other programs, failing netlink  *)
(* calls and crashes makes the watcher miss a lost address, except one that  *)
(* its own last look or repair failed for.                                   *)
THEOREM LostAddressIsNoticed == Spec => []MissingIsNoticed
<1>1. Init => NInv
  BY BoundsAssumption DEF Init, NInv, TypeOK, Operation, Free, Noticed, Placed, Scanning
<1>2. ASSUME NInv, [Next]_vars PROVE NInv'
  <2>1. TypeOK'
    BY <1>2, TypeStep DEF NInv
  <2>2. Noticed'
    BY <1>2, NoticedStep
  <2> QED
    BY <2>1, <2>2 DEF NInv
<1>3. NInv => MissingIsNoticed
  BY DEF NInv, Noticed, MissingIsNoticed
<1> QED
  BY <1>1, <1>2, <1>3, PTL DEF Spec
=============================================================================
