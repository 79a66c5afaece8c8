---------------------------- MODULE OperatorNode ----------------------------
(***************************************************************************)
(* The operator on one node: pkg/operator/observer, network and server.    *)
(*                                                                         *)
(* The controller tells the operator over gRPC which addresses the node    *)
(* has to hold.  The operator keeps them in a list and in the kernel, and  *)
(* watches the kernel's notifications to put back an address that somebody *)
(* else removed.  Every handler, and the watcher, holds addressesLock from *)
(* its first to its last step, so there is one operation at a time; what   *)
(* interleaves with it are the kernel, the other programs on the node, and *)
(* the watcher, which takes a notification BEFORE it takes the lock.       *)
(***************************************************************************)
EXTENDS Naturals, FiniteSets

CONSTANTS
    Infos,          \* AddressInfo: an address on an interface
    MaxCalls,       \* bound: calls of the controller
    MaxEvents,      \* bound: changes of addresses by other programs
    MaxCrashes      \* bound: deaths of the operator

ASSUME BoundsAssumption == MaxCalls \in Nat /\ MaxEvents \in Nat /\ MaxCrashes \in Nat

VARIABLES
    kernel,     \* what the kernel has: nothing, an address with the label
                \* "pllb", or an address without it
    assigned,   \* assignedAddressesList; the order does not matter
    op,         \* the operation that holds addressesLock
    observer,   \* watchAddrUpdate: receiving, waiting for the lock, scanning
    updates,    \* notifications in chAddrUpdate and its socket
    removed,    \* addresses of successful RemoveAddress calls, until an
                \* operation that is to place them begins
    overlooked, \* addresses whose last look or repair by a scan failed
    calls, events, crashes

vars == <<kernel, assigned, op, observer, updates, removed, overlooked,
          calls, events, crashes>>

bounds == <<calls, events, crashes>>

(* infos: the argument; todo: what the running loop has left; lost: the      *)
(* address the scan found missing and is about to add.                       *)
Operation == [kind : {"free", "add", "remove", "cleanup", "scan"},
              pc : {"add", "del", "check"},
              infos : SUBSET Infos, todo : SUBSET Infos, lost : SUBSET Infos]

Free == [kind |-> "free", pc |-> "add", infos |-> {}, todo |-> {}, lost |-> {}]

TypeOK ==
    /\ kernel \in [Infos -> {"absent", "pllb", "foreign"}]
    /\ assigned \subseteq Infos
    /\ op \in Operation
    /\ observer \in {"receive", "waiting", "scanning"}
    /\ updates \in Nat
    /\ removed \subseteq Infos
    /\ overlooked \subseteq Infos
    /\ calls \in 0 .. MaxCalls
    /\ events \in 0 .. MaxEvents
    /\ crashes \in 0 .. MaxCrashes

Init ==
    /\ kernel = [i \in Infos |-> "absent"]
    /\ assigned = {}
    /\ op = Free
    /\ observer = "receive"
    /\ updates = 0
    /\ removed = {}
    /\ overlooked = {}
    /\ calls = 0 /\ events = 0 /\ crashes = 0

-----------------------------------------------------------------------------
(* The kernel (external) *)

(* The address gets the state k; a change is notified. *)
SetKernel(i, k) ==
    IF kernel[i] = k THEN UNCHANGED <<kernel, updates>>
    ELSE /\ kernel' = [kernel EXCEPT ![i] = k]
         /\ updates' = updates + 1

(* network.AddAddress: "file exists" is no error, and keeps the old label. *)
NetAdd(i) == IF kernel[i] = "absent" THEN SetKernel(i, "pllb") ELSE UNCHANGED <<kernel, updates>>

(* network.DeleteAddress, and AddrDel in network.Cleanup *)
NetDel(i) == SetKernel(i, "absent")

-----------------------------------------------------------------------------
(* The gRPC calls: the handler gets the lock *)

Begin(kind, pc, infos, todo) ==
    /\ op.kind = "free"
    /\ calls < MaxCalls /\ calls' = calls + 1
    /\ op' = [kind |-> kind, pc |-> pc, infos |-> infos, todo |-> todo, lost |-> {}]
    /\ UNCHANGED <<kernel, assigned, observer, updates, overlooked, events, crashes>>

AddAddress(i) ==
    /\ Begin("add", "add", {i}, {i})
    /\ removed' = removed \ {i}

RemoveAddress(i) ==
    /\ Begin("remove", "del", {i}, {i})
    /\ UNCHANGED removed

(* The addresses with the label that are not to be kept, as AddrList gives them. *)
Cleanup(keepThese) ==
    /\ Begin("cleanup", "del", keepThese,
             {i \in Infos \ keepThese : kernel[i] = "pllb"})
    /\ removed' = removed \ keepThese

-----------------------------------------------------------------------------
(* The steps of the operation that holds the lock *)

Did(i) == op' = [op EXCEPT !.todo = @ \ {i}]

(* The handler returns an error; the list stays what it was. *)
ReturnError == op' = Free

(* One AddAddress of network, for AddAddress and for the kept ones of Cleanup *)
Place(i) ==
    /\ op.kind \in {"add", "cleanup"} /\ op.pc = "add"
    /\ \/ NetAdd(i) /\ Did(i)
       \/ ReturnError /\ UNCHANGED <<kernel, updates>>
    /\ UNCHANGED <<assigned, observer, removed, overlooked, bounds>>

(* RemoveAddress returns the error of a failed deletion, Cleanup logs it. *)
Delete(i) ==
    /\ op.kind \in {"remove", "cleanup"} /\ op.pc = "del"
    /\ \/ NetDel(i) /\ Did(i)
       \/ /\ IF op.kind = "remove" THEN ReturnError ELSE Did(i)
          /\ UNCHANGED <<kernel, updates>>
    /\ UNCHANGED <<assigned, observer, removed, overlooked, bounds>>

AddAddressDone ==
    /\ op.kind = "add" /\ op.todo = {}
    /\ assigned' = assigned \cup op.infos
    /\ op' = Free
    /\ UNCHANGED <<kernel, observer, updates, removed, overlooked, bounds>>

(* Mutant: the address is not taken off the list. *)
RemoveAddressKeepsList ==
    /\ op.kind = "remove" /\ op.todo = {}
    /\ removed' = removed \cup op.infos
    /\ op' = Free
    /\ UNCHANGED <<kernel, assigned, observer, updates, overlooked, bounds>>

RemoveAddressDone ==
    /\ op.kind = "remove" /\ op.todo = {}
    /\ assigned' = assigned \ op.infos
    /\ removed' = removed \cup op.infos
    /\ op' = Free
    /\ UNCHANGED <<kernel, observer, updates, overlooked, bounds>>

(* LinkList or AddrList fails in network.Cleanup. *)
CleanupFails ==
    /\ op.kind = "cleanup" /\ op.pc = "del"
    /\ ReturnError
    /\ UNCHANGED <<kernel, assigned, observer, updates, removed, overlooked, bounds>>

CleanupRestores ==
    /\ op.kind = "cleanup" /\ op.pc = "del" /\ op.todo = {}
    /\ op' = [op EXCEPT !.pc = "add", !.todo = op.infos]
    /\ UNCHANGED <<kernel, assigned, observer, updates, removed, overlooked, bounds>>

CleanupDone ==
    /\ op.kind = "cleanup" /\ op.pc = "add" /\ op.todo = {}
    /\ assigned' = op.infos
    /\ op' = Free
    /\ UNCHANGED <<kernel, observer, updates, removed, overlooked, bounds>>

-----------------------------------------------------------------------------
(* The watcher *)

(* Mutants: the watcher does not wait for a notification; it only looks when  *)
(* nothing else is going on.                                                  *)
ReceiveAnyway ==
    /\ observer = "receive"
    /\ observer' = "waiting"
    /\ updates' = updates - 1
    /\ UNCHANGED <<kernel, assigned, op, removed, overlooked, bounds>>

ReceiveAndDrop ==
    /\ observer = "receive"
    /\ updates > 0
    /\ observer' = IF op.kind = "free" THEN "waiting" ELSE "receive"
    /\ updates' = updates - 1
    /\ UNCHANGED <<kernel, assigned, op, removed, overlooked, bounds>>

Receive ==
    /\ observer = "receive"
    /\ updates > 0
    /\ observer' = "waiting"
    /\ updates' = updates - 1
    /\ UNCHANGED <<kernel, assigned, op, removed, overlooked, bounds>>

(* processAddressUpdate gets the lock. *)
ProcessAddressUpdate ==
    /\ observer = "waiting"
    /\ op.kind = "free"
    /\ observer' = "scanning"
    /\ op' = [Free EXCEPT !.kind = "scan", !.pc = "check", !.todo = assigned]
    /\ UNCHANGED <<kernel, assigned, updates, removed, overlooked, bounds>>

(* IsAddressOnInterface; an error is logged and the address skipped. *)
IsAddressOnInterface(i) ==
    /\ op.kind = "scan" /\ op.pc = "check"
    /\ \/ /\ kernel[i] # "absent"
          /\ Did(i)
          /\ overlooked' = overlooked \ {i}
       \/ /\ kernel[i] = "absent"
          /\ op' = [op EXCEPT !.todo = @ \ {i}, !.lost = {i}, !.pc = "add"]
          /\ UNCHANGED overlooked
       \/ /\ Did(i)
          /\ overlooked' = overlooked \cup {i}
    /\ UNCHANGED <<kernel, assigned, observer, updates, removed, bounds>>

(* The missing address is added; an error is logged and the scan goes on. *)
Restore(i) ==
    /\ op.kind = "scan" /\ op.pc = "add"
    /\ \/ NetAdd(i) /\ overlooked' = overlooked \ {i}
       \/ UNCHANGED <<kernel, updates>> /\ overlooked' = overlooked \cup {i}
    /\ op' = [op EXCEPT !.lost = {}, !.pc = "check"]
    /\ UNCHANGED <<assigned, observer, removed, bounds>>

ScanDone ==
    /\ op.kind = "scan" /\ op.pc = "check" /\ op.todo = {}
    /\ op' = Free
    /\ observer' = "receive"
    /\ UNCHANGED <<kernel, assigned, updates, removed, overlooked, bounds>>

-----------------------------------------------------------------------------
(* Another program on the node removes an address, or adds one. *)
OtherProgram(i) ==
    /\ events < MaxEvents /\ events' = events + 1
    /\ SetKernel(i, IF kernel[i] = "absent" THEN "foreign" ELSE "absent")
    /\ UNCHANGED <<assigned, op, observer, removed, overlooked, calls, crashes>>

(* The operator dies (processAddressUpdate does so on purpose after five      *)
(* seconds) and is started again: an empty list and a new subscription.       *)
Crash ==
    /\ crashes < MaxCrashes /\ crashes' = crashes + 1
    /\ assigned' = {}
    /\ op' = Free
    /\ observer' = "receive"
    /\ updates' = 0
    /\ overlooked' = {}
    /\ UNCHANGED <<kernel, removed, calls, events>>

-----------------------------------------------------------------------------
Call ==
    \/ \E i \in Infos : AddAddress(i) \/ RemoveAddress(i)
    \/ \E keepThese \in SUBSET Infos : Cleanup(keepThese)

Handler ==
    \/ \E i \in op.todo : Place(i) \/ Delete(i)
    \/ AddAddressDone \/ RemoveAddressDone
    \/ CleanupFails \/ CleanupRestores \/ CleanupDone

Scan ==
    \/ \E i \in op.todo : IsAddressOnInterface(i)
    \/ \E i \in op.lost : Restore(i)
    \/ ScanDone

Next ==
    \/ Call \/ Handler
    \/ Receive \/ ProcessAddressUpdate \/ Scan
    \/ \E i \in Infos : OtherProgram(i)
    \/ Crash

Spec == Init /\ [][Next]_vars

(* A holder of the lock goes on, and the watcher receives and, in the end,    *)
(* gets the lock: a sync.Mutex hands itself over to a waiter that starves.    *)
FairSpec ==
    /\ Spec
    /\ WF_vars(Handler) /\ WF_vars(Scan) /\ WF_vars(Receive)
    /\ SF_vars(ProcessAddressUpdate)

-----------------------------------------------------------------------------
Scanning(i) == op.kind = "scan" /\ i \in op.todo \cup op.lost

(* observer.go:109: an address that the operator has to hold and that is not  *)
(* in the kernel is going to be looked at: a notification is on its way, or   *)
(* was taken and the watcher waits for the lock, or its scan still comes to   *)
(* the address.  A notification that is consumed too early loses the address. *)
(* The only exception is an address whose last look or repair failed.         *)
MissingIsNoticed ==
    \A i \in assigned \ overlooked :
        kernel[i] = "absent" => updates > 0 \/ observer = "waiting" \/ Scanning(i)

(* An address that RemoveAddress reported as removed is not put back by a     *)
(* scan, a failed call or a restart: only a call that names it places it.     *)
RemovedStaysRemoved == \A i \in removed : kernel[i] # "pllb"

(* An address that somebody removed comes back, or is no longer wanted, or    *)
(* netlink failed when the watcher turned to it.                              *)
Restored ==
    \A i \in Infos : (i \in assigned /\ kernel[i] = "absent")
                        ~> (i \notin assigned \/ kernel[i] # "absent" \/ i \in overlooked)
=============================================================================
