---------------------------- MODULE PersistentIPs ----------------------------
(***************************************************************************)
(* The life of a persistent IP in the controller of PlenusLB.              *)
(*                                                                         *)
(* A Service of type LoadBalancer asks for addresses in spec.externalIPs.  *)
(* The controller books them in an in-memory table of the free addresses   *)
(* of each pool (persistentips/poolsManager.go), records them in an        *)
(* IPAllocation object of the same name (persistentips/allocator.go,       *)
(* ipallocations/manager.go), and drives that object through its states    *)
(* with one goroutine per informer event (servicewatcher.go,               *)
(* allocationswatcher.go, reconciler.go, allocator/allocator.go).          *)
(*                                                                         *)
(* Every call that reads or writes shared state is one step: a call to the *)
(* API server, a call to the cloud, a look at or a write to a table in     *)
(* memory.  Goroutines interleave between steps.                           *)
(***************************************************************************)
EXTENDS ControllerState

-----------------------------------------------------------------------------
(* Goroutines start, take the lock of their allocation, and end *)

(* What the goroutine for task t starts with. *)
Started(t) ==
    [Idle EXCEPT !.kind = t.kind,
                 !.s = t.s,
                 !.want = IF t.kind = "create" THEN t.ips ELSE {},
                 !.got = IF t.kind = "delete" THEN t.ips ELSE {},
                 !.pc = CASE t.kind = "create" -> "find"
                          [] t.kind = "error" -> "isProcessing"
                          [] OTHER -> "isLocked"]

(* Mutant: an event is handled twice. *)
StartAgain(g, t) ==
    /\ At(g, "idle")
    /\ w' = [w EXCEPT ![g] = Started(t)]
    /\ UNCHANGED <<environment, api, tables, avail, cloud>>

Start(g, t) ==
    /\ At(g, "idle")
    /\ w' = [w EXCEPT ![g] = Started(t)]
    /\ tasks' = tasks \ {t}
    /\ UNCHANGED <<environment, alloc, fresh, tables, avail, cloud>>

(* processAllocationStatusError: is a retry loop running for it already? *)
IsErrorAllocationAlreadyProcessing(g) ==
    /\ At(g, "isProcessing")
    /\ IF w[g].s \in errorAllocations
       THEN w' = [w EXCEPT ![g] = Idle] ELSE Goto(g, "addProcessing")
    /\ UNCHANGED <<environment, api, tables, avail, cloud>>

AddErrorAllocationToProcessingList(g) ==
    /\ At(g, "addProcessing")
    /\ errorAllocations' = errorAllocations \cup {w[g].s}
    /\ Goto(g, "isLocked")
    /\ UNCHANGED <<environment, api, lockedObjects, avail, cloud>>

(* AcquireAllocationLock, first half.  While the entry is there the thread   *)
(* sleeps and looks again, until its backoff is used up.                     *)
IsLocked(g) ==
    /\ At(g, "isLocked")
    /\ w[g].s \notin lockedObjects
    /\ Goto(g, "addToLock")
    /\ UNCHANGED <<environment, api, tables, avail, cloud>>

(* ErrObjectLocked: the handlers return at once, deletions included; the     *)
(* retry loop goes on to its next attempt until it has none left.            *)
LockTimeout(g) ==
    /\ At(g, "isLocked")
    /\ w[g].s \in lockedObjects
    /\ IF w[g].kind = "error"
       THEN Goto(g, "giveUp") /\ UNCHANGED fresh
       ELSE w' = [w EXCEPT ![g] = Idle] /\ fresh' = fresh \ {g}
    /\ UNCHANGED <<environment, alloc, tasks, tables, avail, cloud>>

(* AcquireAllocationLock, second half. *)
AddToLock(g) ==
    /\ At(g, "addToLock")
    /\ lockedObjects' = lockedObjects \cup {w[g].s}
    /\ Goto(g, CASE w[g].kind = "delete" -> "dealloc"
                 [] w[g].kind = "changed" -> "spawn"
                 [] OTHER -> "get")
    /\ UNCHANGED <<environment, api, errorAllocations, avail, cloud>>

(* Mutant: the deletion handler never unlocks. *)
ReturnOfState(g) ==
    /\ At(g, "return")
    /\ lockedObjects' = IF w[g].kind \in Handled THEN lockedObjects \ {w[g].s}
                                                 ELSE lockedObjects
    /\ fresh' = fresh \ {g}
    /\ w' = [w EXCEPT ![g] = Idle]
    /\ UNCHANGED <<environment, alloc, tasks, errorAllocations, avail, cloud>>

(* The handler returns: the deferred RemoveFromLock runs.  The retry loop    *)
(* starts over unless the allocation left the error state, or its attempts   *)
(* are used up.                                                              *)
Return(g) ==
    /\ At(g, "return")
    /\ lockedObjects' = IF w[g].kind \in Lockers THEN lockedObjects \ {w[g].s}
                                                 ELSE lockedObjects
    /\ fresh' = fresh \ {g}
    /\ IF w[g].kind = "error" /\ w[g].result # ""
       THEN \E l \in {"isLocked", "giveUp"} :
               w' = [w EXCEPT ![g] = [Idle EXCEPT !.kind = "error", !.s = w[g].s, !.pc = l]]
       ELSE w' = [w EXCEPT ![g] = Idle]
    /\ UNCHANGED <<environment, alloc, tasks, errorAllocations, avail, cloud>>

(* Mutant: the entry stays in the list. *)
GiveUpListed(g) ==
    /\ At(g, "giveUp")
    /\ w' = [w EXCEPT ![g] = [@ EXCEPT !.kind = "exhausted", !.pc = "getFailed"]]
    /\ UNCHANGED <<environment, api, tables, avail, cloud>>

(* The retry loop is used up: off the list, then SetAllocationStatusFailed   *)
(* on a copy read anew, without the lock.                                    *)
GiveUp(g) ==
    /\ At(g, "giveUp")
    /\ errorAllocations' = errorAllocations \ {w[g].s}
    /\ w' = [w EXCEPT ![g] = [@ EXCEPT !.kind = "exhausted", !.pc = "getFailed"]]
    /\ UNCHANGED <<environment, api, lockedObjects, avail, cloud>>

-----------------------------------------------------------------------------
(* Reads of the API server and of the service store *)

(* The copy a thread takes of the allocation of its service. *)
Copy(r) == [r EXCEPT !.ips = alloc[r.s].ips, !.state = alloc[r.s].state]

(* FindAllocationByName at the head of the handlers for a state, followed by *)
(* the test that the allocation is still in that state.                      *)
Get(g) ==
    LET r == w[g]
        s == r.s IN
    /\ At(g, "get")
    /\ \/ /\ alloc[s] = NoObject \/ Faults
          /\ w' = [w EXCEPT ![g] = [@ EXCEPT !.pc = "return", !.result = "error"]]
          /\ UNCHANGED <<fresh, errorAllocations>>
       \/ /\ alloc[s] # NoObject
          /\ alloc[s].state # r.kind
          /\ errorAllocations' = IF r.kind = "error" THEN errorAllocations \ {s}
                                                     ELSE errorAllocations
          /\ End(g)
          /\ UNCHANGED fresh
       \/ /\ alloc[s] # NoObject
          /\ alloc[s].state = r.kind
          /\ w' = [w EXCEPT ![g] =
                     [Copy(r) EXCEPT !.pc = CASE r.kind = "pending" -> "ensureFind"
                                              [] r.kind = "node_error" -> "changeNode"
                                              [] OTHER -> "findService",
                                     !.result = "error"]]
          /\ fresh' = fresh \cup {g}
          /\ UNCHANGED errorAllocations
    /\ UNCHANGED <<environment, alloc, tasks, lockedObjects, avail, cloud>>

GetFailed(g) ==
    /\ At(g, "getFailed")
    /\ \/ /\ alloc[w[g].s] = NoObject \/ Faults
          /\ End(g)
          /\ UNCHANGED fresh
       \/ /\ alloc[w[g].s] # NoObject
          /\ w' = [w EXCEPT ![g] = [Copy(@) EXCEPT !.pc = "setStatus", !.result = "failed"]]
          /\ fresh' = fresh \cup {g}
    /\ UNCHANGED <<environment, alloc, tasks, tables, avail, cloud>>

(* servicewatcher.FindService before ReconcileAllocation *)
FindService(g) ==
    LET s == w[g].s IN
    /\ At(g, "findService")
    /\ IF svc[s] = NoObject
       THEN End(g)
       ELSE w' = [w EXCEPT ![g] = [@ EXCEPT !.pc = "reconcile",
                                            !.want = svc[s].ips, !.lb = svc[s].lb]]
    /\ UNCHANGED <<environment, api, tables, avail, cloud>>

-----------------------------------------------------------------------------
(* CreateAllocationForService and EnsurePersistentAllocation *)

(* FindAllocation: nothing to do when the object exists; the call may fail. *)
FindAllocation(g) ==
    /\ At(g, "find")
    /\ \/ /\ alloc[w[g].s] # NoObject \/ Faults
          /\ End(g)
       \/ /\ alloc[w[g].s] = NoObject
          /\ w' = [w EXCEPT ![g] = [@ EXCEPT !.pc = "build", !.todo = w[g].want,
                                             !.result = "pending"]]
    /\ UNCHANGED <<environment, api, tables, avail, cloud>>

(* buildAllocations, one address the allocation does not have yet: UseIP     *)
(* books it if it is free.  The allocation is in error if it is not, or if   *)
(* addOperatorNodeToAllocation finds no node for it.                         *)
Build(g, a) ==
    /\ At(g, "build")
    /\ \/ /\ CanUseIP(w[g].s, a)
          /\ UseIP(w[g].s, a)
          /\ \E res \in AddOperatorNodeToAllocation(w[g].result) :
                w' = [w EXCEPT ![g] = [@ EXCEPT !.todo = w[g].todo \ {a},
                                                !.got = w[g].got \cup {a},
                                                !.result = res]]
       \/ /\ ~CanUseIP(w[g].s, a)
          /\ w' = [w EXCEPT ![g] = [@ EXCEPT !.todo = w[g].todo \ {a}, !.result = "error"]]
          /\ UNCHANGED avail
    /\ UNCHANGED <<environment, api, tables, cloud>>

(* The addresses of the copy that stay: the service still asks for them and  *)
(* a pool still offers them.  The others are given back.                     *)
Kept(r) == r.ips \cap r.want \cap Usable(r.s)
Removed(r) == r.ips \ Kept(r)

Built(g) ==
    /\ At(g, "build")
    /\ w[g].todo = {}
    /\ IF w[g].kind \in {"create", "delete"}
       THEN Goto(g, "create")
       ELSE w' = [w EXCEPT ![g] = [@ EXCEPT !.pc = "release", !.todo = Removed(w[g])]]
    /\ UNCHANGED <<environment, api, tables, avail, cloud>>

(* Mutant: the object was created although the call reports an error. *)
CreateReportedAsFailed(g) ==
    /\ At(g, "create")
    /\ alloc[w[g].s] = NoObject
    /\ Write(g, [ips |-> w[g].got, state |-> ""])
    /\ Goto(g, "rollback")
    /\ UNCHANGED <<environment, tables, avail, cloud>>

(* createPersistentAllocation: Create, with no status yet.  If it fails,     *)
(* because another goroutine was faster or the server is away, every booked  *)
(* address goes back to its pool.                                            *)
Create(g) ==
    LET s == w[g].s IN
    /\ At(g, "create")
    /\ \/ /\ alloc[s] = NoObject
          /\ Write(g, [ips |-> w[g].got, state |-> ""])
          /\ w' = [w EXCEPT ![g] = [@ EXCEPT !.pc = "setStatus", !.ips = w[g].got,
                                             !.got = {}]]
       \/ /\ alloc[s] # NoObject \/ Faults
          /\ Goto(g, "rollback")
          /\ UNCHANGED api
    /\ UNCHANGED <<environment, tables, avail, cloud>>

Rollback(g, a) ==
    /\ At(g, "rollback")
    /\ ReleaseIP(w[g].s, a)
    /\ w' = [w EXCEPT ![g] = [@ EXCEPT !.got = w[g].got \ {a}]]
    /\ UNCHANGED <<environment, api, tables, cloud>>

RolledBack(g) ==
    /\ At(g, "rollback")
    /\ w[g].got = {}
    /\ End(g)
    /\ UNCHANGED <<environment, api, tables, avail, cloud>>

-----------------------------------------------------------------------------
(* ipallocations.SetAllocationStatus...: UpdateStatus with the thread's      *)
(* copy.  The messages of error and node_error vary, so that writing the     *)
(* same state again may or may not change the object.                        *)
WriteStatus(g) ==
    LET obj == [alloc[w[g].s] EXCEPT !.state = w[g].result] IN
    /\ g \in fresh
    /\ \/ Put(g, obj)
       \/ obj.state \in {"error", "node_error"} /\ Write(g, obj)

SetStatus(g) ==
    /\ At(g, "setStatus")
    /\ \/ WriteStatus(g)
       \/ WriteFails(g) /\ UNCHANGED api
    /\ End(g)
    /\ UNCHANGED <<environment, tables, avail, cloud>>

-----------------------------------------------------------------------------
(* ReconcileAllocation and CheckAndPatchAllocation *)

(* The service is no longer a LoadBalancer: its allocation is deleted and    *)
(* the result is (nil, nil), which the retry loop dereferences.              *)
ReconcileDelete(g) ==
    /\ At(g, "reconcile")
    /\ ~w[g].lb
    /\ \/ /\ Faults
          /\ End(g)
          /\ UNCHANGED <<environment, api, tables, avail>>
       \/ /\ w[g].kind # "error"
          /\ DeleteAllocationByName(w[g].s)
          /\ End(g)
          /\ UNCHANGED <<environment, tables, avail>>
       \/ /\ w[g].kind = "error"
          /\ alloc' = [alloc EXCEPT ![w[g].s] = NoObject]
          /\ Die
          /\ UNCHANGED <<svc, changes, restarts>>
    /\ UNCHANGED cloud

(* The service wants persistent addresses: buildAllocations starts.  A kept  *)
(* address without a node is in error when there still is none.              *)
Reconcile(g) ==
    /\ At(g, "reconcile")
    /\ w[g].lb
    /\ \E res \in IF Kept(w[g]) = {} THEN {"pending"} ELSE AddOperatorNodeToAllocation("pending") :
          w' = [w EXCEPT ![g] = [@ EXCEPT !.pc = "build", !.todo = w[g].want \ w[g].ips,
                                          !.result = res]]
    /\ UNCHANGED <<environment, api, tables, avail, cloud>>

ReleaseRemoved(g, a) ==
    /\ At(g, "release")
    /\ ReleaseIP(w[g].s, a)
    /\ w' = [w EXCEPT ![g] = [@ EXCEPT !.todo = w[g].todo \ {a}]]
    /\ UNCHANGED <<environment, api, tables, cloud>>

(* Nothing changed: the allocation is only ensured, by the handlers that do  *)
(* so.                                                                       *)
Unpatched(g) ==
    LET r == w[g] IN
    /\ At(g, "release")
    /\ r.todo = {}
    /\ r.result = "pending" /\ r.got = {} /\ Removed(r) = {}
    /\ IF r.kind = "reconcile" THEN End(g) ELSE Goto(g, "ensureFind")
    /\ UNCHANGED <<environment, api, tables, avail, cloud>>

(* Something changed; with faults, a kept address may have got a node. *)
Patch(g) ==
    LET r == w[g] IN
    /\ At(g, "release")
    /\ r.todo = {}
    /\ r.result = "error" \/ r.got # {} \/ Removed(r) # {} \/ Faults
    /\ Goto(g, "update")
    /\ UNCHANGED <<environment, api, tables, avail, cloud>>

(* UpdateAllocation retries a conflict with the same copy, so it stays one.  *)
(* What was booked for the update is not given back when it fails.           *)
Update(g) ==
    LET r == w[g]
        obj == [alloc[r.s] EXCEPT !.ips = Kept(r) \cup r.got] IN
    /\ At(g, "update")
    /\ \/ /\ g \in fresh
          /\ Put(g, obj) \/ (Faults /\ Write(g, obj))
          /\ w' = [w EXCEPT ![g] = [@ EXCEPT !.pc = "setPatchStatus", !.got = {},
                                             !.ips = obj.ips, !.todo = Removed(r)]]
       \/ /\ WriteFails(g)
          /\ w' = [w EXCEPT ![g] = [@ EXCEPT !.pc = "return", !.got = {}, !.result = "error"]]
          /\ UNCHANGED api
    /\ UNCHANGED <<environment, tables, avail, cloud>>

(* The status of the patched allocation; reconcilePersistentAllocation then  *)
(* cleans up after the removed addresses if the copy was in success.         *)
SetPatchStatus(g) ==
    /\ At(g, "setPatchStatus")
    /\ \/ /\ WriteStatus(g)
          /\ w' = [w EXCEPT ![g] =
                     [@ EXCEPT !.pc = "cleanup",
                               !.todo = IF w[g].state = "success" THEN w[g].todo ELSE {}]]
       \/ /\ WriteFails(g)
          /\ End(g)
          /\ UNCHANGED api
    /\ UNCHANGED <<environment, tables, avail, cloud>>

(* ReleaseIP, for the second time, and then DeallocateAddress. *)
Cleanup(g, a) ==
    /\ At(g, "cleanup")
    /\ ReleaseIP(w[g].s, a)
    /\ w' = [w EXCEPT ![g] = [@ EXCEPT !.pc = "cleanupCloud", !.todo = w[g].todo \ {a}, !.cur = {a}]]
    /\ UNCHANGED <<environment, api, tables, cloud>>

CleanedUp(g) ==
    /\ At(g, "cleanup")
    /\ w[g].todo = {}
    /\ End(g)
    /\ UNCHANGED <<environment, api, tables, avail, cloud>>

(* DeallocateAddress: from the node and, if that can be reached, the cloud. *)
DeallocateAddress(g, from, to) ==
    /\ At(g, from)
    /\ UnassignIP(w[g].cur)
    /\ w' = [w EXCEPT ![g] = [@ EXCEPT !.pc = to, !.cur = {}]]
    /\ UNCHANGED <<environment, api, tables, avail>>

-----------------------------------------------------------------------------
(* EnsureIPAllocation *)

EnsureFindService(g) ==
    LET s == w[g].s IN
    /\ At(g, "ensureFind")
    /\ IF svc[s] = NoObject \/ ~svc[s].lb
       THEN Goto(g, "deleteAlloc")
       ELSE w' = [w EXCEPT ![g] = [@ EXCEPT !.pc = "ensure", !.todo = w[g].ips]]
    /\ UNCHANGED <<environment, api, tables, avail, cloud>>

(* The service is gone, or is not a LoadBalancer any more. *)
DeleteAllocation(g) ==
    /\ At(g, "deleteAlloc")
    /\ \/ DeleteAllocationByName(w[g].s)
       \/ Faults /\ UNCHANGED api
    /\ End(g)
    /\ UNCHANGED <<environment, tables, avail, cloud>>

Ensure(g, a) ==
    /\ At(g, "ensure")
    /\ EnsureAddressIsNotAvailable(a)
    /\ w' = [w EXCEPT ![g] = [@ EXCEPT !.pc = "place", !.todo = w[g].todo \ {a}, !.cur = {a}]]
    /\ UNCHANGED <<environment, api, tables, cloud>>

(* persistentips.AllocateAddress: on the node, then in the cloud.  The pool   *)
(* may not be in the store (yet), the node may be unreachable, and anything   *)
(* else may fail.                                                             *)
AllocateAddress(g) ==
    /\ At(g, "place")
    /\ \/ /\ w[g].cur \subseteq Known
          /\ AssignIPToServer(w[g].cur)
          /\ w' = [w EXCEPT ![g] = [@ EXCEPT !.pc = "ensure", !.cur = {}]]
       \/ /\ ~(w[g].cur \subseteq Known) \/ Faults
          /\ \E res \in {"error"} \cup (IF Faults THEN {"node_error"} ELSE {}) :
                w' = [w EXCEPT ![g] = [@ EXCEPT !.pc = "setStatus", !.cur = {}, !.todo = {},
                                                !.result = res]]
          /\ UNCHANGED cloud
    /\ UNCHANGED <<environment, api, tables, avail>>

Ensured(g) ==
    /\ At(g, "ensure")
    /\ w[g].todo = {}
    /\ w' = [w EXCEPT ![g] = [@ EXCEPT !.pc = "setStatus", !.result = "success"]]
    /\ UNCHANGED <<environment, api, tables, avail, cloud>>

(* ChangeAllocationNode: new nodes for all the addresses.  If the update      *)
(* fails, the status of a nil allocation is set.                              *)
ChangeAllocationNode(g) ==
    LET s == w[g].s IN
    /\ At(g, "changeNode")
    /\ \/ /\ g \in fresh
          /\ Write(g, alloc[s]) \/ UNCHANGED api
          /\ \E res \in IF w[g].ips \subseteq Known THEN AddOperatorNodeToAllocation("pending")
                                                    ELSE {"error"} :
                w' = [w EXCEPT ![g] = [@ EXCEPT !.pc = "setStatus", !.result = res]]
          /\ UNCHANGED <<environment, tables, avail>>
       \/ /\ WriteFails(g)
          /\ Die
          /\ UNCHANGED <<svc, alloc, changes, restarts>>
    /\ UNCHANGED cloud

-----------------------------------------------------------------------------
(* allocationDeleted and DeallocateAllocation *)

(* The address goes back to its pool first ... *)
Dealloc(g, a) ==
    /\ At(g, "dealloc")
    /\ ReleaseIP(w[g].s, a)
    /\ w' = [w EXCEPT ![g] = [@ EXCEPT !.pc = "deallocCloud", !.got = w[g].got \ {a}, !.cur = {a}]]
    /\ UNCHANGED <<environment, api, tables, cloud>>

(* ... and is taken from the server in the cloud afterwards: DeallocateAddress. *)

(* All addresses are done: if the service still is there the allocation was  *)
(* deleted behind its back, and is created again under the same lock.        *)
Deallocated(g) ==
    LET s == w[g].s IN
    /\ At(g, "dealloc")
    /\ w[g].got = {}
    /\ IF svc[s] # NoObject /\ svc[s].lb
       THEN w' = [w EXCEPT ![g] = [@ EXCEPT !.pc = "find", !.want = svc[s].ips]]
       ELSE End(g)
    /\ UNCHANGED <<environment, api, tables, avail, cloud>>

-----------------------------------------------------------------------------
(* The services informer: one thread, one handler at a time *)

InformerStarts(kind, l, s, service) ==
    w' = [w EXCEPT ![Informer] = [Idle EXCEPT !.kind = kind, !.pc = l, !.s = s,
                                              !.want = service.ips, !.lb = service.lb]]

CreateTask(s, service) ==
    IF service.lb THEN {[kind |-> "create", s |-> s, ips |-> service.ips]} ELSE {}

(* The bound on what happens around the controller. *)
OutsideEvent == changes < MaxChanges /\ changes' = changes + 1

(* A user creates a service; serviceCreated spawns a goroutine. *)
ServiceAdded(s) ==
    /\ svc[s] = NoObject
    /\ OutsideEvent
    /\ At(Informer, "idle")
    /\ \E service \in [lb : {TRUE}, ips : ExternalIPs[s]] :
          /\ svc' = [svc EXCEPT ![s] = service]
          /\ tasks' = tasks \cup (IF up THEN CreateTask(s, service) ELSE {})
    /\ UNCHANGED <<alloc, w, fresh, tables, avail, cloud, poolEvents, up, restarts>>

(* A user deletes a service; serviceDeleted deletes the allocation. *)
ServiceDeleted(s) ==
    /\ svc[s] # NoObject
    /\ OutsideEvent
    /\ At(Informer, "idle")
    /\ svc' = [svc EXCEPT ![s] = NoObject]
    /\ IF up /\ svc[s].lb
       THEN InformerStarts("deleted", "deleteAlloc", s, svc[s]) ELSE UNCHANGED w
    /\ UNCHANGED <<api, tables, avail, cloud, poolEvents, up, restarts>>

(* A user changes externalIPs or the type of a service: serviceChanged. *)
ServiceChanged(s) ==
    /\ svc[s] # NoObject
    /\ OutsideEvent
    /\ At(Informer, "idle")
    /\ \E service \in [lb : {TRUE} \cup (IF TypeChanges THEN {FALSE} ELSE {}),
                       ips : ExternalIPs[s]] :
          /\ service # svc[s]
          /\ svc' = [svc EXCEPT ![s] = service]
          /\ IF up THEN InformerStarts("changed", "lookup", s, service) ELSE UNCHANGED w
    /\ UNCHANGED <<api, tables, avail, cloud, poolEvents, up, restarts>>

(* serviceChanged: create the allocation if there is none, else lock it ... *)
LookupAllocation ==
    LET r == w[Informer] IN
    /\ At(Informer, "lookup")
    /\ \/ /\ Faults
          /\ w' = [w EXCEPT ![Informer] = Idle]
          /\ UNCHANGED <<fresh, tasks>>
       \/ /\ alloc[r.s] = NoObject
          /\ tasks' = tasks \cup CreateTask(r.s, svc[r.s])
          /\ w' = [w EXCEPT ![Informer] = Idle]
          /\ UNCHANGED fresh
       \/ /\ alloc[r.s] # NoObject
          /\ w' = [w EXCEPT ![Informer] = [Copy(r) EXCEPT !.pc = "isLocked"]]
          /\ fresh' = fresh \cup {Informer}
          /\ UNCHANGED tasks
    /\ UNCHANGED <<environment, alloc, tables, avail, cloud>>

(* ... and have another goroutine reconcile it; the lock is released when    *)
(* serviceChanged returns, not when that goroutine ends.                     *)
SpawnReconcile(g) ==
    /\ At(Informer, "spawn")
    /\ At(g, "idle")
    /\ w' = [w EXCEPT ![g] = [w[Informer] EXCEPT !.kind = "reconcile", !.pc = "reconcile",
                                                 !.got = {}],
                      ![Informer].pc = "return"]
    /\ fresh' = IF Informer \in fresh THEN fresh \cup {g} ELSE fresh
    /\ UNCHANGED <<environment, alloc, tasks, tables, avail, cloud>>

-----------------------------------------------------------------------------
(* Node and pool events, crash and restart of the leader *)

(* operatorNodeLost for an allocation with an address on the node: the        *)
(* handler of the event takes no lock and writes the informer's copy.         *)
OperatorNodeLost(s) ==
    /\ OutsideEvent
    /\ up
    /\ alloc[s] # NoObject /\ alloc[s].ips # {}
    /\ alloc' = [alloc EXCEPT ![s].state = "node_error"]
    /\ tasks' = tasks \cup EventTasks(s, "node_error")
    /\ fresh' = fresh \ OtherCopies(s)
    /\ UNCHANGED <<svc, w, tables, avail, cloud, poolEvents, up, restarts>>

(* The pools informer delivers a pool: addPool offers all its addresses. *)
AddPool(p) ==
    /\ up
    /\ <<"added", p>> \in poolEvents
    /\ poolEvents' = poolEvents \ {<<"added", p>>}
    /\ AddOrReplaceAvailability(p, PoolAddresses[p])
    /\ UNCHANGED <<svc, alloc, tasks, w, fresh, tables, cloud, up, changes, restarts>>

(* persistentPoolModified for a pool whose addresses did not change: the free *)
(* ones are computed again (ProcessIPAvailabilityFromCacheList).              *)
PersistentPoolModified(p) ==
    /\ <<"modified", p>> \in poolEvents
    /\ poolEvents' = poolEvents \ {<<"modified", p>>}
    /\ AddOrReplaceAvailability(p, PoolAddresses[p] \ Allocated)
    /\ UNCHANGED <<svc, alloc, tasks, w, fresh, tables, cloud, up, changes, restarts>>

(* A user touches a pool that the informer has delivered. *)
PoolUpdated(p) ==
    /\ PoolUpdates /\ up /\ p \in Listed
    /\ poolEvents' = poolEvents \cup {<<"modified", p>>}
    /\ UNCHANGED <<svc, alloc, tasks, w, fresh, tables, avail, cloud, up, changes, restarts>>

Crash ==
    /\ up /\ restarts < MaxRestarts
    /\ Die
    /\ UNCHANGED <<svc, alloc, cloud, changes, restarts>>

(* A new leader: OnStartedLeading warms the tables up, and the first lists of *)
(* the informers arrive as events, the pools after or before the others.      *)
Restart ==
    /\ ~up /\ restarts < MaxRestarts
    /\ up' = TRUE
    /\ restarts' = restarts + 1
    /\ WarmupIPAvailability
    /\ tasks' = (UNION {CreateTask(s, svc[s]) : s \in {t \in Services : svc[t] # NoObject}})
                \cup (UNION {EventTasks(s, alloc[s].state) :
                               s \in {t \in Services : alloc[t] # NoObject}})
    /\ UNCHANGED <<svc, alloc, w, fresh, tables, cloud, poolEvents, changes>>

-----------------------------------------------------------------------------
Lock(g) ==
    \/ IsErrorAllocationAlreadyProcessing(g)
    \/ AddErrorAllocationToProcessingList(g)
    \/ IsLocked(g) \/ LockTimeout(g) \/ AddToLock(g) \/ Return(g) \/ GiveUp(g)

Book(g) ==
    \/ FindAllocation(g)
    \/ \E a \in w[g].todo : Build(g, a)
    \/ Built(g)
    \/ Create(g)
    \/ \E a \in w[g].got : Rollback(g, a)
    \/ RolledBack(g)

Reconciler(g) ==
    \/ FindService(g)
    \/ ReconcileDelete(g) \/ Reconcile(g)
    \/ \E a \in w[g].todo : ReleaseRemoved(g, a)
    \/ Unpatched(g) \/ Patch(g) \/ Update(g) \/ SetPatchStatus(g)
    \/ \E a \in w[g].todo : Cleanup(g, a)
    \/ DeallocateAddress(g, "cleanupCloud", "cleanup")
    \/ CleanedUp(g)

Allocator(g) ==
    \/ Get(g) \/ GetFailed(g)
    \/ EnsureFindService(g)
    \/ DeleteAllocation(g)
    \/ \E a \in w[g].todo : Ensure(g, a)
    \/ AllocateAddress(g)
    \/ Ensured(g)
    \/ SetStatus(g)
    \/ ChangeAllocationNode(g)

Deallocator(g) ==
    \/ \E a \in w[g].got : Dealloc(g, a)
    \/ DeallocateAddress(g, "deallocCloud", "dealloc")
    \/ Deallocated(g)

Step(g) == Lock(g) \/ Book(g) \/ Reconciler(g) \/ Allocator(g) \/ Deallocator(g)

Environment ==
    \/ \E s \in Services : \/ ServiceAdded(s) \/ ServiceDeleted(s) \/ ServiceChanged(s)
                          \/ OperatorNodeLost(s)
    \/ \E p \in Pools : PoolUpdated(p)
    \/ Crash

Controller ==
    \/ \E g \in Threads : Step(g)
    \/ \E g \in Goroutines, t \in tasks : Start(g, t)
    \/ LookupAllocation
    \/ \E g \in Goroutines : SpawnReconcile(g)
    \/ \E p \in Pools : AddPool(p) \/ PersistentPoolModified(p)
    \/ Restart

Next == Environment \/ Controller

Spec == Init /\ [][Next]_vars

-----------------------------------------------------------------------------
(* README.md:216: a persistent address is bound to one service at most.  The *)
(* addresses of an IPAllocation are those the service is reached on.         *)
BoundToSingleService ==
    \A s, t \in Services :
        s # t /\ alloc[s] # NoObject /\ alloc[t] # NoObject
            => alloc[s].ips \cap alloc[t].ips = {}

(* poolsManager.go:161: an address that an IPAllocation has is not offered   *)
(* as free to the next service that asks for it.                             *)
AvailableIsFree ==
    \A p \in Pools, s \in Services :
        alloc[s] # NoObject => avail[p] \cap alloc[s].ips = {}

(* The addresses a deletion that is not handled yet has to give back. *)
Owed(t) == IF t.kind = "delete" THEN t.ips ELSE {}

(* An address is in one place: free in a pool, in an allocation, on its way  *)
(* back after a deletion that is not handled yet, or in the hands of one     *)
(* goroutine.  A second copy of it in any of these is a double booking about *)
(* to happen.                                                                *)
SingleOwner ==
    /\ BoundToSingleService
    /\ AvailableIsFree
    /\ \A p \in Pools, g \in Threads : avail[p] \cap w[g].got = {}
    /\ \A p \in Pools, t \in tasks : avail[p] \cap Owed(t) = {}
    /\ \A g \in Threads, s \in Services :
          alloc[s] # NoObject => w[g].got \cap alloc[s].ips = {}
    /\ \A g, h \in Threads : g # h => w[g].got \cap w[h].got = {}
    /\ \A g \in Threads, t \in tasks : w[g].got \cap Owed(t) = {}
    /\ \A s \in Services, t \in tasks : alloc[s] # NoObject => alloc[s].ips \cap Owed(t) = {}
    /\ \A t, u \in tasks : t # u => Owed(t) \cap Owed(u) = {}

(* allowedNamespaces: no sequence of bookings, patches, crashes and pool     *)
(* events puts an address into the allocation of a service whose namespace   *)
(* its pool does not admit.                                                  *)
OnlyAllowedPools ==
    \A s \in Services :
        alloc[s] # NoObject => alloc[s].ips \subseteq Admitted(s)

(* A locked allocation has a thread that is going to unlock it, on every     *)
(* path of every handler.                                                    *)
HoldsLock(g) ==
    /\ w[g].kind \in Lockers
    /\ w[g].pc \notin {"idle", "isProcessing", "addProcessing", "isLocked", "addToLock",
                       "lookup", "giveUp"}

NoLeakedLock ==
    \A s \in lockedObjects : \E g \in Threads : w[g].s = s /\ HoldsLock(g)

(* An allocation in the processing list has a goroutine that retries it: one *)
(* without would never be retried again.                                     *)
NoStuckErrorEntry ==
    \A s \in errorAllocations :
        \E g \in Goroutines :
            /\ w[g].s = s
            /\ w[g].kind = "error"
            /\ w[g].pc \notin {"idle", "isProcessing", "addProcessing"}
=============================================================================
