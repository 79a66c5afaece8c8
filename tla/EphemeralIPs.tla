---------------------------- MODULE EphemeralIPs ----------------------------
(***************************************************************************)
(* The life of an ephemeral IP in the controller of PlenusLB.              *)
(*                                                                         *)
(* A LoadBalancer without externalIPs gets an address that is bought from  *)
(* the cloud (ephemeralips/allocator.go, clouds/hetzner), recorded in the  *)
(* IPAllocation of the service and written to the service's ingress        *)
(* (servicesupdater).  Every address costs money until it is deleted.      *)
(*                                                                         *)
(* There is one EphemeralIPPool, with a cloud integration, for all the     *)
(* services.  One goroutine runs per event; a call to the API server or to *)
(* the cloud is one step.  What the properties below say must not depend   *)
(* on the lock of the allocation, which does not exclude (AllocationLock): *)
(* here it only decides whether a handler runs at all, and handlers run in *)
(* any order and at the same time.                                         *)
(***************************************************************************)
EXTENDS Naturals, FiniteSets

CONSTANTS
    Services,       \* names of services, and of their IPAllocations
    Addresses,      \* addresses the cloud may sell
    Goroutines,     \* bound: handler goroutines running at the same time
    NoObject,       \* "not found"
    MaxChanges,     \* bound: changes of services and pool, losses of nodes
    MaxFaults,      \* bound: remote calls that fail, or whose answer is lost
    MaxRestarts     \* bound: leaders after the first one

ASSUME BoundsAssumption ==
    Services # {} /\ MaxChanges \in Nat /\ MaxFaults \in Nat /\ MaxRestarts \in Nat

VARIABLES
    svc,        \* services: "none", "lb", "other" (not a LoadBalancer)
    ingress,    \* status.loadBalancer.ingress of the services
    alloc,      \* the IPAllocation objects
    tasks,      \* events that are not handled yet
    w,          \* the local state of each goroutine
    fresh,      \* goroutines whose copy has the current resourceVersion
    cloud,      \* floating IPs that exist, and are paid for (external)
    pool,       \* the EphemeralIPPool: no object, not in the store yet, listed
    removing,   \* allocations ephemeralPoolRemoved has left to look at
    orphans,    \* addresses given up: nothing refers to them any more
    up,         \* is a leader running?
    changes, faults, restarts

vars == <<svc, ingress, alloc, tasks, w, fresh, cloud, pool, removing, orphans, up,
          changes, faults, restarts>>

services == <<svc, ingress>>
money == <<cloud, orphans>>
leader == <<pool, removing, up, changes, restarts>>

-----------------------------------------------------------------------------
States == {"", "pending", "success", "error", "node_error", "failed", "address_deleted_from_pool"}
Handled == {"pending", "success", "error", "node_error"}

(* spec.allocations has no entry, an entry without a node, one with a node. *)
IPAllocation == [entry : {"none", "noNode", "node"}, addr : SUBSET Addresses, state : States]

ASSUME NoObjectAssumption == NoObject \notin IPAllocation

Blank == [entry |-> "none", addr |-> {}, state |-> ""]

Kinds == Handled \cup {"create", "changed", "deleted", "delete"}

Task == [kind : Kinds, s : Services, addr : SUBSET Addresses]

Locations ==
    {"idle", "lookup", "find", "build", "create", "get", "findService", "reconcile", "deleteOther",
     "patch", "update", "setStatus", "ensureFind", "place", "setSuccess", "ingress", "deleteAlloc",
     "changeNode", "dealloc", "removeIngress", "recreate", "getFailed"}

Thread ==
    [kind : Kinds, pc : Locations, s : Services,
     lb : BOOLEAN, ing : SUBSET Addresses,  \* service copy: is it a LoadBalancer, its ingress
     obj : IPAllocation,                    \* allocation copy, and what is to be written
     got : SUBSET Addresses,                \* bought, or owed by a deletion: in no object
     result : States]                       \* status.state the goroutine is going to write

Idle == [kind |-> "create", pc |-> "idle", s |-> CHOOSE s \in Services : TRUE, lb |-> TRUE,
         ing |-> {}, obj |-> Blank, got |-> {}, result |-> ""]

TypeOK ==
    /\ svc \in [Services -> {"none", "lb", "other"}]
    /\ ingress \in [Services -> SUBSET Addresses]
    /\ alloc \in [Services -> IPAllocation \cup {NoObject}]
    /\ tasks \subseteq Task
    /\ w \in [Goroutines -> Thread]
    /\ fresh \subseteq Goroutines
    /\ cloud \subseteq Addresses /\ orphans \subseteq Addresses
    /\ pool \in {"absent", "unlisted", "listed"}
    /\ removing \subseteq Services
    /\ up \in BOOLEAN
    /\ changes \in 0 .. MaxChanges /\ faults \in 0 .. MaxFaults /\ restarts \in 0 .. MaxRestarts

Init ==
    /\ svc = [s \in Services |-> "none"]
    /\ ingress = [s \in Services |-> {}]
    /\ alloc = [s \in Services |-> NoObject]
    /\ tasks = {}
    /\ w = [g \in Goroutines |-> Idle]
    /\ fresh = {}
    /\ cloud = {} /\ orphans = {}
    /\ pool \in {"absent", "listed"}
    /\ removing = {}
    /\ up = TRUE
    /\ changes = 0 /\ faults = 0 /\ restarts = 0

-----------------------------------------------------------------------------
(* Goroutines, the API server and the cloud (external) *)

At(g, l) == w[g].pc = l
Set(g, r) == w' = [w EXCEPT ![g] = r]
Goto(g, l) == Set(g, [w[g] EXCEPT !.pc = l])

(* The bound on faults; a step that may succeed as well says NoFault. *)
Fault == faults < MaxFaults /\ faults' = faults + 1
NoFault == UNCHANGED faults

(* The handler returns, without an address.  An attempt of the retry loop is *)
(* followed by another one, or by SetAllocationStatusFailed, unless the      *)
(* allocation had left the error state.                                      *)
Leave(g) ==
    \E l \in IF w[g].kind = "error" /\ w[g].result # "" THEN {"get", "getFailed"} ELSE {"idle"} :
        Set(g, IF l = "idle" THEN Idle ELSE [Idle EXCEPT !.kind = "error", !.s = w[g].s, !.pc = l])

End(g) == Leave(g) /\ fresh' = fresh \ {g}

Event(kind, s) == {[kind |-> kind, s |-> s, addr |-> {}]}

(* Mutant: the empty and the final states are handled like the others. *)
EventTasksOfAnyState(s, state) == Event(state, s)

(* allocationCreated and allocationsChanged: the goroutine for a state. *)
EventTasks(s, state) == IF state \in Handled THEN Event(state, s) ELSE {}

Copies(s) == {g \in Goroutines : w[g].s = s}

(* A write that reaches the server; the writers have the new version. *)
Write(s, obj, writers) ==
    /\ alloc' = [alloc EXCEPT ![s] = obj]
    /\ tasks' = tasks \cup EventTasks(s, obj.state)
    /\ fresh' = (fresh \ Copies(s)) \cup writers

DeletedEvent(s) == {[kind |-> "delete", s |-> s, addr |-> alloc[s].addr]}

DeleteAllocationByName(s) ==
    /\ alloc' = [alloc EXCEPT ![s] = NoObject]
    /\ tasks' = tasks \cup (IF alloc[s] = NoObject THEN {} ELSE DeletedEvent(s))

(* A write with an old copy fails; any write may. *)
WriteFails(g) == (g \notin fresh /\ NoFault) \/ Fault

(* SetAllocationStatus...: UpdateStatus does not touch the stored entry. *)
WriteStatus(g) ==
    /\ g \in fresh /\ NoFault
    /\ Write(w[g].s, [alloc[w[g].s] EXCEPT !.state = w[g].result], {})

(* An update of a service is an event for serviceChanged, the controller's   *)
(* own updates included.                                                     *)
SetIngress(s, ips) ==
    /\ ingress' = [ingress EXCEPT ![s] = ips]
    /\ tasks' = tasks \cup (IF ingress[s] = ips THEN {} ELSE Event("changed", s))
    /\ UNCHANGED svc

(* A panic or the death of the process: what was in memory is gone, and so   *)
(* are the addresses that only a goroutine or an unhandled deletion knew of, *)
(* that of an object whose deletion nobody is told of included.              *)
Die(untold) ==
    /\ up' = FALSE
    /\ orphans' = orphans \cup untold \cup (UNION {w[g].got : g \in Goroutines})
                          \cup (UNION {t.addr : t \in tasks})
    /\ tasks' = {}
    /\ w' = [g \in Goroutines |-> Idle]
    /\ fresh' = {}
    /\ removing' = {}
    /\ pool' = IF pool = "listed" THEN "unlisted" ELSE pool
    /\ UNCHANGED <<services, cloud, changes, restarts>>

(* hetzner.GetAndAssignNewAddress: a floating IP that nobody has.  It may    *)
(* fail, and a lost answer loses the address.                                *)
GetAndAssignNewAddress(got) ==
    \/ /\ \E a \in Addresses \ cloud : got = {a} /\ cloud' = cloud \cup {a}
       /\ UNCHANGED orphans /\ NoFault
    \/ /\ got = {}
       /\ \/ UNCHANGED money
          \/ \E a \in Addresses \ cloud : cloud' = cloud \cup {a} /\ orphans' = orphans \cup {a}
       /\ Fault
    \/ /\ got = {} /\ cloud = Addresses
       /\ UNCHANGED money /\ NoFault

(* getRandomNode or GetRandomOperatorNode, and the address for the node: the *)
(* entry and the address of an allocation that has neither.  No server has   *)
(* the empty name.                                                           *)
Buy(entry, got) ==
    \/ entry = "node" /\ GetAndAssignNewAddress(got)
    \/ entry = "noNode" /\ got = {} /\ Fault /\ UNCHANGED money

-----------------------------------------------------------------------------
(* A goroutine starts; a handler that takes the lock may not get it in time. *)

Entry(kind) ==
    CASE kind = "create" -> "find"
      [] kind = "changed" -> "lookup"
      [] kind = "deleted" -> "deleteAlloc"
      [] kind = "delete" -> "dealloc"
      [] OTHER -> "get"

Start(g, t) ==
    /\ At(g, "idle")
    /\ Set(g, [Idle EXCEPT !.kind = t.kind, !.s = t.s, !.got = t.addr, !.pc = Entry(t.kind)])
    /\ tasks' = tasks \ {t}
    /\ UNCHANGED <<services, alloc, fresh, money, leader, faults>>

(* Mutant: the deletion that finds the allocation locked is forgotten. *)
LockTimeoutForgets(t) ==
    /\ t.kind \notin {"create", "deleted"}
    /\ tasks' = tasks \ {t}
    /\ UNCHANGED <<services, alloc, w, fresh, money, leader, faults>>

(* ErrObjectLocked: the handler returns.  The one of a deletion is the only  *)
(* one that knows the address.                                               *)
LockTimeout(t) ==
    /\ t.kind \notin {"create", "deleted"}
    /\ tasks' = tasks \ {t}
    /\ orphans' = orphans \cup t.addr
    /\ UNCHANGED <<services, alloc, w, fresh, cloud, leader, faults>>

-----------------------------------------------------------------------------
(* serviceChanged, EnsureEphemeralAllocation and createEphemeralAllocation *)

(* serviceChanged: reconcile the allocation, or create it if there is none. *)
LookupAllocation(g) ==
    LET s == w[g].s IN
    /\ At(g, "lookup")
    /\ \/ /\ alloc[s] # NoObject /\ NoFault
          /\ Set(g, [w[g] EXCEPT !.pc = "reconcile", !.obj = alloc[s], !.lb = svc[s] = "lb",
                                 !.ing = ingress[s]])
          /\ fresh' = fresh \cup {g}
       \/ /\ alloc[s] = NoObject /\ svc[s] = "lb" /\ NoFault
          /\ Goto(g, "find")
          /\ UNCHANGED fresh
       \/ /\ (alloc[s] = NoObject /\ svc[s] # "lb" /\ NoFault) \/ Fault
          /\ End(g)
    /\ UNCHANGED <<services, alloc, tasks, money, leader>>

FindAllocation(g) ==
    /\ At(g, "find")
    /\ \/ /\ alloc[w[g].s] = NoObject /\ NoFault
          /\ Goto(g, "build")
          /\ UNCHANGED fresh
       \/ /\ (alloc[w[g].s] # NoObject /\ NoFault) \/ Fault
          /\ End(g)
    /\ UNCHANGED <<services, alloc, tasks, money, leader>>

(* buildAllocations: without a pool there is no entry; without a node, or    *)
(* when buying fails, the entry has no address.                              *)
BuildAllocations(g) ==
    /\ At(g, "build")
    /\ \E entry \in {"none", "noNode", "node"}, got \in SUBSET Addresses :
          /\ \/ pool # "listed" /\ entry = "none" /\ got = {} /\ UNCHANGED money /\ NoFault
             \/ pool = "listed" /\ Buy(entry, got)
          /\ Set(g, [w[g] EXCEPT !.pc = "create", !.got = got,
                                 !.obj = [Blank EXCEPT !.entry = entry, !.addr = got],
                                 !.result = IF got = {} THEN "error" ELSE "pending"])
    /\ UNCHANGED <<services, alloc, tasks, fresh, leader>>

(* Mutant: the address is given back to the cloud although the object may    *)
(* have been created.                                                        *)
CreateAllocationOrRefund(g) ==
    LET r == w[g] IN
    /\ At(g, "create")
    /\ \/ /\ alloc[r.s] = NoObject
          /\ Write(r.s, r.obj, {g})
          /\ \/ Set(g, [r EXCEPT !.pc = "setStatus", !.got = {}]) /\ NoFault /\ UNCHANGED cloud
             \/ Set(g, Idle) /\ Fault /\ cloud' = cloud \ r.got
       \/ /\ (alloc[r.s] # NoObject /\ NoFault) \/ Fault
          /\ Set(g, Idle)
          /\ cloud' = cloud \ r.got
          /\ fresh' = fresh \ {g}
          /\ UNCHANGED <<alloc, tasks>>
    /\ UNCHANGED <<services, orphans, leader>>

(* The address is not given back when Create fails; it may have succeeded    *)
(* although it reports an error.                                             *)
CreateAllocation(g) ==
    LET r == w[g] IN
    /\ At(g, "create")
    /\ \/ /\ alloc[r.s] = NoObject
          /\ \/ Set(g, [r EXCEPT !.pc = "setStatus", !.got = {}]) /\ Write(r.s, r.obj, {g}) /\ NoFault
             \/ Set(g, Idle) /\ Write(r.s, r.obj, {}) /\ Fault
          /\ UNCHANGED orphans
       \/ /\ (alloc[r.s] # NoObject /\ NoFault) \/ Fault
          /\ Set(g, Idle)
          /\ fresh' = fresh \ {g}
          /\ orphans' = orphans \cup r.got
          /\ UNCHANGED <<alloc, tasks>>
    /\ UNCHANGED <<services, cloud, leader>>

SetStatus(g) ==
    /\ At(g, "setStatus")
    /\ \/ WriteStatus(g) /\ Leave(g)
       \/ WriteFails(g) /\ End(g) /\ UNCHANGED <<alloc, tasks>>
    /\ UNCHANGED <<services, money, leader>>

-----------------------------------------------------------------------------
(* The handlers for a state, and the end of the retry loop *)

Get(g) ==
    LET r == w[g]
        s == r.s IN
    /\ At(g, "get")
    /\ \/ /\ (alloc[s] = NoObject /\ NoFault) \/ Fault
          /\ \E l \in IF r.kind = "error" THEN {"get", "getFailed"} ELSE {"idle"} :
                Set(g, IF l = "idle" THEN Idle ELSE [r EXCEPT !.pc = l])
          /\ fresh' = fresh \ {g}
       \/ /\ alloc[s] # NoObject /\ NoFault
          /\ alloc[s].state # r.kind
          /\ Set(g, Idle)
          /\ fresh' = fresh \ {g}
       \/ /\ alloc[s] # NoObject /\ NoFault
          /\ alloc[s].state = r.kind
          /\ Set(g, [r EXCEPT !.obj = alloc[s], !.result = "error",
                              !.pc = CASE r.kind = "pending" -> "ensureFind"
                                       [] r.kind = "node_error" -> "changeNode"
                                       [] OTHER -> "findService"])
          /\ fresh' = fresh \cup {g}
    /\ UNCHANGED <<services, alloc, tasks, money, leader>>

GetFailed(g) ==
    LET s == w[g].s IN
    /\ At(g, "getFailed")
    /\ \/ /\ (alloc[s] = NoObject /\ NoFault) \/ Fault
          /\ Set(g, Idle)
          /\ fresh' = fresh \ {g}
       \/ /\ alloc[s] # NoObject /\ NoFault
          /\ Set(g, [w[g] EXCEPT !.kind = "create", !.obj = alloc[s], !.pc = "setStatus",
                                 !.result = "failed"])
          /\ fresh' = fresh \cup {g}
    /\ UNCHANGED <<services, alloc, tasks, money, leader>>

FindService(g) ==
    LET s == w[g].s IN
    /\ At(g, "findService")
    /\ \/ /\ svc[s] = "none"
          /\ End(g)
       \/ /\ svc[s] # "none"
          /\ Set(g, [w[g] EXCEPT !.pc = "reconcile", !.lb = svc[s] = "lb", !.ing = ingress[s]])
          /\ UNCHANGED fresh
    /\ UNCHANGED <<services, alloc, tasks, money, leader, faults>>

(* reconcileEphemeralAllocation: the ingress is empty, or that of the        *)
(* allocation.                                                               *)
InSync(r) == r.ing = {} \/ (r.obj.entry # "none" /\ r.ing = r.obj.addr)

(* ReconcileAllocation.  An allocation out of sync is deleted; so is that of *)
(* a service that is no LoadBalancer any more, after its ingress is emptied. *)
Reconcile(g) ==
    LET r == w[g] IN
    /\ At(g, "reconcile")
    /\ \/ /\ r.lb /\ NoFault
          /\ Goto(g, IF InSync(r) THEN "patch" ELSE "deleteOther")
          /\ UNCHANGED <<services, tasks, fresh>>
       \/ /\ ~r.lb /\ svc[r.s] # "none" /\ NoFault
          /\ SetIngress(r.s, {})
          /\ Goto(g, "deleteOther")
          /\ UNCHANGED fresh
       \/ /\ ~r.lb
          /\ (svc[r.s] = "none" /\ NoFault) \/ Fault
          /\ End(g)
          /\ UNCHANGED <<services, tasks>>
    /\ UNCHANGED <<alloc, money, leader>>

(* DeleteAllocationByName; the result is (nil, nil), which the retry loop    *)
(* dereferences.                                                             *)
ReconcileDelete(g) ==
    LET s == w[g].s IN
    /\ At(g, "deleteOther")
    /\ \/ /\ w[g].kind # "error" /\ NoFault
          /\ DeleteAllocationByName(s)
          /\ fresh' = fresh \ Copies(s)
          /\ Leave(g)
          /\ UNCHANGED <<services, money, leader>>
       \/ /\ w[g].kind = "error" /\ NoFault
          /\ alloc' = [alloc EXCEPT ![s] = NoObject]
          /\ Die(IF alloc[s] = NoObject THEN {} ELSE alloc[s].addr)
       \/ /\ Fault
          /\ End(g)
          /\ UNCHANGED <<services, alloc, tasks, money, leader>>

(* CheckAndPatchAllocation: Allocations[0] panics when there is no entry. *)
PatchBlank(g) ==
    /\ At(g, "patch")
    /\ w[g].obj.entry = "none"
    /\ IF pool = "listed" THEN Die({}) /\ UNCHANGED <<alloc, faults>>
       ELSE End(g) /\ UNCHANGED <<services, alloc, tasks, money, leader, faults>>

(* An entry without a node gets one, which is an update.  An entry that does *)
(* not change is ensured by the handlers that do so.                         *)
PatchNode(g) ==
    LET r == w[g] IN
    /\ At(g, "patch")
    /\ r.obj.entry # "none" /\ r.obj.addr # {}
    /\ \/ /\ pool = "listed" /\ r.obj.entry = "noNode" /\ NoFault
          /\ Set(g, [r EXCEPT !.pc = "update", !.obj.entry = "node", !.result = "pending"])
          /\ UNCHANGED fresh
       \/ /\ pool = "listed" /\ r.obj.entry = "node" /\ r.kind # "changed" /\ NoFault
          /\ Goto(g, "ensureFind")
          /\ UNCHANGED fresh
       \/ /\ \/ (pool # "listed" \/ (r.obj.entry = "node" /\ r.kind = "changed")) /\ NoFault
             \/ r.obj.entry = "noNode" /\ Fault
          /\ End(g)
    /\ UNCHANGED <<services, alloc, tasks, money, leader>>

(* An entry without an address gets one bought, and the status error all the *)
(* same.                                                                     *)
PatchAddress(g) ==
    LET r == w[g] IN
    /\ At(g, "patch")
    /\ r.obj.entry # "none" /\ r.obj.addr = {}
    /\ \/ /\ pool = "listed"
          /\ \E entry \in {"noNode", "node"}, got \in SUBSET Addresses :
                /\ r.obj.entry = "node" => entry = "node"
                /\ Buy(entry, got)
                /\ IF got = {} THEN End(g)
                   ELSE /\ Set(g, [r EXCEPT !.pc = "update", !.obj.entry = entry, !.obj.addr = got,
                                            !.got = got, !.result = "error"])
                        /\ UNCHANGED fresh
       \/ /\ pool # "listed" /\ NoFault
          /\ End(g)
          /\ UNCHANGED money
    /\ UNCHANGED <<services, alloc, tasks, leader>>

(* UpdateAllocation; the bought address is not given back when it fails. *)
UpdateAllocation(g) ==
    LET r == w[g]
        obj == [alloc[r.s] EXCEPT !.entry = r.obj.entry, !.addr = r.obj.addr] IN
    /\ At(g, "update")
    /\ \/ /\ g \in fresh
          /\ \/ Set(g, [r EXCEPT !.pc = "setStatus", !.got = {}]) /\ Write(r.s, obj, {g}) /\ NoFault
             \/ Leave(g) /\ Write(r.s, obj, {}) /\ Fault
          /\ UNCHANGED orphans
       \/ /\ WriteFails(g)
          /\ End(g)
          /\ orphans' = orphans \cup r.got
          /\ UNCHANGED <<alloc, tasks>>
    /\ UNCHANGED <<services, cloud, leader>>

-----------------------------------------------------------------------------
(* EnsureIPAllocation *)

EnsureFindService(g) ==
    /\ At(g, "ensureFind")
    /\ Goto(g, IF svc[w[g].s] = "lb" THEN "place" ELSE "deleteAlloc")
    /\ UNCHANGED <<services, alloc, tasks, fresh, money, leader, faults>>

(* The service is gone: for serviceDeleted as well. *)
DeleteAllocation(g) ==
    /\ At(g, "deleteAlloc")
    /\ \/ DeleteAllocationByName(w[g].s) /\ Leave(g) /\ fresh' = fresh \ Copies(w[g].s) /\ NoFault
       \/ End(g) /\ UNCHANGED <<alloc, tasks>> /\ Fault
    /\ UNCHANGED <<services, money, leader>>

(* ephemeralips.AllocateAddress: the pool must be in the store and the       *)
(* address in the cloud; the node may be unreachable.                        *)
Allocatable(addr) == pool = "listed" /\ addr # {} /\ addr \subseteq cloud

AllocateAddress(g) ==
    LET r == w[g] IN
    /\ At(g, "place")
    /\ \/ /\ Allocatable(r.obj.addr) /\ NoFault
          /\ Set(g, [r EXCEPT !.pc = "setSuccess", !.result = "success"])
       \/ /\ ~Allocatable(r.obj.addr) /\ NoFault
          /\ Set(g, [r EXCEPT !.pc = "setStatus", !.result = "error"])
       \/ /\ Fault
          /\ \E res \in {"error", "node_error"} : Set(g, [r EXCEPT !.pc = "setStatus", !.result = res])
    /\ UNCHANGED <<services, alloc, tasks, fresh, money, leader>>

(* The status comes first, the ingress of the service last. *)
SetAllocationStatusSuccess(g) ==
    /\ At(g, "setSuccess")
    /\ \/ WriteStatus(g) /\ Goto(g, "ingress")
       \/ WriteFails(g) /\ End(g) /\ UNCHANGED <<alloc, tasks>>
    /\ UNCHANGED <<services, money, leader>>

(* UpdateServiceIngressWithIps; without a service the allocation is deleted. *)
UpdateServiceIngressWithIps(g) ==
    LET s == w[g].s IN
    /\ At(g, "ingress")
    /\ \/ /\ svc[s] # "none" /\ NoFault
          /\ SetIngress(s, w[g].obj.addr)
          /\ End(g)
       \/ /\ svc[s] = "none" /\ NoFault
          /\ Goto(g, "deleteAlloc")
          /\ UNCHANGED <<services, tasks, fresh>>
       \/ /\ Fault
          /\ End(g)
          /\ UNCHANGED <<services, tasks>>
    /\ UNCHANGED <<alloc, money, leader>>

(* ChangeAllocationNode: another node, if there is one, and in any case an   *)
(* update; when it fails, the status of a nil allocation is set.             *)
ChangeAllocationNode(g) ==
    LET r == w[g]
        To(entry, res) ==
            /\ Write(r.s, [alloc[r.s] EXCEPT !.entry = entry], {g})
            /\ Set(g, [r EXCEPT !.pc = "setStatus", !.result = res]) IN
    /\ At(g, "changeNode")
    /\ \/ /\ g \in fresh
          /\ \/ pool = "listed" /\ To("node", "pending") /\ NoFault
             \/ pool = "listed" /\ To("noNode", "error") /\ Fault
             \/ pool # "listed" /\ To(r.obj.entry, "error") /\ NoFault
          /\ UNCHANGED <<services, money, leader>>
       \/ WriteFails(g) /\ Die({}) /\ UNCHANGED alloc

-----------------------------------------------------------------------------
(* allocationDeleted *)

(* DeallocateAddress: an error is logged, and nothing is done when the pool  *)
(* is not in the store.                                                      *)
DeallocateAddress(g) ==
    /\ At(g, "dealloc")
    /\ \/ /\ pool = "listed" /\ NoFault
          /\ cloud' = cloud \ w[g].got
          /\ UNCHANGED orphans
       \/ /\ (pool # "listed" /\ NoFault) \/ Fault
          /\ orphans' = orphans \cup w[g].got
          /\ UNCHANGED cloud
    /\ Set(g, [w[g] EXCEPT !.pc = "removeIngress", !.got = {}])
    /\ UNCHANGED <<services, alloc, tasks, fresh, leader>>

(* RemoveServiceIngressIPs; its error is ignored. *)
RemoveServiceIngressIPs(g) ==
    LET s == w[g].s IN
    /\ At(g, "removeIngress")
    /\ \/ svc[s] # "none" /\ SetIngress(s, {}) /\ NoFault
       \/ ((svc[s] = "none" /\ NoFault) \/ Fault) /\ UNCHANGED <<services, tasks>>
    /\ Goto(g, "recreate")
    /\ UNCHANGED <<alloc, fresh, money, leader>>

(* The service still is there: its allocation is created again. *)
Recreate(g) ==
    /\ At(g, "recreate")
    /\ IF svc[w[g].s] = "lb" THEN Goto(g, "find") /\ UNCHANGED fresh ELSE End(g)
    /\ UNCHANGED <<services, alloc, tasks, money, leader, faults>>

-----------------------------------------------------------------------------
(* Users, nodes, the pool, crash and restart of the leader *)

OutsideEvent == changes < MaxChanges /\ changes' = changes + 1

(* A user creates or deletes a service, or changes its type. *)
ServiceEvent(s, old, new, kind) ==
    /\ OutsideEvent
    /\ svc[s] \in old
    /\ svc' = [svc EXCEPT ![s] = new]
    /\ ingress' = IF new = "none" THEN [ingress EXCEPT ![s] = {}] ELSE ingress
    /\ tasks' = IF up THEN tasks \cup Event(kind, s) ELSE tasks
    /\ UNCHANGED <<alloc, w, fresh, money, pool, removing, up, faults, restarts>>

ServiceAdded(s) == ServiceEvent(s, {"none"}, "lb", "create")
ServiceDeleted(s) == ServiceEvent(s, {"lb"}, "none", "deleted")
TypeChanged(s) ==
    \/ ServiceEvent(s, {"lb"}, "other", "changed")
    \/ ServiceEvent(s, {"other"}, "lb", "changed")

HasEntry(s) == alloc[s] # NoObject /\ alloc[s].entry # "none"

(* operatorNodeLost for an allocation on that node: no lock, the store's copy. *)
OperatorNodeLost(s) ==
    /\ OutsideEvent
    /\ up
    /\ HasEntry(s) /\ alloc[s].entry = "node"
    /\ Write(s, [alloc[s] EXCEPT !.state = "node_error"], {})
    /\ UNCHANGED <<services, w, money, pool, removing, up, faults, restarts>>

(* A user creates the pool, or deletes it: ephemeralPoolRemoved starts. *)
PoolChanged ==
    /\ OutsideEvent
    /\ up
    /\ \/ pool = "absent" /\ pool' = "unlisted" /\ UNCHANGED removing
       \/ pool = "listed" /\ pool' = "absent" /\ removing' = Services
    /\ UNCHANGED <<services, alloc, tasks, w, fresh, money, up, faults, restarts>>

(* The pools informer delivers the pool. *)
PoolListed ==
    /\ up
    /\ pool = "unlisted" /\ pool' = "listed"
    /\ UNCHANGED <<services, alloc, tasks, w, fresh, money, removing, up, changes, faults, restarts>>

(* deallocateAddressesOfPool, one allocation: RemoveAddressFromAllocation    *)
(* takes the entry out, and does not delete its address in the cloud.        *)
DeallocateAddressesOfPool(s) ==
    /\ s \in removing
    /\ removing' = removing \ {s}
    /\ \/ /\ HasEntry(s) /\ NoFault
          /\ Write(s, [Blank EXCEPT !.state = "address_deleted_from_pool"], {})
          /\ orphans' = orphans \cup alloc[s].addr
       \/ /\ (~HasEntry(s) /\ NoFault) \/ Fault
          /\ UNCHANGED <<alloc, tasks, fresh, orphans>>
    /\ UNCHANGED <<services, w, cloud, pool, up, changes, restarts>>

Crash ==
    /\ up /\ restarts < MaxRestarts
    /\ Die({})
    /\ UNCHANGED <<alloc, faults>>

(* A new leader: the informers deliver all the objects there are. *)
Restart ==
    /\ ~up /\ restarts < MaxRestarts
    /\ up' = TRUE
    /\ restarts' = restarts + 1
    /\ tasks' = (UNION {Event("create", s) : s \in {t \in Services : svc[t] = "lb"}})
                \cup (UNION {EventTasks(s, alloc[s].state) :
                               s \in {t \in Services : alloc[t] # NoObject}})
    /\ UNCHANGED <<services, alloc, w, fresh, money, pool, removing, changes, faults>>

-----------------------------------------------------------------------------
Create(g) == LookupAllocation(g) \/ FindAllocation(g) \/ BuildAllocations(g) \/ CreateAllocation(g)

Reconciler(g) ==
    \/ Get(g) \/ GetFailed(g) \/ FindService(g) \/ Reconcile(g) \/ ReconcileDelete(g)
    \/ PatchBlank(g) \/ PatchNode(g) \/ PatchAddress(g) \/ UpdateAllocation(g)

Allocator(g) ==
    \/ EnsureFindService(g) \/ DeleteAllocation(g) \/ AllocateAddress(g) \/ SetStatus(g)
    \/ SetAllocationStatusSuccess(g) \/ UpdateServiceIngressWithIps(g) \/ ChangeAllocationNode(g)

Deallocator(g) == DeallocateAddress(g) \/ RemoveServiceIngressIPs(g) \/ Recreate(g)

Environment ==
    \/ \E s \in Services : \/ ServiceAdded(s) \/ ServiceDeleted(s) \/ TypeChanged(s)
                          \/ OperatorNodeLost(s)
    \/ PoolChanged \/ Crash

Controller ==
    \/ \E g \in Goroutines : Create(g) \/ Reconciler(g) \/ Allocator(g) \/ Deallocator(g)
    \/ \E t \in tasks : LockTimeout(t) \/ \E g \in Goroutines : Start(g, t)
    \/ \E s \in Services : DeallocateAddressesOfPool(s)
    \/ PoolListed \/ Restart

Next == Environment \/ Controller

Spec == Init /\ [][Next]_vars

-----------------------------------------------------------------------------
Objects == {s \in Services : alloc[s] # NoObject}

(* Every floating IP that is paid for is in an allocation, in the hands of a *)
(* goroutine, or owed by a deletion that is not handled yet.  The exceptions *)
(* are the addresses given up where a call failed, a lock was not had in     *)
(* time, the leader died, or the pool was gone: there is no other leak.      *)
BoughtIsAccountedFor ==
    \A a \in cloud :
        \/ a \in orphans
        \/ \E s \in Objects : a \in alloc[s].addr
        \/ \E g \in Goroutines : a \in w[g].got
        \/ \E t \in tasks : a \in t.addr

(* An allocation never has an address that was given back to the cloud, or   *)
(* given up: whatever is deleted, patched or created again in whatever order,*)
(* the address of a live allocation was bought for it alone.                 *)
AllocationOwnsAddress ==
    \A s \in Objects :
        /\ alloc[s].addr \subseteq cloud \ orphans
        /\ \A t \in Objects : s # t => alloc[s].addr \cap alloc[t].addr = {}
        /\ \A g \in Goroutines : alloc[s].addr \cap w[g].got = {}
        /\ \A t \in tasks : alloc[s].addr \cap t.addr = {}
=============================================================================
