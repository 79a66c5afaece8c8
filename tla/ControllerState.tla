--------------------------- MODULE ControllerState ---------------------------
(***************************************************************************)
(* The state of the PlenusLB controller for persistent IPs, and the        *)
(* operations on it that the handlers in PersistentIPs are made of: the    *)
(* table of free addresses (persistentips/poolsManager.go), the calls to   *)
(* the API server (ipallocations/manager.go) and the local state of the    *)
(* handler goroutines.                                                     *)
(*                                                                         *)
(* The API server checks resourceVersion on updates: fresh is the set of   *)
(* threads whose copy of the object still is the stored one.               *)
(***************************************************************************)
EXTENDS Naturals, FiniteSets

CONSTANTS
    Services,       \* names of services, and of their IPAllocations
    Addresses,      \* IP addresses
    Pools,          \* names of PersistentIPPools
    PoolAddresses,  \* [Pools -> SUBSET Addresses], spec.addresses
    Allowed,        \* [Services -> SUBSET Pools]: the pools whose
                    \* allowedNamespaces admit the service's namespace
    CloudPools,     \* the pools with a cloudIntegration
    ExternalIPs,    \* [Services -> SUBSET (SUBSET Addresses)]: the values a
                    \* user may give to spec.externalIPs
    Goroutines,     \* bound: handler goroutines running at the same time
    Informer,       \* the thread of the services informer
    NoObject,       \* "not found"
    TypeChanges,    \* may a user turn a LoadBalancer into another type?
    Faults,         \* may an API call fail, or no node be found?
    PoolUpdates,    \* may a user touch a pool without changing its spec?
    MaxChanges,     \* bound: changes of services, and losses of nodes
    MaxRestarts     \* bound: crashes of the leader

ASSUME PoolAssumption ==
    /\ PoolAddresses \in [Pools -> SUBSET Addresses]
    /\ \A p, q \in Pools : p # q => PoolAddresses[p] \cap PoolAddresses[q] = {}
    /\ Allowed \in [Services -> SUBSET Pools]
    /\ CloudPools \subseteq Pools
ASSUME ServiceAssumption ==
    /\ Services # {}
    /\ ExternalIPs \in [Services -> SUBSET ((SUBSET Addresses) \ {{}})]
ASSUME ThreadAssumption == Informer \notin Goroutines
ASSUME EnvironmentAssumption ==
    /\ TypeChanges \in BOOLEAN
    /\ Faults \in BOOLEAN
    /\ PoolUpdates \in BOOLEAN
    /\ MaxChanges \in Nat
    /\ MaxRestarts \in Nat

Threads == Goroutines \cup {Informer}

VARIABLES
    svc,                \* the services the informer knows
    alloc,              \* the IPAllocation objects in the API server
    tasks,              \* goroutines spawned and not yet run
    w,                  \* the local state of each thread
    fresh,              \* threads whose copy has the current resourceVersion
    lockedObjects,      \* allocationsLock
    errorAllocations,   \* allocationsLock: allocations in the retry loop
    avail,              \* availablesPools: free addresses by pool; the code
                        \* drops an entry when it becomes empty
    cloud,              \* addresses the cloud routes to a server (external)
    poolEvents,         \* <<"added", p>>: the pools informer has p to deliver,
                        \* <<"modified", p>>: p is in the queue of changed pools
    up,                 \* is a leader running?
    changes,            \* changes of services and losses of nodes so far
    restarts            \* leaders after the first one

vars == <<svc, alloc, tasks, w, fresh, lockedObjects, errorAllocations, avail,
          cloud, poolEvents, up, changes, restarts>>

api == <<alloc, tasks, fresh>>

tables == <<lockedObjects, errorAllocations>>

(* What a thread never writes. *)
environment == <<svc, poolEvents, up, changes, restarts>>

-----------------------------------------------------------------------------
States == {"", "pending", "success", "error", "node_error", "failed"}

(* States whose Add and Update events spawn a goroutine. *)
Handled == {"pending", "success", "error", "node_error"}

Service == [lb : BOOLEAN, ips : SUBSET Addresses]
IPAllocation == [ips : SUBSET Addresses, state : States]

ASSUME NoObjectAssumption == NoObject \notin Service \cup IPAllocation

Kinds == Handled \cup {"create", "delete", "reconcile", "changed", "deleted", "exhausted"}

(* The kinds of goroutine that hold the lock of the allocation. *)
Lockers == Handled \cup {"delete", "changed"}

Task == [kind : Handled \cup {"create", "delete"}, s : Services, ips : SUBSET Addresses]

Locations ==
    {"idle", "find", "build", "create", "rollback", "isProcessing", "addProcessing",
     "isLocked", "addToLock", "get", "findService", "reconcile", "release",
     "patch", "update", "setPatchStatus", "cleanup", "cleanupCloud", "ensureFind",
     "ensure", "place", "setStatus", "deleteAlloc", "changeNode", "dealloc",
     "deallocCloud", "recreate", "lookup", "spawn", "return", "giveUp", "getFailed"}

Thread ==
    [kind : Kinds, pc : Locations, s : Services,
     want : SUBSET Addresses,   \* service copy: spec.externalIPs
     lb : BOOLEAN,              \* service copy: is it a LoadBalancer?
     ips : SUBSET Addresses,    \* allocation copy: spec.allocations
     state : States,            \* allocation copy: status.state
     todo : SUBSET Addresses,   \* addresses the running loop has left
     cur : SUBSET Addresses,    \* the address between two calls, if any
     got : SUBSET Addresses,    \* addresses in the thread's hands: out of the
                                \* pools and not (or no longer) in the object
     result : States]           \* status.state the thread is going to write

Idle == [kind |-> "create", pc |-> "idle", s |-> CHOOSE s \in Services : TRUE,
         want |-> {}, lb |-> TRUE, ips |-> {}, state |-> "", todo |-> {},
         cur |-> {}, got |-> {}, result |-> ""]

TypeOK ==
    /\ svc \in [Services -> Service \cup {NoObject}]
    /\ alloc \in [Services -> IPAllocation \cup {NoObject}]
    /\ tasks \subseteq Task
    /\ w \in [Threads -> Thread]
    /\ fresh \subseteq Threads
    /\ lockedObjects \subseteq Services
    /\ errorAllocations \subseteq Services
    /\ avail \in [Pools -> SUBSET Addresses]
    /\ cloud \subseteq Addresses
    /\ poolEvents \subseteq {"added", "modified"} \X Pools
    /\ up \in BOOLEAN
    /\ changes \in 0 .. MaxChanges
    /\ restarts \in 0 .. MaxRestarts

Init ==
    /\ svc = [s \in Services |-> NoObject]
    /\ alloc = [s \in Services |-> NoObject]
    /\ tasks = {}
    /\ w = [g \in Threads |-> Idle]
    /\ fresh = {}
    /\ lockedObjects = {}
    /\ errorAllocations = {}
    /\ avail = PoolAddresses
    /\ cloud = {}
    /\ poolEvents = {}
    /\ up = TRUE
    /\ changes = 0
    /\ restarts = 0

-----------------------------------------------------------------------------
(* poolsManager.go *)

(* The addresses of the pools that admit the namespace of s. *)
Admitted(s) == {a \in Addresses : \E p \in Allowed[s] : a \in PoolAddresses[p]}

(* The pools in ippoolsStore: a new leader's is empty until its informer has *)
(* delivered them.                                                           *)
Listed == {p \in Pools : <<"added", p>> \notin poolEvents}

(* SearchPoolByName finds the pool of the address. *)
Known == UNION {PoolAddresses[p] : p \in Listed}

(* GetPoolOfAddress finds a pool for the namespace of s. *)
Usable(s) == {a \in Admitted(s) : \E p \in Allowed[s] \cap Listed : a \in PoolAddresses[p]}

(* Mutant: the namespaces a pool admits are not looked at. *)
CanUseIPOfAnyPool(s, a) == \E p \in Pools : a \in avail[p]

(* getAvailabilityPoolOfAddress finds a pool for the namespace of s. *)
CanUseIP(s, a) == \E p \in Allowed[s] : a \in avail[p]

UseIP(s, a) ==
    avail' = [p \in Pools |-> IF p \in Allowed[s] THEN avail[p] \ {a} ELSE avail[p]]

(* Pools are disjoint, so the pool an allocation names is the one that       *)
(* GetPoolOfAddress finds.  Releasing a free address changes nothing.        *)
ReleaseIP(s, a) ==
    avail' = [p \in Pools |-> IF p \in Allowed[s] \cap Listed /\ a \in PoolAddresses[p]
                              THEN avail[p] \cup {a} ELSE avail[p]]

EnsureAddressIsNotAvailable(a) ==
    avail' = [p \in Pools |-> IF a \in PoolAddresses[p] THEN avail[p] \ {a} ELSE avail[p]]

Allocated == UNION {alloc[s].ips : s \in {t \in Services : alloc[t] # NoObject}}

(* addOrReplaceAvailabilityPool: the entry of the pool is replaced, unless    *)
(* there is no free address, in which case the entry stays.                  *)
AddOrReplaceAvailability(p, free) ==
    avail' = [avail EXCEPT ![p] = IF free # {} THEN free ELSE avail[p]]

(* warmupIPPoolsCacheOrDie offers the listed pools to the store by value,     *)
(* which it does not take (and warmupIPAvailabilityOrDie looks for pointers), *)
(* so that the loop over the store does nothing: no pool is warmed up.        *)
WarmupIPAvailability == UNCHANGED avail

-----------------------------------------------------------------------------
(* Nodes and the cloud *)

(* The address gets a node unless the nodes cannot be listed or there is     *)
(* none, which puts the allocation in error.                                 *)
AddOperatorNodeToAllocation(res) == {res} \cup (IF Faults THEN {"error"} ELSE {})

HasCloudIntegration(a) == \E p \in CloudPools : a \in PoolAddresses[p]

AssignIPToServer(addrs) == cloud' = cloud \cup {a \in addrs : HasCloudIntegration(a)}

(* Nothing is done for an address without a pool; an error is only logged. *)
UnassignIP(addrs) ==
    cloud' \in {cloud \ (addrs \cap Known)} \cup (IF Faults THEN {cloud} ELSE {})

-----------------------------------------------------------------------------
(* Threads and the API server (external) *)

Goto(g, l) == w' = [w EXCEPT ![g].pc = l]

(* Leave the handler; its deferred calls run in Return. *)
End(g) == Goto(g, "return")

At(g, l) == w[g].pc = l

(* Mutant: an object without a status is handled like the others. *)
EventTasksOfAnyState(s, state) == {[kind |-> state, s |-> s, ips |-> {}]}

(* allocationCreated and allocationsChanged: the goroutine for a state. *)
EventTasks(s, state) ==
    IF state \in Handled THEN {[kind |-> state, s |-> s, ips |-> {}]} ELSE {}

(* The threads with a copy of the allocation of s. *)
OtherCopies(s) == {h \in Threads : w[h].s = s}

(* A write that reaches the server; one that changes nothing is a no-op. *)
Write(g, obj) ==
    LET s == w[g].s IN
    /\ alloc' = [alloc EXCEPT ![s] = obj]
    /\ tasks' = tasks \cup EventTasks(s, obj.state)
    /\ fresh' = (fresh \ OtherCopies(s)) \cup {g}

Put(g, obj) ==
    IF obj = alloc[w[g].s] THEN UNCHANGED api ELSE Write(g, obj)

(* Mutant: the deletion event comes without the addresses of the object. *)
DeleteAllocationAndForget(s) ==
    IF alloc[s] = NoObject THEN UNCHANGED api
    ELSE /\ alloc' = [alloc EXCEPT ![s] = NoObject]
         /\ tasks' = tasks \cup {[kind |-> "delete", s |-> s, ips |-> {}]}
         /\ fresh' = fresh \ OtherCopies(s)

(* Delete by name: whatever the version, and fine when there is no object. *)
DeleteAllocationByName(s) ==
    IF alloc[s] = NoObject THEN UNCHANGED api
    ELSE /\ alloc' = [alloc EXCEPT ![s] = NoObject]
         /\ tasks' = tasks \cup {[kind |-> "delete", s |-> s, ips |-> alloc[s].ips]}
         /\ fresh' = fresh \ OtherCopies(s)

(* A write with a copy fails on a conflict, on a deleted object, or because *)
(* the server cannot be reached.                                            *)
WriteFails(g) == g \notin fresh \/ Faults

(* A panic or the death of the process: everything in memory is gone. *)
Die ==
    /\ up' = FALSE
    /\ tasks' = {}
    /\ w' = [g \in Threads |-> Idle]
    /\ fresh' = {}
    /\ lockedObjects' = {}
    /\ errorAllocations' = {}
    /\ avail' = [p \in Pools |-> {}]
    /\ poolEvents' = {"added"} \X Pools
=============================================================================
