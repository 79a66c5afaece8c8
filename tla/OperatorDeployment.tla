------------------------- MODULE OperatorDeployment -------------------------
(***************************************************************************)
(* The DaemonSet of the operators exists while some pool has the host      *)
(* network option.  Who creates and deletes it: the two pool informers     *)
(* (persistentips and ephemeralips/watcher.go), the four listeners of the  *)
(* pool channels (events, poolsController), and the pods informer when all *)
(* the operators are gone (operator/daemonset.go).  They share the flag    *)
(* `deployed' and the channel `stopWatch'; DeployOrDie holds a mutex, but  *)
(* Delete, IsDeployed and checkIfOperatorIsDeployedAndUpdatedOrDie do not. *)
(*                                                                         *)
(* The module also has the start of the leader (leader/election.go): the   *)
(* informers run before the listeners, which start when the stores have    *)
(* synced, and an informer blocks on a full channel.                       *)
(***************************************************************************)
EXTENDS Naturals, Sequences, FiniteSets

CONSTANTS
    NumNodes,       \* nodes of the cluster, one operator pod each
    ChanCapacity,   \* capacity of the channels of events, 100 in the code
    MaxChanges,     \* bound: changes of pools and by hand of the DaemonSet
    MaxFaults       \* bound: failed or timed out calls and deaths of the leader

(* The pods of the first list must fit in the channel: nobody receives from  *)
(* it before they are all handled.                                           *)
ASSUME CapacityAssumption ==
    NumNodes \in Nat /\ ChanCapacity \in Nat /\ NumNodes <= ChanCapacity
ASSUME BoundsAssumption == MaxChanges \in Nat /\ MaxFaults \in Nat

Kinds == {"persistent", "ephemeral"}        \* of pools, one pool of each
Operations == {"modified", "deleted"}

Channels == Kinds \X Operations

(* The goroutines: an informer per kind, a listener per channel, and the     *)
(* informer of the pods.                                                     *)
Informer(k) == <<k, "informer">>
PodsInformer == <<"pods", "informer">>

Informers == {Informer(k) : k \in Kinds} \cup {PodsInformer}
Threads == Informers \cup Channels

PoolStates == {"absent", "plain", "host"}

VARIABLES
    pools,      \* the pools of the API server
    poolWatch,  \* their changes that the informer has not handled yet
    store,      \* ippoolsStore
    chan,       \* the channels of modified and deleted pools
    phase,      \* OnStartedLeading: before operator.Init, before the stores
                \* have synced, and after that
    cold,       \* the informers that have not handled their first list
    deployed,
    stopWatch,  \* nil, or open, or closed
    pc,         \* where each goroutine is
    ds,         \* the DaemonSet: a deleted one stays until its pods are gone
    pods,       \* the number of its pods
    podWatch,   \* their changes that the informer has not handled yet
    operators,  \* the number of pods in operatorNodesStore
    newNodes,   \* the number of events in the channel newOperatorNode
    forgotten,  \* history: why a pool may be left without operators
    leftover,   \* history: why operators may be left without a pool
    changes, faults

poolVars == <<pools, poolWatch, store, chan>>
podVars == <<pods, podWatch, operators, newNodes>>
leader == <<phase, cold>>
history == <<forgotten, leftover>>
bounds == <<changes, faults>>

vars == <<poolVars, podVars, leader, deployed, stopWatch, pc, ds, history, bounds>>

TypeOK ==
    /\ pools \in [Kinds -> PoolStates] /\ store \in [Kinds -> PoolStates]
    /\ poolWatch \in [Kinds -> Seq(PoolStates)]
    /\ chan \in [Channels -> Seq({"plain", "host"})]
    /\ \A c \in Channels : Len(chan[c]) <= ChanCapacity
    /\ phase \in {"init", "sync", "ready"}
    /\ cold \subseteq Kinds \cup {"pods"}
    /\ deployed \in BOOLEAN /\ forgotten \in BOOLEAN /\ leftover \in BOOLEAN
    /\ stopWatch \in {"nil", "open", "closed"}
    /\ pc \in [Threads -> {"idle", "deploy", "create", "wait", "delete", "close", "get", "found"}]
    /\ ds \in {"none", "present", "deleting"}
    /\ pods \in 0 .. NumNodes /\ operators \in 0 .. NumNodes
    /\ podWatch \in Seq({"add", "delete"})
    /\ newNodes \in 0 .. ChanCapacity
    /\ changes \in 0 .. MaxChanges /\ faults \in 0 .. MaxFaults

Init ==
    /\ pools = [k \in Kinds |-> "absent"] /\ store = pools
    /\ poolWatch = [k \in Kinds |-> <<>>]
    /\ chan = [c \in Channels |-> <<>>]
    /\ phase = "init" /\ cold = {}
    /\ deployed = FALSE /\ stopWatch = "nil"
    /\ pc = [t \in Threads |-> "idle"]
    /\ ds = "none" /\ pods = 0 /\ podWatch = <<>> /\ operators = 0 /\ newNodes = 0
    /\ forgotten = FALSE /\ leftover = FALSE
    /\ changes = 0 /\ faults = 0

-----------------------------------------------------------------------------
Change == changes < MaxChanges /\ changes' = changes + 1 /\ UNCHANGED faults
Fault == faults < MaxFaults /\ faults' = faults + 1 /\ UNCHANGED changes
NoFault == UNCHANGED bounds

Goto(t, where) == pc' = [pc EXCEPT ![t] = where]

HasHostNetworkOption(table) == \E k \in Kinds : table[k] = "host"

(* Somebody has decided to delete the operators and has not reset the flag. *)
BeingDeleted == \E t \in Threads : pc[t] \in {"delete", "close"}

(* A pool that needs operators relies on a flag that is about to change. *)
Misled(needed) == forgotten' = (forgotten \/ (needed /\ deployed /\ BeingDeleted))

(* buildOperatorNodesWatcher and WhatchControllerNodes: the first list has   *)
(* every pod there is.                                                       *)
WatchPods ==
    /\ stopWatch' = "open"
    /\ podWatch' = [i \in 1 .. pods |-> "add"]
    /\ operators' = 0

-----------------------------------------------------------------------------
(* The environment *)

PoolChange(k, to) ==
    /\ Change
    /\ to # pools[k]
    /\ pools' = [pools EXCEPT ![k] = to]
    /\ poolWatch' = IF phase = "init" THEN poolWatch
                    ELSE [poolWatch EXCEPT ![k] = Append(@, to)]
    /\ UNCHANGED <<store, chan, podVars, leader, deployed, stopWatch, pc, ds, history>>

(* The informer hears of a pod that appears or disappears while it runs. *)
PodsBecome(n, event) ==
    /\ pods' = n
    /\ podWatch' = IF stopWatch = "open" THEN Append(podWatch, event) ELSE podWatch
    /\ UNCHANGED <<poolVars, operators, newNodes, leader, deployed, stopWatch, pc, ds,
                   history, bounds>>

PodStarts == ds = "present" /\ pods < NumNodes /\ PodsBecome(pods + 1, "add")
PodEnds == ds # "present" /\ pods > 0 /\ PodsBecome(pods - 1, "delete")

DaemonSetGone ==
    /\ ds = "deleting" /\ pods = 0
    /\ ds' = "none"
    /\ UNCHANGED <<poolVars, podVars, leader, deployed, stopWatch, pc, history, bounds>>

(* Somebody deletes the DaemonSet; its pods follow.  Without pods nothing    *)
(* tells the controller.                                                     *)
DeletedByHand ==
    /\ Change
    /\ ds = "present" /\ ds' = "none"
    /\ forgotten' = (forgotten \/ pods = 0)
    /\ UNCHANGED <<poolVars, podVars, leader, deployed, stopWatch, pc, leftover>>

-----------------------------------------------------------------------------
(* The leader *)

(* Everything in memory is gone. *)
Restart ==
    /\ phase' = "init" /\ cold' = {}
    /\ store' = [k \in Kinds |-> "absent"]
    /\ poolWatch' = [k \in Kinds |-> <<>>]
    /\ chan' = [c \in Channels |-> <<>>]
    /\ deployed' = FALSE /\ stopWatch' = "nil"
    /\ pc' = [t \in Threads |-> "idle"]
    /\ podWatch' = <<>> /\ operators' = 0 /\ newNodes' = 0
    /\ UNCHANGED <<pools, pods>>

Crash == Fault /\ Restart /\ UNCHANGED <<ds, history>>

(* operator.Init asks for the DaemonSet, and updates one that is out of date *)
(* (an error is fatal: Crash); then come persistentips and ephemeralips.Init *)
(* and the informers that list what there is.                                *)
OperatorInit ==
    /\ phase = "init" /\ phase' = "sync"
    /\ deployed' = (ds # "none")
    /\ IF ds # "none" THEN WatchPods ELSE UNCHANGED <<stopWatch, podWatch, operators>>
    /\ poolWatch' = [k \in Kinds |-> IF pools[k] = "absent" THEN <<>> ELSE <<pools[k]>>]
    /\ cold' = {k \in Kinds : pools[k] # "absent"}
               \cup (IF ds # "none" /\ pods > 0 THEN {"pods"} ELSE {})
    /\ forgotten' = (forgotten \/ ds = "deleting")
    /\ leftover' = (leftover \/ (ds # "none" /\ ~HasHostNetworkOption(pools)))
    /\ UNCHANGED <<pools, store, chan, pods, newNodes, pc, ds, bounds>>

(* WaitForCacheSync has returned: the listeners start.  HasSynced waits for  *)
(* the handler that runs.                                                    *)
StoresSynced ==
    /\ phase = "sync" /\ cold = {}
    /\ \A t \in Informers : pc[t] = "idle"
    /\ phase' = "ready"
    /\ UNCHANGED <<poolVars, podVars, cold, deployed, stopWatch, pc, ds, history, bounds>>

-----------------------------------------------------------------------------
(* The pools *)

(* addPool, modifyPool and removePool; the first acts, the others send. *)
PoolEvent(k) ==
    LET new == Head(poolWatch[k])
        c == <<k, IF new = "absent" THEN "deleted" ELSE "modified">> IN
    /\ phase # "init" /\ pc[Informer(k)] = "idle" /\ poolWatch[k] # <<>>
    /\ poolWatch' = [poolWatch EXCEPT ![k] = Tail(@)]
    /\ store' = [store EXCEPT ![k] = new]
    /\ cold' = cold \ {k}
    /\ IF store[k] = "absent"
       THEN /\ pc' = IF new = "host" /\ ~deployed THEN [pc EXCEPT ![Informer(k)] = "deploy"] ELSE pc
            /\ Misled(new = "host")
            /\ UNCHANGED chan
       ELSE /\ Len(chan[c]) < ChanCapacity
            /\ chan' = [chan EXCEPT ![c] = Append(@, IF new = "absent" THEN store[k] ELSE new)]
            /\ UNCHANGED <<pc, forgotten>>
    /\ UNCHANGED <<pools, podVars, phase, deployed, stopWatch, ds, leftover, bounds>>

(* Mutants: the other pools do not count; the end of a pool's need for       *)
(* operators is only noticed when the pool is removed.                       *)
PoolCallbackOfOnePool(c) ==
    LET needed == c[2] = "modified" /\ Head(chan[c]) = "host" IN
    /\ phase = "ready" /\ pc[c] = "idle" /\ chan[c] # <<>>
    /\ chan' = [chan EXCEPT ![c] = Tail(@)]
    /\ pc' = CASE needed /\ ~deployed -> [pc EXCEPT ![c] = "deploy"]
               [] ~needed /\ deployed -> [pc EXCEPT ![c] = "delete"]
               [] OTHER -> pc
    /\ Misled(needed)
    /\ UNCHANGED <<pools, poolWatch, store, podVars, leader, deployed, stopWatch, ds,
                   leftover, bounds>>

PoolCallbackOfRemoval(c) ==
    LET needed == HasHostNetworkOption(store) IN
    /\ phase = "ready" /\ pc[c] = "idle" /\ chan[c] # <<>>
    /\ chan' = [chan EXCEPT ![c] = Tail(@)]
    /\ pc' = CASE needed /\ ~deployed -> [pc EXCEPT ![c] = "deploy"]
               [] c[2] = "deleted" /\ ~needed /\ deployed -> [pc EXCEPT ![c] = "delete"]
               [] OTHER -> pc
    /\ Misled(needed)
    /\ UNCHANGED <<pools, poolWatch, store, podVars, leader, deployed, stopWatch, ds,
                   leftover, bounds>>

(* persistentPoolModified, persistentPoolRemoved and the two for ephemeral   *)
(* pools: the stores say whether operators are needed, the flag whether they *)
(* are there.  The removal of a pool without the option is passed over.      *)
PoolCallback(c) ==
    LET needed == HasHostNetworkOption(store)
        heard == c[2] = "modified" \/ Head(chan[c]) = "host" IN
    /\ phase = "ready" /\ pc[c] = "idle" /\ chan[c] # <<>>
    /\ chan' = [chan EXCEPT ![c] = Tail(@)]
    /\ pc' = CASE heard /\ needed /\ ~deployed -> [pc EXCEPT ![c] = "deploy"]
               [] heard /\ ~needed /\ deployed -> [pc EXCEPT ![c] = "delete"]
               [] OTHER -> pc
    /\ Misled(needed)
    /\ UNCHANGED <<pools, poolWatch, store, podVars, leader, deployed, stopWatch, ds,
                   leftover, bounds>>

-----------------------------------------------------------------------------
(* DeployOrDie; the mutex is held from "create" to the return. *)

LockDeploy(t) ==
    /\ pc[t] = "deploy"
    /\ \A u \in Threads : pc[u] \notin {"create", "wait"}
    /\ Goto(t, IF deployed THEN "idle" ELSE "create")
    /\ Misled(TRUE)
    /\ UNCHANGED <<poolVars, podVars, leader, deployed, stopWatch, ds, leftover, bounds>>

Create(t) ==
    /\ pc[t] = "create"
    /\ \/ /\ ds = "none" /\ NoFault
          /\ ds' = "present" /\ Goto(t, "wait")
          /\ UNCHANGED <<deployed, history>>
       \/ /\ IF ds = "none" THEN Fault ELSE NoFault
          /\ deployed' = FALSE /\ Goto(t, "idle")
          /\ forgotten' = TRUE
          /\ UNCHANGED <<ds, leftover>>
    /\ UNCHANGED <<poolVars, podVars, leader, stopWatch>>

(* ForResources: all the pods there are, none at first, are ready. *)
Deployed(t) ==
    /\ pc[t] = "wait"
    /\ deployed' = TRUE /\ Goto(t, "idle")
    /\ WatchPods
    /\ forgotten' = (ds # "present" \/ BeingDeleted)
    /\ leftover' = ~HasHostNetworkOption(store)
    /\ UNCHANGED <<poolVars, pods, newNodes, leader, ds, bounds>>

(* ForResources times out: the DaemonSet is deleted and the process dies. *)
DeployDies(t) ==
    /\ pc[t] = "wait"
    /\ Fault
    /\ ds' = IF ds = "present" THEN "deleting" ELSE ds
    /\ Restart
    /\ UNCHANGED history

-----------------------------------------------------------------------------
(* Delete *)

DeleteDaemonSet(t) ==
    /\ pc[t] = "delete"
    /\ \/ /\ ds # "none" /\ NoFault
          /\ ds' = "deleting" /\ Goto(t, "close")
          /\ leftover' = FALSE
       \/ /\ IF ds = "none" THEN NoFault /\ UNCHANGED leftover
                            ELSE Fault /\ leftover' = TRUE
          /\ Goto(t, "idle")
          /\ UNCHANGED ds
    /\ UNCHANGED <<poolVars, podVars, leader, deployed, stopWatch, forgotten>>

(* deployed is reset and stopWatch closed; to close it twice is a panic. *)
CloseStopWatch(t) ==
    /\ pc[t] = "close"
    /\ IF stopWatch = "open"
       THEN /\ stopWatch' = "closed" /\ deployed' = FALSE
            /\ Goto(t, "idle")
            /\ podWatch' = <<>>
            /\ cold' = cold \ {"pods"}
            /\ UNCHANGED <<poolVars, pods, operators, newNodes, phase>>
       ELSE Restart
    /\ leftover' = (leftover \/ ds = "present")
    /\ UNCHANGED <<ds, forgotten, bounds>>

-----------------------------------------------------------------------------
(* The pods *)

(* newOperatorNode sends, if there is room in the channel; operatorNodeLost  *)
(* sends and looks whether any operator is left (its channel is that of      *)
(* module NodeFailover).                                                     *)
PodEventWithRoom(room) ==
    LET n == IF Head(podWatch) = "add" THEN operators + 1 ELSE operators - 1 IN
    /\ pc[PodsInformer] = "idle" /\ podWatch # <<>>
    /\ podWatch' = Tail(podWatch)
    /\ operators' = n
    /\ cold' = IF podWatch' = <<>> THEN cold \ {"pods"} ELSE cold
    /\ IF Head(podWatch) = "add"
       THEN room /\ newNodes' = newNodes + 1 /\ UNCHANGED pc
       ELSE /\ pc' = IF n = 0 /\ deployed THEN [pc EXCEPT ![PodsInformer] = "get"] ELSE pc
            /\ UNCHANGED newNodes
    /\ UNCHANGED <<poolVars, pods, phase, deployed, stopWatch, ds, history, bounds>>

(* Mutants: a channel without a limit, and one that blocks an event early. *)
PodEventUnlimited == PodEventWithRoom(TRUE)
PodEventBlockedEarly == PodEventWithRoom(newNodes + 1 < ChanCapacity)

PodEvent == PodEventWithRoom(newNodes < ChanCapacity)

(* ListenNewOperatorNodeChan *)
ReceiveNewNode ==
    /\ phase = "ready" /\ newNodes > 0
    /\ newNodes' = newNodes - 1
    /\ UNCHANGED <<poolVars, pods, podWatch, operators, leader, deployed, stopWatch, pc, ds,
                   history, bounds>>

(* checkIfOperatorIsDeployedAndUpdatedOrDie: is there a DaemonSet? *)
GetDaemonSet ==
    /\ pc[PodsInformer] = "get"
    /\ IF ds = "none" THEN deployed' = FALSE /\ Goto(PodsInformer, "deploy")
                      ELSE Goto(PodsInformer, "found") /\ UNCHANGED deployed
    /\ UNCHANGED <<poolVars, podVars, leader, stopWatch, ds, history, bounds>>

Found ==
    /\ pc[PodsInformer] = "found"
    /\ deployed' = TRUE /\ Goto(PodsInformer, "idle")
    /\ forgotten' = (forgotten \/ ds # "present")
    /\ UNCHANGED <<poolVars, podVars, leader, stopWatch, ds, leftover, bounds>>

-----------------------------------------------------------------------------
Environment ==
    \/ \E k \in Kinds, to \in PoolStates : PoolChange(k, to)
    \/ PodStarts \/ DeletedByHand \/ Crash

(* What the cluster does about a deleted DaemonSet *)
Cluster == PodEnds \/ DaemonSetGone

Thread(t) ==
    \/ \E k \in Kinds : t = Informer(k) /\ PoolEvent(k)
    \/ t \in Channels /\ PoolCallback(t)
    \/ t = PodsInformer /\ (PodEvent \/ GetDaemonSet \/ Found)
    \/ LockDeploy(t) \/ Create(t) \/ Deployed(t) \/ DeployDies(t)
    \/ DeleteDaemonSet(t) \/ CloseStopWatch(t)

Next ==
    \/ Environment \/ Cluster
    \/ OperatorInit \/ StoresSynced \/ ReceiveNewNode
    \/ \E t \in Threads : Thread(t)

Spec == Init /\ [][Next]_vars

(* Every goroutine goes on, and the cluster removes the pods of a DaemonSet  *)
(* that is deleted.                                                          *)
FairSpec ==
    /\ Spec
    /\ WF_vars(Cluster)
    /\ WF_vars(OperatorInit) /\ WF_vars(StoresSynced) /\ WF_vars(ReceiveNewNode)
    /\ \A t \in Threads : WF_vars(Thread(t))

-----------------------------------------------------------------------------
(* The leader is ready, and nothing is on its way. *)
Quiet ==
    /\ phase = "ready" /\ ds # "deleting" /\ (ds = "none" => pods = 0)
    /\ \A t \in Threads : pc[t] = "idle"
    /\ \A k \in Kinds : poolWatch[k] = <<>>
    /\ \A c \in Channels : chan[c] = <<>>
    /\ podWatch = <<>> /\ pods = operators

(* persistentips/watcher.go:126 and ephemeralips/watcher.go:102: while a pool *)
(* needs operators they are there, once everything is handled.  The only     *)
(* exceptions are: DeployOrDie had an error, which nobody retries; a Delete  *)
(* was decided before the pool appeared; a DaemonSet that is being deleted   *)
(* was taken for a deployed one; or it was deleted by hand without pods.     *)
RequiredIsDeployed == Quiet /\ HasHostNetworkOption(pools) /\ ~forgotten => ds = "present"

(* poolsController.go:44: when no pool needs them any more the operators are *)
(* deleted.  The only exceptions are: the need ended while no leader ran or  *)
(* before a deployment was completed, the deletion failed, or a Delete reset *)
(* the flag after somebody else had deployed again.                          *)
UnneededIsDeleted == Quiet /\ ~HasHostNetworkOption(pools) /\ ~leftover => ds = "none"

(* A pool that needs operators gets them, and the leader becomes ready to    *)
(* watch over them (election.go:191), with the exceptions above: informers   *)
(* that deploy, wait for each other's deployment and send to channels that   *)
(* nobody receives from yet do not block the start for good.                 *)
OperatorsArrive ==
    HasHostNetworkOption(pools) ~>
        (\/ ds = "present" /\ deployed /\ phase = "ready"
         \/ ~HasHostNetworkOption(pools) \/ forgotten)
=============================================================================
