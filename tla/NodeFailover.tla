---------------------------- MODULE NodeFailover ----------------------------
(***************************************************************************)
(* What the controller does when operator nodes come and go.               *)
(*                                                                         *)
(* The pods informer keeps the list of operators (operator/daemonset.go)   *)
(* and reports lost and new nodes over two channels (events), each with a  *)
(* listener of its own: a lost node puts its allocations in node_error, a  *)
(* new one is cleaned up.  The handlers of the allocations watcher place   *)
(* an address on its node and remove it from all the others over gRPC      *)
(* (operatorSpeaker), and choose another node for one in node_error.       *)
(*                                                                         *)
(* Allocations are persistent, in a pool with the host network option, and *)
(* have one address each, so an allocation also stands for its address.    *)
(* The handlers of one allocation hold its lock (module AllocationLock).   *)
(***************************************************************************)
EXTENDS Naturals, Sequences, SequencesExt, FiniteSets

CONSTANTS
    Allocations,
    Nodes,
    NoNode,         \* the empty node name
    FirstNode,      \* the node that has the addresses at the beginning
    MaxPodChanges,  \* bound: changes of operator pods
    MaxFaults       \* bound: failing calls, lock timeouts, deaths of the leader

ASSUME NodesAssumption == IsFiniteSet(Nodes) /\ NoNode \notin Nodes /\ FirstNode \in Nodes
ASSUME BoundsAssumption == MaxPodChanges \in Nat /\ MaxFaults \in Nat

VARIABLES
    pod,        \* the operator's pod on each node, as the API server has it
    held,       \* the addresses that the kernel of each node has
    late,       \* calls given up by the controller that the operator still runs
    podWatch,   \* pod changes the informer has not handled yet
    seen,       \* operatorNodesStore: the pods as the informer knows them
    lostNodes,  \* the channel operatorNodeLost
    newNodes,   \* the channel newOperatorNode
    losing,     \* operatorNodeLost: the node, what is left to write, and the
                \* allocations whose listed copy is still the current one
    cleaning,   \* newOperatorNode: the node and what is to be kept on it
    alloc,      \* the IPAllocation objects of the API server
    watch,      \* their versions that the informer has not handled yet
    cache,      \* allocationStore
    tasks,      \* the goroutines that wait for the lock of an allocation
    w,          \* the handler that has the lock
    cold,       \* what the informers have not listed since the leader started
    givenUp,    \* history: allocations that a failure or a race left wrong and
                \* that no pass of EnsureIPAllocation has looked at since
    podChanges, faults

operators == <<pod, held, late>>
informers == <<podWatch, seen, cold>>
listeners == <<lostNodes, newNodes, losing, cleaning>>
objects == <<alloc, watch, cache, tasks>>
bounds == <<podChanges, faults>>

vars == <<operators, informers, listeners, objects, w, givenUp, bounds>>

PodStates == {"ready", "notReady", "gone"}

(* The two node_error states differ in their message. *)
NodeError == {"lost", "unreachable"}
States == {"pending", "success", "error"} \cup NodeError

IPAllocation == [node : Nodes \cup {NoNode}, state : States]

(* A call sets what it adds and removes what it deletes: AddAddress and      *)
(* RemoveAddress one address, Cleanup all of them.                           *)
GrpcCall == [node : Nodes, add : SUBSET Allocations, del : SUBSET Allocations]

(* obj: the object the handler read; fresh: nobody has written it since;     *)
(* ops: the operators list of the pass; todo: what it has left of it.        *)
Handler == [pc : {"idle", "list", "ensure", "unreachable", "changeNode", "status"},
            obj : IPAllocation, fresh : BOOLEAN,
            ops : [Nodes -> PodStates], todo : SUBSET Nodes]

Unlisted == [n \in Nodes |-> "gone"]

Idle == [pc |-> "idle", obj |-> [node |-> NoNode, state |-> "error"], fresh |-> TRUE,
         ops |-> Unlisted, todo |-> {}]

NotLosing == [node |-> NoNode, todo |-> {}, fresh |-> {}]
NotCleaning == [node |-> NoNode, keep |-> {}]

TypeOK ==
    /\ pod \in [Nodes -> PodStates]
    /\ held \in [Nodes -> SUBSET Allocations]
    /\ late \subseteq GrpcCall
    /\ podWatch \in Seq([node : Nodes, pod : PodStates])
    /\ seen \in [Nodes -> PodStates]
    /\ cold \subseteq Nodes \cup Allocations
    /\ lostNodes \in Seq(Nodes) /\ newNodes \in Seq(Nodes)
    /\ losing \in [node : Nodes \cup {NoNode}, todo : SUBSET Allocations,
                   fresh : SUBSET Allocations]
    /\ cleaning \in [node : Nodes \cup {NoNode}, keep : SUBSET Allocations]
    /\ alloc \in [Allocations -> IPAllocation]
    /\ watch \in [Allocations -> Seq(IPAllocation)]
    /\ cache \in [Allocations -> IPAllocation]
    /\ tasks \in [Allocations -> SUBSET {"success", "pending", "node_error", "error"}]
    /\ w \in [Allocations -> Handler]
    /\ givenUp \subseteq Allocations
    /\ podChanges \in 0 .. MaxPodChanges
    /\ faults \in 0 .. MaxFaults

(* A leader that runs for some time: every address is on its node. *)
Init ==
    /\ pod = [n \in Nodes |-> "ready"] /\ seen = pod
    /\ alloc = [a \in Allocations |-> [node |-> FirstNode, state |-> "success"]]
    /\ cache = alloc
    /\ held = [n \in Nodes |-> {a \in Allocations : alloc[a].node = n}]
    /\ late = {} /\ cold = {} /\ givenUp = {}
    /\ podWatch = <<>> /\ lostNodes = <<>> /\ newNodes = <<>>
    /\ losing = NotLosing /\ cleaning = NotCleaning
    /\ watch = [a \in Allocations |-> <<>>]
    /\ tasks = [a \in Allocations |-> {}]
    /\ w = [a \in Allocations |-> Idle]
    /\ podChanges = 0 /\ faults = 0

-----------------------------------------------------------------------------
(* Failures, calls and writes *)

Fault == faults < MaxFaults /\ faults' = faults + 1 /\ UNCHANGED podChanges
NoFault == UNCHANGED bounds

Apply(c) == [held EXCEPT ![c.node] = (@ \ c.del) \cup c.add]

(* The allocations that call c, if it runs now, leaves on a node they are    *)
(* not on, or takes off the node they are on.                                *)
Wrong(c) == {a \in c.add : alloc[a].node # c.node} \cup {a \in c.del : alloc[a].node = c.node}

(* The operator answers in time. *)
Answered(c) ==
    /\ pod[c.node] = "ready"
    /\ held' = Apply(c)
    /\ UNCHANGED <<pod, late>>

(* The call fails, or its five seconds pass and the operator runs it later. *)
Unanswered(c) ==
    \/ pod[c.node] # "ready" /\ NoFault /\ UNCHANGED operators
    \/ Fault /\ UNCHANGED operators
    \/ Fault /\ pod[c.node] = "ready" /\ late' = late \cup {c} /\ UNCHANGED <<pod, held>>

RunLate(c) ==
    /\ pod[c.node] = "ready"
    /\ held' = Apply(c)
    /\ late' = late \ {c}
    /\ givenUp' = givenUp \cup Wrong(c)
    /\ UNCHANGED <<pod, informers, listeners, objects, w, bounds>>

(* An update of the API server; one that changes nothing is no new version. *)
Write(a, obj) ==
    /\ alloc' = [alloc EXCEPT ![a] = obj]
    /\ watch' = IF obj = alloc[a] THEN watch ELSE [watch EXCEPT ![a] = Append(@, obj)]
    /\ UNCHANGED cache

Changes(a, obj) == obj # alloc[a]

-----------------------------------------------------------------------------
(* The pods and their informer *)

(* A pod changes: a new one is not ready at first.  Its calls die with it,   *)
(* and so do the addresses on the interface when the whole node restarts.    *)
PodChange(n, to, reboot) ==
    /\ podChanges < MaxPodChanges /\ podChanges' = podChanges + 1
    /\ to # pod[n] /\ ~(pod[n] = "gone" /\ to = "ready")
    /\ reboot => pod[n] = "ready" /\ to = "notReady"
    /\ pod' = [pod EXCEPT ![n] = to]
    /\ held' = IF reboot THEN [held EXCEPT ![n] = {}] ELSE held
    /\ late' = {c \in late : c.node # n}
    /\ podWatch' = Append(podWatch, [node |-> n, pod |-> to])
    /\ UNCHANGED <<seen, cold, listeners, objects, w, givenUp, faults>>

(* Mutant: a pod that is no longer ready is not reported. *)
PodEventOfExistence ==
    LET e == Head(podWatch) IN
    /\ podWatch # <<>>
    /\ podWatch' = Tail(podWatch)
    /\ seen' = [seen EXCEPT ![e.node] = e.pod]
    /\ cold' = cold \ {e.node}
    /\ newNodes' = IF e.pod = "ready" THEN Append(newNodes, e.node) ELSE newNodes
    /\ lostNodes' = IF e.pod = "gone" THEN Append(lostNodes, e.node) ELSE lostNodes
    /\ UNCHANGED <<operators, losing, cleaning, objects, w, givenUp, bounds>>

(* AddFunc, UpdateFunc and DeleteFunc of the pods watcher *)
PodEvent ==
    LET e == Head(podWatch)
        new == e.pod = "ready" /\ seen[e.node] # "ready"
        lost == e.pod = "gone" \/ (e.pod = "notReady" /\ seen[e.node] = "ready") IN
    /\ podWatch # <<>>
    /\ podWatch' = Tail(podWatch)
    /\ seen' = [seen EXCEPT ![e.node] = e.pod]
    /\ cold' = cold \ {e.node}
    /\ newNodes' = IF new THEN Append(newNodes, e.node) ELSE newNodes
    /\ lostNodes' = IF lost THEN Append(lostNodes, e.node) ELSE lostNodes
    /\ UNCHANGED <<operators, losing, cleaning, objects, w, givenUp, bounds>>

-----------------------------------------------------------------------------
(* operatorNodeLost: the listener starts once the informers have synced *)

OperatorNodeLost ==
    LET n == Head(lostNodes)
        todo == {a \in Allocations : cache[a].node = n} IN
    /\ cold = {} /\ losing = NotLosing
    /\ lostNodes # <<>> /\ lostNodes' = Tail(lostNodes)
    /\ losing' = IF todo = {} THEN NotLosing
                 ELSE [node |-> n, todo |-> todo, fresh |-> {a \in todo : watch[a] = <<>>}]
    /\ UNCHANGED <<operators, informers, newNodes, cleaning, objects, w, givenUp, bounds>>

(* SetAllocationStatusNodeError of the listed copy; a conflict is logged. *)
SetAllocationStatusNodeError(a) ==
    LET obj == [alloc[a] EXCEPT !.state = "lost"] IN
    /\ a \in losing.todo
    /\ losing' = IF losing.todo = {a} THEN NotLosing
                 ELSE [losing EXCEPT !.todo = @ \ {a}, !.fresh = @ \ {a}]
    /\ IF a \in losing.fresh
       THEN /\ Write(a, obj)
            /\ w' = [w EXCEPT ![a].fresh = @ /\ ~Changes(a, obj)]
       ELSE UNCHANGED <<alloc, watch, cache, w>>
    /\ UNCHANGED <<operators, informers, lostNodes, newNodes, cleaning, tasks, givenUp, bounds>>

-----------------------------------------------------------------------------
(* newOperatorNode: the addresses to keep are listed, then comes the call *)

NewOperatorNode ==
    LET n == Head(newNodes) IN
    /\ cold = {} /\ cleaning = NotCleaning
    /\ newNodes # <<>> /\ newNodes' = Tail(newNodes)
    /\ cleaning' = [node |-> n, keep |-> {a \in Allocations : cache[a].node = n}]
    /\ UNCHANGED <<operators, informers, lostNodes, losing, objects, w, givenUp, bounds>>

(* DoCleanup; its error is ignored. *)
DoCleanup ==
    LET n == cleaning.node
        c == [node |-> n, add |-> cleaning.keep, del |-> Allocations \ cleaning.keep] IN
    /\ cleaning # NotCleaning
    /\ cleaning' = NotCleaning
    /\ \/ /\ seen[n] # "gone" /\ Answered(c) /\ NoFault
          /\ givenUp' = givenUp \cup (Wrong(c) \cap (c.add \cup held[n]))
       \/ /\ seen[n] # "gone" /\ Unanswered(c)
          /\ givenUp' = givenUp \cup {a \in held[n] : alloc[a].node # n}
       \/ seen[n] = "gone" /\ UNCHANGED <<operators, givenUp, bounds>>
    /\ UNCHANGED <<informers, lostNodes, newNodes, losing, objects, w>>

-----------------------------------------------------------------------------
(* The allocations watcher *)

(* Mutant: the messages of node_error are taken for states. *)
KindOfMessage(state) == state

Kind(state) == IF state \in NodeError THEN "node_error" ELSE state

(* allocationCreated and allocationsChanged: the informer stores the object  *)
(* and starts a goroutine.                                                   *)
AllocationEvent(a) ==
    LET obj == Head(watch[a]) IN
    /\ watch[a] # <<>>
    /\ watch' = [watch EXCEPT ![a] = Tail(@)]
    /\ cache' = [cache EXCEPT ![a] = obj]
    /\ tasks' = [tasks EXCEPT ![a] = @ \cup {Kind(obj.state)}]
    /\ cold' = cold \ {a}
    /\ UNCHANGED <<operators, podWatch, seen, listeners, alloc, w, givenUp, bounds>>

(* A handler gets the lock, reads the object, and ends if the state is no    *)
(* longer the one it is for.  The retry loop of the error state ends only    *)
(* then: until it does, its goroutine stays.                                 *)
Start(a, kind) ==
    /\ w[a].pc = "idle" /\ kind \in tasks[a]
    /\ LET current == Kind(alloc[a].state) = kind IN
       /\ tasks' = [tasks EXCEPT ![a] = IF current /\ kind = "error" THEN @ ELSE @ \ {kind}]
       /\ w' = IF current
               THEN [w EXCEPT ![a] = [Idle EXCEPT !.obj = alloc[a],
                                      !.pc = IF kind \in {"success", "pending"}
                                             THEN "list" ELSE "changeNode"]]
               ELSE w
    /\ UNCHANGED <<operators, informers, listeners, alloc, watch, cache, givenUp, bounds>>

(* AcquireAllocationLock or the Get of the object fails: the event is lost,  *)
(* except in the retry loop.                                                 *)
StartFails(a, kind) ==
    /\ kind \in tasks[a] \ {"error"}
    /\ Fault
    /\ tasks' = [tasks EXCEPT ![a] = @ \ {kind}]
    /\ givenUp' = givenUp \cup {a}
    /\ UNCHANGED <<operators, informers, listeners, alloc, watch, cache, w>>

Return(a) == w' = [w EXCEPT ![a] = Idle]

(* EnsureIPAllocationOnNode lists the operators. *)
GetOperatorsList(a) ==
    /\ w[a].pc = "list"
    /\ w' = [w EXCEPT ![a].pc = "ensure", ![a].ops = seen,
                      ![a].todo = {n \in Nodes : seen[n] # "gone"}]
    /\ givenUp' = IF w[a].fresh THEN givenUp \ {a} ELSE givenUp
    /\ UNCHANGED <<operators, informers, listeners, objects, bounds>>

(* The operator of the node that is to have the address *)
AddAddress(a, n) ==
    LET c == [node |-> n, add |-> {a}, del |-> {}] IN
    /\ w[a].pc = "ensure" /\ n \in w[a].todo
    /\ n = w[a].obj.node
    /\ \/ /\ w[a].ops[n] = "ready" /\ Answered(c) /\ NoFault
          /\ w' = [w EXCEPT ![a].todo = @ \ {n}]
       \/ /\ w[a].ops[n] = "ready" /\ Unanswered(c)
          /\ w' = [w EXCEPT ![a].pc = "unreachable", ![a].ops = Unlisted, ![a].todo = {}]
       \/ /\ w[a].ops[n] # "ready" /\ UNCHANGED <<operators, bounds>>
          /\ w' = [w EXCEPT ![a].pc = "unreachable", ![a].ops = Unlisted, ![a].todo = {}]
    /\ UNCHANGED <<informers, listeners, objects, givenUp>>

(* Mutant: no call to the others. *)
RemoveAddressNowhere(a, n) ==
    /\ w[a].pc = "ensure" /\ n \in w[a].todo
    /\ n # w[a].obj.node
    /\ w' = [w EXCEPT ![a].todo = @ \ {n}]
    /\ UNCHANGED <<operators, informers, listeners, objects, givenUp, bounds>>

(* The others: an error is logged, and one that is not ready passed over. *)
RemoveAddress(a, n) ==
    LET c == [node |-> n, add |-> {}, del |-> {a}] IN
    /\ w[a].pc = "ensure" /\ n \in w[a].todo
    /\ n # w[a].obj.node
    /\ \/ w[a].ops[n] = "ready" /\ Answered(c) /\ NoFault /\ UNCHANGED givenUp
       \/ /\ w[a].ops[n] = "ready" /\ Unanswered(c)
          /\ givenUp' = IF pod[n] = "ready" THEN givenUp \cup {a} ELSE givenUp
       \/ w[a].ops[n] # "ready" /\ UNCHANGED <<operators, givenUp, bounds>>
    /\ w' = [w EXCEPT ![a].todo = @ \ {n}]
    /\ UNCHANGED <<informers, listeners, objects>>

(* A write by the handler makes the copy of the listener an old one. *)
HandlerWrites(a, obj) ==
    /\ w[a].fresh
    /\ Write(a, obj)
    /\ losing' = IF Changes(a, obj) THEN [losing EXCEPT !.fresh = @ \ {a}] ELSE losing
    /\ UNCHANGED <<tasks, lostNodes, newNodes, cleaning>>

(* The loop is over, or an error ended it.  A node without an operator in    *)
(* the list had no turn, and that is no error.                               *)
Ensured(a) == w[a].pc = "unreachable" \/ (w[a].pc = "ensure" /\ w[a].todo = {})

Skipped(a) == w[a].pc = "ensure" /\ ~\E n \in Nodes : n = w[a].obj.node /\ w[a].ops[n] # "gone"

(* SetAllocationStatusSuccess, or SetAllocationStatusNodeError after an error. *)
SetAllocationStatus(a) ==
    LET state == IF w[a].pc = "ensure" THEN "success" ELSE "unreachable" IN
    /\ Ensured(a)
    /\ \/ /\ HandlerWrites(a, [w[a].obj EXCEPT !.state = state]) /\ NoFault
          /\ givenUp' = IF Skipped(a) THEN givenUp \cup {a} ELSE givenUp
       \/ /\ ~w[a].fresh /\ NoFault
          /\ givenUp' = IF Skipped(a) THEN givenUp \cup {a} ELSE givenUp
          /\ UNCHANGED <<listeners, objects>>
       \/ /\ Fault
          /\ givenUp' = givenUp \cup {a}
          /\ UNCHANGED <<listeners, objects>>
    /\ Return(a)
    /\ UNCHANGED <<operators, informers>>

-----------------------------------------------------------------------------
(* Another node, for an allocation in node_error and for one without a node *)

SomeOperator == \E n \in Nodes : seen[n] # "gone"

(* Mutant: the first operator of the list is taken instead of a random one. *)
ChangeAllocationNodeToFirst(a, n) ==
    /\ w[a].pc = "changeNode"
    /\ SomeOperator /\ n = CHOOSE m \in Nodes : seen[m] # "gone"
    /\ seen[n] = "ready"
    /\ HandlerWrites(a, [w[a].obj EXCEPT !.node = n])
    /\ w' = [w EXCEPT ![a].pc = "status", ![a].obj.node = n]
    /\ UNCHANGED <<operators, informers, givenUp, bounds>>

(* ChangeAllocationNode, and addOperatorNodeToAllocation in the retry loop:  *)
(* GetRandomOperatorNode hits a ready one.                                   *)
ChangeAllocationNode(a, n) ==
    /\ w[a].pc = "changeNode"
    /\ seen[n] = "ready"
    /\ HandlerWrites(a, [w[a].obj EXCEPT !.node = n])
    /\ w' = [w EXCEPT ![a].pc = "status", ![a].obj.node = n]
    /\ UNCHANGED <<operators, informers, givenUp, bounds>>

(* It hits one that is not ready in every attempt. *)
NoOperatorReady(a) ==
    /\ w[a].pc = "changeNode"
    /\ \E n \in Nodes : seen[n] = "notReady"
    /\ HandlerWrites(a, [w[a].obj EXCEPT !.node = NoNode])
    /\ w' = [w EXCEPT ![a].pc = "status", ![a].obj.node = NoNode]
    /\ UNCHANGED <<operators, informers, givenUp, bounds>>

(* SetAllocationStatusPending, or SetAllocationStatusError *)
SetAllocationStatusPending(a) ==
    LET obj == [w[a].obj EXCEPT !.state = IF w[a].obj.node = NoNode THEN "error" ELSE "pending"] IN
    /\ w[a].pc = "status"
    /\ \/ HandlerWrites(a, obj) /\ UNCHANGED <<givenUp, bounds>>
       \/ ~w[a].fresh /\ UNCHANGED <<listeners, objects, givenUp, bounds>>
       \/ Fault /\ givenUp' = givenUp \cup {a} /\ UNCHANGED <<listeners, objects>>
    /\ Return(a)
    /\ UNCHANGED <<operators, informers>>

-----------------------------------------------------------------------------
(* The leader *)

(* A new leader lists the pods and the allocations again. *)
Restart ==
    /\ seen' = Unlisted
    /\ podWatch' = SetToSeq({[node |-> n, pod |-> pod[n]] : n \in {m \in Nodes : pod[m] # "gone"}})
    /\ cold' = {n \in Nodes : pod[n] # "gone"} \cup Allocations
    /\ lostNodes' = <<>> /\ newNodes' = <<>>
    /\ losing' = NotLosing /\ cleaning' = NotCleaning
    /\ watch' = [a \in Allocations |-> <<alloc[a]>>]
    /\ tasks' = [a \in Allocations |-> {}]
    /\ w' = [a \in Allocations |-> Idle]
    /\ UNCHANGED <<operators, alloc, cache, givenUp>>

Crash == Fault /\ Restart

(* A random choice from an empty list, and the status of a nil allocation    *)
(* after a conflict: both panic.  So does one after another error of the     *)
(* update, which is a Crash here.                                            *)
Panic(a) ==
    /\ w[a].pc = "changeNode"
    /\ ~SomeOperator \/ ~w[a].fresh
    /\ Restart
    /\ NoFault

-----------------------------------------------------------------------------
Environment ==
    \/ \E n \in Nodes, to \in PodStates, reboot \in BOOLEAN : PodChange(n, to, reboot)
    \/ \E a \in Allocations, kind \in {"success", "pending", "node_error"} : StartFails(a, kind)
    \/ Crash

Listeners ==
    \/ OperatorNodeLost
    \/ \E a \in Allocations : SetAllocationStatusNodeError(a)
    \/ NewOperatorNode \/ DoCleanup

Handles(a) ==
    \/ \E kind \in {"success", "pending", "node_error", "error"} : Start(a, kind)
    \/ GetOperatorsList(a) \/ \E n \in Nodes : AddAddress(a, n) \/ RemoveAddress(a, n)
    \/ SetAllocationStatus(a)
    \/ \E n \in Nodes : ChangeAllocationNode(a, n)
    \/ NoOperatorReady(a) \/ SetAllocationStatusPending(a) \/ Panic(a)

Next ==
    \/ Environment \/ PodEvent \/ Listeners
    \/ \E c \in late : RunLate(c)
    \/ \E a \in Allocations : AllocationEvent(a) \/ Handles(a)

Spec == Init /\ [][Next]_vars

(* Every goroutine goes on, the watches deliver, and a random choice that is *)
(* made over and over again hits a ready operator in the end.                *)
FairSpec ==
    /\ Spec
    /\ WF_vars(PodEvent) /\ WF_vars(Listeners)
    /\ \A a \in Allocations :
          /\ WF_vars(AllocationEvent(a)) /\ WF_vars(Handles(a))
          /\ SF_vars(\E n \in Nodes : ChangeAllocationNode(a, n))

-----------------------------------------------------------------------------
(* Nothing about the allocation is on its way. *)
Settled(a) == watch[a] = <<>> /\ tasks[a] = {} /\ w[a].pc = "idle"

(* Nothing about the node is on its way. *)
Calm(n) ==
    /\ \A i \in DOMAIN podWatch : podWatch[i].node # n
    /\ \A i \in DOMAIN lostNodes : lostNodes[i] # n
    /\ \A i \in DOMAIN newNodes : newNodes[i] # n
    /\ losing.node # n /\ cleaning.node # n

(* allocationswatcher.go:291: the loss of a node, and of the addresses on    *)
(* it, does not go unnoticed.  When everything about a successful allocation *)
(* and its node is handled, the node's operator is ready and has the         *)
(* address, unless the controller gave the allocation up.                    *)
SuccessIsServed ==
    \A a \in Allocations \ givenUp :
        /\ Settled(a) => alloc[a].state = "success"
        /\ Settled(a) /\ Calm(alloc[a].node) =>
              pod[alloc[a].node] = "ready" /\ a \in held[alloc[a].node]

(* speaker.go:31: the address is not on any other node that is ready, once   *)
(* everything about the allocation and that node is handled: a node that was *)
(* away when the address moved is cleaned up when it is back.                *)
OnNoOtherNode ==
    \A a \in Allocations \ givenUp, n \in Nodes :
        n # alloc[a].node /\ Settled(a) /\ Calm(n) /\ pod[n] = "ready" => a \notin held[n]

Served(a) ==
    /\ alloc[a].state = "success"
    /\ alloc[a].node \in Nodes /\ pod[alloc[a].node] = "ready" /\ a \in held[alloc[a].node]

(* An allocation whose node's operator is away ends up on a node with a      *)
(* ready one, if there is one, even when the leader dies on the way.         *)
FailsOver ==
    \A a \in Allocations :
        ~Served(a) ~> (Served(a) \/ a \in givenUp \/ \A n \in Nodes : pod[n] # "ready")
=============================================================================
