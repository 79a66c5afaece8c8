----------------------- MODULE OperatorDeployment_proofs -----------------------
(***************************************************************************)
(* Proofs about the deployment of the operators, for every number of       *)
(* nodes, capacity of the channels, and number of changes and failures.    *)
(*                                                                         *)
(* RequiredIsDeployed and UnneededIsDeleted speak of a controller at rest. *)
(* The inductive invariant says what is on its way when the controller is  *)
(* not at rest: a need for operators, or the end of it, is always known to *)
(* the flag, to a goroutine that acts, or to an event still in a queue.    *)
(***************************************************************************)
EXTENDS OperatorDeployment, SequenceTheorems, TLAPS

-----------------------------------------------------------------------------
(* The inductive invariant *)

At(place) == \E t \in Threads : pc[t] = place

Deploying == At("deploy") \/ At("create") \/ At("wait")

(* An event that makes a listener compare the stores with the flag *)
Modified == \E k \in Kinds : chan[<<k, "modified">>] # <<>>

Removed ==
    \E k \in Kinds : \E i \in 1 .. Len(chan[<<k, "deleted">>]) : chan[<<k, "deleted">>][i] = "host"

(* The informer has yet to hear of a pool with the option. *)
Announced == \E k \in Kinds : \E i \in 1 .. Len(poolWatch[k]) : poolWatch[k][i] = "host"

(* A way for the number of operators through the pending events of the pods, *)
(* from what the store has to what the cluster has.                          *)
Trail(trail) ==
    /\ trail[0] = operators
    /\ \A i \in 1 .. Len(podWatch) :
          trail[i] = IF podWatch[i] = "add" THEN trail[i - 1] + 1 ELSE trail[i - 1] - 1
    /\ stopWatch = "open" => trail[Len(podWatch)] = pods

(* operatorNodesStore goes through numbers of pods that the cluster had, and *)
(* without an informer nothing waits to be handled.                          *)
PodsCounted ==
    /\ \E trail \in [0 .. Len(podWatch) -> 0 .. NumNodes] : Trail(trail)
    /\ stopWatch # "open" => podWatch = <<>>

(* Before operator.Init a leader has nothing in memory. *)
NothingBeforeInit ==
    phase = "init" =>
        /\ \A k \in Kinds : store[k] = "absent" /\ poolWatch[k] = <<>>
        /\ \A c \in Channels : chan[c] = <<>>
        /\ \A t \in Threads : pc[t] = "idle"
        /\ ~deployed /\ stopWatch = "nil"

(* The store has the pools, or the last pending event does. *)
StoresFollow ==
    phase # "init" =>
        \A k \in Kinds :
            pools[k] = IF poolWatch[k] = <<>> THEN store[k] ELSE poolWatch[k][Len(poolWatch[k])]

(* The mutex of DeployOrDie *)
OneDeploys ==
    \A t, u \in Threads : pc[t] \in {"create", "wait"} /\ pc[u] \in {"create", "wait"} => t = u

(* A pool of the stores that needs operators is known to the flag, which no  *)
(* Delete is about to reset, to somebody who deploys, or to a listener.      *)
NeedIsKnown ==
    HasHostNetworkOption(store) /\ ~forgotten =>
        Deploying \/ Modified \/ (deployed /\ ~BeingDeleted)

(* The flag is set and the DaemonSet is not there: the pods informer knows,  *)
(* or will know when it sees the last pod go.                                *)
LossIsKnown ==
    deployed /\ ~forgotten /\ ~At("close") /\ ds # "present" =>
        \/ pc[PodsInformer] \in {"get", "found"} \/ At("wait")
        \/ /\ ds = "none" /\ stopWatch = "open"
           /\ pods > 0 \/ (podWatch # <<>> /\ podWatch[Len(podWatch)] = "delete")

(* A DaemonSet is watched, or will be by the one who waits for it. *)
PresentIsWatched ==
    ds = "present" /\ phase # "init" /\ (stopWatch # "open" \/ At("close")) =>
        At("wait") \/ forgotten

(* A DaemonSet that no pool of the stores needs: somebody deploys it or is   *)
(* about to delete it, an event will have it deleted, or a pool is to come.  *)
ExcessIsKnown ==
    ds = "present" /\ phase # "init" /\ ~HasHostNetworkOption(store) /\ ~leftover =>
        At("wait") \/ At("delete") \/ Modified \/ Removed \/ Announced

(* The flag follows a DaemonSet that is there. *)
PresentIsFlagged ==
    /\ ds = "present" /\ phase # "init" /\ ~deployed => leftover \/ At("wait")
    /\ ds = "present" /\ At("create") => leftover

Known ==
    /\ NeedIsKnown /\ LossIsKnown /\ PresentIsWatched
    /\ ExcessIsKnown /\ PresentIsFlagged

IInv ==
    /\ TypeOK /\ PodsCounted /\ NothingBeforeInit
    /\ StoresFollow /\ OneDeploys /\ Known

-----------------------------------------------------------------------------
(* Names and frames *)

(* The goroutines and the channels have the names that the actions use. *)
LEMMA Names ==
    /\ PodsInformer \in Threads
    /\ \A k \in Kinds : Informer(k) \in Threads
    /\ \A c \in Channels : c \in Threads
    /\ \A k \in Kinds : <<k, "modified">> \in Channels /\ <<k, "deleted">> \in Channels
BY DEF Threads, Informers, Informer, PodsInformer, Channels, Kinds, Operations

(* A channel has a kind and an operation. *)
LEMMA ChannelNames ==
    ASSUME NEW c \in Channels
    PROVE  \E k \in Kinds : c = <<k, c[2]>> /\ c[2] \in {"modified", "deleted"}
BY DEF Channels, Kinds, Operations

(* What an appended, and what a shortened queue contains *)
LEMMA QueueFacts ==
    ASSUME NEW S, NEW q \in Seq(S), NEW e \in S
    PROVE  /\ Append(q, e) \in Seq(S) /\ Len(Append(q, e)) = Len(q) + 1
           /\ Append(q, e) # <<>> /\ Append(q, e)[Len(q) + 1] = e
           /\ \A i \in 1 .. Len(q) : Append(q, e)[i] = q[i]
           /\ Len(q) \in Nat
           /\ q # <<>> =>
                 /\ Head(q) \in S /\ Head(q) = q[1]
                 /\ Tail(q) \in Seq(S) /\ Len(Tail(q)) = Len(q) - 1 /\ Len(q) > 0
                 /\ \A i \in 1 .. Len(Tail(q)) : Tail(q)[i] = q[i + 1]
                 /\ Tail(q) = <<>> => Len(q) = 1
                 /\ Tail(q) # <<>> => Tail(q)[Len(Tail(q))] = q[Len(q)]
                 /\ Tail(q) # <<>> => Len(Tail(q)) > 0
  <1>1. /\ Append(q, e) \in Seq(S) /\ Len(Append(q, e)) = Len(q) + 1
        /\ Append(q, e)[Len(q) + 1] = e
        /\ \A i \in 1 .. Len(q) : Append(q, e)[i] = q[i]
        /\ Len(q) \in Nat
    OBVIOUS
  <1>2. Append(q, e) # <<>>
    <2>1. Len(<<>>) = 0
      OBVIOUS
    <2> QED
      BY <1>1, <2>1
  <1>3. ASSUME q # <<>>
        PROVE  /\ Head(q) \in S /\ Head(q) = q[1]
               /\ Tail(q) \in Seq(S) /\ Len(Tail(q)) = Len(q) - 1 /\ Len(q) > 0
               /\ \A i \in 1 .. Len(Tail(q)) : Tail(q)[i] = q[i + 1]
    BY <1>3
  <1>4. ASSUME q # <<>>, Tail(q) = <<>>
        PROVE  Len(q) = 1
    <2>1. Len(Tail(q)) = 0
      BY <1>3, <1>4, EmptySeq
    <2> QED
      BY <2>1, <1>1, <1>3, <1>4
  <1>5. ASSUME q # <<>>, Tail(q) # <<>>
        PROVE  Len(Tail(q)) > 0 /\ Tail(q)[Len(Tail(q))] = q[Len(q)]
    <2>1. Tail(q) \in Seq(S) /\ Len(Tail(q)) = Len(q) - 1
      BY <1>3, <1>5
    <2>2. Len(Tail(q)) > 0
      BY <2>1, <1>5
    <2>3. Len(Tail(q)) \in 1 .. Len(Tail(q))
      BY <2>1, <2>2, <1>1
    <2> QED
      BY <2>1, <2>2, <2>3, <1>1, <1>3, <1>5
  <1> QED
    BY <1>1, <1>2, <1>3, <1>4, <1>5

(* Steps that leave the pods and their informer alone *)
LEMMA PodsCountedFrame ==
    ASSUME PodsCounted, UNCHANGED <<pods, podWatch, operators, stopWatch>>
    PROVE  PodsCounted'
BY DEF PodsCounted, Trail

(* Steps that leave the pools and the stores alone *)
LEMMA StoresFollowFrame ==
    ASSUME StoresFollow, UNCHANGED <<pools, poolWatch, store>>, phase' = "init" => phase = "init",
           phase = "init" => phase' = "init"
    PROVE  StoresFollow'
BY DEF StoresFollow

(* The death of the leader leaves the invariant as true as at the start. *)
LEMMA RestartStep ==
    ASSUME IInv, Restart, ds' \in {"none", "present", "deleting"},
           forgotten' \in BOOLEAN, leftover' \in BOOLEAN,
           changes' \in 0 .. MaxChanges, faults' \in 0 .. MaxFaults
    PROVE  IInv'
  <1>1. TypeOK'
    <2>1. <<>> \in Seq(PoolStates) /\ <<>> \in Seq({"plain", "host"}) /\ <<>> \in Seq({"add", "delete"})
      OBVIOUS
    <2>2. /\ pools' \in [Kinds -> PoolStates] /\ store' \in [Kinds -> PoolStates]
          /\ poolWatch' \in [Kinds -> Seq(PoolStates)]
          /\ chan' \in [Channels -> Seq({"plain", "host"})]
      BY <2>1 DEF IInv, TypeOK, Restart, PoolStates
    <2>3. \A c \in Channels : Len(chan'[c]) <= ChanCapacity
      <3>1. \A c \in Channels : chan'[c] = <<>>
        BY DEF Restart
      <3>2. \A c \in Channels : Len(chan'[c]) = 0
        BY <2>2, <3>1, EmptySeq
      <3> QED
        BY <3>2, CapacityAssumption
    <2>4. pc' \in [Threads -> {"idle", "deploy", "create", "wait", "delete", "close", "get", "found"}]
      BY DEF Restart
    <2>5. /\ phase' \in {"init", "sync", "ready"} /\ cold' \subseteq Kinds \cup {"pods"}
          /\ deployed' \in BOOLEAN /\ stopWatch' \in {"nil", "open", "closed"}
          /\ podWatch' \in Seq({"add", "delete"})
      BY <2>1 DEF Restart
    <2>6. /\ pods' \in 0 .. NumNodes /\ operators' \in 0 .. NumNodes
          /\ newNodes' \in 0 .. ChanCapacity
      BY CapacityAssumption DEF IInv, TypeOK, Restart
    <2> QED
      BY <2>2, <2>3, <2>4, <2>5, <2>6 DEF TypeOK
  <1>2. PodsCounted'
    <2> DEFINE trail == [i \in 0 .. 0 |-> 0]
    <2>1. Len(podWatch') = 0 /\ podWatch' = <<>> /\ operators' = 0 /\ stopWatch' = "nil"
      BY DEF Restart
    <2>2. trail \in [0 .. Len(podWatch') -> 0 .. NumNodes] /\ trail[0] = 0
      BY <2>1, CapacityAssumption
    <2>3. Trail(trail)'
      BY <2>1, <2>2 DEF Trail
    <2> QED
      BY <2>1, <2>2, <2>3 DEF PodsCounted
  <1>3. NothingBeforeInit'
    BY DEF Restart, NothingBeforeInit
  <1>4. StoresFollow' /\ OneDeploys'
    BY DEF Restart, StoresFollow, OneDeploys
  <1>5. Known'
    BY DEF Restart, Known, NeedIsKnown, LossIsKnown, PresentIsWatched, ExcessIsKnown,
           PresentIsFlagged, HasHostNetworkOption, At
  <1> QED
    BY <1>1, <1>2, <1>3, <1>4, <1>5 DEF IInv

(* At the start *)
LEMMA InitIInv == Init => IInv
  <1> SUFFICES ASSUME Init PROVE IInv
    OBVIOUS
  <1>1. TypeOK
    <2>1. <<>> \in Seq(PoolStates) /\ <<>> \in Seq({"plain", "host"}) /\ <<>> \in Seq({"add", "delete"})
      OBVIOUS
    <2>2. /\ pools \in [Kinds -> PoolStates] /\ store \in [Kinds -> PoolStates]
          /\ poolWatch \in [Kinds -> Seq(PoolStates)]
          /\ chan \in [Channels -> Seq({"plain", "host"})]
      BY <2>1 DEF Init, PoolStates
    <2>3. \A c \in Channels : Len(chan[c]) <= ChanCapacity
      <3>1. \A c \in Channels : chan[c] = <<>>
        BY DEF Init
      <3>2. \A c \in Channels : Len(chan[c]) = 0
        BY <2>2, <3>1, EmptySeq
      <3> QED
        BY <3>2, CapacityAssumption
    <2>4. pc \in [Threads -> {"idle", "deploy", "create", "wait", "delete", "close", "get", "found"}]
      BY DEF Init
    <2>5. /\ phase \in {"init", "sync", "ready"} /\ cold \subseteq Kinds \cup {"pods"}
          /\ deployed \in BOOLEAN /\ stopWatch \in {"nil", "open", "closed"}
          /\ podWatch \in Seq({"add", "delete"})
      BY <2>1 DEF Init
    <2>6. /\ pods \in 0 .. NumNodes /\ operators \in 0 .. NumNodes
          /\ newNodes \in 0 .. ChanCapacity
      BY CapacityAssumption DEF Init
    <2>7. ds \in {"none", "present", "deleting"} /\ forgotten \in BOOLEAN /\ leftover \in BOOLEAN
      BY DEF Init
    <2>8. changes \in 0 .. MaxChanges /\ faults \in 0 .. MaxFaults
      BY BoundsAssumption DEF Init
    <2> QED
      BY <2>2, <2>3, <2>4, <2>5, <2>6, <2>7, <2>8 DEF TypeOK
  <1>2. PodsCounted
    <2> DEFINE trail == [i \in 0 .. 0 |-> 0]
    <2>1. Len(podWatch) = 0 /\ podWatch = <<>> /\ operators = 0 /\ stopWatch = "nil"
      BY DEF Init
    <2>2. trail \in [0 .. Len(podWatch) -> 0 .. NumNodes] /\ trail[0] = 0
      BY <2>1, CapacityAssumption
    <2>3. Trail(trail)
      BY <2>1, <2>2 DEF Trail
    <2> QED
      BY <2>1, <2>2, <2>3 DEF PodsCounted
  <1>3. NothingBeforeInit /\ StoresFollow /\ OneDeploys
    BY DEF Init, NothingBeforeInit, StoresFollow, OneDeploys
  <1>4. Known
    BY DEF Init, Known, NeedIsKnown, LossIsKnown, PresentIsWatched, ExcessIsKnown,
           PresentIsFlagged, HasHostNetworkOption, At
  <1> QED
    BY <1>1, <1>2, <1>3, <1>4 DEF IInv

-----------------------------------------------------------------------------
(* The environment *)

(* A pool is created, changed or deleted. *)
LEMMA PoolChangeStep ==
    ASSUME IInv, NEW k \in Kinds, NEW to \in PoolStates, PoolChange(k, to)
    PROVE  IInv'
  <1>1. poolWatch' \in [Kinds -> Seq(PoolStates)]
    BY QueueFacts DEF PoolChange, IInv, TypeOK
  <1>2. TypeOK'
    BY <1>1, BoundsAssumption DEF PoolChange, Change, IInv, TypeOK, podVars, leader, history
  <1>3. PodsCounted'
    BY PodsCountedFrame DEF PoolChange, IInv, podVars
  <1>4. NothingBeforeInit' /\ OneDeploys'
    BY DEF PoolChange, IInv, NothingBeforeInit, OneDeploys, podVars, leader
  <1>5. StoresFollow'
    BY QueueFacts DEF PoolChange, IInv, TypeOK, StoresFollow, leader
  <1>6. Announced => Announced'
    BY QueueFacts DEF PoolChange, Announced, IInv, TypeOK, leader
  <1>7. Known'
    BY <1>6 DEF PoolChange, IInv, Known, NeedIsKnown, LossIsKnown, PresentIsWatched,
           ExcessIsKnown, PresentIsFlagged, HasHostNetworkOption, At, Deploying, Modified,
           Removed, BeingDeleted, podVars, leader, history
  <1> QED
    BY <1>2, <1>3, <1>4, <1>5, <1>7 DEF IInv

(* A pod appears or disappears, and the informer hears of it. *)
LEMMA PodsBecomeCounted ==
    ASSUME TypeOK, PodsCounted, NEW n \in 0 .. NumNodes, NEW event \in {"add", "delete"},
           n = IF event = "add" THEN pods + 1 ELSE pods - 1, PodsBecome(n, event)
    PROVE  TypeOK' /\ PodsCounted'
  <1>1. podWatch' \in Seq({"add", "delete"})
    BY QueueFacts DEF PodsBecome, TypeOK
  <1>2. TypeOK'
    BY <1>1 DEF PodsBecome, TypeOK, poolVars, leader, history, bounds
  <1>3. CASE stopWatch # "open"
    <2>1. /\ podWatch' = podWatch /\ podWatch = <<>> /\ operators' = operators
          /\ stopWatch' = stopWatch /\ stopWatch' # "open"
      BY <1>3 DEF PodsBecome, PodsCounted
    <2>2. PICK trail \in [0 .. Len(podWatch) -> 0 .. NumNodes] : Trail(trail)
      BY DEF PodsCounted
    <2>3. Trail(trail)'
      BY <2>1, <2>2 DEF Trail
    <2> QED
      BY <1>2, <2>1, <2>2, <2>3 DEF PodsCounted
  <1>4. CASE stopWatch = "open"
    <2>1. PICK trail \in [0 .. Len(podWatch) -> 0 .. NumNodes] : Trail(trail)
      BY DEF PodsCounted
    <2> DEFINE longer == [i \in 0 .. Len(podWatch') |->
                             IF i \in 0 .. Len(podWatch) THEN trail[i] ELSE n]
    <2>2. /\ podWatch \in Seq({"add", "delete"}) /\ Len(podWatch) \in Nat /\ pods \in 0 .. NumNodes
          /\ podWatch' = Append(podWatch, event) /\ Len(podWatch') = Len(podWatch) + 1
          /\ podWatch'[Len(podWatch) + 1] = event
          /\ \A i \in 1 .. Len(podWatch) : podWatch'[i] = podWatch[i]
          /\ pods' = n /\ operators' = operators /\ stopWatch' = "open"
      BY <1>4, QueueFacts DEF PodsBecome, TypeOK
    <2>3. longer \in [0 .. Len(podWatch') -> 0 .. NumNodes]
      BY <2>2
    <2>4. longer[0] = operators
      BY <2>1, <2>2 DEF Trail
    <2>5. ASSUME NEW i \in 1 .. Len(podWatch')
          PROVE  longer[i] = IF podWatch'[i] = "add" THEN longer[i - 1] + 1 ELSE longer[i - 1] - 1
      <3>1. CASE i \in 1 .. Len(podWatch)
        <4>1. longer[i] = trail[i] /\ longer[i - 1] = trail[i - 1] /\ podWatch'[i] = podWatch[i]
          BY <2>2, <3>1
        <4> QED
          BY <2>1, <3>1, <4>1 DEF Trail
      <3>2. CASE i = Len(podWatch) + 1
        <4>1. longer[i] = n /\ longer[i - 1] = pods /\ podWatch'[i] = event
          BY <1>4, <2>1, <2>2, <3>2 DEF Trail
        <4> QED
          BY <4>1
      <3> QED
        BY <2>2, <3>1, <3>2
    <2>6. longer[Len(podWatch')] = pods'
      BY <2>2
    <2> HIDE DEF longer
    <2>7. PICK next \in [0 .. Len(podWatch') -> 0 .. NumNodes] : next = longer
      BY <2>3
    <2>8. Trail(next)'
      BY <2>2, <2>4, <2>5, <2>6, <2>7 DEF Trail
    <2> QED
      BY <1>2, <2>2, <2>8 DEF PodsCounted
  <1> QED
    BY <1>2, <1>3, <1>4

(* The same, for the rest of the invariant *)
LEMMA PodsBecomeStep ==
    ASSUME IInv, NEW n \in 0 .. NumNodes, NEW event \in {"add", "delete"},
           n = IF event = "add" THEN pods + 1 ELSE pods - 1, PodsBecome(n, event),
           event = "add" => ds = "present"
    PROVE  IInv'
  <1>1. TypeOK' /\ PodsCounted'
    BY PodsBecomeCounted DEF IInv
  <1>2. NothingBeforeInit' /\ OneDeploys' /\ StoresFollow'
    BY DEF PodsBecome, IInv, NothingBeforeInit, OneDeploys, StoresFollow, poolVars, leader
  <1>3. LossIsKnown'
    <2> SUFFICES ASSUME deployed', ~forgotten', ~At("close")', ds' # "present",
                        pc'[PodsInformer] \notin {"get", "found"}, ~At("wait")'
                 PROVE  /\ ds' = "none" /\ stopWatch' = "open"
                        /\ pods' > 0 \/ (podWatch' # <<>> /\ podWatch'[Len(podWatch')] = "delete")
      BY DEF LossIsKnown
    <2>1. ds = "none" /\ stopWatch = "open" /\ event = "delete"
      BY DEF PodsBecome, IInv, Known, LossIsKnown, At, history
    <2>2. podWatch' # <<>> /\ podWatch'[Len(podWatch')] = "delete"
      <3>1. podWatch' = Append(podWatch, "delete") /\ podWatch \in Seq({"add", "delete"})
        BY <2>1 DEF PodsBecome, IInv, TypeOK
      <3> QED
        BY <3>1, QueueFacts
    <2> QED
      BY <2>1, <2>2 DEF PodsBecome
  <1>4. NeedIsKnown' /\ PresentIsWatched' /\ ExcessIsKnown' /\ PresentIsFlagged'
    BY DEF PodsBecome, IInv, Known, NeedIsKnown, PresentIsWatched, ExcessIsKnown,
           PresentIsFlagged, HasHostNetworkOption, At, Deploying, Modified, Removed,
           Announced, BeingDeleted, poolVars, leader, history
  <1> QED
    BY <1>1, <1>2, <1>3, <1>4 DEF IInv, Known

LEMMA PodStartsStep ==
    ASSUME IInv, PodStarts
    PROVE  IInv'
  <1>1. pods + 1 \in 0 .. NumNodes
    BY CapacityAssumption DEF PodStarts, IInv, TypeOK
  <1> QED
    BY <1>1, PodsBecomeStep DEF PodStarts

LEMMA PodEndsStep ==
    ASSUME IInv, PodEnds
    PROVE  IInv'
  <1>1. pods - 1 \in 0 .. NumNodes
    BY CapacityAssumption DEF PodEnds, IInv, TypeOK
  <1> QED
    BY <1>1, PodsBecomeStep DEF PodEnds

(* The cluster is done with the DaemonSet. *)
LEMMA DaemonSetGoneStep ==
    ASSUME IInv, DaemonSetGone
    PROVE  IInv'
  <1>1. TypeOK'
    BY DEF DaemonSetGone, IInv, TypeOK, poolVars, podVars, leader, history, bounds
  <1>2. PodsCounted' /\ StoresFollow'
    BY PodsCountedFrame, StoresFollowFrame DEF DaemonSetGone, IInv, poolVars, podVars, leader
  <1>3. NothingBeforeInit' /\ OneDeploys'
    BY DEF DaemonSetGone, IInv, NothingBeforeInit, OneDeploys, poolVars, leader
  <1>4. NeedIsKnown'
    BY DEF DaemonSetGone, IInv, Known, NeedIsKnown, HasHostNetworkOption, At, Deploying,
           Modified, BeingDeleted, poolVars, history
  <1>5. LossIsKnown'
    BY DEF DaemonSetGone, IInv, Known, LossIsKnown, At, history
  <1>6. PresentIsWatched' /\ ExcessIsKnown' /\ PresentIsFlagged'
    BY DEF DaemonSetGone, PresentIsWatched, ExcessIsKnown, PresentIsFlagged
  <1> QED
    BY <1>1, <1>2, <1>3, <1>4, <1>5, <1>6 DEF IInv, Known

(* Somebody deletes the DaemonSet: the pods informer will see its pods go.  *)
LEMMA DeletedByHandStep ==
    ASSUME IInv, DeletedByHand
    PROVE  IInv'
  <1>1. TypeOK'
    <2>1. forgotten' \in BOOLEAN
      BY DEF DeletedByHand
    <2>2. changes' \in 0 .. MaxChanges /\ faults' = faults
      BY BoundsAssumption DEF DeletedByHand, Change, IInv, TypeOK
    <2> QED
      BY <2>1, <2>2 DEF DeletedByHand, IInv, TypeOK, poolVars, podVars, leader
  <1>2. PodsCounted' /\ StoresFollow'
    BY PodsCountedFrame, StoresFollowFrame DEF DeletedByHand, IInv, poolVars, podVars, leader
  <1>3. NothingBeforeInit' /\ OneDeploys'
    BY DEF DeletedByHand, IInv, NothingBeforeInit, OneDeploys, poolVars, leader
  <1>4. NeedIsKnown'
    BY DEF DeletedByHand, IInv, Known, NeedIsKnown, HasHostNetworkOption, At, Deploying,
           Modified, BeingDeleted, poolVars
  <1>5. LossIsKnown'
    <2> SUFFICES ASSUME deployed', ~forgotten', ~At("wait")'
                 PROVE  stopWatch' = "open" /\ pods' > 0 /\ ds' = "none"
      BY DEF LossIsKnown
    <2>1. pods # 0 /\ ~forgotten /\ ds' = "none" /\ ds = "present" /\ pods' = pods
      BY DEF DeletedByHand, podVars
    <2>3. pods > 0
      BY <2>1 DEF IInv, TypeOK
    <2>2. phase # "init"
      BY DEF DeletedByHand, IInv, NothingBeforeInit
    <2> QED
      BY <2>1, <2>2, <2>3 DEF DeletedByHand, IInv, Known, PresentIsWatched, At
  <1>6. PresentIsWatched' /\ ExcessIsKnown' /\ PresentIsFlagged'
    BY DEF DeletedByHand, PresentIsWatched, ExcessIsKnown, PresentIsFlagged
  <1> QED
    BY <1>1, <1>2, <1>3, <1>4, <1>5, <1>6 DEF IInv, Known

(* The leader dies. *)
LEMMA CrashStep ==
    ASSUME IInv, Crash
    PROVE  IInv'
BY RestartStep, BoundsAssumption DEF Crash, Fault, IInv, TypeOK, history

-----------------------------------------------------------------------------
(* The leader *)

(* A new informer of the pods starts with what there is. *)
LEMMA WatchPodsCounted ==
    ASSUME TypeOK, WatchPods, UNCHANGED pods
    PROVE  /\ PodsCounted' /\ podWatch' \in Seq({"add", "delete"})
           /\ operators' \in 0 .. NumNodes /\ stopWatch' = "open"
  <1> DEFINE count == [i \in 0 .. pods |-> i]
  <1>1. /\ pods \in 0 .. NumNodes /\ pods' = pods /\ operators' = 0 /\ stopWatch' = "open"
        /\ podWatch' = [i \in 1 .. pods |-> "add"]
    BY DEF TypeOK, WatchPods
  <1>2. podWatch' \in Seq({"add", "delete"}) /\ Len(podWatch') = pods
    <2>1. podWatch' \in [1 .. pods -> {"add", "delete"}] /\ pods \in Nat
      BY <1>1, CapacityAssumption
    <2> QED
      BY <2>1
  <1>3. count \in [0 .. Len(podWatch') -> 0 .. NumNodes]
    BY <1>1, <1>2, CapacityAssumption
  <1>4. PICK trail \in [0 .. Len(podWatch') -> 0 .. NumNodes] : trail = count
    BY <1>3
  <1>5. Trail(trail)'
    <2>1. trail[0] = operators' /\ trail[Len(podWatch')] = pods'
      BY <1>1, <1>2, <1>4
    <2>2. ASSUME NEW i \in 1 .. Len(podWatch')
          PROVE  podWatch'[i] = "add" /\ trail[i] = trail[i - 1] + 1
      BY <1>1, <1>2, <1>4
    <2> QED
      BY <2>1, <2>2 DEF Trail
  <1> QED
    BY <1>1, <1>2, <1>5, CapacityAssumption DEF PodsCounted

(* operator.Init and the first lists of the informers *)
LEMMA OperatorInitStep ==
    ASSUME IInv, OperatorInit
    PROVE  IInv'
  <1>1. /\ phase = "init" /\ phase' = "sync" /\ store' = store /\ pc' = pc /\ ds' = ds
        /\ chan' = chan /\ pools' = pools /\ pods' = pods
        /\ \A k \in Kinds : store[k] = "absent"
        /\ \A t \in Threads : pc[t] = "idle"
        /\ TypeOK /\ deployed' = (ds # "none")
    BY DEF OperatorInit, IInv, NothingBeforeInit
  <1>2. /\ PodsCounted' /\ podWatch' \in Seq({"add", "delete"}) /\ operators' \in 0 .. NumNodes
        /\ stopWatch' \in {"nil", "open"} /\ (ds # "none" => stopWatch' = "open")
    <2>1. CASE ds # "none"
      BY <1>1, <2>1, WatchPodsCounted DEF OperatorInit
    <2>2. CASE ds = "none"
      BY <1>1, <2>2, PodsCountedFrame DEF OperatorInit, IInv, NothingBeforeInit, TypeOK
    <2> QED
      BY <2>1, <2>2
  <1>3. poolWatch' \in [Kinds -> Seq(PoolStates)]
    <2>1. \A k \in Kinds : pools[k] \in PoolStates
      BY <1>1 DEF TypeOK
    <2>2. \A p \in PoolStates : <<p>> \in Seq(PoolStates)
      OBVIOUS
    <2>3. <<>> \in Seq(PoolStates)
      BY EmptySeq
    <2> QED
      BY <2>1, <2>2, <2>3 DEF OperatorInit
  <1>4. TypeOK'
    <2>1. deployed' \in BOOLEAN /\ forgotten' \in BOOLEAN /\ leftover' \in BOOLEAN
      BY DEF OperatorInit
    <2>2. cold' \subseteq Kinds \cup {"pods"}
      BY DEF OperatorInit
    <2>3. changes' = changes /\ faults' = faults /\ newNodes' = newNodes
      BY DEF OperatorInit, bounds
    <2> QED
      BY <1>1, <1>2, <1>3, <2>1, <2>2, <2>3 DEF TypeOK
  <1>5. StoresFollow'
    <2>1. ASSUME NEW k \in Kinds, pools[k] = "absent"
          PROVE  poolWatch'[k] = <<>>
      BY <2>1 DEF OperatorInit
    <2>2. ASSUME NEW k \in Kinds, pools[k] # "absent"
          PROVE  poolWatch'[k] # <<>> /\ poolWatch'[k][Len(poolWatch'[k])] = pools[k]
      BY <2>2 DEF OperatorInit
    <2> QED
      BY <1>1, <2>1, <2>2 DEF StoresFollow
  <1>6. NothingBeforeInit' /\ OneDeploys'
    BY <1>1 DEF NothingBeforeInit, OneDeploys
  <1>7. NeedIsKnown'
    BY <1>1 DEF NeedIsKnown, HasHostNetworkOption
  <1>8. LossIsKnown'
    <2>1. deployed' /\ ds' # "present" => forgotten'
      BY <1>1 DEF OperatorInit, TypeOK
    <2> QED
      BY <2>1 DEF LossIsKnown
  <1>9. PresentIsWatched' /\ PresentIsFlagged'
    BY <1>1, <1>2 DEF PresentIsWatched, PresentIsFlagged, At
  <1>10. ExcessIsKnown'
    <2> SUFFICES ASSUME ds' = "present", ~leftover'
                 PROVE  Announced'
      BY DEF ExcessIsKnown
    <2>1. PICK k \in Kinds : pools[k] = "host"
      BY <1>1 DEF OperatorInit, HasHostNetworkOption
    <2>2. poolWatch'[k] = <<"host">>
      BY <2>1 DEF OperatorInit
    <2>3. Len(poolWatch'[k]) = 1 /\ poolWatch'[k][1] = "host"
      BY <2>2
    <2> QED
      BY <2>3 DEF Announced
  <1> QED
    BY <1>2, <1>4, <1>5, <1>6, <1>7, <1>8, <1>9, <1>10 DEF IInv, Known

(* Steps that change nothing but the phase of a started leader, or the       *)
(* number of new nodes                                                       *)
LEMMA ListenerSteps ==
    ASSUME IInv, StoresSynced \/ ReceiveNewNode
    PROVE  IInv'
  <1>1. /\ UNCHANGED <<pools, poolWatch, store, chan, pods, podWatch, operators, cold, deployed,
                       stopWatch, pc, ds, forgotten, leftover, changes, faults>>
        /\ phase' \in {"init", "sync", "ready"} /\ (phase' = "init" <=> phase = "init")
        /\ newNodes' \in 0 .. ChanCapacity
    <2>1. CASE StoresSynced
      BY <2>1 DEF StoresSynced, IInv, TypeOK, poolVars, podVars, history, bounds
    <2>2. CASE ReceiveNewNode
      <3>1. newNodes' \in 0 .. ChanCapacity
        BY <2>2, CapacityAssumption DEF ReceiveNewNode, IInv, TypeOK
      <3> QED
        BY <2>2, <3>1 DEF ReceiveNewNode, IInv, TypeOK, poolVars, leader, history, bounds
    <2> QED
      BY <2>1, <2>2
  <1>2. TypeOK' /\ NothingBeforeInit' /\ OneDeploys'
    BY <1>1 DEF IInv, TypeOK, NothingBeforeInit, OneDeploys
  <1>3. PodsCounted' /\ StoresFollow'
    BY <1>1, PodsCountedFrame, StoresFollowFrame DEF IInv
  <1>4. Known'
    BY <1>1 DEF IInv, Known, NeedIsKnown, LossIsKnown, PresentIsWatched, ExcessIsKnown,
           PresentIsFlagged, HasHostNetworkOption, At, Deploying, Modified, Removed,
           Announced, BeingDeleted
  <1> QED
    BY <1>2, <1>3, <1>4 DEF IInv

-----------------------------------------------------------------------------
(* The pools *)

(* addPool, modifyPool and removePool *)
LEMMA PoolEventStep ==
    ASSUME IInv, NEW k \in Kinds, PoolEvent(k)
    PROVE  IInv'
  <1> DEFINE new == Head(poolWatch[k])
             c == <<k, IF new = "absent" THEN "deleted" ELSE "modified">>
  <1>1. /\ poolWatch[k] # <<>> /\ poolWatch[k] \in Seq(PoolStates)
        /\ new \in PoolStates /\ store[k] \in PoolStates /\ new = poolWatch[k][1]
        /\ poolWatch' = [poolWatch EXCEPT ![k] = Tail(poolWatch[k])]
        /\ Tail(poolWatch[k]) \in Seq(PoolStates)
        /\ store' = [store EXCEPT ![k] = new]
        /\ phase # "init" /\ Informer(k) \in Threads /\ c \in Channels
        /\ pc[Informer(k)] = "idle"
        /\ UNCHANGED <<pools, pods, podWatch, operators, newNodes, phase, deployed, stopWatch,
                       ds, leftover, changes, faults>>
    <2>1. /\ poolWatch[k] # <<>> /\ poolWatch[k] \in Seq(PoolStates) /\ store[k] \in PoolStates
          /\ poolWatch' = [poolWatch EXCEPT ![k] = Tail(poolWatch[k])]
          /\ store' = [store EXCEPT ![k] = new]
          /\ phase # "init" /\ pc[Informer(k)] = "idle"
      BY DEF PoolEvent, IInv, TypeOK
    <2>2. /\ new \in PoolStates /\ new = poolWatch[k][1] /\ Tail(poolWatch[k]) \in Seq(PoolStates)
      BY <2>1, QueueFacts
    <2>3. Informer(k) \in Threads /\ c \in Channels
      BY Names
    <2>4. UNCHANGED <<pools, pods, podWatch, operators, newNodes, phase, deployed, stopWatch,
                      ds, leftover, changes, faults>>
      BY DEF PoolEvent, podVars, bounds
    <2> QED
      BY <2>1, <2>2, <2>3, <2>4
  <1>2. /\ cold' \subseteq Kinds \cup {"pods"}
        /\ poolWatch' \in [Kinds -> Seq(PoolStates)] /\ store' \in [Kinds -> PoolStates]
    BY <1>1 DEF PoolEvent, IInv, TypeOK
  (* The pool is new: the informer deploys, or relies on the flag. *)
  <1>3. ASSUME store[k] = "absent"
        PROVE  /\ pc' = IF new = "host" /\ ~deployed THEN [pc EXCEPT ![Informer(k)] = "deploy"] ELSE pc
               /\ forgotten' = (forgotten \/ (new = "host" /\ deployed /\ BeingDeleted))
               /\ UNCHANGED chan
    BY <1>3 DEF PoolEvent, Misled
  (* The pool was known: the informer sends. *)
  <1>4. ASSUME store[k] # "absent"
        PROVE  /\ Len(chan[c]) < ChanCapacity
               /\ chan' = [chan EXCEPT ![c] = Append(chan[c], IF new = "absent" THEN store[k] ELSE new)]
               /\ UNCHANGED <<pc, forgotten>>
    BY <1>4 DEF PoolEvent
  <1> HIDE DEF new
  <1>5. /\ pc' \in [Threads -> {"idle", "deploy", "create", "wait", "delete", "close", "get", "found"}]
        /\ forgotten' \in BOOLEAN
    BY <1>1, <1>3, <1>4 DEF IInv, TypeOK
  <1> DEFINE e == IF new = "absent" THEN store[k] ELSE new
  <1>15. ASSUME store[k] # "absent"
         PROVE  /\ e \in {"plain", "host"} /\ chan[c] \in Seq({"plain", "host"})
                /\ chan'[c] \in Seq({"plain", "host"}) /\ chan'[c] # <<>>
                /\ Len(chan'[c]) = Len(chan[c]) + 1 /\ Len(chan'[c]) <= ChanCapacity
                /\ chan'[c][Len(chan'[c])] = e /\ Len(chan[c]) \in Nat
                /\ \A i \in 1 .. Len(chan[c]) : chan'[c][i] = chan[c][i]
                /\ \A d \in Channels \ {c} : chan'[d] = chan[d]
                /\ chan' \in [Channels -> Seq({"plain", "host"})]
    <2>1. e \in {"plain", "host"} /\ chan[c] \in Seq({"plain", "host"})
      BY <1>1, <1>15 DEF PoolStates, IInv, TypeOK
    <2>2. chan' = [chan EXCEPT ![c] = Append(chan[c], e)] /\ Len(chan[c]) < ChanCapacity
      BY <1>4, <1>15
    <2> HIDE DEF e, c
    <2>3. /\ Append(chan[c], e) \in Seq({"plain", "host"}) /\ Append(chan[c], e) # <<>>
          /\ Len(Append(chan[c], e)) = Len(chan[c]) + 1 /\ Len(chan[c]) \in Nat
          /\ Append(chan[c], e)[Len(chan[c]) + 1] = e
          /\ \A i \in 1 .. Len(chan[c]) : Append(chan[c], e)[i] = chan[c][i]
      BY <2>1, QueueFacts
    <2>4. chan'[c] = Append(chan[c], e) /\ \A d \in Channels \ {c} : chan'[d] = chan[d]
      BY <1>1, <2>2 DEF IInv, TypeOK
    <2>5. chan' \in [Channels -> Seq({"plain", "host"})]
      BY <1>1, <2>2, <2>3 DEF IInv, TypeOK
    <2> QED
      BY <2>1, <2>2, <2>3, <2>4, <2>5, CapacityAssumption
  <1> HIDE DEF e, c
  <1>6. /\ chan' \in [Channels -> Seq({"plain", "host"})]
        /\ \A d \in Channels : Len(chan'[d]) <= ChanCapacity
    BY <1>3, <1>15 DEF IInv, TypeOK
  <1>7. TypeOK'
    BY <1>1, <1>2, <1>5, <1>6 DEF IInv, TypeOK
  <1>8. PodsCounted' /\ NothingBeforeInit'
    BY <1>1, PodsCountedFrame DEF IInv, NothingBeforeInit
  <1>9. StoresFollow'
    <2>1. ASSUME NEW l \in Kinds, l # k
          PROVE  poolWatch'[l] = poolWatch[l] /\ store'[l] = store[l]
      BY <1>1, <2>1 DEF IInv, TypeOK
    <2>2. poolWatch'[k] = Tail(poolWatch[k]) /\ store'[k] = new
      BY <1>1 DEF IInv, TypeOK
    <2>3. pools[k] = IF Tail(poolWatch[k]) = <<>> THEN new ELSE Tail(poolWatch[k])[Len(Tail(poolWatch[k]))]
      <3>1. pools[k] = poolWatch[k][Len(poolWatch[k])]
        BY <1>1 DEF IInv, StoresFollow
      <3> QED
        BY <1>1, <3>1, QueueFacts
    <2> QED
      BY <1>1, <2>1, <2>2, <2>3 DEF StoresFollow, IInv
  <1>10. OneDeploys'
    BY <1>1, <1>3, <1>4 DEF IInv, TypeOK, OneDeploys
  (* Nobody leaves the place where he is but the informer, which was idle. *)
  <1>11. \A place : place # "idle" => (At(place) => At(place)')
    BY <1>1, <1>3, <1>4 DEF At, IInv, TypeOK
  <1>12. BeingDeleted' <=> BeingDeleted
    BY <1>1, <1>3, <1>4 DEF BeingDeleted, IInv, TypeOK
  <1>13. At("close")' <=> At("close")
    BY <1>1, <1>3, <1>4 DEF At, IInv, TypeOK
  <1>14. Modified => Modified'
    BY <1>3, <1>15, Names DEF Modified
  <1>16. Removed => Removed'
    <2>1. CASE store[k] = "absent"
      BY <2>1, <1>3 DEF Removed
    <2>2. CASE store[k] # "absent"
      <3> SUFFICES ASSUME NEW l \in Kinds, NEW i \in 1 .. Len(chan[<<l, "deleted">>]),
                          chan[<<l, "deleted">>][i] = "host"
                   PROVE  /\ i \in 1 .. Len(chan'[<<l, "deleted">>])
                          /\ chan'[<<l, "deleted">>][i] = "host"
        BY DEF Removed
      <3>1. CASE c = <<l, "deleted">>
        <4>1. i \in 1 .. Len(chan[c]) /\ chan[c][i] = "host"
          BY <3>1
        <4>2. /\ Len(chan'[c]) = Len(chan[c]) + 1 /\ Len(chan[c]) \in Nat
              /\ \A j \in 1 .. Len(chan[c]) : chan'[c][j] = chan[c][j]
          BY <1>15, <2>2
        <4>3. i \in 1 .. Len(chan'[c])
          BY <4>1, <4>2
        <4>4. chan'[c][i] = "host"
          BY <4>1, <4>2
        <4> QED
          BY <3>1, <4>3, <4>4
      <3>2. CASE c # <<l, "deleted">>
        BY <1>15, <2>2, <3>2, Names
      <3> QED
        BY <3>1, <3>2
    <2> QED
      BY <2>1, <2>2
  <1>17. Announced /\ new # "host" => Announced'
    <2> SUFFICES ASSUME new # "host", NEW l \in Kinds, NEW i \in 1 .. Len(poolWatch[l]),
                        poolWatch[l][i] = "host"
                 PROVE  Announced'
      BY DEF Announced
    <2>1. CASE l # k
      BY <1>1, <2>1 DEF Announced, IInv, TypeOK
    <2>2. CASE l = k
      <3>1. poolWatch'[k] = Tail(poolWatch[k]) /\ i # 1
        BY <1>1, <2>2 DEF IInv, TypeOK
      <3>2. i - 1 \in 1 .. Len(Tail(poolWatch[k])) /\ Tail(poolWatch[k])[i - 1] = "host"
        BY <1>1, <2>2, <3>1, QueueFacts
      <3> QED
        BY <3>1, <3>2 DEF Announced
    <2> QED
      BY <2>1, <2>2
  <1>18. store'[k] = new /\ \A l \in Kinds \ {k} : store'[l] = store[l]
    BY <1>1 DEF IInv, TypeOK
  <1>19. store[k] # "absent" /\ new # "absent" => Modified'
    BY <1>15 DEF Modified, c
  <1>20. NeedIsKnown'
    <2> SUFFICES ASSUME HasHostNetworkOption(store)', ~forgotten', ~Deploying', ~Modified'
                 PROVE  deployed' /\ ~BeingDeleted'
      BY DEF NeedIsKnown
    <2>1. ~forgotten /\ ~Deploying /\ ~Modified
      <3>1. ~forgotten
        BY <1>3, <1>4
      <3>2. /\ At("deploy") => At("deploy")'
            /\ At("create") => At("create")'
            /\ At("wait") => At("wait")'
        BY <1>11
      <3> QED
        BY <1>14, <3>1, <3>2 DEF Deploying
    <2>2. CASE new = "host"
      <3>1. store[k] = "absent"
        BY <1>19, <2>2
      <3>2. deployed
        BY <1>1, <1>3, <2>2, <3>1 DEF Deploying, At, IInv, TypeOK
      <3> QED
        BY <1>1, <1>3, <1>12, <2>2, <3>1, <3>2
    <2>3. CASE new # "host"
      <3>1. HasHostNetworkOption(store)
        BY <1>18, <2>3 DEF HasHostNetworkOption
      <3> QED
        BY <1>1, <1>12, <2>1, <3>1 DEF IInv, Known, NeedIsKnown
    <2> QED
      BY <2>2, <2>3
  <1>21. LossIsKnown'
    <2>1. forgotten => forgotten'
      BY <1>3, <1>4
    <2>2. pc[PodsInformer] \in {"get", "found"} => pc'[PodsInformer] \in {"get", "found"}
      BY <1>1, <1>3, <1>4, Names DEF IInv, TypeOK
    <2>3. At("wait") => At("wait")'
      BY <1>11
    <2> QED
      BY <1>1, <1>13, <2>1, <2>2, <2>3 DEF IInv, Known, LossIsKnown
  <1>22. PresentIsWatched'
    <2>1. forgotten => forgotten'
      BY <1>3, <1>4
    <2>3. At("wait") => At("wait")'
      BY <1>11
    <2> QED
      BY <1>1, <1>13, <2>1, <2>3 DEF IInv, Known, PresentIsWatched
  <1>23. ExcessIsKnown'
    <2> SUFFICES ASSUME ds' = "present", ~HasHostNetworkOption(store)', ~leftover'
                 PROVE  At("wait")' \/ At("delete")' \/ Modified' \/ Removed' \/ Announced'
      BY DEF ExcessIsKnown
    <2>1. new # "host"
      BY <1>18 DEF HasHostNetworkOption
    <2>2. CASE ~HasHostNetworkOption(store)
      <3>1. At("wait") \/ At("delete") \/ Modified \/ Removed \/ Announced
        BY <1>1, <2>2 DEF IInv, Known, ExcessIsKnown
      <3>2. (At("wait") => At("wait")') /\ (At("delete") => At("delete")')
        BY <1>11
      <3> QED
        BY <3>1, <3>2, <1>14, <1>16, <1>17, <2>1
    <2>3. CASE HasHostNetworkOption(store)
      <3>1. store[k] = "host"
        BY <1>18, <2>3 DEF HasHostNetworkOption
      <3>2. CASE new = "absent"
        <4>1. c = <<k, "deleted">> /\ e = "host"
          BY <3>1, <3>2 DEF c, e
        <4>2. Len(chan'[c]) \in 1 .. Len(chan'[c])
          BY <1>15, <3>1
        <4> QED
          BY <1>15, <3>1, <4>1, <4>2 DEF Removed
      <3>3. CASE new # "absent"
        BY <1>19, <3>1, <3>3
      <3> QED
        BY <3>2, <3>3
    <2> QED
      BY <2>2, <2>3
  <1>24. PresentIsFlagged'
    <2>1. At("wait") => At("wait")'
      BY <1>11
    <2>2. At("create")' => At("create")
      BY <1>1, <1>3, <1>4 DEF At, IInv, TypeOK
    <2> QED
      BY <1>1, <2>1, <2>2 DEF IInv, Known, PresentIsFlagged
  <1> QED
    BY <1>7, <1>8, <1>9, <1>10, <1>20, <1>21, <1>22, <1>23, <1>24 DEF IInv, Known

(* The listeners of the channels compare the stores with the flag. *)
LEMMA PoolCallbackStep ==
    ASSUME IInv, NEW c \in Channels, PoolCallback(c)
    PROVE  IInv'
  <1> DEFINE needed == HasHostNetworkOption(store)
             heard == c[2] = "modified" \/ Head(chan[c]) = "host"
  <1>1. /\ phase = "ready" /\ pc[c] = "idle" /\ c \in Threads
        /\ chan[c] # <<>> /\ chan[c] \in Seq({"plain", "host"})
        /\ chan' = [chan EXCEPT ![c] = Tail(chan[c])]
        /\ forgotten' = (forgotten \/ (needed /\ deployed /\ BeingDeleted))
        /\ UNCHANGED <<pools, poolWatch, store, pods, podWatch, operators, newNodes, phase, cold,
                       deployed, stopWatch, ds, leftover, changes, faults>>
    BY Names DEF PoolCallback, Misled, IInv, TypeOK, podVars, leader, bounds
  <1>2. pc' = IF heard /\ needed /\ ~deployed THEN [pc EXCEPT ![c] = "deploy"]
              ELSE IF heard /\ ~needed /\ deployed THEN [pc EXCEPT ![c] = "delete"] ELSE pc
    <2>1. CASE ~heard
      BY <2>1 DEF PoolCallback
    <2>2. CASE heard /\ needed /\ ~deployed
      BY <2>2 DEF PoolCallback
    <2>3. CASE heard /\ ~needed /\ deployed
      BY <2>3 DEF PoolCallback
    <2>4. CASE heard /\ ~(needed /\ ~deployed) /\ ~(~needed /\ deployed)
      BY <2>4 DEF PoolCallback
    <2> HIDE DEF needed, heard
    <2> QED
      BY <2>1, <2>2, <2>3, <2>4
  <1> HIDE DEF needed, heard
  <1>3. /\ chan' \in [Channels -> Seq({"plain", "host"})]
        /\ chan'[c] = Tail(chan[c]) /\ \A d \in Channels \ {c} : chan'[d] = chan[d]
        /\ Tail(chan[c]) \in Seq({"plain", "host"}) /\ Len(Tail(chan[c])) = Len(chan[c]) - 1
        /\ Len(chan[c]) \in Nat
    BY <1>1, QueueFacts DEF IInv, TypeOK
  <1>4. TypeOK'
    <2>1. /\ pc' \in [Threads -> {"idle", "deploy", "create", "wait", "delete", "close", "get", "found"}]
          /\ forgotten' \in BOOLEAN
      BY <1>1, <1>2 DEF IInv, TypeOK
    <2>2. \A d \in Channels : Len(chan'[d]) <= ChanCapacity
      <3>1. Len(chan[c]) <= ChanCapacity /\ \A d \in Channels \ {c} : Len(chan'[d]) <= ChanCapacity
        BY <1>3 DEF IInv, TypeOK
      <3>2. Len(chan'[c]) <= ChanCapacity
        BY <1>3, <3>1, CapacityAssumption
      <3> QED
        BY <3>1, <3>2
    <2> QED
      BY <1>1, <1>3, <2>1, <2>2 DEF IInv, TypeOK
  <1>5. PodsCounted' /\ StoresFollow' /\ NothingBeforeInit'
    BY <1>1, PodsCountedFrame, StoresFollowFrame DEF IInv, NothingBeforeInit
  <1>6. OneDeploys'
    BY <1>1, <1>2 DEF IInv, TypeOK, OneDeploys
  <1>7. \A t \in Threads : t # c => pc'[t] = pc[t]
    BY <1>1, <1>2 DEF IInv, TypeOK
  <1>8. /\ At("deploy") => At("deploy")'
        /\ At("create") <=> At("create")'
        /\ At("wait") => At("wait")'
        /\ At("delete") => At("delete")'
        /\ At("close") <=> At("close")'
    BY <1>1, <1>2 DEF At, IInv, TypeOK
  <1>9. NeedIsKnown'
    <2> SUFFICES ASSUME needed, ~forgotten', ~Deploying', ~Modified'
                 PROVE  deployed' /\ ~BeingDeleted'
      BY <1>1 DEF NeedIsKnown, needed, HasHostNetworkOption
    <2>1. ~forgotten /\ (deployed => ~BeingDeleted)
      BY <1>1
    <2>2. ~Deploying
      BY <1>8 DEF Deploying
    <2>3. deployed
      <3>1. CASE heard
        BY <1>1, <1>2, <3>1 DEF Deploying, At, IInv, TypeOK
      <3>2. CASE ~heard
        <4>1. \A k \in Kinds : c # <<k, "modified">>
          BY <3>2 DEF heard
        <4>2. ~Modified
          BY <1>3, <4>1, Names DEF Modified
        <4> QED
          BY <2>1, <2>2, <4>2 DEF IInv, Known, NeedIsKnown, needed
      <3> QED
        BY <3>1, <3>2
    <2>4. pc' = pc
      BY <1>2, <2>3
    <2> QED
      BY <1>1, <2>1, <2>3, <2>4 DEF BeingDeleted
  <1>10. LossIsKnown' /\ PresentIsWatched'
    <2>1. forgotten => forgotten'
      BY <1>1
    <2>2. pc[PodsInformer] \in {"get", "found"} => pc'[PodsInformer] \in {"get", "found"}
      BY <1>1, <1>7, Names
    <2> QED
      BY <1>1, <1>8, <2>1, <2>2 DEF IInv, Known, LossIsKnown, PresentIsWatched
  <1>11. PresentIsFlagged'
    BY <1>1, <1>8 DEF IInv, Known, PresentIsFlagged
  <1>12. ExcessIsKnown'
    <2> SUFFICES ASSUME ds' = "present", ~needed, ~leftover', ~At("wait")', ~At("delete")'
                 PROVE  Modified' \/ Removed' \/ Announced'
      BY <1>1 DEF ExcessIsKnown, needed, HasHostNetworkOption
    <2>1. Modified \/ Removed \/ Announced
      BY <1>1, <1>8 DEF IInv, Known, ExcessIsKnown, needed
    <2>2. deployed
      BY <1>1, <1>8 DEF IInv, Known, PresentIsFlagged
    <2>3. ~heard
      BY <1>1, <1>2, <2>2 DEF At, IInv, TypeOK
    <2>4. CASE Announced
      BY <1>1, <2>4 DEF Announced
    <2>5. CASE Modified
      <3>1. \A k \in Kinds : c # <<k, "modified">>
        BY <2>3 DEF heard
      <3> QED
        BY <1>3, <2>5, <3>1, Names DEF Modified
    <2>6. CASE Removed
      <3>1. PICK k \in Kinds, i \in Nat : i \in 1 .. Len(chan[<<k, "deleted">>])
                                          /\ chan[<<k, "deleted">>][i] = "host"
        BY <2>6 DEF Removed
      <3>2. CASE c # <<k, "deleted">>
        BY <1>3, <3>1, <3>2, Names DEF Removed
      <3>3. CASE c = <<k, "deleted">>
        <4>1. i \in 1 .. Len(chan[c]) /\ chan[c][i] = "host"
          BY <3>1, <3>3
        <4>2. i # 1
          BY <1>1, <2>3, <4>1, QueueFacts DEF heard
        <4>3. i - 1 \in 1 .. Len(Tail(chan[c])) /\ Tail(chan[c])[i - 1] = "host"
          BY <1>1, <4>1, <4>2, QueueFacts
        <4> QED
          BY <1>3, <3>3, <4>3 DEF Removed
      <3> QED
        BY <3>2, <3>3
    <2> QED
      BY <2>1, <2>4, <2>5, <2>6
  <1> QED
    BY <1>4, <1>5, <1>6, <1>9, <1>10, <1>11, <1>12 DEF IInv, Known

-----------------------------------------------------------------------------
(* DeployOrDie and Delete *)

LEMMA LockDeployStep ==
    ASSUME IInv, NEW t \in Threads, LockDeploy(t)
    PROVE  IInv'
  <1>1. /\ pc[t] = "deploy" /\ \A u \in Threads : pc[u] \notin {"create", "wait"}
        /\ pc' = [pc EXCEPT ![t] = IF deployed THEN "idle" ELSE "create"]
        /\ forgotten' = (forgotten \/ (deployed /\ BeingDeleted))
        /\ UNCHANGED <<pools, poolWatch, store, chan, pods, podWatch, operators, newNodes, phase,
                       cold, deployed, stopWatch, ds, leftover, changes, faults>>
    BY DEF LockDeploy, Goto, Misled, poolVars, podVars, leader, bounds
  <1>2. TypeOK'
    <2>1. /\ pc' \in [Threads -> {"idle", "deploy", "create", "wait", "delete", "close", "get", "found"}]
          /\ forgotten' \in BOOLEAN
      BY <1>1 DEF IInv, TypeOK
    <2> QED
      BY <1>1, <2>1 DEF IInv, TypeOK
  <1>3. phase # "init"
    BY <1>1 DEF IInv, NothingBeforeInit
  <1>4. PodsCounted' /\ StoresFollow' /\ NothingBeforeInit' /\ OneDeploys'
    BY <1>1, <1>3, PodsCountedFrame, StoresFollowFrame
    DEF IInv, TypeOK, NothingBeforeInit, OneDeploys
  <1>5. /\ pc' \in [Threads -> {"idle", "deploy", "create", "wait", "delete", "close", "get", "found"}]
        /\ pc \in [Threads -> {"idle", "deploy", "create", "wait", "delete", "close", "get", "found"}]
        /\ deployed \in BOOLEAN
    BY <1>2 DEF IInv, TypeOK
  <1>6. /\ At("wait") <=> At("wait")'
        /\ At("delete") <=> At("delete")'
        /\ At("close") <=> At("close")'
        /\ BeingDeleted <=> BeingDeleted'
        /\ At("create")' => ~deployed
    BY <1>1, <1>5 DEF At, BeingDeleted
  <1>7. NeedIsKnown'
    <2>1. CASE deployed
      BY <1>1, <1>6, <2>1 DEF NeedIsKnown
    <2>2. CASE ~deployed
      BY <1>1, <1>5, <2>2 DEF NeedIsKnown, Deploying, At
    <2> QED
      BY <2>1, <2>2
  <1>8. LossIsKnown' /\ PresentIsWatched'
    <2>1. forgotten => forgotten'
      BY <1>1
    <2>2. pc[PodsInformer] \in {"get", "found"} => pc'[PodsInformer] \in {"get", "found"}
      BY <1>1, <1>5, Names
    <2> QED
      BY <1>1, <1>6, <2>1, <2>2 DEF IInv, Known, LossIsKnown, PresentIsWatched
  <1>9. ExcessIsKnown'
    BY <1>1, <1>6 DEF IInv, Known, ExcessIsKnown, HasHostNetworkOption, Modified, Removed, Announced
  <1>10. PresentIsFlagged'
    <2>1. ~At("wait")
      BY <1>1 DEF At
    <2> QED
      BY <1>1, <1>3, <1>6, <2>1 DEF IInv, Known, PresentIsFlagged
  <1> QED
    BY <1>2, <1>4, <1>7, <1>8, <1>9, <1>10 DEF IInv, Known

(* The Create of the DaemonSet, which succeeds or is given up. *)
LEMMA CreateStep ==
    ASSUME IInv, NEW t \in Threads, Create(t)
    PROVE  IInv'
  <1>1. /\ pc[t] = "create"
        /\ UNCHANGED <<pools, poolWatch, store, chan, pods, podWatch, operators, newNodes, phase,
                       cold, stopWatch, leftover>>
        /\ \/ /\ ds = "none" /\ ds' = "present" /\ pc' = [pc EXCEPT ![t] = "wait"]
              /\ UNCHANGED <<deployed, forgotten>>
           \/ /\ ds' = ds /\ pc' = [pc EXCEPT ![t] = "idle"]
              /\ deployed' = FALSE /\ forgotten' = TRUE
    BY DEF Create, Goto, poolVars, podVars, leader, history
  <1>2. changes' \in 0 .. MaxChanges /\ faults' \in 0 .. MaxFaults
    BY BoundsAssumption DEF Create, Fault, NoFault, IInv, TypeOK, bounds
  <1>3. /\ pc' \in [Threads -> {"idle", "deploy", "create", "wait", "delete", "close", "get", "found"}]
        /\ pc \in [Threads -> {"idle", "deploy", "create", "wait", "delete", "close", "get", "found"}]
    BY <1>1 DEF IInv, TypeOK
  <1>4. TypeOK'
    <2>1. deployed' \in BOOLEAN /\ forgotten' \in BOOLEAN /\ ds' \in {"none", "present", "deleting"}
      BY <1>1 DEF IInv, TypeOK
    <2> QED
      BY <1>1, <1>2, <1>3, <2>1 DEF IInv, TypeOK
  <1>5. phase # "init"
    BY <1>1 DEF IInv, NothingBeforeInit
  <1>6. PodsCounted' /\ StoresFollow' /\ NothingBeforeInit'
    BY <1>1, <1>5, PodsCountedFrame, StoresFollowFrame DEF IInv, NothingBeforeInit
  <1>7. OneDeploys'
    BY <1>1, <1>3 DEF IInv, OneDeploys
  <1>8. CASE ds = "none" /\ ds' = "present" /\ pc' = [pc EXCEPT ![t] = "wait"]
             /\ UNCHANGED <<deployed, forgotten>>
    <2>1. At("wait")' /\ ~At("create")'
      BY <1>1, <1>3, <1>8 DEF At, IInv, OneDeploys
    <2> QED
      BY <1>4, <1>6, <1>7, <1>8, <2>1
      DEF IInv, Known, NeedIsKnown, LossIsKnown, PresentIsWatched, ExcessIsKnown,
          PresentIsFlagged, Deploying
  <1>9. CASE ds' = ds /\ pc' = [pc EXCEPT ![t] = "idle"] /\ deployed' = FALSE /\ forgotten' = TRUE
    <2>1. NeedIsKnown' /\ LossIsKnown' /\ PresentIsWatched'
      BY <1>9 DEF NeedIsKnown, LossIsKnown, PresentIsWatched
    <2>2. /\ At("wait") => At("wait")'
          /\ At("delete") => At("delete")'
          /\ At("create")' => At("create")
      BY <1>1, <1>3, <1>9 DEF At
    <2>3. ExcessIsKnown'
      BY <1>1, <1>9, <2>2 DEF IInv, Known, ExcessIsKnown, HasHostNetworkOption, Modified, Removed, Announced
    <2>4. PresentIsFlagged'
      <3>1. At("create")
        BY <1>1 DEF At
      <3> QED
        BY <1>1, <1>9, <2>2, <3>1 DEF IInv, Known, PresentIsFlagged
    <2> QED
      BY <1>4, <1>6, <1>7, <2>1, <2>3, <2>4 DEF IInv, Known
  <1> QED
    BY <1>1, <1>8, <1>9

(* The DaemonSet is ready: the flag is set and the pods are watched. *)
LEMMA DeployedStep ==
    ASSUME IInv, NEW t \in Threads, Deployed(t)
    PROVE  IInv'
  <1>1. /\ pc[t] = "wait" /\ deployed' = TRUE /\ pc' = [pc EXCEPT ![t] = "idle"] /\ WatchPods
        /\ forgotten' = (ds # "present" \/ BeingDeleted)
        /\ leftover' = ~HasHostNetworkOption(store)
        /\ UNCHANGED <<pools, poolWatch, store, chan, pods, newNodes, phase, cold, ds, changes, faults>>
    BY DEF Deployed, Goto, poolVars, leader, bounds
  <1>2. /\ pc' \in [Threads -> {"idle", "deploy", "create", "wait", "delete", "close", "get", "found"}]
        /\ pc \in [Threads -> {"idle", "deploy", "create", "wait", "delete", "close", "get", "found"}]
    BY <1>1 DEF IInv, TypeOK
  <1>3. /\ PodsCounted' /\ podWatch' \in Seq({"add", "delete"})
        /\ operators' \in 0 .. NumNodes /\ stopWatch' = "open"
    BY <1>1, WatchPodsCounted DEF IInv
  <1>4. TypeOK'
    <2>1. deployed' \in BOOLEAN /\ forgotten' \in BOOLEAN /\ leftover' \in BOOLEAN
      BY <1>1
    <2> QED
      BY <1>1, <1>2, <1>3, <2>1 DEF IInv, TypeOK
  <1>5. phase # "init"
    BY <1>1 DEF IInv, NothingBeforeInit
  <1>6. StoresFollow' /\ NothingBeforeInit'
    BY <1>1, <1>5, StoresFollowFrame DEF IInv, NothingBeforeInit
  <1>7. OneDeploys'
    BY <1>1, <1>2 DEF IInv, OneDeploys
  <1>8. /\ BeingDeleted <=> BeingDeleted'
        /\ At("close")' => BeingDeleted
        /\ ~At("create")'
    BY <1>1, <1>2 DEF At, BeingDeleted, IInv, OneDeploys
  <1>9. NeedIsKnown' /\ LossIsKnown' /\ PresentIsWatched'
    <2>1. ~forgotten' => ds = "present" /\ ~BeingDeleted
      BY <1>1
    <2> QED
      BY <1>1, <1>3, <1>8, <2>1 DEF NeedIsKnown, LossIsKnown, PresentIsWatched
  <1>10. ExcessIsKnown'
    <2>1. ~leftover' => HasHostNetworkOption(store)
      BY <1>1
    <2> QED
      BY <1>1, <2>1 DEF ExcessIsKnown, HasHostNetworkOption
  <1>11. PresentIsFlagged'
    BY <1>1, <1>8 DEF PresentIsFlagged
  <1> QED
    BY <1>3, <1>4, <1>6, <1>7, <1>9, <1>10, <1>11 DEF IInv, Known

(* The wait for the pods times out. *)
LEMMA DeployDiesStep ==
    ASSUME IInv, NEW t \in Threads, DeployDies(t)
    PROVE  IInv'
BY RestartStep, BoundsAssumption DEF DeployDies, Fault, IInv, TypeOK, history

LEMMA DeleteDaemonSetStep ==
    ASSUME IInv, NEW t \in Threads, DeleteDaemonSet(t)
    PROVE  IInv'
  <1>1. /\ pc[t] = "delete"
        /\ UNCHANGED <<pools, poolWatch, store, chan, pods, podWatch, operators, newNodes, phase,
                       cold, deployed, stopWatch, forgotten>>
        /\ \/ /\ ds' = "deleting" /\ pc' = [pc EXCEPT ![t] = "close"] /\ leftover' = FALSE
           \/ /\ ds' = ds /\ pc' = [pc EXCEPT ![t] = "idle"]
              /\ IF ds = "none" THEN leftover' = leftover ELSE leftover' = TRUE
    BY DEF DeleteDaemonSet, Goto, poolVars, podVars, leader
  <1>2. changes' \in 0 .. MaxChanges /\ faults' \in 0 .. MaxFaults
    BY BoundsAssumption DEF DeleteDaemonSet, Fault, NoFault, IInv, TypeOK, bounds
  <1>3. /\ pc' \in [Threads -> {"idle", "deploy", "create", "wait", "delete", "close", "get", "found"}]
        /\ pc \in [Threads -> {"idle", "deploy", "create", "wait", "delete", "close", "get", "found"}]
    BY <1>1 DEF IInv, TypeOK
  <1>4. TypeOK'
    <2>1. leftover' \in BOOLEAN /\ ds' \in {"none", "present", "deleting"}
      BY <1>1 DEF IInv, TypeOK
    <2> QED
      BY <1>1, <1>2, <1>3, <2>1 DEF IInv, TypeOK
  <1>5. phase # "init"
    BY <1>1 DEF IInv, NothingBeforeInit
  <1>6. PodsCounted' /\ StoresFollow' /\ NothingBeforeInit' /\ OneDeploys'
    BY <1>1, <1>3, <1>5, PodsCountedFrame, StoresFollowFrame DEF IInv, NothingBeforeInit, OneDeploys
  <1>7. /\ At("wait") <=> At("wait")'
        /\ At("create") <=> At("create")'
        /\ Deploying => Deploying'
        /\ At("close") => At("close")'
        /\ BeingDeleted
    BY <1>1, <1>3 DEF At, BeingDeleted, Deploying
  <1>8. NeedIsKnown'
    <2>1. Modified => Modified'
      BY <1>1 DEF Modified
    <2> QED
      BY <1>1, <1>7, <2>1 DEF IInv, Known, NeedIsKnown, HasHostNetworkOption
  <1>9. CASE ds' = "deleting" /\ pc' = [pc EXCEPT ![t] = "close"]
    <2>1. At("close")'
      BY <1>3, <1>9 DEF At
    <2> QED
      BY <1>4, <1>6, <1>8, <1>9, <2>1
      DEF IInv, Known, LossIsKnown, PresentIsWatched, ExcessIsKnown, PresentIsFlagged
  <1>10. CASE /\ ds' = ds /\ pc' = [pc EXCEPT ![t] = "idle"]
              /\ IF ds = "none" THEN leftover' = leftover ELSE leftover' = TRUE
    <2>1. At("close") <=> At("close")'
      BY <1>1, <1>3, <1>10 DEF At
    <2>2. pc[PodsInformer] \in {"get", "found"} => pc'[PodsInformer] \in {"get", "found"}
      BY <1>1, <1>3, <1>10, Names
    <2>3. LossIsKnown' /\ PresentIsWatched'
      BY <1>1, <1>7, <1>10, <2>1, <2>2 DEF IInv, Known, LossIsKnown, PresentIsWatched
    <2>4. ExcessIsKnown' /\ PresentIsFlagged'
      BY <1>10 DEF ExcessIsKnown, PresentIsFlagged
    <2> QED
      BY <1>4, <1>6, <1>8, <2>3, <2>4 DEF IInv, Known
  <1> QED
    BY <1>1, <1>9, <1>10

(* The flag is reset and the channel of the informer closed; a second close *)
(* is the end of the leader.                                                *)
LEMMA CloseStopWatchStep ==
    ASSUME IInv, NEW t \in Threads, CloseStopWatch(t)
    PROVE  IInv'
  <1>1. /\ pc[t] = "close" /\ leftover' = (leftover \/ ds = "present") /\ leftover' \in BOOLEAN
        /\ UNCHANGED <<ds, forgotten, changes, faults>>
    BY DEF CloseStopWatch, bounds
  <1>2. CASE stopWatch # "open"
    <2>1. Restart
      BY <1>2 DEF CloseStopWatch
    <2> QED
      BY <1>1, <2>1, RestartStep DEF IInv, TypeOK
  <1>3. CASE stopWatch = "open"
    <2>1. /\ stopWatch' = "closed" /\ deployed' = FALSE /\ pc' = [pc EXCEPT ![t] = "idle"]
          /\ podWatch' = <<>> /\ cold' \subseteq cold
          /\ UNCHANGED <<pools, poolWatch, store, chan, pods, operators, newNodes, phase>>
      BY <1>3 DEF CloseStopWatch, Goto, poolVars
    <2>2. /\ pc' \in [Threads -> {"idle", "deploy", "create", "wait", "delete", "close", "get", "found"}]
          /\ pc \in [Threads -> {"idle", "deploy", "create", "wait", "delete", "close", "get", "found"}]
      BY <2>1 DEF IInv, TypeOK
    <2>3. TypeOK'
      <3>1. podWatch' \in Seq({"add", "delete"})
        BY <2>1, EmptySeq
      <3>2. cold' \subseteq Kinds \cup {"pods"} /\ deployed' \in BOOLEAN
        BY <2>1 DEF IInv, TypeOK
      <3> QED
        BY <1>1, <2>1, <2>2, <3>1, <3>2 DEF IInv, TypeOK
    <2>4. PodsCounted'
      <3> DEFINE here == [i \in 0 .. 0 |-> operators]
      <3>1. Len(podWatch') = 0
        BY <2>1
      <3>2. here \in [0 .. Len(podWatch') -> 0 .. NumNodes] /\ here[0] = operators
        BY <3>1 DEF IInv, TypeOK
      <3>3. PICK trail \in [0 .. Len(podWatch') -> 0 .. NumNodes] : trail = here
        BY <3>2
      <3>4. Trail(trail)'
        BY <2>1, <3>1, <3>2, <3>3 DEF Trail
      <3> QED
        BY <2>1, <3>4 DEF PodsCounted
    <2>5. phase # "init"
      BY <1>1 DEF IInv, NothingBeforeInit
    <2>6. StoresFollow' /\ NothingBeforeInit' /\ OneDeploys'
      BY <1>1, <2>1, <2>2, <2>5, StoresFollowFrame DEF IInv, NothingBeforeInit, OneDeploys
    <2>7. /\ At("wait") <=> At("wait")'
          /\ At("create") <=> At("create")'
          /\ At("close")
          /\ Deploying => Deploying'
          /\ BeingDeleted
      BY <1>1, <2>1, <2>2 DEF At, BeingDeleted, Deploying
    <2>8. NeedIsKnown'
      <3>1. Modified => Modified'
        BY <2>1 DEF Modified
      <3> QED
        BY <1>1, <2>1, <2>7, <3>1 DEF IInv, Known, NeedIsKnown, HasHostNetworkOption
    <2>9. LossIsKnown' /\ PresentIsWatched'
      BY <1>1, <2>1, <2>7 DEF IInv, Known, LossIsKnown, PresentIsWatched
    <2>10. ExcessIsKnown' /\ PresentIsFlagged'
      <3>1. ds' = "present" => leftover'
        BY <1>1
      <3> QED
        BY <3>1 DEF ExcessIsKnown, PresentIsFlagged
    <2> QED
      BY <2>3, <2>4, <2>6, <2>8, <2>9, <2>10 DEF IInv, Known
  <1> QED
    BY <1>2, <1>3

-----------------------------------------------------------------------------
(* The pods *)

(* The store follows the trail by one event. *)
LEMMA PodEventCounted ==
    ASSUME TypeOK, PodsCounted, PodEvent
    PROVE  /\ PodsCounted' /\ operators' \in 0 .. NumNodes
           /\ podWatch' \in Seq({"add", "delete"}) /\ stopWatch = "open"
           /\ podWatch' = <<>> => operators' = pods
  <1>1. /\ podWatch # <<>> /\ podWatch \in Seq({"add", "delete"}) /\ podWatch' = Tail(podWatch)
        /\ operators' = IF podWatch[1] = "add" THEN operators + 1 ELSE operators - 1
        /\ Len(podWatch) \in Nat /\ Len(podWatch) > 0
        /\ Tail(podWatch) \in Seq({"add", "delete"}) /\ Len(Tail(podWatch)) = Len(podWatch) - 1
        /\ \A i \in 1 .. Len(Tail(podWatch)) : Tail(podWatch)[i] = podWatch[i + 1]
        /\ UNCHANGED <<pods, stopWatch>> /\ stopWatch = "open"
    BY QueueFacts DEF PodEvent, PodEventWithRoom, TypeOK, PodsCounted
  <1>2. PICK trail \in [0 .. Len(podWatch) -> 0 .. NumNodes] : Trail(trail)
    BY DEF PodsCounted
  <1> DEFINE shorter == [i \in 0 .. Len(podWatch) - 1 |-> trail[i + 1]]
  <1>3. shorter \in [0 .. Len(podWatch') -> 0 .. NumNodes]
    BY <1>1
  <1>4. PICK rest \in [0 .. Len(podWatch') -> 0 .. NumNodes] : rest = shorter
    BY <1>3
  <1>5. trail[1] = operators'
    BY <1>1, <1>2 DEF Trail
  <1>6. Trail(rest)'
    <2>1. rest[0] = operators'
      BY <1>1, <1>4, <1>5
    <2>2. ASSUME NEW i \in 1 .. Len(podWatch')
          PROVE  rest[i] = IF podWatch'[i] = "add" THEN rest[i - 1] + 1 ELSE rest[i - 1] - 1
      <3>1. /\ i + 1 \in 1 .. Len(podWatch) /\ podWatch'[i] = podWatch[i + 1]
            /\ rest[i] = trail[i + 1] /\ rest[i - 1] = trail[i]
        BY <1>1, <1>4
      <3> QED
        BY <1>2, <3>1 DEF Trail
    <2>3. rest[Len(podWatch')] = pods'
      BY <1>1, <1>2, <1>4 DEF Trail
    <2> QED
      BY <2>1, <2>2, <2>3 DEF Trail
  <1>7. operators' \in 0 .. NumNodes
    BY <1>1, <1>2, <1>5
  <1>8. podWatch' = <<>> => operators' = pods
    <2>1. podWatch' = <<>> => Len(podWatch) = 1
      BY <1>1, QueueFacts
    <2> QED
      BY <1>1, <1>2, <1>5, <2>1 DEF Trail
  <1> QED
    BY <1>1, <1>6, <1>7, <1>8 DEF PodsCounted

(* newOperatorNode and operatorNodeLost *)
LEMMA PodEventStep ==
    ASSUME IInv, PodEvent
    PROVE  IInv'
  <1>1. /\ PodsCounted' /\ operators' \in 0 .. NumNodes
        /\ podWatch' \in Seq({"add", "delete"}) /\ stopWatch = "open"
        /\ podWatch' = <<>> => operators' = pods
    BY PodEventCounted DEF IInv
  <1>2. /\ pc[PodsInformer] = "idle" /\ PodsInformer \in Threads
        /\ podWatch # <<>> /\ podWatch' = Tail(podWatch) /\ podWatch \in Seq({"add", "delete"})
        /\ cold' \subseteq cold /\ newNodes' \in 0 .. ChanCapacity
        /\ UNCHANGED <<pools, poolWatch, store, chan, pods, phase, deployed, stopWatch, ds,
                       forgotten, leftover, changes, faults>>
    <2>1. newNodes' \in 0 .. ChanCapacity
      BY CapacityAssumption DEF PodEvent, PodEventWithRoom, IInv, TypeOK
    <2> QED
      BY <2>1, Names DEF PodEvent, PodEventWithRoom, IInv, TypeOK, poolVars, history, bounds
  <1>3. pc' = IF podWatch[1] # "add" /\ operators' = 0 /\ deployed
              THEN [pc EXCEPT ![PodsInformer] = "get"] ELSE pc
    BY <1>2, QueueFacts DEF PodEvent, PodEventWithRoom
  <1>4. /\ pc' \in [Threads -> {"idle", "deploy", "create", "wait", "delete", "close", "get", "found"}]
        /\ pc \in [Threads -> {"idle", "deploy", "create", "wait", "delete", "close", "get", "found"}]
    BY <1>2, <1>3 DEF IInv, TypeOK
  <1>5. TypeOK'
    BY <1>1, <1>2, <1>4 DEF IInv, TypeOK
  <1>6. phase # "init"
    BY <1>1 DEF IInv, NothingBeforeInit
  <1>7. StoresFollow' /\ NothingBeforeInit' /\ OneDeploys'
    BY <1>2, <1>3, <1>4, <1>6, StoresFollowFrame DEF IInv, NothingBeforeInit, OneDeploys
  <1>8. /\ At("deploy") <=> At("deploy")'
        /\ At("create") <=> At("create")'
        /\ At("wait") <=> At("wait")'
        /\ At("delete") <=> At("delete")'
        /\ At("close") <=> At("close")'
        /\ BeingDeleted <=> BeingDeleted'
    BY <1>2, <1>3, <1>4 DEF At, BeingDeleted
  <1>9. NeedIsKnown' /\ PresentIsWatched' /\ ExcessIsKnown' /\ PresentIsFlagged'
    BY <1>2, <1>8 DEF IInv, Known, NeedIsKnown, PresentIsWatched, ExcessIsKnown, PresentIsFlagged,
           HasHostNetworkOption, Deploying, Modified, Removed, Announced
  <1>10. LossIsKnown'
    <2> SUFFICES ASSUME deployed, ~forgotten, ~At("close"), ds # "present", ~At("wait"),
                        pc'[PodsInformer] # "get"
                 PROVE  /\ ds = "none"
                        /\ pods > 0 \/ (podWatch' # <<>> /\ podWatch'[Len(podWatch')] = "delete")
      BY <1>1, <1>2, <1>8 DEF LossIsKnown
    <2>1. ds = "none" /\ (pods > 0 \/ podWatch[Len(podWatch)] = "delete")
      BY <1>2 DEF IInv, Known, LossIsKnown
    <2>2. ASSUME ~(pods > 0)
          PROVE  podWatch' # <<>> /\ podWatch'[Len(podWatch')] = "delete"
      <3>1. podWatch' # <<>>
        <4> SUFFICES ASSUME podWatch' = <<>>
                     PROVE  FALSE
          OBVIOUS
        <4>1. Len(podWatch) = 1
          BY <1>2, QueueFacts
        <4>2. podWatch[1] = "delete" /\ operators' = 0
          BY <1>1, <2>1, <2>2, <4>1 DEF IInv, TypeOK
        <4> QED
          BY <1>2, <1>3, <1>4, <4>2 DEF IInv, TypeOK
      <3> QED
        BY <1>2, <2>1, <2>2, <3>1, QueueFacts
    <2> QED
      BY <2>1, <2>2
  <1> QED
    BY <1>1, <1>5, <1>7, <1>9, <1>10 DEF IInv, Known

(* checkIfOperatorIsDeployedAndUpdatedOrDie asks for the DaemonSet, *)
LEMMA GetDaemonSetStep ==
    ASSUME IInv, GetDaemonSet
    PROVE  IInv'
  <1>1. /\ pc[PodsInformer] = "get" /\ PodsInformer \in Threads
        /\ UNCHANGED <<pools, poolWatch, store, chan, pods, podWatch, operators, newNodes, phase,
                       cold, stopWatch, ds, forgotten, leftover, changes, faults>>
        /\ \/ ds = "none" /\ deployed' = FALSE /\ pc' = [pc EXCEPT ![PodsInformer] = "deploy"]
           \/ ds # "none" /\ deployed' = deployed /\ pc' = [pc EXCEPT ![PodsInformer] = "found"]
    BY Names DEF GetDaemonSet, Goto, poolVars, podVars, leader, history, bounds
  <1>2. /\ pc' \in [Threads -> {"idle", "deploy", "create", "wait", "delete", "close", "get", "found"}]
        /\ pc \in [Threads -> {"idle", "deploy", "create", "wait", "delete", "close", "get", "found"}]
        /\ deployed' \in BOOLEAN
    BY <1>1 DEF IInv, TypeOK
  <1>3. TypeOK'
    BY <1>1, <1>2 DEF IInv, TypeOK
  <1>4. phase # "init"
    BY <1>1 DEF IInv, NothingBeforeInit
  <1>5. PodsCounted' /\ StoresFollow' /\ NothingBeforeInit' /\ OneDeploys'
    BY <1>1, <1>2, <1>4, PodsCountedFrame, StoresFollowFrame DEF IInv, NothingBeforeInit, OneDeploys
  <1>6. /\ Deploying => Deploying'
        /\ At("create") <=> At("create")'
        /\ At("wait") <=> At("wait")'
        /\ At("delete") <=> At("delete")'
        /\ At("close") <=> At("close")'
        /\ BeingDeleted <=> BeingDeleted'
        /\ ds = "none" => Deploying'
    BY <1>1, <1>2 DEF At, BeingDeleted, Deploying
  <1>7. NeedIsKnown'
    BY <1>1, <1>6 DEF IInv, Known, NeedIsKnown, HasHostNetworkOption, Modified
  <1>8. LossIsKnown'
    BY <1>1, <1>2 DEF LossIsKnown
  <1>9. PresentIsWatched' /\ ExcessIsKnown'
    BY <1>1, <1>6 DEF IInv, Known, PresentIsWatched, ExcessIsKnown, HasHostNetworkOption,
           Modified, Removed, Announced
  <1>10. PresentIsFlagged'
    <2>1. ds = "present" => deployed' = deployed
      BY <1>1
    <2> QED
      BY <1>1, <1>6, <2>1 DEF IInv, Known, PresentIsFlagged
  <1> QED
    BY <1>3, <1>5, <1>7, <1>8, <1>9, <1>10 DEF IInv, Known

(* and sets the flag if it has found one. *)
LEMMA FoundStep ==
    ASSUME IInv, Found
    PROVE  IInv'
  <1>1. /\ pc[PodsInformer] = "found" /\ PodsInformer \in Threads
        /\ deployed' = TRUE /\ pc' = [pc EXCEPT ![PodsInformer] = "idle"]
        /\ forgotten' = (forgotten \/ ds # "present")
        /\ UNCHANGED <<pools, poolWatch, store, chan, pods, podWatch, operators, newNodes, phase,
                       cold, stopWatch, ds, leftover, changes, faults>>
    BY Names DEF Found, Goto, poolVars, podVars, leader, bounds
  <1>2. /\ pc' \in [Threads -> {"idle", "deploy", "create", "wait", "delete", "close", "get", "found"}]
        /\ pc \in [Threads -> {"idle", "deploy", "create", "wait", "delete", "close", "get", "found"}]
        /\ deployed' \in BOOLEAN /\ forgotten' \in BOOLEAN
    BY <1>1 DEF IInv, TypeOK
  <1>3. TypeOK'
    BY <1>1, <1>2 DEF IInv, TypeOK
  <1>4. phase # "init"
    BY <1>1 DEF IInv, NothingBeforeInit
  <1>5. PodsCounted' /\ StoresFollow' /\ NothingBeforeInit' /\ OneDeploys'
    BY <1>1, <1>2, <1>4, PodsCountedFrame, StoresFollowFrame DEF IInv, NothingBeforeInit, OneDeploys
  <1>6. /\ Deploying <=> Deploying'
        /\ At("create") <=> At("create")'
        /\ At("wait") <=> At("wait")'
        /\ At("delete") <=> At("delete")'
        /\ At("close") <=> At("close")'
        /\ BeingDeleted <=> BeingDeleted'
    BY <1>1, <1>2 DEF At, BeingDeleted, Deploying
  <1>7. (forgotten => forgotten') /\ (~forgotten' => ds = "present")
    BY <1>1
  <1>8. NeedIsKnown'
    BY <1>1, <1>6, <1>7 DEF IInv, Known, NeedIsKnown, HasHostNetworkOption, Modified
  <1>9. LossIsKnown'
    BY <1>1, <1>7 DEF LossIsKnown
  <1>10. PresentIsWatched' /\ ExcessIsKnown' /\ PresentIsFlagged'
    BY <1>1, <1>6, <1>7 DEF IInv, Known, PresentIsWatched, ExcessIsKnown, PresentIsFlagged,
           HasHostNetworkOption, Modified, Removed, Announced
  <1> QED
    BY <1>3, <1>5, <1>8, <1>9, <1>10 DEF IInv, Known

-----------------------------------------------------------------------------
(* Every step *)

LEMMA StutterStep ==
    ASSUME IInv, UNCHANGED vars
    PROVE  IInv'
  <1>1. UNCHANGED <<pools, poolWatch, store, chan, pods, podWatch, operators, newNodes, phase, cold,
                    deployed, stopWatch, pc, ds, forgotten, leftover, changes, faults>>
    BY DEF vars, poolVars, podVars, leader, history, bounds
  <1>2. TypeOK' /\ NothingBeforeInit' /\ OneDeploys'
    BY <1>1 DEF IInv, TypeOK, NothingBeforeInit, OneDeploys
  <1>3. PodsCounted' /\ StoresFollow'
    BY <1>1, PodsCountedFrame, StoresFollowFrame DEF IInv
  <1>4. Known'
    BY <1>1 DEF IInv, Known, NeedIsKnown, LossIsKnown, PresentIsWatched, ExcessIsKnown,
           PresentIsFlagged, HasHostNetworkOption, At, Deploying, Modified, Removed,
           Announced, BeingDeleted
  <1> QED
    BY <1>2, <1>3, <1>4 DEF IInv

(* A step of a goroutine *)
LEMMA ThreadStep ==
    ASSUME IInv, NEW t \in Threads, Thread(t)
    PROVE  IInv'
  <1>1. CASE \E k \in Kinds : t = Informer(k) /\ PoolEvent(k)
    BY <1>1, PoolEventStep
  <1>2. CASE t \in Channels /\ PoolCallback(t)
    BY <1>2, PoolCallbackStep
  <1>3. CASE PodEvent \/ GetDaemonSet \/ Found
    BY <1>3, PodEventStep, GetDaemonSetStep, FoundStep
  <1>4. CASE LockDeploy(t) \/ Create(t) \/ Deployed(t) \/ DeployDies(t)
    BY <1>4, LockDeployStep, CreateStep, DeployedStep, DeployDiesStep
  <1>5. CASE DeleteDaemonSet(t) \/ CloseStopWatch(t)
    BY <1>5, DeleteDaemonSetStep, CloseStopWatchStep
  <1> QED
    BY <1>1, <1>2, <1>3, <1>4, <1>5 DEF Thread

LEMMA NextStep == IInv /\ [Next]_vars => IInv'
  <1> SUFFICES ASSUME IInv, [Next]_vars PROVE IInv'
    OBVIOUS
  <1>1. CASE Environment
    BY <1>1, PoolChangeStep, PodStartsStep, DeletedByHandStep, CrashStep DEF Environment
  <1>2. CASE Cluster
    BY <1>2, PodEndsStep, DaemonSetGoneStep DEF Cluster
  <1>3. CASE OperatorInit \/ StoresSynced \/ ReceiveNewNode
    BY <1>3, OperatorInitStep, ListenerSteps
  <1>4. CASE \E t \in Threads : Thread(t)
    BY <1>4, ThreadStep
  <1>5. CASE UNCHANGED vars
    BY <1>5, StutterStep
  <1> QED
    BY <1>1, <1>2, <1>3, <1>4, <1>5 DEF Next

(* In every reachable state the invariant holds. *)
LEMMA Invariance == Spec => []IInv
BY InitIInv, NextStep, PTL DEF Spec

(* Type correctness.  In particular operatorNodesStore never counts more     *)
(* operators than there are nodes, nor fewer than none, however often its    *)
(* informer is stopped and started, and no channel has more than its         *)
(* capacity (daemonset.go, events).                                          *)
THEOREM TypeCorrect == Spec => []TypeOK
  <1>1. IInv => TypeOK
    BY DEF IInv
  <1> QED
    BY <1>1, Invariance, PTL

(* In a controller at rest the stores have the pools of the API server. *)
LEMMA QuietStores ==
    ASSUME IInv, Quiet
    PROVE  HasHostNetworkOption(store) <=> HasHostNetworkOption(pools)
BY DEF IInv, Quiet, StoresFollow, HasHostNetworkOption

(* A controller at rest has deployed the operators that a pool needs, with   *)
(* the exceptions recorded in `forgotten' (persistentips and ephemeralips    *)
(* watcher.go, poolsController.go, daemonset.go).                            *)
THEOREM RequiredDeployed == Spec => []RequiredIsDeployed
  <1>1. ASSUME IInv, Quiet, HasHostNetworkOption(pools), ~forgotten
        PROVE  ds = "present"
    <2>1. ~Deploying /\ ~Modified
      BY <1>1, Names DEF Quiet, Deploying, At, Modified
    <2>2. deployed
      BY <1>1, <2>1, QuietStores DEF IInv, Known, NeedIsKnown
    <2>3. ~At("close") /\ ~At("wait") /\ pc[PodsInformer] = "idle"
      BY <1>1, Names DEF Quiet, At
    <2>4. ds = "none" => ~(pods > 0)
      BY <1>1 DEF Quiet
    <2> QED
      BY <1>1, <2>2, <2>3, <2>4 DEF IInv, Known, LossIsKnown, Quiet
  <1>2. IInv => RequiredIsDeployed
    BY <1>1 DEF RequiredIsDeployed
  <1> QED
    BY <1>2, Invariance, PTL

(* A controller at rest has deleted the operators that no pool needs, with   *)
(* the exceptions recorded in `leftover' (poolsController.go, daemonset.go). *)
THEOREM UnneededDeleted == Spec => []UnneededIsDeleted
  <1>1. ASSUME IInv, Quiet, ~HasHostNetworkOption(pools), ~leftover
        PROVE  ds = "none"
    <2>1. ~At("wait") /\ ~At("delete")
      BY <1>1 DEF Quiet, At
    <2>2. ~Modified /\ ~Removed /\ ~Announced
      <3>1. /\ \A k \in Kinds : chan[<<k, "modified">>] = <<>> /\ chan[<<k, "deleted">>] = <<>>
            /\ \A k \in Kinds : poolWatch[k] = <<>>
        BY <1>1, Names DEF Quiet
      <3>2. Len(<<>>) = 0
        BY EmptySeq
      <3>3. \A k \in Kinds : Len(chan[<<k, "deleted">>]) = 0 /\ Len(poolWatch[k]) = 0
        BY <3>1, <3>2
      <3>4. ~Modified
        BY <3>1 DEF Modified
      <3>5. 1 .. 0 = {}
        OBVIOUS
      <3>6. \A k \in Kinds : 1 .. Len(chan[<<k, "deleted">>]) = {} /\ 1 .. Len(poolWatch[k]) = {}
        BY <3>3, <3>5
      <3>7. ~Removed /\ ~Announced
        BY <3>6 DEF Removed, Announced
      <3> QED
        BY <3>4, <3>7
    <2> QED
      BY <1>1, <2>1, <2>2, QuietStores DEF IInv, TypeOK, Known, ExcessIsKnown, Quiet
  <1>2. IInv => UnneededIsDeleted
    BY <1>1 DEF UnneededIsDeleted
  <1> QED
    BY <1>2, Invariance, PTL
=============================================================================
