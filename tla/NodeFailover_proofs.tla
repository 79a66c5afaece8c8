-------------------------- MODULE NodeFailover_proofs --------------------------
(***************************************************************************)
(* Proofs about the failover of addresses between nodes, for every finite  *)
(* set of nodes, every set of allocations and any number of changes of     *)
(* pods and of failures.                                                   *)
(*                                                                         *)
(* SuccessIsServed and OnNoOtherNode speak of an allocation and a node     *)
(* about which nothing is on its way.  The inductive invariant says where  *)
(* what is not yet in order is known: as a version of the allocation that  *)
(* nobody has handled, as the pass of a handler, or as the loss or the     *)
(* return of a node that the listeners have yet to hear of.                *)
(***************************************************************************)
EXTENDS NodeFailover, SequenceTheorems, FiniteSetTheorems, TLAPS

-----------------------------------------------------------------------------
(* The inductive invariant *)

(* The pods as they are after each of the events that the informer has not   *)
(* handled, from its own view of them to that of the API server.             *)
Views(views) ==
    /\ views[0] = seen /\ views[Len(podWatch)] = pod
    /\ \A i \in 1 .. Len(podWatch) :
          LET e == podWatch[i] IN
          /\ views[i] = [views[i - 1] EXCEPT ![e.node] = e.pod]
          /\ views[i - 1][e.node] # e.pod
    /\ \A i \in 0 .. Len(podWatch), n \in Nodes :
          views[i][n] # pod[n] =>
              \E j \in i + 1 .. Len(podWatch) : podWatch[j].node = n /\ podWatch[j].pod = pod[n]

(* A pending event by which the node is lost *)
LossSeen(n, views) ==
    \E i \in 1 .. Len(podWatch) :
        /\ podWatch[i].node = n
        /\ \/ podWatch[i].pod = "gone"
           \/ podWatch[i].pod = "notReady" /\ views[i - 1][n] = "ready"

(* Someone is going to put the allocation in node_error. *)
LossPending(a, n, views) ==
    \/ LossSeen(n, views)
    \/ \E i \in 1 .. Len(lostNodes) : lostNodes[i] = n
    \/ a \in losing.fresh

(* Someone is going to clean up the node. *)
ReturnPending(n) ==
    \/ \E i \in 1 .. Len(podWatch) : podWatch[i].node = n /\ podWatch[i].pod = "ready"
    \/ \E i \in 1 .. Len(newNodes) : newNodes[i] = n
    \/ cleaning.node = n

(* The current version of the allocation waits for a handler. *)
Unhandled(a) == watch[a] # <<>> \/ Kind(alloc[a].state) \in tasks[a]

(* The handler works on the current version and has yet to write or to look  *)
(* at the operators.                                                         *)
Deciding(a) == w[a].fresh /\ w[a].pc \in {"list", "unreachable", "changeNode", "status"}

(* Its pass over the operators has the node still ahead. *)
Placing(a, n) == w[a].fresh /\ w[a].pc = "ensure" /\ (n \in w[a].todo \/ w[a].ops[n] = "gone")
Removing(a, n) == w[a].fresh /\ w[a].pc = "ensure" /\ n \in w[a].todo /\ w[a].ops[n] = "ready"

(* The informer's store has the current version, or is going to get it. *)
CacheFollows(a) == alloc[a] = IF watch[a] = <<>> THEN cache[a] ELSE watch[a][Len(watch[a])]

(* A handler knows the node of its allocation, and all of it while fresh. *)
HandlerKnows(a) ==
    w[a].pc # "idle" =>
        /\ w[a].obj.node = alloc[a].node
        /\ w[a].fresh => w[a].obj = alloc[a]
        /\ w[a].pc \in {"list", "ensure", "unreachable"} => w[a].obj.state \in {"success", "pending"}
        /\ w[a].pc \in {"changeNode", "status"} =>
              /\ w[a].obj.state \in {"lost", "unreachable", "error"}
              /\ w[a].obj.state = "error" => "error" \in tasks[a]

(* What is to be placed has a node. *)
PlacedSomewhere(a) == alloc[a].state \in {"success", "pending"} => alloc[a].node \in Nodes

(* An allocation that is not successful is about to be handled. *)
TroubleIsKnown(a) ==
    a \notin givenUp /\ alloc[a].state # "success" =>
        Unhandled(a) \/ (w[a].fresh /\ w[a].pc # "idle")

OnItsNode(a) == pod[alloc[a].node] = "ready" /\ a \in held[alloc[a].node]

(* One that is successful is where it should be, or this is going to be      *)
(* found out.                                                                *)
AbsenceIsKnown(a, views) ==
    a \notin givenUp /\ alloc[a].state = "success" =>
        \/ Unhandled(a) \/ Deciding(a) \/ Placing(a, alloc[a].node)
        \/ OnItsNode(a) \/ LossPending(a, alloc[a].node, views)

Stray(a, n) == n # alloc[a].node /\ pod[n] = "ready" /\ a \in held[n]

(* An address on another node is going to be removed. *)
StrayIsKnown(a) ==
    a \notin givenUp =>
        \A n \in Nodes :
            Stray(a, n) => Unhandled(a) \/ Deciding(a) \/ Removing(a, n) \/ ReturnPending(n)

(* All that concerns one allocation *)
Known(a, views) ==
    /\ CacheFollows(a) /\ HandlerKnows(a) /\ PlacedSomewhere(a)
    /\ TroubleIsKnown(a) /\ AbsenceIsKnown(a, views) /\ StrayIsKnown(a)

(* The listeners know the node of what they listed, while it is current. *)
ListenersKnow ==
    /\ cleaning.node = NoNode => cleaning = NotCleaning
    /\ losing.fresh \subseteq losing.todo
    /\ \A a \in losing.fresh : alloc[a].node = losing.node

AllViews == [0 .. Len(podWatch) -> [Nodes -> PodStates]]

AllKnown(views) == Views(views) /\ \A a \in Allocations : Known(a, views)

IInv == TypeOK /\ ListenersKnow /\ \E views \in AllViews : AllKnown(views)

-----------------------------------------------------------------------------
(* Queues and sets *)

(* What an appended, and what a shortened queue contains *)
LEMMA QueueFacts ==
    ASSUME NEW S, NEW q \in Seq(S)
    PROVE  /\ Len(q) \in Nat
           /\ \A i \in 1 .. Len(q) : q[i] \in S
           /\ q # <<>> =>
                 /\ Head(q) \in S /\ Head(q) = q[1]
                 /\ Tail(q) \in Seq(S) /\ Len(Tail(q)) = Len(q) - 1 /\ Len(q) > 0
                 /\ \A i \in 1 .. Len(Tail(q)) : Tail(q)[i] = q[i + 1]
  <1>1. Len(q) \in Nat /\ \A i \in 1 .. Len(q) : q[i] \in S
    OBVIOUS
  <1>2. ASSUME q # <<>>
        PROVE  /\ Head(q) \in S /\ Head(q) = q[1]
               /\ Tail(q) \in Seq(S) /\ Len(Tail(q)) = Len(q) - 1 /\ Len(q) > 0
               /\ \A i \in 1 .. Len(Tail(q)) : Tail(q)[i] = q[i + 1]
    BY <1>2
  <1> QED
    BY <1>1, <1>2

LEMMA TailFacts ==
    ASSUME NEW S, NEW q \in Seq(S), q # <<>>
    PROVE  /\ Tail(q) = <<>> => Len(q) = 1
           /\ Tail(q) # <<>> => Tail(q)[Len(Tail(q))] = q[Len(q)]
  <1>1. ASSUME Tail(q) = <<>>
        PROVE  Len(q) = 1
    <2>1. Len(Tail(q)) = 0
      BY <1>1, EmptySeq
    <2> QED
      BY <2>1, QueueFacts
  <1>2. ASSUME Tail(q) # <<>>
        PROVE  Tail(q)[Len(Tail(q))] = q[Len(q)]
    <2>1. Tail(q) \in Seq(S) /\ Len(Tail(q)) = Len(q) - 1 /\ Len(q) \in Nat
      BY QueueFacts
    <2>2. Len(Tail(q)) > 0
      BY <2>1, <1>2
    <2>3. Len(Tail(q)) \in 1 .. Len(Tail(q)) /\ Len(Tail(q)) + 1 = Len(q)
      BY <2>1, <2>2
    <2> QED
      BY <2>3, QueueFacts
  <1> QED
    BY <1>1, <1>2

LEMMA AppendFacts ==
    ASSUME NEW S, NEW q \in Seq(S), NEW e \in S
    PROVE  /\ Append(q, e) \in Seq(S) /\ Len(Append(q, e)) = Len(q) + 1 /\ Len(q) \in Nat
           /\ Append(q, e) # <<>> /\ Append(q, e)[Len(q) + 1] = e
           /\ Append(q, e)[Len(Append(q, e))] = e
           /\ \A i \in 1 .. Len(q) : Append(q, e)[i] = q[i]
  <1>1. /\ Append(q, e) \in Seq(S) /\ Len(Append(q, e)) = Len(q) + 1
        /\ Append(q, e)[Len(q) + 1] = e
        /\ \A i \in 1 .. Len(q) : Append(q, e)[i] = q[i]
        /\ Len(q) \in Nat
    OBVIOUS
  <1>2. Append(q, e) # <<>>
    <2>1. Len(<<>>) = 0
      OBVIOUS
    <2> QED
      BY <1>1, <2>1
  <1> QED
    BY <1>1, <1>2

(* The first list of an informer has everything there is, once. *)
LEMMA SetToSeqFacts ==
    ASSUME NEW S, IsFiniteSet(S)
    PROVE  /\ SetToSeq(S) \in Seq(S) /\ Len(SetToSeq(S)) \in Nat
           /\ \A i, j \in 1 .. Len(SetToSeq(S)) : SetToSeq(S)[i] = SetToSeq(S)[j] => i = j
           /\ \A e \in S : \E i \in 1 .. Len(SetToSeq(S)) : SetToSeq(S)[i] = e
  <1> DEFINE n == Cardinality(S)
  <1>1. n \in Nat /\ ExistsBijection(1 .. n, S)
    BY FS_CardinalityType
  <1>2. PICK f \in Bijection(1 .. n, S) : TRUE
    BY <1>1 DEF ExistsBijection
  <1>3. f \in [1 .. n -> S] /\ IsInjective(f)
    BY <1>2 DEF Bijection, Injection, IsInjective
  <1> DEFINE q == SetToSeq(S)
  <1>4. q \in [1 .. n -> S] /\ IsInjective(q)
    BY <1>3 DEF SetToSeq
  <1> HIDE DEF q
  <1>5. q \in Injection(1 .. n, S)
    BY <1>4 DEF Injection
  <1>6. Cardinality(1 .. n) = n
    BY <1>1, FS_Interval
  <1> HIDE DEF n
  <1>7. q \in Surjection(1 .. n, S)
    BY <1>5, <1>6, FS_Injection DEF n
  <1>8. q \in Seq(S) /\ Len(q) = n
    BY <1>1, <1>4
  <1>9. \A i, j \in 1 .. n : q[i] = q[j] => i = j
    BY <1>4 DEF IsInjective
  <1>10. \A e \in S : \E i \in 1 .. n : q[i] = e
    BY <1>7 DEF Surjection
  <1> QED
    BY <1>1, <1>8, <1>9, <1>10 DEF q

-----------------------------------------------------------------------------
(* Frames *)

(* Nobody has touched the allocation or its handler. *)
Untouched(b) ==
    /\ w'[b] = w[b] /\ alloc'[b] = alloc[b] /\ watch'[b] = watch[b]
    /\ cache'[b] = cache[b] /\ tasks'[b] = tasks[b]

(* What is known of an allocation that nobody touches stays known, if what   *)
(* happens to the pods, the addresses and the listeners goes the right way.  *)
LEMMA Carried ==
    ASSUME NEW b \in Allocations, NEW old, NEW new, Known(b, old), Untouched(b),
           b \notin givenUp' => b \notin givenUp,
           b \notin givenUp' /\ alloc[b].node \in Nodes =>
              (OnItsNode(b) \/ LossPending(b, alloc[b].node, old) =>
                  OnItsNode(b)' \/ LossPending(b, alloc[b].node, new)' \/ Unhandled(b)),
           b \notin givenUp' =>
              \A n \in Nodes : Stray(b, n)' => ReturnPending(n)' \/ (Stray(b, n) /\ ~ReturnPending(n))
    PROVE  Known(b, new)'
  <1>1. CacheFollows(b)' /\ HandlerKnows(b)' /\ PlacedSomewhere(b)'
    BY DEF Known, Untouched, CacheFollows, HandlerKnows, PlacedSomewhere
  <1>2. Unhandled(b)' <=> Unhandled(b)
    BY DEF Untouched, Unhandled
  <1>3. /\ Deciding(b)' <=> Deciding(b)
        /\ Placing(b, alloc[b].node)' <=> Placing(b, alloc[b].node)
        /\ \A n \in Nodes : Removing(b, n)' <=> Removing(b, n)
    BY DEF Untouched, Deciding, Placing, Removing
  <1>4. TroubleIsKnown(b)'
    BY <1>2 DEF Known, Untouched, TroubleIsKnown
  <1>5. AbsenceIsKnown(b, new)'
    BY <1>2, <1>3 DEF Known, Untouched, PlacedSomewhere, AbsenceIsKnown, LossPending, LossSeen
  <1>6. StrayIsKnown(b)'
    BY <1>2, <1>3 DEF Known, StrayIsKnown
  <1> QED
    BY <1>1, <1>4, <1>5, <1>6 DEF Known

(* The case of a step that leaves pods, addresses and listeners alone, or    *)
(* changes the addresses of others only                                      *)
LEMMA LeftAlone ==
    ASSUME NEW b \in Allocations, NEW views, Known(b, views), Untouched(b), TypeOK,
           b \in givenUp => b \in givenUp',
           UNCHANGED <<pod, podWatch, lostNodes, newNodes, cleaning>>,
           \A n \in Nodes : b \in held'[n] <=> b \in held[n],
           b \in losing.fresh => b \in losing'.fresh
    PROVE  Known(b, views)'
  <1>1. OnItsNode(b) /\ b \notin givenUp /\ alloc[b].state = "success" => OnItsNode(b)'
    BY DEF Known, PlacedSomewhere, OnItsNode, Untouched
  <1>2. LossPending(b, alloc[b].node, views) => LossPending(b, alloc[b].node, views)'
    BY DEF LossPending, LossSeen, Untouched
  <1>3. \A n \in Nodes : (Stray(b, n)' <=> Stray(b, n)) /\ (ReturnPending(n)' <=> ReturnPending(n))
    BY DEF Stray, ReturnPending, Untouched
  <1>4. CacheFollows(b)' /\ HandlerKnows(b)' /\ PlacedSomewhere(b)'
    BY DEF Known, Untouched, CacheFollows, HandlerKnows, PlacedSomewhere
  <1>5. /\ Unhandled(b)' <=> Unhandled(b)
        /\ Deciding(b)' <=> Deciding(b)
        /\ Placing(b, alloc[b].node)' <=> Placing(b, alloc[b].node)
        /\ \A n \in Nodes : Removing(b, n)' <=> Removing(b, n)
    BY DEF Untouched, Unhandled, Deciding, Placing, Removing
  <1>6. TroubleIsKnown(b)' /\ StrayIsKnown(b)'
    BY <1>3, <1>5 DEF Known, Untouched, TroubleIsKnown, StrayIsKnown
  <1>7. AbsenceIsKnown(b, views)'
    BY <1>1, <1>2, <1>5 DEF Known, Untouched, AbsenceIsKnown
  <1> QED
    BY <1>4, <1>6, <1>7 DEF Known

(* Steps that leave the pods and their informer alone *)
LEMMA ViewsKept ==
    ASSUME NEW views, Views(views), UNCHANGED <<pod, podWatch, seen>>
    PROVE  Views(views)'
BY ZenonT(240) DEF Views

(* The informer that has nothing to hear of a node knows it. *)
LEMMA SeenOrAnnounced ==
    ASSUME TypeOK, NEW views, Views(views), NEW n \in Nodes,
           pod[n] = "ready", seen[n] # "ready"
    PROVE  \E i \in 1 .. Len(podWatch) : podWatch[i].node = n /\ podWatch[i].pod = "ready"
  <1>1. Len(podWatch) \in Nat /\ 0 \in 0 .. Len(podWatch)
    BY QueueFacts DEF TypeOK
  <1>2. \E j \in 0 + 1 .. Len(podWatch) : podWatch[j].node = n /\ podWatch[j].pod = pod[n]
    BY <1>1 DEF Views
  <1> QED
    BY <1>2

(* An allocation whose current version waits for a handler *)
LEMMA Waiting ==
    ASSUME NEW a \in Allocations, NEW views, Unhandled(a)',
           CacheFollows(a)', HandlerKnows(a)', PlacedSomewhere(a)'
    PROVE  Known(a, views)'
BY DEF Known, TroubleIsKnown, AbsenceIsKnown, StrayIsKnown

(* One whose handler is about to look at it *)
LEMMA Decides ==
    ASSUME NEW a \in Allocations, NEW views, Deciding(a)',
           CacheFollows(a)', HandlerKnows(a)', PlacedSomewhere(a)'
    PROVE  Known(a, views)'
  <1>1. w'[a].fresh /\ w'[a].pc # "idle"
    BY DEF Deciding
  <1> QED
    BY <1>1 DEF Known, TroubleIsKnown, AbsenceIsKnown, StrayIsKnown

(* One that is given up *)
LEMMA GivesUp ==
    ASSUME NEW a \in Allocations, NEW views, a \in givenUp',
           CacheFollows(a)', HandlerKnows(a)', PlacedSomewhere(a)'
    PROVE  Known(a, views)'
BY DEF Known, TroubleIsKnown, AbsenceIsKnown, StrayIsKnown

(* A step that leaves the pods and their informer alone needs no new views. *)
LEMMA SameViews ==
    ASSUME NEW views \in AllViews, Views(views), UNCHANGED <<pod, podWatch, seen>>,
           \A b \in Allocations : Known(b, views)'
    PROVE  \E v \in AllViews' : AllKnown(v)'
  <1>1. Views(views)' /\ views \in AllViews'
    BY ViewsKept DEF AllViews
  <1> QED
    BY <1>1 DEF AllKnown

-----------------------------------------------------------------------------
(* Types *)

(* A fault is counted within its bound. *)
LEMMA Counted ==
    ASSUME TypeOK, Fault \/ NoFault
    PROVE  podChanges' \in 0 .. MaxPodChanges /\ faults' \in 0 .. MaxFaults
BY BoundsAssumption DEF TypeOK, Fault, NoFault, bounds

(* A call that runs changes the addresses of its node, as it says. *)
LEMMA Applied ==
    ASSUME TypeOK, NEW c \in GrpcCall, held' = Apply(c)
    PROVE  /\ held' \in [Nodes -> SUBSET Allocations]
           /\ \A n \in Nodes, a \in Allocations :
                 a \in held'[n] <=> IF n = c.node THEN a \in c.add \/ (a \in held[n] /\ a \notin c.del)
                                    ELSE a \in held[n]
  <1>1. c.node \in Nodes /\ c.add \subseteq Allocations /\ c.del \subseteq Allocations
    BY DEF GrpcCall
  <1>2. held \in [Nodes -> SUBSET Allocations]
    BY DEF TypeOK
  <1>3. held' = [held EXCEPT ![c.node] = (held[c.node] \ c.del) \cup c.add]
    BY DEF Apply
  <1> QED
    BY <1>1, <1>2, <1>3

(* A call without an answer has not run yet. *)
LEMMA NotAnswered ==
    ASSUME TypeOK, NEW c \in GrpcCall, Unanswered(c)
    PROVE  /\ pod' = pod /\ held' = held /\ late' \subseteq GrpcCall
           /\ podChanges' \in 0 .. MaxPodChanges /\ faults' \in 0 .. MaxFaults
  <1>1. pod' = pod /\ held' = held /\ (late' = late \/ late' = late \cup {c})
    BY DEF Unanswered, operators
  <1>2. Fault \/ NoFault
    BY DEF Unanswered
  <1> QED
    BY <1>1, <1>2, Counted DEF TypeOK

(* A write keeps the types, and one that changes something is reported. *)
LEMMA Written ==
    ASSUME TypeOK, NEW a \in Allocations, NEW obj \in IPAllocation, Write(a, obj)
    PROVE  /\ alloc' \in [Allocations -> IPAllocation]
           /\ watch' \in [Allocations -> Seq(IPAllocation)]
           /\ cache' = cache
           /\ alloc'[a] = obj
           /\ \A b \in Allocations \ {a} : alloc'[b] = alloc[b] /\ watch'[b] = watch[b]
           /\ obj = alloc[a] => watch' = watch /\ alloc' = alloc
           /\ obj # alloc[a] => watch'[a] # <<>> /\ watch'[a][Len(watch'[a])] = obj
  <1>1. /\ alloc \in [Allocations -> IPAllocation]
        /\ watch \in [Allocations -> Seq(IPAllocation)]
    BY DEF TypeOK
  <1>2. alloc' = [alloc EXCEPT ![a] = obj] /\ cache' = cache
    BY DEF Write
  <1>3. CASE obj = alloc[a]
    BY <1>1, <1>2, <1>3 DEF Write
  <1>4. CASE obj # alloc[a]
    <2>1. watch' = [watch EXCEPT ![a] = Append(watch[a], obj)]
      BY <1>4 DEF Write
    <2>2. /\ Append(watch[a], obj) \in Seq(IPAllocation) /\ Append(watch[a], obj) # <<>>
          /\ Append(watch[a], obj)[Len(Append(watch[a], obj))] = obj
      BY <1>1, AppendFacts
    <2> HIDE DEF IPAllocation
    <2> QED
      BY <1>1, <1>2, <1>4, <2>1, <2>2
  <1> QED
    BY <1>3, <1>4

(* So does one by a handler, which makes the listed copy an old one. *)
LEMMA HandlerWrote ==
    ASSUME TypeOK, NEW a \in Allocations, NEW obj \in IPAllocation, HandlerWrites(a, obj)
    PROVE  /\ w[a].fresh /\ Write(a, obj)
           /\ losing' \in [node : Nodes \cup {NoNode}, todo : SUBSET Allocations,
                           fresh : SUBSET Allocations]
           /\ losing'.node = losing.node /\ losing'.todo = losing.todo
           /\ losing'.fresh = IF obj = alloc[a] THEN losing.fresh ELSE losing.fresh \ {a}
           /\ UNCHANGED <<tasks, lostNodes, newNodes, cleaning>>
BY DEF HandlerWrites, Changes, TypeOK

(* The fields of a handler's record are set one by one. *)
LEMMA HandlerTypes ==
    /\ Idle \in Handler
    /\ Unlisted \in [Nodes -> PodStates]
    /\ Idle.pc = "idle" /\ Idle.fresh = TRUE /\ Idle.todo = {} /\ Idle.ops = Unlisted
  <1>1. Unlisted \in [Nodes -> PodStates]
    BY DEF Unlisted, PodStates
  <1> HIDE DEF Unlisted
  <1>2. [node |-> NoNode, state |-> "error"] \in IPAllocation
    BY DEF IPAllocation, States
  <1> QED
    BY <1>1, <1>2 DEF Idle, Handler

(* Every kind of handler is one of four. *)
LEMMA KindFacts ==
    \A s \in States :
        /\ Kind(s) \in {"success", "pending", "node_error", "error"}
        /\ Kind(s) = "success" <=> s = "success"
        /\ Kind(s) = "pending" <=> s = "pending"
        /\ Kind(s) = "error" <=> s = "error"
        /\ Kind(s) = "node_error" <=> s \in {"lost", "unreachable"}
BY DEF Kind, States, NodeError

(* An object with another state, or on another node, is an object. *)
LEMMA ObjectTypes ==
    ASSUME NEW o \in IPAllocation
    PROVE  /\ \A s \in States :
                 /\ [o EXCEPT !.state = s] \in IPAllocation
                 /\ [o EXCEPT !.state = s].node = o.node /\ [o EXCEPT !.state = s].state = s
           /\ \A n \in Nodes \cup {NoNode} :
                 /\ [o EXCEPT !.node = n] \in IPAllocation
                 /\ [o EXCEPT !.node = n].node = n /\ [o EXCEPT !.node = n].state = o.state
           /\ o.node \in Nodes \cup {NoNode} /\ o.state \in States
           /\ \A q \in IPAllocation : q.node = o.node /\ q.state = o.state => q = o
BY DEF IPAllocation

(* A handler with some fields changed is a handler. *)
LEMMA HandlerFields ==
    ASSUME NEW h \in Handler
    PROVE  /\ \A x \in BOOLEAN :
                 /\ [h EXCEPT !.fresh = x] \in Handler
                 /\ [h EXCEPT !.fresh = x].pc = h.pc /\ [h EXCEPT !.fresh = x].obj = h.obj
                 /\ [h EXCEPT !.fresh = x].ops = h.ops /\ [h EXCEPT !.fresh = x].todo = h.todo
                 /\ [h EXCEPT !.fresh = x].fresh = x
           /\ h.obj \in IPAllocation /\ h.ops \in [Nodes -> PodStates] /\ h.todo \subseteq Nodes
  <1> USE DEF Handler
  <1>1. h.obj \in IPAllocation /\ h.ops \in [Nodes -> PodStates] /\ h.todo \subseteq Nodes
    OBVIOUS
  <1>2. ASSUME NEW x \in BOOLEAN
        PROVE  /\ [h EXCEPT !.fresh = x] \in Handler
               /\ [h EXCEPT !.fresh = x].pc = h.pc /\ [h EXCEPT !.fresh = x].obj = h.obj
               /\ [h EXCEPT !.fresh = x].ops = h.ops /\ [h EXCEPT !.fresh = x].todo = h.todo
               /\ [h EXCEPT !.fresh = x].fresh = x
    OBVIOUS
  <1> QED
    BY <1>1, <1>2

(* The list of the pods that are there is finite. *)
LEMMA RestartListFinite ==
    IsFiniteSet({[node |-> n, pod |-> pod[n]] : n \in {m \in Nodes : pod[m] # "gone"}})
  <1> DEFINE D == {m \in Nodes : pod[m] # "gone"}
             S == {[node |-> n, pod |-> pod[n]] : n \in D}
             f == [n \in D |-> [node |-> n, pod |-> pod[n]]]
  <1>1. IsFiniteSet(D)
    BY NodesAssumption, FS_Subset
  <1>2. f \in Surjection(D, S)
    BY DEF Surjection
  <1> QED
    BY <1>1, <1>2, FS_Surjection

(* The steps of pods, informer and listeners keep the types. *)
LEMMA EnvironmentTypes ==
    ASSUME TypeOK, ListenersKnow
    PROVE  /\ \A n \in Nodes, to \in PodStates, reboot \in BOOLEAN : PodChange(n, to, reboot) => TypeOK'
           /\ PodEvent => TypeOK'
           /\ OperatorNodeLost => TypeOK'
           /\ \A a \in Allocations : SetAllocationStatusNodeError(a) => TypeOK'
           /\ NewOperatorNode => TypeOK'
           /\ DoCleanup => TypeOK'
           /\ \A c \in late : RunLate(c) => TypeOK'
           /\ Restart /\ (Fault \/ NoFault) => TypeOK'
  <1> USE DEF operators, informers, listeners, objects, bounds
  <1>1. ASSUME NEW n \in Nodes, NEW to \in PodStates, NEW reboot \in BOOLEAN, PodChange(n, to, reboot)
        PROVE  TypeOK'
    <2>1. podWatch' \in Seq([node : Nodes, pod : PodStates])
      BY <1>1, AppendFacts DEF TypeOK, PodChange
    <2>2. pod' \in [Nodes -> PodStates] /\ held' \in [Nodes -> SUBSET Allocations] /\ late' \subseteq GrpcCall
      BY <1>1 DEF TypeOK, PodChange
    <2>3. podChanges' \in 0 .. MaxPodChanges
      BY <1>1, BoundsAssumption DEF TypeOK, PodChange
    <2> QED
      BY <1>1, <2>1, <2>2, <2>3 DEF TypeOK, PodChange
  <1>2. ASSUME PodEvent
        PROVE  TypeOK'
    <2> DEFINE e == Head(podWatch)
    <2>1. e \in [node : Nodes, pod : PodStates] /\ podWatch' \in Seq([node : Nodes, pod : PodStates])
      BY <1>2, QueueFacts DEF TypeOK, PodEvent
    <2>2. e.node \in Nodes /\ e.pod \in PodStates
      BY <2>1
    <2>3. Append(newNodes, e.node) \in Seq(Nodes) /\ Append(lostNodes, e.node) \in Seq(Nodes)
      BY <2>2, AppendFacts DEF TypeOK
    <2>4. newNodes' \in Seq(Nodes) /\ lostNodes' \in Seq(Nodes)
      BY <1>2, <2>3 DEF PodEvent, TypeOK
    <2>5. seen' \in [Nodes -> PodStates] /\ cold' \subseteq Nodes \cup Allocations
      BY <1>2, <2>2 DEF PodEvent, TypeOK
    <2> QED
      BY <1>2, <2>1, <2>4, <2>5 DEF PodEvent, TypeOK
  <1>3. ASSUME OperatorNodeLost
        PROVE  TypeOK'
    <2>1. Head(lostNodes) \in Nodes /\ lostNodes' \in Seq(Nodes)
      BY <1>3, QueueFacts DEF TypeOK, OperatorNodeLost
    <2>2. losing' \in [node : Nodes \cup {NoNode}, todo : SUBSET Allocations, fresh : SUBSET Allocations]
      BY <1>3, <2>1 DEF OperatorNodeLost, NotLosing
    <2> QED
      BY <1>3, <2>1, <2>2 DEF OperatorNodeLost, TypeOK
  <1>4. ASSUME NEW a \in Allocations, SetAllocationStatusNodeError(a)
        PROVE  TypeOK'
    <2> DEFINE obj == [alloc[a] EXCEPT !.state = "lost"]
    <2>1. obj \in IPAllocation
      BY ObjectTypes DEF TypeOK, States, NodeError
    <2> HIDE DEF obj
    <2>2. losing' \in [node : Nodes \cup {NoNode}, todo : SUBSET Allocations, fresh : SUBSET Allocations]
      BY <1>4 DEF SetAllocationStatusNodeError, NotLosing, TypeOK
    <2>3. CASE a \in losing.fresh
      <3>1. Write(a, obj) /\ w' = [w EXCEPT ![a].fresh = @ /\ ~Changes(a, obj)]
        BY <1>4, <2>3 DEF SetAllocationStatusNodeError, obj
      <3> DEFINE x == w[a].fresh /\ ~Changes(a, obj)
                 h == [w[a] EXCEPT !.fresh = x]
      <3>a. w' = [w EXCEPT ![a] = h]
        BY <3>1
      <3>b. x \in BOOLEAN
        OBVIOUS
      <3> HIDE DEF x
      <3>c. h \in Handler
        BY <3>b, HandlerFields DEF TypeOK
      <3> HIDE DEF h
      <3>2. w' \in [Allocations -> Handler]
        BY <3>a, <3>c DEF TypeOK
      <3> QED
        BY <1>4, <2>1, <2>2, <3>1, <3>2, Written DEF SetAllocationStatusNodeError, TypeOK
    <2>4. CASE a \notin losing.fresh
      BY <1>4, <2>2, <2>4 DEF SetAllocationStatusNodeError, TypeOK
    <2> QED
      BY <2>3, <2>4
  <1>5. ASSUME NewOperatorNode
        PROVE  TypeOK'
    <2>1. Head(newNodes) \in Nodes /\ newNodes' \in Seq(Nodes)
      BY <1>5, QueueFacts DEF TypeOK, NewOperatorNode
    <2>2. cleaning' \in [node : Nodes \cup {NoNode}, keep : SUBSET Allocations]
      BY <1>5, <2>1 DEF NewOperatorNode
    <2> QED
      BY <1>5, <2>1, <2>2 DEF NewOperatorNode, TypeOK
  <1>6. ASSUME DoCleanup
        PROVE  TypeOK'
    <2> DEFINE n == cleaning.node
               c == [node |-> n, add |-> cleaning.keep, del |-> Allocations \ cleaning.keep]
    <2>1. n \in Nodes /\ cleaning.keep \subseteq Allocations
      BY <1>6 DEF DoCleanup, ListenersKnow, TypeOK
    <2>2. c \in GrpcCall
      BY <2>1 DEF GrpcCall
    <2>3. cleaning' \in [node : Nodes \cup {NoNode}, keep : SUBSET Allocations]
      BY <1>6 DEF DoCleanup, NotCleaning
    <2>4. c.add \subseteq Allocations /\ Wrong(c) \subseteq Allocations
      BY <2>2 DEF GrpcCall, Wrong
    <2>5. held[n] \subseteq Allocations
      BY <2>1 DEF TypeOK
    <2> HIDE DEF c
    <2>6. CASE seen[n] # "gone" /\ Answered(c) /\ NoFault /\ givenUp' = givenUp \cup (Wrong(c) \cap (c.add \cup held[n]))
      <3>1. held' \in [Nodes -> SUBSET Allocations] /\ pod' = pod /\ late' = late
        BY <2>2, <2>6, Applied DEF Answered
      <3>2. givenUp' \subseteq Allocations
        BY <2>4, <2>6 DEF TypeOK
      <3> QED
        BY <1>6, <2>3, <2>6, <3>1, <3>2, Counted DEF DoCleanup, TypeOK
    <2>7. CASE seen[n] # "gone" /\ Unanswered(c) /\ givenUp' = givenUp \cup {a \in held[n] : alloc[a].node # n}
      <3>1. givenUp' \subseteq Allocations
        BY <2>5, <2>7 DEF TypeOK
      <3>2. /\ pod' = pod /\ held' = held /\ late' \subseteq GrpcCall
            /\ podChanges' \in 0 .. MaxPodChanges /\ faults' \in 0 .. MaxFaults
        BY <2>2, <2>7, NotAnswered
      <3> QED
        BY <1>6, <2>3, <3>1, <3>2 DEF DoCleanup, TypeOK
    <2>8. CASE seen[n] = "gone" /\ UNCHANGED <<operators, givenUp, bounds>>
      BY <1>6, <2>3, <2>8 DEF DoCleanup, TypeOK
    <2> QED
      BY <1>6, <2>6, <2>7, <2>8 DEF DoCleanup, c
  <1>7. ASSUME NEW c \in late, RunLate(c)
        PROVE  TypeOK'
    <2>1. c \in GrpcCall
      BY DEF TypeOK
    <2>2. Wrong(c) \subseteq Allocations
      BY <2>1 DEF GrpcCall, Wrong
    <2>3. held' \in [Nodes -> SUBSET Allocations]
      BY <1>7, <2>1, Applied DEF RunLate
    <2> QED
      BY <1>7, <2>2, <2>3 DEF RunLate, TypeOK
  <1>8. ASSUME Restart, Fault \/ NoFault
        PROVE  TypeOK'
    <2>1. podWatch' \in Seq([node : Nodes, pod : PodStates])
      <3> DEFINE S == {[node |-> n, pod |-> pod[n]] : n \in {m \in Nodes : pod[m] # "gone"}}
      <3>1. IsFiniteSet(S)
        BY NodesAssumption, RestartListFinite
      <3>2. S \subseteq [node : Nodes, pod : PodStates]
        BY DEF TypeOK
      <3>3. SetToSeq(S) \in Seq(S)
        BY <3>1, SetToSeqFacts
      <3>4. podWatch' = SetToSeq(S)
        BY <1>8 DEF Restart
      <3> HIDE DEF S
      <3>5. SetToSeq(S) \in Seq([node : Nodes, pod : PodStates])
        BY <3>2, <3>3, SeqMonotonic
      <3> QED
        BY <3>4, <3>5
    <2>2. watch' \in [Allocations -> Seq(IPAllocation)]
      BY <1>8 DEF Restart, TypeOK
    <2>3. w' \in [Allocations -> Handler] /\ seen' \in [Nodes -> PodStates]
      BY <1>8, HandlerTypes DEF Restart
    <2>4. /\ cold' \subseteq Nodes \cup Allocations /\ lostNodes' \in Seq(Nodes) /\ newNodes' \in Seq(Nodes)
          /\ tasks' \in [Allocations -> SUBSET {"success", "pending", "node_error", "error"}]
      BY <1>8 DEF Restart
    <2>5. /\ losing' \in [node : Nodes \cup {NoNode}, todo : SUBSET Allocations, fresh : SUBSET Allocations]
          /\ cleaning' \in [node : Nodes \cup {NoNode}, keep : SUBSET Allocations]
      BY <1>8 DEF Restart, NotLosing, NotCleaning
    <2>6. UNCHANGED <<pod, held, late, alloc, cache, givenUp>>
      BY <1>8 DEF Restart
    <2> QED
      BY <1>8, <2>1, <2>2, <2>3, <2>4, <2>5, <2>6, Counted DEF TypeOK
  <1> QED
    BY <1>1, <1>2, <1>3, <1>4, <1>5, <1>6, <1>7, <1>8

(* The steps of the allocations watcher keep the types. *)
LEMMA HandlerStepTypes ==
    ASSUME TypeOK, NEW a \in Allocations
    PROVE  /\ AllocationEvent(a) => TypeOK'
           /\ \A kind \in {"success", "pending", "node_error", "error"} : Start(a, kind) => TypeOK'
           /\ \A kind \in {"success", "pending", "node_error"} : StartFails(a, kind) => TypeOK'
           /\ GetOperatorsList(a) => TypeOK'
           /\ \A n \in Nodes : AddAddress(a, n) => TypeOK'
           /\ \A n \in Nodes : RemoveAddress(a, n) => TypeOK'
           /\ SetAllocationStatus(a) => TypeOK'
           /\ \A n \in Nodes : ChangeAllocationNode(a, n) => TypeOK'
           /\ NoOperatorReady(a) => TypeOK'
           /\ SetAllocationStatusPending(a) => TypeOK'
  <1> USE DEF operators, informers, listeners, objects, bounds
  <1>a. w[a] \in Handler /\ w[a].obj \in IPAllocation /\ alloc[a] \in IPAllocation
    BY HandlerFields DEF TypeOK
  <1>1. ASSUME AllocationEvent(a)
        PROVE  TypeOK'
    <2>1. Head(watch[a]) \in IPAllocation /\ Tail(watch[a]) \in Seq(IPAllocation)
      BY <1>1, QueueFacts DEF TypeOK, AllocationEvent
    <2>2. Kind(Head(watch[a]).state) \in {"success", "pending", "node_error", "error"}
      BY <2>1, ObjectTypes, KindFacts
    <2>3. /\ watch' \in [Allocations -> Seq(IPAllocation)] /\ cache' \in [Allocations -> IPAllocation]
          /\ tasks' \in [Allocations -> SUBSET {"success", "pending", "node_error", "error"}]
          /\ cold' \subseteq Nodes \cup Allocations
      BY <1>1, <2>1, <2>2 DEF TypeOK, AllocationEvent
    <2> QED
      BY <1>1, <2>3 DEF TypeOK, AllocationEvent
  <1>2. ASSUME NEW kind \in {"success", "pending", "node_error", "error"}, Start(a, kind)
        PROVE  TypeOK'
    <2>1. tasks' \in [Allocations -> SUBSET {"success", "pending", "node_error", "error"}]
      BY <1>2 DEF TypeOK, Start
    <2>2. [Idle EXCEPT !.obj = alloc[a], !.pc = IF kind \in {"success", "pending"} THEN "list" ELSE "changeNode"]
             \in Handler
      BY <1>a, HandlerTypes DEF Handler
    <2>3. w' \in [Allocations -> Handler]
      BY <1>2, <2>2 DEF TypeOK, Start
    <2> QED
      BY <1>2, <2>1, <2>3 DEF TypeOK, Start
  <1>3. ASSUME NEW kind \in {"success", "pending", "node_error"}, StartFails(a, kind)
        PROVE  TypeOK'
    <2>1. /\ tasks' \in [Allocations -> SUBSET {"success", "pending", "node_error", "error"}]
          /\ givenUp' \subseteq Allocations
      BY <1>3 DEF TypeOK, StartFails
    <2>2. podChanges' \in 0 .. MaxPodChanges /\ faults' \in 0 .. MaxFaults
      BY <1>3, Counted DEF StartFails
    <2> QED
      BY <1>3, <2>1, <2>2 DEF TypeOK, StartFails
  <1>4. ASSUME GetOperatorsList(a)
        PROVE  TypeOK'
    <2>1. [w[a] EXCEPT !.pc = "ensure", !.ops = seen, !.todo = {n \in Nodes : seen[n] # "gone"}] \in Handler
      BY <1>a DEF Handler, TypeOK
    <2>2. w' \in [Allocations -> Handler]
      BY <1>4, <2>1 DEF TypeOK, GetOperatorsList
    <2>3. givenUp' \subseteq Allocations
      BY <1>4 DEF TypeOK, GetOperatorsList
    <2> QED
      BY <1>4, <2>2, <2>3 DEF TypeOK, GetOperatorsList
  <1>5. ASSUME NEW n \in Nodes, AddAddress(a, n)
        PROVE  TypeOK'
    <2> DEFINE c == [node |-> n, add |-> {a}, del |-> {}]
    <2>1. c \in GrpcCall
      BY DEF GrpcCall
    <2> HIDE DEF c
    <2>2. [w[a] EXCEPT !.pc = "unreachable", !.ops = Unlisted, !.todo = {}] \in Handler
      BY <1>a, HandlerTypes DEF Handler
    <2>3. [w[a] EXCEPT !.todo = w[a].todo \ {n}] \in Handler
      BY <1>a DEF Handler
    <2>4. w' \in [Allocations -> Handler]
      BY <1>5, <2>2, <2>3 DEF TypeOK, AddAddress
    <2>5. /\ pod' \in [Nodes -> PodStates] /\ held' \in [Nodes -> SUBSET Allocations] /\ late' \subseteq GrpcCall
          /\ podChanges' \in 0 .. MaxPodChanges /\ faults' \in 0 .. MaxFaults
      <3>1. CASE Answered(c) /\ NoFault
        BY <2>1, <3>1, Applied, Counted DEF Answered, TypeOK
      <3>2. CASE Unanswered(c)
        BY <2>1, <3>2, NotAnswered DEF TypeOK
      <3>3. CASE UNCHANGED <<operators, bounds>>
        BY <3>3 DEF TypeOK
      <3> QED
        BY <1>5, <3>1, <3>2, <3>3 DEF AddAddress, c
    <2> QED
      BY <1>5, <2>4, <2>5 DEF TypeOK, AddAddress
  <1>6. ASSUME NEW n \in Nodes, RemoveAddress(a, n)
        PROVE  TypeOK'
    <2> DEFINE c == [node |-> n, add |-> {}, del |-> {a}]
    <2>1. c \in GrpcCall
      BY DEF GrpcCall
    <2> HIDE DEF c
    <2>2. [w[a] EXCEPT !.todo = w[a].todo \ {n}] \in Handler
      BY <1>a DEF Handler
    <2>3. w' \in [Allocations -> Handler] /\ givenUp' \subseteq Allocations
      BY <1>6, <2>2 DEF TypeOK, RemoveAddress
    <2>4. /\ pod' \in [Nodes -> PodStates] /\ held' \in [Nodes -> SUBSET Allocations] /\ late' \subseteq GrpcCall
          /\ podChanges' \in 0 .. MaxPodChanges /\ faults' \in 0 .. MaxFaults
      <3>1. CASE Answered(c) /\ NoFault
        BY <2>1, <3>1, Applied, Counted DEF Answered, TypeOK
      <3>2. CASE Unanswered(c)
        BY <2>1, <3>2, NotAnswered DEF TypeOK
      <3>3. CASE UNCHANGED <<operators, bounds>>
        BY <3>3 DEF TypeOK
      <3> QED
        BY <1>6, <3>1, <3>2, <3>3 DEF RemoveAddress, c
    <2> QED
      BY <1>6, <2>3, <2>4 DEF TypeOK, RemoveAddress
  <1>b. ASSUME Return(a)
        PROVE  w' \in [Allocations -> Handler]
    BY <1>b, HandlerTypes DEF Return, TypeOK
  <1>c. ASSUME NEW obj \in IPAllocation, HandlerWrites(a, obj)
        PROVE  /\ alloc' \in [Allocations -> IPAllocation] /\ watch' \in [Allocations -> Seq(IPAllocation)]
               /\ cache' = cache
               /\ losing' \in [node : Nodes \cup {NoNode}, todo : SUBSET Allocations,
                               fresh : SUBSET Allocations]
               /\ UNCHANGED <<tasks, lostNodes, newNodes, cleaning>>
    BY <1>c, HandlerWrote, Written
  <1>7. ASSUME SetAllocationStatus(a)
        PROVE  TypeOK'
    <2> DEFINE state == IF w[a].pc = "ensure" THEN "success" ELSE "unreachable"
               obj == [w[a].obj EXCEPT !.state = state]
    <2>1. obj \in IPAllocation
      BY <1>a, ObjectTypes DEF States, NodeError
    <2> HIDE DEF obj
    <2>2. HandlerWrites(a, obj) \/ UNCHANGED <<listeners, objects>>
      BY <1>7 DEF SetAllocationStatus, obj
    <2>3. /\ Fault \/ NoFault
          /\ givenUp' \subseteq Allocations
      BY <1>7 DEF SetAllocationStatus, TypeOK
    <2>4. Return(a) /\ UNCHANGED <<operators, informers>>
      BY <1>7 DEF SetAllocationStatus
    <2>5. CASE HandlerWrites(a, obj)
      BY <1>b, <1>c, <2>1, <2>3, <2>4, <2>5, Counted DEF TypeOK
    <2>6. CASE UNCHANGED <<listeners, objects>>
      BY <1>b, <2>3, <2>4, <2>6, Counted DEF TypeOK
    <2> QED
      BY <2>2, <2>5, <2>6
  <1>d. ASSUME NEW n \in Nodes \cup {NoNode},
               HandlerWrites(a, [w[a].obj EXCEPT !.node = n]),
               w' = [w EXCEPT ![a].pc = "status", ![a].obj.node = n],
               UNCHANGED <<operators, informers, givenUp, bounds>>
        PROVE  TypeOK'
    <2> DEFINE obj == [w[a].obj EXCEPT !.node = n]
               h == [w[a] EXCEPT !.pc = "status", !.obj = obj]
    <2>1. obj \in IPAllocation
      BY <1>a, ObjectTypes
    <2>2. w' = [w EXCEPT ![a] = h]
      BY <1>d
    <2> HIDE DEF obj
    <2>3. h \in Handler
      BY <1>a, <2>1 DEF Handler
    <2> HIDE DEF h
    <2>4. w' \in [Allocations -> Handler]
      BY <2>2, <2>3 DEF TypeOK
    <2>5. HandlerWrites(a, obj)
      BY <1>d DEF obj
    <2> QED
      BY <1>c, <1>d, <2>1, <2>4, <2>5 DEF TypeOK
  <1>8. ASSUME NEW n \in Nodes, ChangeAllocationNode(a, n)
        PROVE  TypeOK'
    BY <1>d, <1>8 DEF ChangeAllocationNode
  <1>9. ASSUME NoOperatorReady(a)
        PROVE  TypeOK'
    BY <1>d, <1>9 DEF NoOperatorReady
  <1>10. ASSUME SetAllocationStatusPending(a)
        PROVE  TypeOK'
    <2> DEFINE obj == [w[a].obj EXCEPT !.state = IF w[a].obj.node = NoNode THEN "error" ELSE "pending"]
    <2>1. obj \in IPAllocation
      BY <1>a, ObjectTypes DEF States
    <2> HIDE DEF obj
    <2>2. HandlerWrites(a, obj) \/ UNCHANGED <<listeners, objects>>
      BY <1>10 DEF SetAllocationStatusPending, obj
    <2>3. /\ Fault \/ NoFault
          /\ givenUp' \subseteq Allocations
      BY <1>10 DEF SetAllocationStatusPending, TypeOK, NoFault
    <2>4. Return(a) /\ UNCHANGED <<operators, informers>>
      BY <1>10 DEF SetAllocationStatusPending
    <2>5. CASE HandlerWrites(a, obj)
      BY <1>b, <1>c, <2>1, <2>3, <2>4, <2>5, Counted DEF TypeOK
    <2>6. CASE UNCHANGED <<listeners, objects>>
      BY <1>b, <2>3, <2>4, <2>6, Counted DEF TypeOK
    <2> QED
      BY <2>2, <2>5, <2>6
  <1> QED
    BY <1>1, <1>2, <1>3, <1>4, <1>5, <1>6, <1>7, <1>8, <1>9, <1>10

-----------------------------------------------------------------------------
(* Pods, informer and listeners *)

(* A pod that changes is announced: its loss as one, its return as one. *)
LEMMA PodChangeStep ==
    ASSUME TypeOK, TypeOK', ListenersKnow, NEW views \in AllViews, AllKnown(views),
           NEW n \in Nodes, NEW to \in PodStates, NEW reboot \in BOOLEAN, PodChange(n, to, reboot)
    PROVE  ListenersKnow' /\ \E v \in AllViews' : AllKnown(v)'
  <1> USE DEF listeners, objects
  <1> DEFINE e == [node |-> n, pod |-> to]
             len == Len(podWatch)
  <1>1. ListenersKnow'
    BY DEF PodChange, ListenersKnow
  <1>2. /\ e \in [node : Nodes, pod : PodStates] /\ e.node = n /\ e.pod = to
        /\ podWatch \in Seq([node : Nodes, pod : PodStates])
    BY DEF TypeOK
  <1>3. /\ podWatch' = Append(podWatch, e)
        /\ pod' = [pod EXCEPT ![n] = to] /\ pod \in [Nodes -> PodStates] /\ pod' \in [Nodes -> PodStates]
        /\ to # pod[n] /\ seen' = seen
        /\ UNCHANGED <<lostNodes, newNodes, losing, cleaning, alloc, watch, cache, tasks, w, givenUp>>
    BY DEF PodChange, TypeOK
  <1> HIDE DEF e
  <1>4. /\ len \in Nat /\ Len(podWatch') = len + 1 /\ podWatch'[len + 1] = e
        /\ \A i \in 1 .. len : podWatch'[i] = podWatch[i]
    BY <1>2, <1>3, AppendFacts
  <1>5. /\ views \in [0 .. len -> [Nodes -> PodStates]]
        /\ views[0] = seen /\ views[len] = pod
    BY DEF AllViews, AllKnown, Views
  <1> HIDE DEF len
  <1>6. PICK v \in [0 .. len + 1 -> [Nodes -> PodStates]] :
           v = [i \in 0 .. len + 1 |-> IF i \in 0 .. len THEN views[i] ELSE pod']
    BY <1>3, <1>4, <1>5
  <1>7. v \in AllViews'
    BY <1>4, <1>6 DEF AllViews
  <1>8. (\A i \in 0 .. len : v[i] = views[i]) /\ v[len + 1] = pod'
    BY <1>4, <1>6
  <1>9. Views(v)'
    <2>1. v[0] = seen' /\ v[Len(podWatch')] = pod'
      BY <1>3, <1>4, <1>5, <1>8
    <2>2. ASSUME NEW i \in 1 .. Len(podWatch')
          PROVE  /\ v[i] = [v[i - 1] EXCEPT ![podWatch'[i].node] = podWatch'[i].pod]
                 /\ v[i - 1][podWatch'[i].node] # podWatch'[i].pod
      <3>1. CASE i \in 1 .. len
        <4>1. i \in 0 .. len /\ i - 1 \in 0 .. len
          BY <1>4, <3>1
        <4>2. /\ views[i] = [views[i - 1] EXCEPT ![podWatch[i].node] = podWatch[i].pod]
              /\ views[i - 1][podWatch[i].node] # podWatch[i].pod
          BY <3>1 DEF AllKnown, Views, len
        <4> QED
          BY <1>4, <1>8, <3>1, <4>1, <4>2
      <3>2. CASE i = len + 1
        <4>1. i - 1 = len /\ len \in 0 .. len
          BY <1>4, <3>2
        <4> QED
          BY <1>2, <1>3, <1>4, <1>5, <1>8, <3>2, <4>1
      <3> QED
        BY <1>4, <3>1, <3>2
    <2>3. ASSUME NEW i \in 0 .. Len(podWatch'), NEW m \in Nodes, v[i][m] # pod'[m]
          PROVE  \E j \in i + 1 .. Len(podWatch') : podWatch'[j].node = m /\ podWatch'[j].pod = pod'[m]
      <3>1. i \in 0 .. len /\ len + 1 \in i + 1 .. Len(podWatch')
        BY <1>4, <1>8, <2>3
      <3>2. CASE m = n
        BY <1>2, <1>3, <1>4, <3>1, <3>2
      <3>3. CASE m # n
        <4>1. pod'[m] = pod[m] /\ views[i][m] # pod[m]
          BY <1>3, <1>8, <2>3, <3>1, <3>3
        <4>2. PICK j \in i + 1 .. len : podWatch[j].node = m /\ podWatch[j].pod = pod[m]
          BY <3>1, <4>1 DEF AllKnown, Views, len
        <4>3. j \in i + 1 .. Len(podWatch') /\ j \in 1 .. len
          BY <1>4, <3>1
        <4> QED
          BY <1>4, <4>1, <4>2, <4>3
      <3> QED
        BY <3>2, <3>3
    <2> QED
      BY <2>1, <2>2, <2>3 DEF Views
  <1>10. ASSUME NEW b \in Allocations
         PROVE  Known(b, v)'
    <2>1. Known(b, views) /\ Untouched(b)
      BY <1>3 DEF AllKnown, Untouched
    <2>2. ASSUME NEW m \in Nodes, LossSeen(m, views)
          PROVE  LossSeen(m, v)'
      <3>1. PICK i \in 1 .. len :
               /\ podWatch[i].node = m
               /\ podWatch[i].pod = "gone" \/ (podWatch[i].pod = "notReady" /\ views[i - 1][m] = "ready")
        BY <2>2 DEF LossSeen, len
      <3>2. i \in 1 .. Len(podWatch') /\ i - 1 \in 0 .. len
        BY <1>4
      <3> QED
        BY <1>4, <1>8, <3>1, <3>2 DEF LossSeen
    <2>3. ASSUME NEW m \in Nodes, ReturnPending(m)
          PROVE  ReturnPending(m)'
      <3>1. 1 .. len \subseteq 1 .. Len(podWatch')
        BY <1>4
      <3> QED
        BY <1>3, <1>4, <2>3, <3>1 DEF ReturnPending, len
    <2>4. ASSUME alloc[b].node \in Nodes, OnItsNode(b)
          PROVE  OnItsNode(b)' \/ LossPending(b, alloc[b].node, v)'
      <3>1. CASE alloc[b].node = n
        <4>1. pod[n] = "ready" /\ to \in {"gone", "notReady"}
          BY <1>3, <2>4, <3>1 DEF OnItsNode, PodStates
        <4>2. len + 1 \in 1 .. Len(podWatch') /\ v[len + 1 - 1][n] = "ready"
          BY <1>4, <1>5, <1>8, <4>1
        <4>3. LossSeen(n, v)'
          BY <1>2, <1>4, <4>1, <4>2 DEF LossSeen
        <4> QED
          BY <1>3, <3>1, <4>3 DEF LossPending
      <3>2. CASE alloc[b].node # n
        <4>1. held'[alloc[b].node] = held[alloc[b].node]
          BY <2>4, <3>2 DEF PodChange, TypeOK
        <4> QED
          BY <1>3, <2>4, <3>2, <4>1 DEF OnItsNode
      <3> QED
        BY <3>1, <3>2
    <2>5. ASSUME alloc[b].node \in Nodes, LossPending(b, alloc[b].node, views)
          PROVE  LossPending(b, alloc[b].node, v)'
      BY <1>3, <2>2, <2>5 DEF LossPending
    <2>6. ASSUME NEW m \in Nodes, Stray(b, m)', ~ReturnPending(m)'
          PROVE  Stray(b, m) /\ ~ReturnPending(m)
      <3>1. m # n
        <4> SUFFICES ASSUME m = n
                     PROVE  FALSE
          OBVIOUS
        <4>1. to = "ready"
          BY <1>3, <2>6 DEF Stray
        <4>2. len + 1 \in 1 .. Len(podWatch')
          BY <1>4
        <4> QED
          BY <1>2, <1>4, <2>6, <4>1, <4>2 DEF ReturnPending
      <3>2. held'[m] = held[m] /\ pod'[m] = pod[m]
        BY <1>3, <3>1 DEF PodChange, TypeOK
      <3> QED
        BY <1>3, <2>3, <2>6, <3>2 DEF Stray
    <2> QED
      BY <1>3, <2>1, <2>4, <2>5, <2>6, Carried
  <1> QED
    BY <1>1, <1>7, <1>9, <1>10 DEF AllKnown

(* What the informer hears of a node it passes on to the listeners. *)
LEMMA PodEventStep ==
    ASSUME TypeOK, TypeOK', ListenersKnow, NEW views \in AllViews, AllKnown(views), PodEvent
    PROVE  ListenersKnow' /\ \E v \in AllViews' : AllKnown(v)'
  <1> USE DEF operators, objects
  <1> DEFINE e == Head(podWatch)
             len == Len(podWatch)
  <1>1. ListenersKnow'
    BY DEF PodEvent, ListenersKnow
  <1>2. /\ e \in [node : Nodes, pod : PodStates] /\ e = podWatch[1] /\ len \in Nat /\ len > 0
        /\ Len(podWatch') = len - 1 /\ podWatch' \in Seq([node : Nodes, pod : PodStates])
        /\ \A i \in 1 .. Len(podWatch') : podWatch'[i] = podWatch[i + 1]
    <2>1. podWatch \in Seq([node : Nodes, pod : PodStates]) /\ podWatch # <<>> /\ podWatch' = Tail(podWatch)
      BY DEF TypeOK, PodEvent
    <2> QED
      BY <2>1, QueueFacts
  <1>3. /\ pod' = pod /\ held' = held /\ seen' = [seen EXCEPT ![e.node] = e.pod]
        /\ seen \in [Nodes -> PodStates] /\ pod \in [Nodes -> PodStates]
        /\ e.node \in Nodes /\ e.pod \in PodStates
        /\ UNCHANGED <<losing, cleaning, alloc, watch, cache, tasks, w, givenUp>>
    BY <1>2 DEF PodEvent, TypeOK
  <1>4. /\ newNodes' = IF e.pod = "ready" /\ seen[e.node] # "ready" THEN Append(newNodes, e.node) ELSE newNodes
        /\ lostNodes' = IF e.pod = "gone" \/ (e.pod = "notReady" /\ seen[e.node] = "ready")
                        THEN Append(lostNodes, e.node) ELSE lostNodes
    BY DEF PodEvent
  <1> HIDE DEF e, len
  <1>5. /\ views \in [0 .. len -> [Nodes -> PodStates]]
        /\ views[0] = seen /\ views[len] = pod
        /\ \A i \in 1 .. len :
              /\ views[i] = [views[i - 1] EXCEPT ![podWatch[i].node] = podWatch[i].pod]
              /\ views[i - 1][podWatch[i].node] # podWatch[i].pod
        /\ \A i \in 0 .. len, m \in Nodes :
              views[i][m] # pod[m] =>
                  \E j \in i + 1 .. len : podWatch[j].node = m /\ podWatch[j].pod = pod[m]
    BY DEF AllViews, AllKnown, Views, len
  <1>6. PICK v \in [0 .. len - 1 -> [Nodes -> PodStates]] : v = [i \in 0 .. len - 1 |-> views[i + 1]]
    <2>1. \A i \in 0 .. len - 1 : i + 1 \in 0 .. len
      BY <1>2
    <2>2. \A i \in 0 .. len - 1 : views[i + 1] \in [Nodes -> PodStates]
      BY <1>5, <2>1
    <2> QED
      BY <2>2
  <1>7. v \in AllViews'
    BY <1>2, <1>6 DEF AllViews
  <1>8. \A i \in 0 .. len - 1 : v[i] = views[i + 1]
    BY <1>2, <1>6
  <1>9. seen[e.node] # e.pod /\ views[1] = [seen EXCEPT ![e.node] = e.pod]
    <2>1. PICK k \in 1 .. len : k = 1 /\ k - 1 = 0
      BY <1>2
    <2>2. /\ views[k] = [views[k - 1] EXCEPT ![podWatch[k].node] = podWatch[k].pod]
          /\ views[k - 1][podWatch[k].node] # podWatch[k].pod
      BY <1>5
    <2> QED
      BY <1>2, <1>5, <2>1, <2>2
  <1>10. Views(v)'
    <2>1. v[0] = seen' /\ v[Len(podWatch')] = pod'
      BY <1>2, <1>3, <1>5, <1>8, <1>9
    <2>2. ASSUME NEW i \in 1 .. Len(podWatch')
          PROVE  /\ v[i] = [v[i - 1] EXCEPT ![podWatch'[i].node] = podWatch'[i].pod]
                 /\ v[i - 1][podWatch'[i].node] # podWatch'[i].pod
      <3>1. i \in 0 .. len - 1 /\ i - 1 \in 0 .. len - 1 /\ i + 1 \in 1 .. len /\ i + 1 - 1 = i /\ i - 1 + 1 = i
        BY <1>2
      <3>2. v[i] = views[i + 1] /\ v[i - 1] = views[i] /\ podWatch'[i] = podWatch[i + 1]
        BY <1>2, <1>8, <3>1
      <3>3. /\ views[i + 1] = [views[i] EXCEPT ![podWatch[i + 1].node] = podWatch[i + 1].pod]
            /\ views[i][podWatch[i + 1].node] # podWatch[i + 1].pod
        <4>1. PICK k \in 1 .. len : k = i + 1 /\ k - 1 = i
          BY <3>1
        <4>2. /\ views[k] = [views[k - 1] EXCEPT ![podWatch[k].node] = podWatch[k].pod]
              /\ views[k - 1][podWatch[k].node] # podWatch[k].pod
          BY <1>5
        <4> QED
          BY <4>1, <4>2
      <3> QED
        BY <3>1, <3>2, <3>3
    <2>3. ASSUME NEW i \in 0 .. Len(podWatch'), NEW m \in Nodes, v[i][m] # pod'[m]
          PROVE  \E j \in i + 1 .. Len(podWatch') : podWatch'[j].node = m /\ podWatch'[j].pod = pod'[m]
      <3>1. i \in 0 .. len - 1 /\ i + 1 \in 0 .. len
        BY <1>2
      <3>2. views[i + 1][m] # pod[m]
        BY <1>3, <1>8, <2>3, <3>1
      <3>3. PICK j \in i + 1 + 1 .. len : podWatch[j].node = m /\ podWatch[j].pod = pod[m]
        BY <1>5, <3>1, <3>2
      <3>4. j - 1 \in i + 1 .. Len(podWatch') /\ j - 1 \in 1 .. Len(podWatch') /\ j - 1 + 1 = j
        BY <1>2, <3>1
      <3>5. podWatch'[j - 1] = podWatch[j]
        BY <1>2, <3>4
      <3> QED
        BY <1>3, <3>3, <3>4, <3>5
    <2> QED
      BY <2>1, <2>2, <2>3 DEF Views
  <1>11. /\ \A i \in 1 .. Len(lostNodes) : i \in 1 .. Len(lostNodes') /\ lostNodes'[i] = lostNodes[i]
         /\ \A i \in 1 .. Len(newNodes) : i \in 1 .. Len(newNodes') /\ newNodes'[i] = newNodes[i]
         /\ lostNodes' = Append(lostNodes, e.node) =>
               \E i \in 1 .. Len(lostNodes') : lostNodes'[i] = e.node
         /\ newNodes' = Append(newNodes, e.node) =>
               \E i \in 1 .. Len(newNodes') : newNodes'[i] = e.node
    <2>1. lostNodes \in Seq(Nodes) /\ newNodes \in Seq(Nodes)
      BY DEF TypeOK
    <2>2. ASSUME NEW q \in Seq(Nodes)
          PROVE  /\ \A i \in 1 .. Len(q) : i \in 1 .. Len(Append(q, e.node)) /\ Append(q, e.node)[i] = q[i]
                 /\ \E i \in 1 .. Len(Append(q, e.node)) : Append(q, e.node)[i] = e.node
      <3>1. /\ Len(q) \in Nat /\ Len(Append(q, e.node)) = Len(q) + 1 /\ Append(q, e.node)[Len(q) + 1] = e.node
            /\ \A i \in 1 .. Len(q) : Append(q, e.node)[i] = q[i]
        BY <1>3, AppendFacts
      <3> QED
        BY <3>1
    <2>3. /\ lostNodes' = lostNodes \/ lostNodes' = Append(lostNodes, e.node)
          /\ newNodes' = newNodes \/ newNodes' = Append(newNodes, e.node)
      BY <1>4
    <2>4. \A i \in 1 .. Len(lostNodes) : i \in 1 .. Len(lostNodes') /\ lostNodes'[i] = lostNodes[i]
      BY <2>1, <2>2, <2>3
    <2>5. \A i \in 1 .. Len(newNodes) : i \in 1 .. Len(newNodes') /\ newNodes'[i] = newNodes[i]
      BY <2>1, <2>2, <2>3
    <2>6. lostNodes' = Append(lostNodes, e.node) =>
             \E i \in 1 .. Len(lostNodes') : lostNodes'[i] = e.node
      BY <2>1, <2>2
    <2>7. newNodes' = Append(newNodes, e.node) =>
             \E i \in 1 .. Len(newNodes') : newNodes'[i] = e.node
      BY <2>1, <2>2
    <2> QED
      BY <2>4, <2>5, <2>6, <2>7
  <1>12. ASSUME NEW b \in Allocations
         PROVE  Known(b, v)'
    <2>1. Known(b, views) /\ Untouched(b)
      BY <1>3 DEF AllKnown, Untouched
    <2>2. ASSUME NEW m \in Nodes, LossSeen(m, views)
          PROVE  LossSeen(m, v)' \/ \E i \in 1 .. Len(lostNodes') : lostNodes'[i] = m
      <3>1. PICK i \in 1 .. len :
               /\ podWatch[i].node = m
               /\ podWatch[i].pod = "gone" \/ (podWatch[i].pod = "notReady" /\ views[i - 1][m] = "ready")
        BY <2>2 DEF LossSeen, len
      <3>2. CASE i = 1
        BY <1>2, <1>4, <1>5, <1>11, <3>1, <3>2
      <3>3. CASE i # 1
        <4>1. /\ i - 1 \in 1 .. Len(podWatch') /\ i - 1 + 1 = i /\ i - 1 - 1 \in 0 .. len - 1
              /\ i - 1 - 1 + 1 = i - 1
          BY <1>2, <3>3
        <4>2. podWatch'[i - 1] = podWatch[i] /\ v[i - 1 - 1] = views[i - 1]
          BY <1>2, <1>8, <4>1
        <4> QED
          BY <3>1, <4>1, <4>2 DEF LossSeen
      <3> QED
        BY <3>2, <3>3
    <2>3. ASSUME NEW m \in Nodes, ReturnPending(m)
          PROVE  ReturnPending(m)'
      <3>1. ASSUME NEW i \in 1 .. len, podWatch[i].node = m, podWatch[i].pod = "ready"
            PROVE  ReturnPending(m)'
        <4>1. CASE i = 1
          BY <1>2, <1>4, <1>9, <1>11, <3>1, <4>1 DEF ReturnPending
        <4>2. CASE i # 1
          <5>1. i - 1 \in 1 .. Len(podWatch') /\ i - 1 + 1 = i
            BY <1>2, <4>2
          <5>2. podWatch'[i - 1] = podWatch[i]
            BY <1>2, <5>1
          <5> QED
            BY <3>1, <5>1, <5>2 DEF ReturnPending
        <4> QED
          BY <4>1, <4>2
      <3> QED
        BY <1>3, <1>11, <2>3, <3>1 DEF ReturnPending, len
    <2>4. OnItsNode(b) => OnItsNode(b)'
      BY <1>3 DEF OnItsNode
    <2>5. ASSUME alloc[b].node \in Nodes, LossPending(b, alloc[b].node, views)
          PROVE  LossPending(b, alloc[b].node, v)'
      BY <1>3, <1>11, <2>2, <2>5 DEF LossPending
    <2>6. ASSUME NEW m \in Nodes, Stray(b, m)', ~ReturnPending(m)'
          PROVE  Stray(b, m) /\ ~ReturnPending(m)
      BY <1>3, <2>3, <2>6 DEF Stray
    <2> QED
      BY <1>3, <2>1, <2>4, <2>5, <2>6, Carried
  <1> QED
    BY <1>1, <1>7, <1>10, <1>12 DEF AllKnown

(* A call that runs late harms only what is then given up. *)
LEMMA RunLateStep ==
    ASSUME TypeOK, TypeOK', ListenersKnow, NEW views \in AllViews, AllKnown(views),
           NEW c \in late, RunLate(c)
    PROVE  ListenersKnow' /\ \E v \in AllViews' : AllKnown(v)'
  <1> USE DEF informers, listeners, objects, bounds
  <1>1. ListenersKnow'
    BY DEF RunLate, ListenersKnow
  <1>2. c \in GrpcCall /\ held' = Apply(c)
    BY DEF TypeOK, RunLate
  <1>3. \A n \in Nodes, a \in Allocations :
           a \in held'[n] <=> IF n = c.node THEN a \in c.add \/ (a \in held[n] /\ a \notin c.del)
                              ELSE a \in held[n]
    BY <1>2, Applied
  <1>4. ASSUME NEW b \in Allocations
        PROVE  Known(b, views)'
    <2>1. Known(b, views) /\ Untouched(b) /\ (b \notin givenUp' => b \notin givenUp /\ b \notin Wrong(c))
      BY DEF AllKnown, Untouched, RunLate
    <2>2. ASSUME b \notin givenUp', alloc[b].node \in Nodes, OnItsNode(b)
          PROVE  OnItsNode(b)'
      BY <1>3, <2>1, <2>2 DEF RunLate, OnItsNode, Wrong
    <2>3. LossPending(b, alloc[b].node, views) => LossPending(b, alloc[b].node, views)'
      BY DEF RunLate, LossPending, LossSeen
    <2>4. ASSUME b \notin givenUp', NEW n \in Nodes, Stray(b, n)'
          PROVE  Stray(b, n) /\ (ReturnPending(n)' <=> ReturnPending(n))
      BY <1>3, <2>1, <2>4 DEF RunLate, Stray, ReturnPending, Wrong
    <2> QED
      BY <2>1, <2>2, <2>3, <2>4, Carried
  <1>5. UNCHANGED <<pod, podWatch, seen>>
    BY DEF RunLate
  <1> QED
    BY <1>1, <1>4, <1>5, SameViews DEF AllKnown

(* A lost node is looked up in the store: what is on it is put down for       *)
(* node_error, or has a newer version that is not handled yet.                *)
LEMMA OperatorNodeLostStep ==
    ASSUME TypeOK, TypeOK', ListenersKnow, NEW views \in AllViews, AllKnown(views), OperatorNodeLost
    PROVE  ListenersKnow' /\ \E v \in AllViews' : AllKnown(v)'
  <1> USE DEF operators, informers, objects
  <1> DEFINE n == Head(lostNodes)
             todo == {a \in Allocations : cache[a].node = n}
  <1>1. /\ losing = NotLosing /\ losing.fresh = {} /\ lostNodes # <<>> /\ lostNodes' = Tail(lostNodes)
        /\ UNCHANGED <<pod, held, podWatch, seen, newNodes, cleaning, alloc, watch, cache, tasks, w, givenUp>>
    BY DEF OperatorNodeLost, NotLosing
  <1>2. losing' = IF todo = {} THEN NotLosing
                  ELSE [node |-> n, todo |-> todo, fresh |-> {a \in todo : watch[a] = <<>>}]
    BY DEF OperatorNodeLost
  <1>3. /\ losing'.fresh = {a \in todo : watch[a] = <<>>}
        /\ losing'.fresh \subseteq losing'.todo
        /\ \A a \in losing'.fresh : losing'.node = n
    <2>1. CASE todo = {}
      BY <1>2, <2>1 DEF NotLosing
    <2>2. CASE todo # {}
      <3> HIDE DEF todo
      <3> QED
        BY <1>2, <2>2
    <2> QED
      BY <2>1, <2>2
  <1>4. /\ n = lostNodes[1] /\ Len(lostNodes) \in Nat /\ Len(lostNodes) > 0
        /\ Len(lostNodes') = Len(lostNodes) - 1
        /\ \A i \in 1 .. Len(lostNodes') : lostNodes'[i] = lostNodes[i + 1]
    BY <1>1, QueueFacts DEF TypeOK
  <1>5. \A a \in Allocations : watch[a] = <<>> => alloc[a] = cache[a]
    BY DEF AllKnown, Known, CacheFollows
  <1>6. ListenersKnow'
    BY <1>1, <1>3, <1>5 DEF ListenersKnow
  <1>7. ASSUME NEW b \in Allocations
        PROVE  Known(b, views)'
    <2>1. Known(b, views) /\ Untouched(b)
      BY <1>1 DEF AllKnown, Untouched
    <2>2. ASSUME LossPending(b, alloc[b].node, views)
          PROVE  LossPending(b, alloc[b].node, views)' \/ Unhandled(b)
      <3>1. CASE LossSeen(alloc[b].node, views)
        BY <1>1, <3>1 DEF LossPending, LossSeen
      <3>2. ASSUME NEW i \in 1 .. Len(lostNodes), lostNodes[i] = alloc[b].node
            PROVE  LossPending(b, alloc[b].node, views)' \/ Unhandled(b)
        <4>1. CASE i = 1
          BY <1>1, <1>3, <1>4, <1>5, <3>2, <4>1 DEF LossPending, Unhandled
        <4>2. CASE i # 1
          <5>1. i - 1 \in 1 .. Len(lostNodes') /\ i - 1 + 1 = i
            BY <1>4, <4>2
          <5>2. lostNodes'[i - 1] = lostNodes[i]
            BY <1>4, <5>1
          <5> QED
            BY <1>1, <3>2, <5>1, <5>2 DEF LossPending
        <4> QED
          BY <4>1, <4>2
      <3> QED
        BY <1>1, <2>2, <3>1, <3>2 DEF LossPending
    <2>3. OnItsNode(b) => OnItsNode(b)'
      BY <1>1 DEF OnItsNode
    <2>4. ASSUME NEW m \in Nodes, Stray(b, m)'
          PROVE  Stray(b, m) /\ (ReturnPending(m)' <=> ReturnPending(m))
      BY <1>1, <2>4 DEF Stray, ReturnPending
    <2> QED
      BY <1>1, <2>1, <2>2, <2>3, <2>4, Carried
  <1> QED
    BY <1>1, <1>6, <1>7, SameViews DEF AllKnown

(* A node that is back is listed for its cleanup. *)
LEMMA NewOperatorNodeStep ==
    ASSUME TypeOK, TypeOK', ListenersKnow, NEW views \in AllViews, AllKnown(views), NewOperatorNode
    PROVE  ListenersKnow' /\ \E v \in AllViews' : AllKnown(v)'
  <1> USE DEF operators, informers, objects
  <1> DEFINE n == Head(newNodes)
  <1>1. /\ cleaning = NotCleaning /\ newNodes # <<>> /\ newNodes' = Tail(newNodes) /\ cleaning'.node = n
        /\ UNCHANGED <<pod, held, podWatch, seen, lostNodes, losing, alloc, watch, cache, tasks, w, givenUp>>
    BY DEF NewOperatorNode
  <1>2. /\ n \in Nodes /\ n = newNodes[1] /\ Len(newNodes) \in Nat /\ Len(newNodes) > 0
        /\ Len(newNodes') = Len(newNodes) - 1
        /\ \A i \in 1 .. Len(newNodes') : newNodes'[i] = newNodes[i + 1]
    BY <1>1, QueueFacts DEF TypeOK
  <1> HIDE DEF n
  <1>3. ListenersKnow'
    BY <1>1, <1>2, NodesAssumption DEF ListenersKnow
  <1>4. ASSUME NEW m \in Nodes, ReturnPending(m)
        PROVE  ReturnPending(m)'
    <2>1. cleaning.node # m
      BY <1>1, NodesAssumption DEF NotCleaning
    <2>2. ASSUME NEW i \in 1 .. Len(newNodes), newNodes[i] = m
          PROVE  ReturnPending(m)'
      <3>1. CASE i = 1
        BY <1>1, <1>2, <2>2, <3>1 DEF ReturnPending
      <3>2. CASE i # 1
        <4>1. i - 1 \in 1 .. Len(newNodes') /\ i - 1 + 1 = i
          BY <1>2, <3>2
        <4>2. newNodes'[i - 1] = newNodes[i]
          BY <1>2, <4>1
        <4> QED
          BY <2>2, <4>1, <4>2 DEF ReturnPending
      <3> QED
        BY <3>1, <3>2
    <2> QED
      BY <1>1, <1>4, <2>1, <2>2 DEF ReturnPending
  <1>5. ASSUME NEW b \in Allocations
        PROVE  Known(b, views)'
    <2>1. Known(b, views) /\ Untouched(b)
      BY <1>1 DEF AllKnown, Untouched
    <2>2. LossPending(b, alloc[b].node, views) => LossPending(b, alloc[b].node, views)'
      BY <1>1 DEF LossPending, LossSeen
    <2>3. OnItsNode(b) => OnItsNode(b)'
      BY <1>1 DEF OnItsNode
    <2>4. \A m \in Nodes : Stray(b, m)' => Stray(b, m)
      BY <1>1 DEF Stray
    <2> QED
      BY <1>1, <1>4, <2>1, <2>2, <2>3, <2>4, Carried
  <1> QED
    BY <1>1, <1>3, <1>5, SameViews DEF AllKnown

(* The cleanup puts the node in order, except for what is then given up; a   *)
(* node that is gone again is going to be announced once more.               *)
LEMMA DoCleanupStep ==
    ASSUME TypeOK, TypeOK', ListenersKnow, NEW views \in AllViews, AllKnown(views), DoCleanup
    PROVE  ListenersKnow' /\ \E v \in AllViews' : AllKnown(v)'
  <1> USE DEF informers, objects
  <1>2. PICK n \in Nodes : n = cleaning.node
    BY DEF DoCleanup, ListenersKnow, TypeOK
  <1> DEFINE c == [node |-> n, add |-> cleaning.keep, del |-> Allocations \ cleaning.keep]
  <1>1. /\ cleaning' = NotCleaning
        /\ UNCHANGED <<podWatch, seen, lostNodes, newNodes, losing, alloc, watch, cache, tasks, w>>
    BY DEF DoCleanup
  <1>3. c \in GrpcCall /\ c.node = n /\ c.add = cleaning.keep /\ c.del = Allocations \ cleaning.keep
    BY DEF GrpcCall, TypeOK
  <1>4. ListenersKnow'
    BY <1>1 DEF ListenersKnow
  <1>5. pod' = pod /\ givenUp \subseteq givenUp'
    BY <1>2, <1>3, NotAnswered DEF DoCleanup, Answered, operators
  <1> HIDE DEF c
  <1>6. ASSUME NEW b \in Allocations, b \notin givenUp'
        PROVE  /\ OnItsNode(b) /\ alloc[b].node \in Nodes => OnItsNode(b)'
               /\ \A m \in Nodes \ {n} : b \in held'[m] <=> b \in held[m]
               /\ Stray(b, n)' =>
                     \E i \in 1 .. Len(podWatch) : podWatch[i].node = n /\ podWatch[i].pod = "ready"
    <2>1. CASE seen[n] # "gone" /\ Answered(c) /\ NoFault /\ givenUp' = givenUp \cup (Wrong(c) \cap (c.add \cup held[n]))
      <3>1. \A m \in Nodes, a \in Allocations :
               a \in held'[m] <=> IF m = n THEN a \in c.add \/ (a \in held[m] /\ a \notin c.del)
                                  ELSE a \in held[m]
        BY <1>3, <2>1, Applied DEF Answered
      <3>2. ~(b \in Wrong(c) /\ b \in c.add \cup held[n])
        BY <1>6, <2>1
      <3>3. OnItsNode(b) /\ alloc[b].node \in Nodes => OnItsNode(b)'
        BY <1>1, <1>3, <1>5, <3>1, <3>2 DEF OnItsNode, Wrong
      <3>4. ~Stray(b, n)'
        BY <1>1, <1>2, <1>3, <3>1, <3>2 DEF Stray, Wrong
      <3> QED
        BY <3>1, <3>3, <3>4
    <2>2. CASE seen[n] # "gone" /\ Unanswered(c) /\ givenUp' = givenUp \cup {a \in held[n] : alloc[a].node # n}
      <3>1. held' = held
        BY <1>3, <2>2, NotAnswered
      <3> QED
        BY <1>1, <1>5, <1>6, <2>2, <3>1 DEF OnItsNode, Stray
    <2>3. CASE seen[n] = "gone" /\ UNCHANGED <<operators, givenUp, bounds>>
      <3>1. held' = held
        BY <2>3 DEF operators
      <3>2. Stray(b, n)' => pod[n] = "ready" /\ seen[n] # "ready"
        BY <1>5, <2>3 DEF Stray
      <3>3. Stray(b, n)' => \E i \in 1 .. Len(podWatch) : podWatch[i].node = n /\ podWatch[i].pod = "ready"
        BY <1>2, <3>2, SeenOrAnnounced DEF AllKnown
      <3> QED
        BY <1>1, <1>5, <3>1, <3>3 DEF OnItsNode
    <2> QED
      BY <1>2, <2>1, <2>2, <2>3 DEF DoCleanup, c
  <1>7. ASSUME NEW b \in Allocations
        PROVE  Known(b, views)'
    <2>1. Known(b, views) /\ Untouched(b)
      BY <1>1 DEF AllKnown, Untouched
    <2>2. LossPending(b, alloc[b].node, views) => LossPending(b, alloc[b].node, views)'
      BY <1>1 DEF LossPending, LossSeen
    <2>3. ASSUME b \notin givenUp', NEW m \in Nodes, Stray(b, m)'
          PROVE  ReturnPending(m)' \/ (Stray(b, m) /\ ~ReturnPending(m))
      <3>1. CASE m = n
        BY <1>1, <1>6, <2>3, <3>1 DEF ReturnPending
      <3>2. CASE m # n
        <4>1. Stray(b, m)
          BY <1>1, <1>5, <1>6, <2>3, <3>2 DEF Stray
        <4>2. ReturnPending(m) => ReturnPending(m)'
          BY <1>1, <1>2, <3>2 DEF ReturnPending
        <4> QED
          BY <4>1, <4>2
      <3> QED
        BY <3>1, <3>2
    <2> QED
      BY <1>5, <1>6, <2>1, <2>2, <2>3, Carried
  <1> QED
    BY <1>1, <1>4, <1>5, <1>7, SameViews DEF AllKnown

(* The listener's write is a new version; a copy that is not current is     *)
(* refused.                                                                 *)
LEMMA NodeErrorStep ==
    ASSUME TypeOK, TypeOK', ListenersKnow, NEW views \in AllViews, AllKnown(views),
           NEW a \in Allocations, SetAllocationStatusNodeError(a)
    PROVE  ListenersKnow' /\ \E v \in AllViews' : AllKnown(v)'
  <1> USE DEF operators, informers
  <1> DEFINE obj == [alloc[a] EXCEPT !.state = "lost"]
  <1>1. /\ obj \in IPAllocation /\ obj.node = alloc[a].node /\ obj.state = "lost"
    <2>1. alloc[a] \in IPAllocation /\ "lost" \in States
      BY DEF TypeOK, States, NodeError
    <2> QED
      BY <2>1, ObjectTypes
  <1> HIDE DEF obj
  <1>2. /\ UNCHANGED <<pod, held, podWatch, seen, lostNodes, newNodes, cleaning, tasks, givenUp>>
        /\ a \in losing.todo
        /\ losing' = IF losing.todo = {a} THEN NotLosing
                     ELSE [losing EXCEPT !.todo = @ \ {a}, !.fresh = @ \ {a}]
    BY DEF SetAllocationStatusNodeError
  <1>3. /\ losing'.fresh = losing.fresh \ {a} /\ losing'.fresh \subseteq losing'.todo
        /\ \A b \in losing'.fresh : losing'.node = losing.node
    BY <1>2 DEF ListenersKnow, NotLosing, TypeOK
  <1>4. \/ a \in losing.fresh /\ Write(a, obj) /\ w' = [w EXCEPT ![a].fresh = @ /\ ~Changes(a, obj)]
        \/ a \notin losing.fresh /\ UNCHANGED <<alloc, watch, cache, w>>
    BY DEF SetAllocationStatusNodeError, obj
  <1>5. \A b \in Allocations : alloc'[b].node = alloc[b].node
    BY <1>1, <1>4, Written
  <1>6. ListenersKnow'
    BY <1>2, <1>3, <1>5 DEF ListenersKnow, TypeOK
  <1>7. ASSUME NEW b \in Allocations, b # a
        PROVE  Known(b, views)'
    <2>1. Untouched(b)
      <3>1. alloc'[b] = alloc[b] /\ watch'[b] = watch[b] /\ cache' = cache
        BY <1>1, <1>4, <1>7, Written
      <3>2. w'[b] = w[b]
        BY <1>4, <1>7 DEF TypeOK
      <3> QED
        BY <1>2, <3>1, <3>2 DEF Untouched
    <2> QED
      BY <1>2, <1>3, <1>7, <2>1, LeftAlone DEF AllKnown
  <1>8. Known(a, views)'
    <2>1. CASE a \notin losing.fresh
      <3>1. Untouched(a)
        BY <1>2, <1>4, <2>1 DEF Untouched
      <3> QED
        BY <1>2, <2>1, <3>1, LeftAlone DEF AllKnown
    <2>2. CASE a \in losing.fresh
      <3>1. Write(a, obj) /\ w' = [w EXCEPT ![a].fresh = @ /\ ~Changes(a, obj)]
        BY <1>4, <2>2
      <3> DEFINE x == w[a].fresh /\ ~Changes(a, obj)
                 h == [w[a] EXCEPT !.fresh = x]
      <3>2. w' = [w EXCEPT ![a] = h]
        BY <3>1
      <3>3. x \in BOOLEAN
        OBVIOUS
      <3> HIDE DEF x
      <3>4. h.pc = w[a].pc /\ h.obj = w[a].obj /\ h.ops = w[a].ops /\ h.todo = w[a].todo /\ h.fresh = x
        BY <3>3, HandlerFields DEF TypeOK
      <3> HIDE DEF h
      <3>5. w'[a] = h
        BY <3>2 DEF TypeOK
      <3>6. Known(a, views)
        BY DEF AllKnown
      <3>7. alloc'[a] = obj /\ cache' = cache
        BY <1>1, <3>1, Written
      <3>8. PlacedSomewhere(a)'
        BY <1>1, <3>7 DEF PlacedSomewhere
      <3>9. CASE obj = alloc[a]
        <4>1. alloc' = alloc /\ watch' = watch
          BY <1>1, <3>1, <3>9, Written
        <4>2. x <=> w[a].fresh
          BY <3>9 DEF x, Changes
        <4>3. CacheFollows(a)'
          BY <3>6, <3>7, <4>1 DEF Known, CacheFollows
        <4>4. HandlerKnows(a)'
          BY <1>2, <3>4, <3>5, <3>6, <4>1, <4>2 DEF Known, HandlerKnows
        <4>5. TroubleIsKnown(a)'
          BY <1>2, <3>4, <3>5, <3>6, <4>1, <4>2 DEF Known, TroubleIsKnown, Unhandled
        <4>6. AbsenceIsKnown(a, views)'
          BY <1>1, <3>7 DEF AbsenceIsKnown
        <4>7. StrayIsKnown(a)'
          <5>1. ASSUME NEW n \in Nodes
                PROVE  /\ Stray(a, n)' <=> Stray(a, n)
                       /\ ReturnPending(n)' <=> ReturnPending(n)
                       /\ Removing(a, n)' <=> Removing(a, n)
            BY <1>2, <3>4, <3>5, <4>1, <4>2 DEF Stray, ReturnPending, Removing
          <5>2. (Unhandled(a)' <=> Unhandled(a)) /\ (Deciding(a)' <=> Deciding(a))
            BY <1>2, <3>4, <3>5, <4>1, <4>2 DEF Unhandled, Deciding
          <5> QED
            BY <1>2, <3>6, <5>1, <5>2 DEF Known, StrayIsKnown
        <4> QED
          BY <3>8, <4>3, <4>4, <4>5, <4>6, <4>7 DEF Known
      <3>10. CASE obj # alloc[a]
        <4>1. watch'[a] # <<>> /\ watch'[a][Len(watch'[a])] = obj
          BY <1>1, <3>1, <3>10, Written
        <4>2. ~x
          BY <3>10 DEF x, Changes
        <4>3. CacheFollows(a)' /\ Unhandled(a)'
          BY <3>7, <4>1 DEF CacheFollows, Unhandled
        <4>4. HandlerKnows(a)'
          BY <1>1, <1>2, <3>4, <3>5, <3>6, <3>7, <4>2 DEF Known, HandlerKnows
        <4> QED
          BY <3>8, <4>3, <4>4, Waiting
      <3> QED
        BY <3>9, <3>10
    <2> QED
      BY <2>1, <2>2
  <1> QED
    BY <1>2, <1>6, <1>7, <1>8, SameViews DEF AllKnown

(* A new leader hears of every pod that is there once, and has every         *)
(* allocation to handle.                                                     *)
LEMMA RestartStep ==
    ASSUME TypeOK, TypeOK', NEW views \in AllViews, AllKnown(views), Restart
    PROVE  ListenersKnow' /\ \E v \in AllViews' : AllKnown(v)'
  <1> USE DEF operators
  <1>1. ListenersKnow'
    BY DEF Restart, ListenersKnow, NotLosing, NotCleaning
  <1> DEFINE S == {[node |-> n, pod |-> pod[n]] : n \in {m \in Nodes : pod[m] # "gone"}}
             q == SetToSeq(S)
  <1>2. /\ podWatch' = q /\ pod' = pod /\ pod \in [Nodes -> PodStates] /\ seen' = Unlisted
    BY DEF Restart, TypeOK
  <1>3. /\ q \in Seq(S) /\ Len(q) \in Nat
        /\ \A i, j \in 1 .. Len(q) : q[i] = q[j] => i = j
        /\ \A e \in S : \E i \in 1 .. Len(q) : q[i] = e
    BY RestartListFinite, SetToSeqFacts
  <1>4. \A e \in S : e.node \in Nodes /\ e.pod = pod[e.node] /\ e.pod # "gone"
    OBVIOUS
  <1>5. \A e, f \in S : e.node = f.node => e = f
    OBVIOUS
  <1>6. \A n \in Nodes : pod[n] # "gone" => \E e \in S : e.node = n
    <2> SUFFICES ASSUME NEW n \in Nodes, pod[n] # "gone"
                 PROVE  \E e \in S : e.node = n
      OBVIOUS
    <2>1. [node |-> n, pod |-> pod[n]] \in S /\ [node |-> n, pod |-> pod[n]].node = n
      OBVIOUS
    <2> QED
      BY <2>1
  <1> HIDE DEF S
  <1>7. /\ \A i \in 1 .. Len(q) : /\ q[i] \in S /\ q[i].node \in Nodes
                                  /\ q[i].pod = pod[q[i].node] /\ q[i].pod # "gone"
        /\ \A i, j \in 1 .. Len(q) : q[i].node = q[j].node => i = j
        /\ \A n \in Nodes : pod[n] # "gone" => \E i \in 1 .. Len(q) : q[i].node = n
    <2>1. \A i \in 1 .. Len(q) : q[i] \in S
      BY <1>3, QueueFacts
    <2> HIDE DEF q
    <2>2. \A n \in Nodes : pod[n] # "gone" => \E i \in 1 .. Len(q) : q[i].node = n
      BY <1>3, <1>6
    <2>3. \A i, j \in 1 .. Len(q) : q[i].node = q[j].node => i = j
      BY <1>3, <1>5, <2>1
    <2> QED
      BY <1>4, <2>1, <2>2, <2>3
  <1> HIDE DEF q
  <1>8. PICK v \in [0 .. Len(q) -> [Nodes -> PodStates]] :
           v = [i \in 0 .. Len(q) |-> [n \in Nodes |-> IF \E j \in 1 .. i : q[j].node = n THEN pod[n] ELSE "gone"]]
    <2>1. \A i \in 0 .. Len(q) :
             [n \in Nodes |-> IF \E j \in 1 .. i : q[j].node = n THEN pod[n] ELSE "gone"] \in [Nodes -> PodStates]
      BY <1>2 DEF PodStates
    <2> QED
      BY <2>1
  <1>9. \A i \in 0 .. Len(q), n \in Nodes :
           v[i][n] = IF \E j \in 1 .. i : q[j].node = n THEN pod[n] ELSE "gone"
    BY <1>8
  <1>10. v \in AllViews'
    BY <1>2, <1>8 DEF AllViews
  <1>11. Views(v)'
    <2>1. v[0] = seen'
      <3>1. 0 \in 0 .. Len(q) /\ 1 .. 0 = {}
        BY <1>3
      <3>2. \A n \in Nodes : v[0][n] = "gone"
        BY <1>9, <3>1
      <3>3. v[0] \in [Nodes -> PodStates]
        BY <3>1
      <3> QED
        BY <1>2, <3>2, <3>3 DEF Unlisted
    <2>2. v[Len(q)] = pod
      <3>1. Len(q) \in 0 .. Len(q)
        BY <1>3
      <3>2. \A n \in Nodes : v[Len(q)][n] = pod[n]
        BY <1>7, <1>9, <3>1
      <3>3. v[Len(q)] \in [Nodes -> PodStates]
        BY <3>1
      <3> QED
        BY <1>2, <3>2, <3>3
    <2>3. ASSUME NEW i \in 1 .. Len(q)
          PROVE  /\ v[i] = [v[i - 1] EXCEPT ![q[i].node] = q[i].pod]
                 /\ v[i - 1][q[i].node] # q[i].pod
      <3>1. i \in 0 .. Len(q) /\ i - 1 \in 0 .. Len(q) /\ i \in 1 .. i
        BY <1>3
      <3>2. v[i] \in [Nodes -> PodStates] /\ v[i - 1] \in [Nodes -> PodStates]
        BY <3>1
      <3>3. v[i][q[i].node] = q[i].pod
        BY <1>7, <1>9, <3>1
      <3>4. v[i - 1][q[i].node] = "gone"
        <4>1. ~\E j \in 1 .. i - 1 : q[j].node = q[i].node
          <5> SUFFICES ASSUME NEW j \in 1 .. i - 1, q[j].node = q[i].node
                       PROVE  FALSE
            OBVIOUS
          <5>1. j \in 1 .. Len(q) /\ j # i
            BY <1>3
          <5> QED
            BY <1>7, <5>1
        <4> QED
          BY <1>7, <1>9, <3>1, <4>1
      <3>5. ASSUME NEW n \in Nodes, n # q[i].node
            PROVE  v[i][n] = v[i - 1][n]
        <4>1. (\E j \in 1 .. i : q[j].node = n) <=> (\E j \in 1 .. i - 1 : q[j].node = n)
          <5>1. \A j : j \in 1 .. i <=> j \in 1 .. i - 1 \/ j = i
            BY <1>3
          <5> QED
            BY <3>5, <5>1
        <4> QED
          BY <1>9, <3>1, <4>1
      <3> QED
        BY <1>7, <3>2, <3>3, <3>4, <3>5
    <2>4. ASSUME NEW i \in 0 .. Len(q), NEW n \in Nodes, v[i][n] # pod[n]
          PROVE  \E j \in i + 1 .. Len(q) : q[j].node = n /\ q[j].pod = pod[n]
      <3>1. pod[n] # "gone" /\ ~\E j \in 1 .. i : q[j].node = n
        BY <1>9, <2>4
      <3>2. PICK j \in 1 .. Len(q) : q[j].node = n
        BY <1>7, <3>1
      <3>3. j \in i + 1 .. Len(q)
        BY <1>3, <3>1, <3>2
      <3> QED
        BY <1>7, <3>2, <3>3
    <2>5. \A i \in 1 .. Len(podWatch') :
             /\ v[i] = [v[i - 1] EXCEPT ![podWatch'[i].node] = podWatch'[i].pod]
             /\ v[i - 1][podWatch'[i].node] # podWatch'[i].pod
      BY <1>2, <2>3, ZenonT(240)
    <2>6. \A i \in 0 .. Len(podWatch'), n \in Nodes :
             v[i][n] # pod'[n] =>
                 \E j \in i + 1 .. Len(podWatch') : podWatch'[j].node = n /\ podWatch'[j].pod = pod'[n]
      BY <1>2, <2>4, ZenonT(240)
    <2> QED
      BY <1>2, <2>1, <2>2, <2>5, <2>6 DEF Views
  <1>12. ASSUME NEW a \in Allocations
         PROVE  Known(a, v)'
    <2>1. watch'[a] = <<alloc[a]>> /\ w'[a] = Idle /\ alloc' = alloc
      BY DEF Restart
    <2>2. watch'[a] # <<>> /\ watch'[a][Len(watch'[a])] = alloc'[a]
      BY <2>1
    <2>3. CacheFollows(a)' /\ Unhandled(a)' /\ HandlerKnows(a)'
      BY <2>1, <2>2, HandlerTypes DEF CacheFollows, Unhandled, HandlerKnows
    <2>4. PlacedSomewhere(a)'
      BY <2>1 DEF AllKnown, Known, PlacedSomewhere
    <2> QED
      BY <2>3, <2>4, Waiting
  <1> QED
    BY <1>1, <1>10, <1>11, <1>12 DEF AllKnown

-----------------------------------------------------------------------------
(* The allocations watcher *)

(* A step of the handler of one allocation leaves what is known of the       *)
(* others alone, and the listeners.                                          *)
LEMMA Others ==
    ASSUME TypeOK, NEW views \in AllViews, AllKnown(views), NEW a \in Allocations,
           UNCHANGED <<pod, podWatch, seen, lostNodes, newNodes, cleaning>>,
           \A b \in Allocations \ {a} :
              /\ Untouched(b) /\ (b \in givenUp => b \in givenUp')
              /\ \A n \in Nodes : b \in held'[n] <=> b \in held[n]
              /\ b \in losing.fresh => b \in losing'.fresh,
           Known(a, views)'
    PROVE  \E v \in AllViews' : AllKnown(v)'
  <1>1. ASSUME NEW b \in Allocations, b # a
        PROVE  Known(b, views)'
    BY <1>1, LeftAlone DEF AllKnown
  <1> QED
    BY <1>1, SameViews DEF AllKnown

(* The informer stores the object; its handler waits. *)
LEMMA AllocationEventStep ==
    ASSUME TypeOK, TypeOK', ListenersKnow, NEW views \in AllViews, AllKnown(views),
           NEW a \in Allocations, AllocationEvent(a)
    PROVE  ListenersKnow' /\ \E v \in AllViews' : AllKnown(v)'
  <1> USE DEF operators, listeners
  <1>1. /\ UNCHANGED <<pod, held, podWatch, seen, lostNodes, newNodes, losing, cleaning, alloc, w, givenUp>>
        /\ watch[a] # <<>> /\ watch[a] \in Seq(IPAllocation)
        /\ watch'[a] = Tail(watch[a]) /\ cache'[a] = Head(watch[a])
        /\ tasks'[a] = tasks[a] \cup {Kind(Head(watch[a]).state)}
    BY DEF AllocationEvent, TypeOK
  <1>2. ListenersKnow'
    BY <1>1 DEF ListenersKnow
  <1>3. \A b \in Allocations \ {a} : Untouched(b)
    BY DEF AllocationEvent, TypeOK, Untouched
  <1>4. Known(a, views) /\ alloc[a] = watch[a][Len(watch[a])]
    BY <1>1 DEF AllKnown, Known, CacheFollows
  <1>5. CacheFollows(a)' /\ Unhandled(a)'
    <2>1. CASE Tail(watch[a]) = <<>>
      <3>1. Len(watch[a]) = 1 /\ Head(watch[a]) = watch[a][1]
        BY <1>1, <2>1, TailFacts, QueueFacts
      <3> QED
        BY <1>1, <1>4, <2>1, <3>1 DEF CacheFollows, Unhandled
    <2>2. CASE Tail(watch[a]) # <<>>
      BY <1>1, <1>4, <2>2, TailFacts DEF CacheFollows, Unhandled
    <2> QED
      BY <2>1, <2>2
  <1>6. HandlerKnows(a)' /\ PlacedSomewhere(a)'
    BY <1>1, <1>4 DEF Known, HandlerKnows, PlacedSomewhere
  <1>7. Known(a, views)'
    BY <1>5, <1>6, Waiting
  <1> QED
    BY <1>1, <1>2, <1>3, <1>7, Others

(* A handler starts on the current version, or is not needed any more. *)
LEMMA StartStep ==
    ASSUME TypeOK, TypeOK', ListenersKnow, NEW views \in AllViews, AllKnown(views),
           NEW a \in Allocations, NEW kind \in {"success", "pending", "node_error", "error"}, Start(a, kind)
    PROVE  ListenersKnow' /\ \E v \in AllViews' : AllKnown(v)'
  <1> USE DEF operators, informers, listeners
  <1>1. /\ UNCHANGED <<pod, held, podWatch, seen, lostNodes, newNodes, losing, cleaning, alloc, watch, cache, givenUp>>
        /\ w[a].pc = "idle" /\ kind \in tasks[a]
    BY DEF Start
  <1>2. ListenersKnow'
    BY <1>1 DEF ListenersKnow
  <1>3. \A b \in Allocations \ {a} : Untouched(b)
    BY DEF Start, TypeOK, Untouched
  <1>4. Known(a, views) /\ alloc[a] \in IPAllocation /\ alloc[a].state \in States
    BY ObjectTypes DEF AllKnown, TypeOK
  <1>5. CacheFollows(a)' /\ PlacedSomewhere(a)'
    BY <1>1, <1>4 DEF Known, CacheFollows, PlacedSomewhere
  <1>6. CASE Kind(alloc[a].state) = kind
    <2> DEFINE pc == IF kind \in {"success", "pending"} THEN "list" ELSE "changeNode"
               h == [Idle EXCEPT !.obj = alloc[a], !.pc = pc]
    <2>1. w' = [w EXCEPT ![a] = h] /\ tasks' = [tasks EXCEPT ![a] = IF kind = "error" THEN @ ELSE @ \ {kind}]
      BY <1>6 DEF Start
    <2>2. h.obj = alloc[a] /\ h.pc = pc /\ h.fresh
      BY DEF Idle
    <2> HIDE DEF h
    <2>3. w'[a] = h /\ (kind = "error" => "error" \in tasks'[a])
      BY <1>1, <2>1 DEF TypeOK
    <2>4. Deciding(a)'
      BY <2>2, <2>3 DEF Deciding
    <2>5. /\ kind = "success" => alloc[a].state = "success"
          /\ kind = "pending" => alloc[a].state = "pending"
          /\ kind = "error" <=> alloc[a].state = "error"
          /\ kind = "node_error" => alloc[a].state \in {"lost", "unreachable"}
      BY <1>4, <1>6, KindFacts
    <2>6. HandlerKnows(a)'
      BY <1>1, <2>2, <2>3, <2>5 DEF HandlerKnows
    <2>7. Known(a, views)'
      BY <1>5, <2>4, <2>6, Decides
    <2> QED
      BY <1>1, <1>2, <1>3, <2>7, Others
  <1>7. CASE Kind(alloc[a].state) # kind
    <2>1. w' = w /\ tasks' = [tasks EXCEPT ![a] = @ \ {kind}]
      BY <1>7 DEF Start
    <2>2. tasks'[a] = tasks[a] \ {kind}
      BY <2>1 DEF TypeOK
    <2>3. Unhandled(a)' <=> Unhandled(a)
      BY <1>1, <1>7, <2>2 DEF Unhandled
    <2>4. HandlerKnows(a)'
      BY <1>1, <2>1 DEF HandlerKnows
    <2>5. TroubleIsKnown(a)'
      BY <1>1, <1>4, <2>1, <2>3 DEF Known, TroubleIsKnown
    <2>6. AbsenceIsKnown(a, views)'
      BY <1>1, <1>4, <2>1, <2>3
         DEF Known, AbsenceIsKnown, Deciding, Placing, OnItsNode, LossPending, LossSeen
    <2>7. StrayIsKnown(a)'
      BY <1>1, <1>4, <2>1, <2>3 DEF Known, StrayIsKnown, Stray, Deciding, Removing, ReturnPending
    <2>8. Known(a, views)'
      BY <1>5, <2>4, <2>5, <2>6, <2>7 DEF Known
    <2> QED
      BY <1>1, <1>2, <1>3, <2>8, Others
  <1> QED
    BY <1>6, <1>7

(* A handler that cannot start gives the allocation up. *)
LEMMA StartFailsStep ==
    ASSUME TypeOK, TypeOK', ListenersKnow, NEW views \in AllViews, AllKnown(views),
           NEW a \in Allocations, NEW kind \in {"success", "pending", "node_error"}, StartFails(a, kind)
    PROVE  ListenersKnow' /\ \E v \in AllViews' : AllKnown(v)'
  <1> USE DEF operators, informers, listeners
  <1>1. /\ UNCHANGED <<pod, held, podWatch, seen, lostNodes, newNodes, losing, cleaning, alloc, watch, cache, w>>
        /\ givenUp' = givenUp \cup {a}
    BY DEF StartFails
  <1>2. ListenersKnow'
    BY <1>1 DEF ListenersKnow
  <1>3. \A b \in Allocations \ {a} : Untouched(b)
    BY DEF StartFails, TypeOK, Untouched
  <1>4. Known(a, views)
    BY DEF AllKnown
  <1>5. "error" \in tasks[a] => "error" \in tasks'[a]
    BY DEF StartFails, TypeOK
  <1>6. CacheFollows(a)' /\ PlacedSomewhere(a)' /\ HandlerKnows(a)'
    BY <1>1, <1>4, <1>5 DEF Known, CacheFollows, PlacedSomewhere, HandlerKnows
  <1>7. Known(a, views)'
    BY <1>1, <1>6, GivesUp
  <1> QED
    BY <1>1, <1>2, <1>3, <1>7, Others

(* The pass over the operators has them all ahead; one that is back and not  *)
(* in the list yet is going to be announced.                                 *)
LEMMA GetOperatorsListStep ==
    ASSUME TypeOK, TypeOK', ListenersKnow, NEW views \in AllViews, AllKnown(views),
           NEW a \in Allocations, GetOperatorsList(a)
    PROVE  ListenersKnow' /\ \E v \in AllViews' : AllKnown(v)'
  <1> USE DEF operators, informers, listeners, objects
  <1>1. /\ UNCHANGED <<pod, held, podWatch, seen, lostNodes, newNodes, losing, cleaning, alloc, watch, cache, tasks>>
        /\ w[a].pc = "list"
        /\ givenUp' = IF w[a].fresh THEN givenUp \ {a} ELSE givenUp
    BY DEF GetOperatorsList
  <1>2. ListenersKnow'
    BY <1>1 DEF ListenersKnow
  <1>3. \A b \in Allocations \ {a} : Untouched(b)
    BY DEF GetOperatorsList, TypeOK, Untouched
  <1>4. Known(a, views)
    BY DEF AllKnown
  <1> DEFINE h == [w[a] EXCEPT !.pc = "ensure", !.ops = seen, !.todo = {n \in Nodes : seen[n] # "gone"}]
  <1>5. w' = [w EXCEPT ![a] = h] /\ w[a] \in Handler
    BY DEF GetOperatorsList, TypeOK
  <1>6. /\ h.pc = "ensure" /\ h.ops = seen /\ h.todo = {n \in Nodes : seen[n] # "gone"}
        /\ h.fresh = w[a].fresh /\ h.obj = w[a].obj
    BY <1>5 DEF Handler
  <1> HIDE DEF h
  <1>7. w'[a] = h
    BY <1>5 DEF TypeOK
  <1>8. CacheFollows(a)' /\ PlacedSomewhere(a)' /\ HandlerKnows(a)'
    BY <1>1, <1>4, <1>6, <1>7 DEF Known, CacheFollows, PlacedSomewhere, HandlerKnows
  <1>9. CASE w[a].fresh
    <2>1. w'[a].fresh /\ w'[a].pc = "ensure"
      BY <1>6, <1>7, <1>9
    <2>2. TroubleIsKnown(a)'
      BY <2>1 DEF TroubleIsKnown
    <2>3. AbsenceIsKnown(a, views)'
      BY <1>6, <1>7, <1>8, <2>1 DEF AbsenceIsKnown, PlacedSomewhere, Placing
    <2>4. StrayIsKnown(a)'
      <3> SUFFICES ASSUME NEW n \in Nodes, Stray(a, n)'
                   PROVE  Removing(a, n)' \/ ReturnPending(n)'
        BY DEF StrayIsKnown
      <3>1. pod[n] = "ready"
        BY <1>1 DEF Stray
      <3>2. CASE seen[n] = "ready"
        BY <1>6, <1>7, <2>1, <3>2 DEF Removing
      <3>3. CASE seen[n] # "ready"
        <4>1. \E i \in 1 .. Len(podWatch) : podWatch[i].node = n /\ podWatch[i].pod = "ready"
          BY <3>1, <3>3, SeenOrAnnounced DEF AllKnown
        <4> QED
          BY <1>1, <4>1 DEF ReturnPending
      <3> QED
        BY <3>2, <3>3
    <2>5. Known(a, views)'
      BY <1>8, <2>2, <2>3, <2>4 DEF Known
    <2> QED
      BY <1>1, <1>2, <1>3, <2>5, Others
  <1>10. CASE ~w[a].fresh
    <2>1. /\ ~Deciding(a) /\ ~Placing(a, alloc[a].node) /\ (\A n \in Nodes : ~Removing(a, n))
          /\ Unhandled(a)' <=> Unhandled(a)
      BY <1>1, <1>10 DEF Deciding, Placing, Removing, Unhandled
    <2>2. TroubleIsKnown(a)'
      BY <1>1, <1>4, <1>10, <2>1 DEF Known, TroubleIsKnown
    <2>3. AbsenceIsKnown(a, views)'
      BY <1>1, <1>4, <1>10, <2>1 DEF Known, AbsenceIsKnown, OnItsNode, LossPending, LossSeen
    <2>4. StrayIsKnown(a)'
      BY <1>1, <1>4, <1>10, <2>1 DEF Known, StrayIsKnown, Stray, ReturnPending
    <2>5. Known(a, views)'
      BY <1>8, <2>2, <2>3, <2>4 DEF Known
    <2> QED
      BY <1>1, <1>2, <1>3, <1>10, <2>5, Others
  <1> QED
    BY <1>9, <1>10

(* The address is on its node when the operator answers, and the handler is  *)
(* going to write node_error when it does not.                               *)
LEMMA AddAddressStep ==
    ASSUME TypeOK, TypeOK', ListenersKnow, NEW views \in AllViews, AllKnown(views),
           NEW a \in Allocations, NEW n \in Nodes, AddAddress(a, n)
    PROVE  ListenersKnow' /\ \E v \in AllViews' : AllKnown(v)'
  <1> USE DEF informers, listeners, objects
  <1> DEFINE c == [node |-> n, add |-> {a}, del |-> {}]
  <1>1. /\ UNCHANGED <<podWatch, seen, lostNodes, newNodes, losing, cleaning, alloc, watch, cache, tasks, givenUp>>
        /\ w[a].pc = "ensure" /\ n \in w[a].todo /\ n = w[a].obj.node
    BY DEF AddAddress
  <1>2. ListenersKnow'
    BY <1>1 DEF ListenersKnow
  <1>3. \A b \in Allocations \ {a} : Untouched(b)
    BY DEF AddAddress, TypeOK, Untouched
  <1>4. Known(a, views) /\ n = alloc[a].node /\ w[a] \in Handler
    BY <1>1 DEF AllKnown, Known, HandlerKnows, TypeOK
  <1>5. c \in GrpcCall /\ c.node = n /\ c.add = {a} /\ c.del = {}
    BY DEF GrpcCall
  <1> HIDE DEF c
  <1>6. CacheFollows(a)' /\ PlacedSomewhere(a)'
    BY <1>1, <1>4 DEF Known, CacheFollows, PlacedSomewhere
  <1>7. CASE Answered(c) /\ w' = [w EXCEPT ![a].todo = @ \ {n}]
    <2> DEFINE h == [w[a] EXCEPT !.todo = w[a].todo \ {n}]
    <2>1. h.pc = w[a].pc /\ h.obj = w[a].obj /\ h.fresh = w[a].fresh /\ h.ops = w[a].ops /\ h.todo = w[a].todo \ {n}
      BY <1>4 DEF Handler
    <2>2. w' = [w EXCEPT ![a] = h]
      BY <1>7
    <2> HIDE DEF h
    <2>3. w'[a] = h
      BY <2>2 DEF TypeOK
    <2>4. /\ pod' = pod /\ pod[n] = "ready"
          /\ \A m \in Nodes, b \in Allocations :
                b \in held'[m] <=> IF m = n THEN b \in c.add \/ (b \in held[m] /\ b \notin c.del) ELSE b \in held[m]
      BY <1>5, <1>7, Applied DEF Answered
    <2>5. HandlerKnows(a)'
      BY <1>1, <1>4, <2>1, <2>3 DEF Known, HandlerKnows
    <2>6. Unhandled(a)' <=> Unhandled(a)
      BY <1>1 DEF Unhandled
    <2>7. TroubleIsKnown(a)'
      BY <1>1, <1>4, <2>1, <2>3, <2>6 DEF Known, TroubleIsKnown
    <2>8. OnItsNode(a)'
      BY <1>1, <1>4, <1>5, <2>4 DEF OnItsNode
    <2>9. AbsenceIsKnown(a, views)'
      BY <2>8 DEF AbsenceIsKnown
    <2>10. ASSUME NEW m \in Nodes, Stray(a, m)'
           PROVE  /\ Stray(a, m)
                  /\ Deciding(a) => Deciding(a)'
                  /\ Removing(a, m) => Removing(a, m)'
                  /\ ReturnPending(m) => ReturnPending(m)'
      BY <1>1, <1>4, <2>1, <2>3, <2>4, <2>10 DEF Stray, Deciding, Removing, ReturnPending
    <2>11. StrayIsKnown(a)'
      BY <1>1, <1>4, <2>6, <2>10 DEF Known, StrayIsKnown
    <2>12. Known(a, views)'
      BY <1>6, <2>5, <2>7, <2>9, <2>11 DEF Known
    <2>13. \A b \in Allocations \ {a}, m \in Nodes : b \in held'[m] <=> b \in held[m]
      BY <1>5, <2>4
    <2> QED
      BY <1>1, <1>2, <1>3, <2>4, <2>12, <2>13, Others
  <1>8. CASE /\ Unanswered(c) \/ UNCHANGED <<operators, bounds>>
             /\ w' = [w EXCEPT ![a].pc = "unreachable", ![a].ops = Unlisted, ![a].todo = {}]
    <2> DEFINE h == [w[a] EXCEPT !.pc = "unreachable", !.ops = Unlisted, !.todo = {}]
    <2>1. h.pc = "unreachable" /\ h.obj = w[a].obj /\ h.fresh = w[a].fresh
      BY <1>4 DEF Handler
    <2>2. w' = [w EXCEPT ![a] = h]
      BY <1>8
    <2> HIDE DEF h
    <2>3. w'[a] = h
      BY <2>2 DEF TypeOK
    <2>4. pod' = pod /\ held' = held
      BY <1>5, <1>8, NotAnswered DEF operators
    <2>5. HandlerKnows(a)'
      BY <1>1, <1>4, <2>1, <2>3 DEF Known, HandlerKnows
    <2>6. Known(a, views)'
      <3>1. CASE w[a].fresh
        <4>1. Deciding(a)'
          BY <2>1, <2>3, <3>1 DEF Deciding
        <4> QED
          BY <1>6, <2>5, <4>1, Decides
      <3>2. CASE ~w[a].fresh
        <4>1. /\ ~Deciding(a) /\ ~Placing(a, alloc[a].node) /\ (\A m \in Nodes : ~Removing(a, m))
              /\ Unhandled(a)' <=> Unhandled(a)
          BY <1>1, <3>2 DEF Deciding, Placing, Removing, Unhandled
        <4>2. TroubleIsKnown(a)'
          BY <1>1, <1>4, <3>2, <4>1 DEF Known, TroubleIsKnown
        <4>3. AbsenceIsKnown(a, views)'
          BY <1>1, <1>4, <2>4, <4>1 DEF Known, AbsenceIsKnown, OnItsNode, LossPending, LossSeen
        <4>4. StrayIsKnown(a)'
          BY <1>1, <1>4, <2>4, <4>1 DEF Known, StrayIsKnown, Stray, ReturnPending
        <4> QED
          BY <1>6, <2>5, <4>2, <4>3, <4>4 DEF Known
      <3> QED
        BY <3>1, <3>2
    <2> QED
      BY <1>1, <1>2, <1>3, <2>4, <2>6, Others
  <1> QED
    BY <1>7, <1>8 DEF AddAddress, c

(* The address is off the other node when its operator answers; one that is  *)
(* not ready is going to be cleaned up.                                      *)
LEMMA RemoveAddressStep ==
    ASSUME TypeOK, TypeOK', ListenersKnow, NEW views \in AllViews, AllKnown(views),
           NEW a \in Allocations, NEW n \in Nodes, RemoveAddress(a, n)
    PROVE  ListenersKnow' /\ \E v \in AllViews' : AllKnown(v)'
  <1> USE DEF informers, listeners, objects
  <1> DEFINE c == [node |-> n, add |-> {}, del |-> {a}]
             h == [w[a] EXCEPT !.todo = w[a].todo \ {n}]
  <1>1. /\ UNCHANGED <<podWatch, seen, lostNodes, newNodes, losing, cleaning, alloc, watch, cache, tasks>>
        /\ w[a].pc = "ensure" /\ n \in w[a].todo /\ n # w[a].obj.node
        /\ w' = [w EXCEPT ![a] = h] /\ w[a] \in Handler
    BY DEF RemoveAddress, TypeOK
  <1>2. ListenersKnow'
    BY <1>1 DEF ListenersKnow
  <1>3. \A b \in Allocations \ {a} : Untouched(b) /\ (b \in givenUp => b \in givenUp')
    BY DEF RemoveAddress, TypeOK, Untouched
  <1>4. Known(a, views) /\ n # alloc[a].node
    BY <1>1 DEF AllKnown, Known, HandlerKnows
  <1>5. c \in GrpcCall /\ c.node = n /\ c.add = {} /\ c.del = {a}
    BY DEF GrpcCall
  <1>6. h.pc = w[a].pc /\ h.obj = w[a].obj /\ h.fresh = w[a].fresh /\ h.ops = w[a].ops /\ h.todo = w[a].todo \ {n}
    BY <1>1 DEF Handler
  <1> HIDE DEF c, h
  <1>7. w'[a] = h
    BY <1>1 DEF TypeOK
  <1>8. CacheFollows(a)' /\ PlacedSomewhere(a)' /\ HandlerKnows(a)'
    BY <1>1, <1>4, <1>6, <1>7 DEF Known, CacheFollows, PlacedSomewhere, HandlerKnows
  <1>9. /\ pod' = pod /\ (a \in givenUp => a \in givenUp')
        /\ \A b \in Allocations, m \in Nodes : b # a \/ m # n => (b \in held'[m] <=> b \in held[m])
        /\ a \notin givenUp' => a \notin held'[n] \/ pod[n] # "ready" \/ (w[a].ops[n] # "ready" /\ held' = held)
    <2>1. CASE Answered(c) /\ UNCHANGED givenUp
      <3>1. \A m \in Nodes, b \in Allocations :
               b \in held'[m] <=> IF m = n THEN b \in c.add \/ (b \in held[m] /\ b \notin c.del) ELSE b \in held[m]
        BY <1>5, <2>1, Applied DEF Answered
      <3> QED
        BY <1>5, <2>1, <3>1 DEF Answered
    <2>2. CASE Unanswered(c) /\ givenUp' = IF pod[n] = "ready" THEN givenUp \cup {a} ELSE givenUp
      <3>1. pod' = pod /\ held' = held
        BY <1>5, <2>2, NotAnswered
      <3> QED
        BY <2>2, <3>1
    <2>3. CASE w[a].ops[n] # "ready" /\ UNCHANGED <<operators, givenUp, bounds>>
      BY <2>3 DEF operators
    <2> QED
      BY <2>1, <2>2, <2>3 DEF RemoveAddress, c
  <1>10. /\ Unhandled(a)' <=> Unhandled(a)
         /\ Deciding(a)' <=> Deciding(a)
         /\ Placing(a, alloc[a].node) => Placing(a, alloc[a].node)'
    BY <1>1, <1>4, <1>6, <1>7 DEF Unhandled, Deciding, Placing
  <1>11. TroubleIsKnown(a)'
    BY <1>1, <1>4, <1>6, <1>7, <1>9, <1>10 DEF Known, TroubleIsKnown
  <1>12. AbsenceIsKnown(a, views)'
    <2>1. alloc[a].node \in Nodes => (OnItsNode(a)' <=> OnItsNode(a))
      BY <1>1, <1>4, <1>9 DEF OnItsNode
    <2>2. LossPending(a, alloc[a].node, views)' <=> LossPending(a, alloc[a].node, views)
      BY <1>1 DEF LossPending, LossSeen
    <2> QED
      BY <1>1, <1>4, <1>9, <1>10, <2>1, <2>2 DEF Known, PlacedSomewhere, AbsenceIsKnown
  <1>13. StrayIsKnown(a)'
    <2> SUFFICES ASSUME a \notin givenUp', NEW m \in Nodes, Stray(a, m)'
                 PROVE  Unhandled(a)' \/ Deciding(a)' \/ Removing(a, m)' \/ ReturnPending(m)'
      BY DEF StrayIsKnown
    <2>1. Stray(a, m) /\ (Removing(a, m) => Removing(a, m)')
      <3>1. CASE m = n
        <4>1. w[a].ops[n] # "ready" /\ held' = held
          BY <1>9, <3>1 DEF Stray
        <4> QED
          BY <1>1, <1>9, <3>1, <4>1 DEF Stray, Removing
      <3>2. CASE m # n
        <4>1. Stray(a, m)
          BY <1>1, <1>9, <3>2 DEF Stray
        <4>2. Removing(a, m) => Removing(a, m)'
          BY <1>6, <1>7, <3>2 DEF Removing
        <4> QED
          BY <4>1, <4>2
      <3> QED
        BY <3>1, <3>2
    <2>2. ReturnPending(m)' <=> ReturnPending(m)
      BY <1>1 DEF ReturnPending
    <2> QED
      BY <1>4, <1>9, <1>10, <2>1, <2>2 DEF Known, StrayIsKnown
  <1>14. Known(a, views)'
    BY <1>8, <1>11, <1>12, <1>13 DEF Known
  <1> QED
    BY <1>1, <1>2, <1>3, <1>9, <1>14, Others

(* What a write by the handler leaves for the others and the listeners *)
LEMMA HandlerWriteFrame ==
    ASSUME TypeOK, ListenersKnow, NEW a \in Allocations, NEW obj \in IPAllocation, HandlerWrites(a, obj)
    PROVE  /\ ListenersKnow'
           /\ alloc'[a] = obj
           /\ (obj = alloc[a] => watch' = watch /\ alloc' = alloc /\ losing'.fresh = losing.fresh)
           /\ (obj # alloc[a] => watch'[a] # <<>> /\ watch'[a][Len(watch'[a])] = obj)
           /\ UNCHANGED <<cache, tasks, lostNodes, newNodes, cleaning>>
           /\ \A b \in Allocations \ {a} :
                 /\ alloc'[b] = alloc[b] /\ watch'[b] = watch[b]
                 /\ b \in losing.fresh => b \in losing'.fresh
  <1>1. /\ Write(a, obj)
        /\ losing'.node = losing.node /\ losing'.todo = losing.todo
        /\ losing'.fresh = IF obj = alloc[a] THEN losing.fresh ELSE losing.fresh \ {a}
        /\ UNCHANGED <<tasks, lostNodes, newNodes, cleaning>>
    BY HandlerWrote
  <1>2. /\ cache' = cache /\ alloc'[a] = obj
        /\ \A b \in Allocations \ {a} : alloc'[b] = alloc[b] /\ watch'[b] = watch[b]
        /\ obj = alloc[a] => watch' = watch /\ alloc' = alloc
        /\ obj # alloc[a] => watch'[a] # <<>> /\ watch'[a][Len(watch'[a])] = obj
    BY <1>1, Written
  <1>3. ListenersKnow'
    BY <1>1, <1>2 DEF ListenersKnow, TypeOK
  <1> QED
    BY <1>1, <1>2, <1>3

(* A handler that returns without a write: what it knew as a handler that    *)
(* was not fresh, or that has finished its pass, it does not need.           *)
LEMMA Returns ==
    ASSUME TypeOK, NEW a \in Allocations, NEW views, Known(a, views), w'[a] = Idle,
           UNCHANGED <<pod, held, podWatch, lostNodes, newNodes, cleaning, alloc, watch, cache, tasks>>,
           a \in givenUp => a \in givenUp',
           a \in losing.fresh => a \in losing'.fresh,
           a \notin givenUp' =>
              /\ alloc[a].state # "success" => Unhandled(a) \/ ~w[a].fresh
              /\ alloc[a].state = "success" => ~Deciding(a) /\ ~Placing(a, alloc[a].node)
              /\ Unhandled(a) \/ (~Deciding(a) /\ \A n \in Nodes : ~Removing(a, n))
    PROVE  Known(a, views)'
  <1>1. CacheFollows(a)' /\ PlacedSomewhere(a)' /\ HandlerKnows(a)'
    BY HandlerTypes DEF Known, CacheFollows, PlacedSomewhere, HandlerKnows
  <1>2. Unhandled(a)' <=> Unhandled(a)
    BY DEF Unhandled
  <1>3. TroubleIsKnown(a)'
    BY <1>2 DEF Known, TroubleIsKnown
  <1>4. AbsenceIsKnown(a, views)'
    BY <1>2 DEF Known, AbsenceIsKnown, OnItsNode, LossPending, LossSeen
  <1>5. StrayIsKnown(a)'
    BY <1>2 DEF Known, StrayIsKnown, Stray, ReturnPending
  <1> QED
    BY <1>1, <1>3, <1>4, <1>5 DEF Known

(* The end of a pass: the write of a new state, a conflict, or an error that *)
(* gives the allocation up.                                                  *)
LEMMA SetAllocationStatusStep ==
    ASSUME TypeOK, TypeOK', ListenersKnow, NEW views \in AllViews, AllKnown(views),
           NEW a \in Allocations, SetAllocationStatus(a)
    PROVE  ListenersKnow' /\ \E v \in AllViews' : AllKnown(v)'
  <1> USE DEF operators, informers
  <1> DEFINE state == IF w[a].pc = "ensure" THEN "success" ELSE "unreachable"
             obj == [w[a].obj EXCEPT !.state = state]
  <1>1. /\ UNCHANGED <<pod, held, podWatch, seen>> /\ Ensured(a)
        /\ w'[a] = Idle /\ \A b \in Allocations \ {a} : w'[b] = w[b]
    BY DEF SetAllocationStatus, Return, TypeOK
  <1>2. Known(a, views) /\ w[a] \in Handler /\ w[a].obj \in IPAllocation
    BY HandlerFields DEF AllKnown, TypeOK
  <1>3. obj \in IPAllocation /\ obj.node = w[a].obj.node /\ obj.state = state
    <2>1. state \in States
      BY DEF States, NodeError
    <2> HIDE DEF state
    <2> QED
      BY <1>2, <2>1, ObjectTypes
  <1>4. /\ w[a].pc \in {"ensure", "unreachable"} /\ w[a].obj.node = alloc[a].node
        /\ (w[a].pc = "ensure" => w[a].todo = {})
        /\ (w[a].fresh => w[a].obj = alloc[a]) /\ w[a].obj.state \in {"success", "pending"}
    BY <1>1, <1>2 DEF Ensured, Known, HandlerKnows
  <1> HIDE DEF obj
  <1>5. ASSUME UNCHANGED <<alloc, watch, cache, tasks, lostNodes, newNodes, cleaning>>,
               \A b \in Allocations : b \in losing.fresh => b \in losing'.fresh,
               givenUp' = givenUp \/ givenUp' = givenUp \cup {a}
        PROVE  /\ \A b \in Allocations \ {a} :
                     Untouched(b) /\ (b \in givenUp => b \in givenUp') /\ (b \in losing.fresh => b \in losing'.fresh)
               /\ UNCHANGED <<pod, held, podWatch, seen, lostNodes, newNodes, cleaning>>
    BY <1>1, <1>5 DEF Untouched
  <1>6. CASE HandlerWrites(a, obj) /\ givenUp' = IF Skipped(a) THEN givenUp \cup {a} ELSE givenUp
    <2>1. /\ ListenersKnow' /\ alloc'[a] = obj
          /\ (obj = alloc[a] => watch' = watch /\ alloc' = alloc /\ losing'.fresh = losing.fresh)
          /\ (obj # alloc[a] => watch'[a] # <<>> /\ watch'[a][Len(watch'[a])] = obj)
          /\ UNCHANGED <<cache, tasks, lostNodes, newNodes, cleaning>>
          /\ \A b \in Allocations \ {a} :
                /\ alloc'[b] = alloc[b] /\ watch'[b] = watch[b]
                /\ b \in losing.fresh => b \in losing'.fresh
      BY <1>3, <1>6, HandlerWriteFrame
    <2>2. w[a].fresh /\ w[a].obj = alloc[a]
      BY <1>4, <1>6 DEF HandlerWrites
    <2>3. Known(a, views)'
      <3>1. CASE obj # alloc[a]
        <4>1. CacheFollows(a)' /\ Unhandled(a)' /\ HandlerKnows(a)'
          BY <1>1, <2>1, <3>1, HandlerTypes DEF CacheFollows, Unhandled, HandlerKnows
        <4>2. PlacedSomewhere(a)'
          BY <1>2, <1>3, <1>4, <2>1, <2>2 DEF Known, PlacedSomewhere
        <4> QED
          BY <4>1, <4>2, Waiting
      <3>2. CASE obj = alloc[a]
        <4>1. w[a].pc = "ensure" /\ alloc[a].state = "success" /\ w[a].todo = {}
          BY <1>3, <1>4, <2>2, <3>2
        <4>2. alloc[a].node \in Nodes
          BY <1>2, <4>1 DEF Known, PlacedSomewhere
        <4>3. a \notin givenUp' => w[a].ops[alloc[a].node] # "gone"
          BY <1>4, <1>6, <4>1, <4>2 DEF Skipped
        <4>4. /\ ~Deciding(a) /\ (\A n \in Nodes : ~Removing(a, n))
              /\ a \notin givenUp' => ~Placing(a, alloc[a].node)
          BY <4>1, <4>3 DEF Deciding, Removing, Placing
        <4> QED
          BY <1>1, <1>2, <1>6, <2>1, <3>2, <4>1, <4>4, Returns
      <3> QED
        BY <3>1, <3>2
    <2>4. \A b \in Allocations \ {a} : Untouched(b) /\ (b \in givenUp => b \in givenUp')
      BY <1>1, <1>6, <2>1 DEF Untouched
    <2> QED
      BY <1>1, <2>1, <2>3, <2>4, Others
  <1>7. CASE /\ ~w[a].fresh /\ UNCHANGED <<listeners, objects>>
             /\ givenUp' = IF Skipped(a) THEN givenUp \cup {a} ELSE givenUp
    <2>1. UNCHANGED <<alloc, watch, cache, tasks, lostNodes, newNodes, cleaning, losing>>
      BY <1>7 DEF listeners, objects
    <2>2. ListenersKnow'
      BY <2>1 DEF ListenersKnow
    <2>3. ~Deciding(a) /\ ~Placing(a, alloc[a].node) /\ \A n \in Nodes : ~Removing(a, n)
      BY <1>7 DEF Deciding, Removing, Placing
    <2>4. Known(a, views)'
      BY <1>1, <1>2, <1>7, <2>1, <2>3, Returns
    <2> QED
      BY <1>5, <1>7, <2>1, <2>2, <2>4, Others
  <1>8. CASE givenUp' = givenUp \cup {a} /\ UNCHANGED <<listeners, objects>>
    <2>1. UNCHANGED <<alloc, watch, cache, tasks, lostNodes, newNodes, cleaning, losing>>
      BY <1>8 DEF listeners, objects
    <2>2. ListenersKnow'
      BY <2>1 DEF ListenersKnow
    <2>3. Known(a, views)'
      BY <1>1, <1>2, <1>8, <2>1, Returns
    <2> QED
      BY <1>5, <1>8, <2>1, <2>2, <2>3, Others
  <1> QED
    BY <1>6, <1>7, <1>8 DEF SetAllocationStatus, obj

(* The choice of another node: the handler still has the status to write. *)
LEMMA ChangeNodeStep ==
    ASSUME TypeOK, TypeOK', ListenersKnow, NEW views \in AllViews, AllKnown(views),
           NEW a \in Allocations, NEW n \in Nodes \cup {NoNode}, w[a].pc = "changeNode",
           HandlerWrites(a, [w[a].obj EXCEPT !.node = n]),
           w' = [w EXCEPT ![a].pc = "status", ![a].obj.node = n],
           UNCHANGED <<operators, informers, givenUp, bounds>>
    PROVE  ListenersKnow' /\ \E v \in AllViews' : AllKnown(v)'
  <1> USE DEF operators, informers
  <1> DEFINE obj == [w[a].obj EXCEPT !.node = n]
             h == [w[a] EXCEPT !.pc = "status", !.obj = obj]
  <1>1. w[a] \in Handler /\ w[a].obj \in IPAllocation /\ Known(a, views)
    BY HandlerFields DEF TypeOK, AllKnown
  <1>2. obj \in IPAllocation /\ obj.node = n /\ obj.state = w[a].obj.state
    BY <1>1, ObjectTypes
  <1>3. w' = [w EXCEPT ![a] = h] /\ HandlerWrites(a, obj)
    OBVIOUS
  <1> HIDE DEF obj
  <1>4. h.pc = "status" /\ h.obj = obj /\ h.fresh = w[a].fresh
    BY <1>1 DEF Handler
  <1> HIDE DEF h
  <1>5. w'[a] = h /\ w[a].fresh /\ \A b \in Allocations \ {a} : w'[b] = w[b]
    BY <1>3 DEF TypeOK, HandlerWrites
  <1>6. /\ ListenersKnow' /\ alloc'[a] = obj
        /\ (obj = alloc[a] => watch' = watch /\ alloc' = alloc /\ losing'.fresh = losing.fresh)
        /\ (obj # alloc[a] => watch'[a] # <<>> /\ watch'[a][Len(watch'[a])] = obj)
        /\ UNCHANGED <<cache, tasks, lostNodes, newNodes, cleaning>>
        /\ \A b \in Allocations \ {a} :
              /\ alloc'[b] = alloc[b] /\ watch'[b] = watch[b]
              /\ b \in losing.fresh => b \in losing'.fresh
    BY <1>2, <1>3, HandlerWriteFrame
  <1>7. /\ w[a].obj.state \in {"lost", "unreachable", "error"}
        /\ w[a].obj.state = "error" => "error" \in tasks[a]
    BY <1>1 DEF Known, HandlerKnows
  <1>8. Deciding(a)'
    BY <1>4, <1>5 DEF Deciding
  <1>9. HandlerKnows(a)'
    BY <1>2, <1>4, <1>5, <1>6, <1>7 DEF HandlerKnows
  <1>10. PlacedSomewhere(a)'
    BY <1>2, <1>6, <1>7 DEF PlacedSomewhere
  <1>11. CacheFollows(a)'
    <2>1. CASE obj = alloc[a]
      BY <1>1, <1>6, <2>1 DEF Known, CacheFollows
    <2>2. CASE obj # alloc[a]
      BY <1>6, <2>2 DEF CacheFollows
    <2> QED
      BY <2>1, <2>2
  <1>12. Known(a, views)'
    BY <1>8, <1>9, <1>10, <1>11, Decides
  <1>13. \A b \in Allocations \ {a} : Untouched(b) /\ (b \in givenUp => b \in givenUp')
    BY <1>5, <1>6 DEF Untouched
  <1> QED
    BY <1>6, <1>12, <1>13, Others

(* The status after the choice of a node *)
LEMMA PendingStep ==
    ASSUME TypeOK, TypeOK', ListenersKnow, NEW views \in AllViews, AllKnown(views),
           NEW a \in Allocations, SetAllocationStatusPending(a)
    PROVE  ListenersKnow' /\ \E v \in AllViews' : AllKnown(v)'
  <1> USE DEF operators, informers
  <1> DEFINE state == IF w[a].obj.node = NoNode THEN "error" ELSE "pending"
             obj == [w[a].obj EXCEPT !.state = state]
  <1>1. /\ UNCHANGED <<pod, held, podWatch, seen>> /\ w[a].pc = "status"
        /\ w'[a] = Idle /\ \A b \in Allocations \ {a} : w'[b] = w[b]
    BY DEF SetAllocationStatusPending, Return, TypeOK
  <1>2. Known(a, views) /\ w[a] \in Handler /\ w[a].obj \in IPAllocation
    BY HandlerFields DEF AllKnown, TypeOK
  <1>3. obj \in IPAllocation /\ obj.node = w[a].obj.node /\ obj.state = state
    <2>1. state \in States
      BY DEF States
    <2> HIDE DEF state
    <2> QED
      BY <1>2, <2>1, ObjectTypes
  <1>4. /\ w[a].obj.node = alloc[a].node /\ (w[a].fresh => w[a].obj = alloc[a])
        /\ w[a].obj.state \in {"lost", "unreachable", "error"}
        /\ w[a].obj.state = "error" => "error" \in tasks[a]
    BY <1>1, <1>2 DEF Known, HandlerKnows
  <1> HIDE DEF obj
  <1>5. CASE HandlerWrites(a, obj) /\ UNCHANGED <<givenUp, bounds>>
    <2>1. /\ ListenersKnow' /\ alloc'[a] = obj
          /\ (obj = alloc[a] => watch' = watch /\ alloc' = alloc /\ losing'.fresh = losing.fresh)
          /\ (obj # alloc[a] => watch'[a] # <<>> /\ watch'[a][Len(watch'[a])] = obj)
          /\ UNCHANGED <<cache, tasks, lostNodes, newNodes, cleaning>>
          /\ \A b \in Allocations \ {a} :
                /\ alloc'[b] = alloc[b] /\ watch'[b] = watch[b]
                /\ b \in losing.fresh => b \in losing'.fresh
      BY <1>3, <1>5, HandlerWriteFrame
    <2>2. w[a].obj = alloc[a]
      BY <1>4, <1>5 DEF HandlerWrites
    <2>3. CacheFollows(a)' /\ Unhandled(a)'
      <3>1. CASE obj # alloc[a]
        BY <2>1, <3>1 DEF CacheFollows, Unhandled
      <3>2. CASE obj = alloc[a]
        <4>1. alloc[a].state = "error" /\ "error" \in tasks[a]
          BY <1>3, <1>4, <2>2, <3>2
        <4>2. Kind(alloc[a].state) \in tasks[a]
          BY <4>1, KindFacts DEF States
        <4> QED
          BY <1>2, <2>1, <3>2, <4>2 DEF Known, CacheFollows, Unhandled
      <3> QED
        BY <3>1, <3>2
    <2>4. HandlerKnows(a)'
      BY <1>1, HandlerTypes DEF HandlerKnows
    <2>5. PlacedSomewhere(a)'
      BY <1>2, <1>3, <2>1, ObjectTypes DEF PlacedSomewhere
    <2>6. Known(a, views)'
      BY <2>3, <2>4, <2>5, Waiting
    <2>7. \A b \in Allocations \ {a} : Untouched(b) /\ (b \in givenUp => b \in givenUp')
      BY <1>1, <1>5, <2>1 DEF Untouched
    <2> QED
      BY <1>1, <2>1, <2>6, <2>7, Others
  <1>6. CASE /\ UNCHANGED <<listeners, objects>>
             /\ (~w[a].fresh /\ givenUp' = givenUp) \/ givenUp' = givenUp \cup {a}
    <2>1. UNCHANGED <<alloc, watch, cache, tasks, lostNodes, newNodes, cleaning, losing>>
      BY <1>6 DEF listeners, objects
    <2>2. ListenersKnow'
      BY <2>1 DEF ListenersKnow
    <2>3. ~w[a].fresh => ~Deciding(a) /\ ~Placing(a, alloc[a].node) /\ \A n \in Nodes : ~Removing(a, n)
      BY DEF Deciding, Removing, Placing
    <2>4. Known(a, views)'
      BY <1>1, <1>2, <1>6, <2>1, <2>3, Returns
    <2>5. \A b \in Allocations \ {a} : Untouched(b) /\ (b \in givenUp => b \in givenUp')
      BY <1>1, <1>6, <2>1 DEF Untouched
    <2> QED
      BY <1>1, <2>1, <2>2, <2>4, <2>5, Others
  <1> QED
    BY <1>5, <1>6 DEF SetAllocationStatusPending, obj

-----------------------------------------------------------------------------
(* The theorems *)

(* At the beginning every address is on its node and nothing is on its way. *)
LEMMA InitIInv == Init => IInv
  <1> SUFFICES ASSUME Init
               PROVE  IInv
    OBVIOUS
  <1>1. [node |-> FirstNode, state |-> "success"] \in IPAllocation
    BY NodesAssumption DEF IPAllocation, States
  <1>2. TypeOK
    <2>1. /\ pod \in [Nodes -> PodStates] /\ seen \in [Nodes -> PodStates]
          /\ alloc \in [Allocations -> IPAllocation] /\ cache \in [Allocations -> IPAllocation]
      BY <1>1 DEF Init, PodStates
    <2>2. /\ held \in [Nodes -> SUBSET Allocations] /\ late \subseteq GrpcCall
          /\ cold \subseteq Nodes \cup Allocations /\ givenUp \subseteq Allocations
      BY DEF Init
    <2>3. /\ podWatch \in Seq([node : Nodes, pod : PodStates]) /\ lostNodes \in Seq(Nodes) /\ newNodes \in Seq(Nodes)
          /\ watch \in [Allocations -> Seq(IPAllocation)]
      BY DEF Init
    <2>4. /\ losing \in [node : Nodes \cup {NoNode}, todo : SUBSET Allocations, fresh : SUBSET Allocations]
          /\ cleaning \in [node : Nodes \cup {NoNode}, keep : SUBSET Allocations]
      BY DEF Init, NotLosing, NotCleaning
    <2>5. /\ tasks \in [Allocations -> SUBSET {"success", "pending", "node_error", "error"}]
          /\ w \in [Allocations -> Handler]
      BY HandlerTypes DEF Init
    <2>6. podChanges \in 0 .. MaxPodChanges /\ faults \in 0 .. MaxFaults
      BY BoundsAssumption DEF Init
    <2> QED
      BY <2>1, <2>2, <2>3, <2>4, <2>5, <2>6 DEF TypeOK
  <1>3. ListenersKnow
    BY DEF Init, ListenersKnow, NotLosing, NotCleaning
  <1>4. podWatch = <<>> /\ Len(podWatch) = 0
    BY EmptySeq DEF Init
  <1> DEFINE views == [i \in 0 .. 0 |-> pod]
  <1>5. views \in AllViews
    BY <1>2, <1>4 DEF AllViews, TypeOK
  <1>6. views[0] = pod /\ (\A i : i \in 0 .. 0 <=> i = 0) /\ 1 .. 0 = {}
    OBVIOUS
  <1> HIDE DEF views
  <1>7. Views(views)
    BY <1>4, <1>6 DEF Views, Init
  <1>8. ASSUME NEW a \in Allocations
        PROVE  Known(a, views)
    <2>1. /\ alloc[a] = [node |-> FirstNode, state |-> "success"] /\ cache[a] = alloc[a] /\ watch[a] = <<>>
          /\ w[a].pc = "idle"
      BY HandlerTypes DEF Init
    <2>2. CacheFollows(a) /\ HandlerKnows(a) /\ PlacedSomewhere(a) /\ TroubleIsKnown(a)
      BY <2>1, NodesAssumption DEF CacheFollows, HandlerKnows, PlacedSomewhere, TroubleIsKnown
    <2>3. \A n \in Nodes : held[n] = {b \in Allocations : alloc[b].node = n} /\ pod[n] = "ready"
      BY DEF Init
    <2>4. OnItsNode(a) /\ \A n \in Nodes : ~Stray(a, n)
      BY <2>1, <2>3, NodesAssumption DEF OnItsNode, Stray
    <2> QED
      BY <2>2, <2>4 DEF Known, AbsenceIsKnown, StrayIsKnown
  <1> QED
    BY <1>2, <1>3, <1>5, <1>7, <1>8 DEF IInv, AllKnown

(* A step that changes nothing *)
LEMMA Stutter ==
    ASSUME IInv, UNCHANGED vars
    PROVE  IInv'
  <1> USE DEF vars, operators, informers, listeners, objects, bounds
  <1>1. TypeOK' /\ ListenersKnow'
    BY DEF IInv, TypeOK, ListenersKnow
  <1>2. PICK views \in AllViews : AllKnown(views)
    BY DEF IInv
  <1>3. ASSUME NEW b \in Allocations
        PROVE  Known(b, views)'
    <2>1. Untouched(b)
      BY DEF Untouched
    <2> QED
      BY <1>2, <2>1, LeftAlone DEF IInv, AllKnown
  <1>4. \E v \in AllViews' : AllKnown(v)'
    BY <1>2, <1>3, SameViews DEF AllKnown
  <1> QED
    BY <1>1, <1>4 DEF IInv

(* Every step preserves the inductive invariant. *)
LEMMA StepIInv == IInv /\ [Next]_vars => IInv'
  <1> SUFFICES ASSUME IInv, [Next]_vars
               PROVE  IInv'
    OBVIOUS
  <1>1. TypeOK /\ ListenersKnow
    BY DEF IInv
  <1>2. PICK views \in AllViews : AllKnown(views)
    BY DEF IInv
  <1> SUFFICES ASSUME Next
               PROVE  TypeOK' /\ ListenersKnow' /\ \E v \in AllViews' : AllKnown(v)'
    <2>1. CASE UNCHANGED vars
      BY <2>1, Stutter
    <2> QED
      BY <2>1 DEF IInv
  <1>3. ASSUME NEW n \in Nodes, NEW to \in PodStates, NEW reboot \in BOOLEAN, PodChange(n, to, reboot)
        PROVE  TypeOK' /\ ListenersKnow' /\ \E v \in AllViews' : AllKnown(v)'
    <2>1. TypeOK'
      BY <1>1, <1>3, EnvironmentTypes
    <2> QED
      BY <1>1, <1>2, <1>3, <2>1, PodChangeStep
  <1>4. ASSUME NEW a \in Allocations, NEW kind \in {"success", "pending", "node_error"}, StartFails(a, kind)
        PROVE  TypeOK' /\ ListenersKnow' /\ \E v \in AllViews' : AllKnown(v)'
    <2>1. TypeOK'
      BY <1>1, <1>4, HandlerStepTypes
    <2> QED
      BY <1>1, <1>2, <1>4, <2>1, StartFailsStep
  <1>5. ASSUME Restart, Fault \/ NoFault
        PROVE  TypeOK' /\ ListenersKnow' /\ \E v \in AllViews' : AllKnown(v)'
    <2>1. TypeOK'
      BY <1>1, <1>5, EnvironmentTypes
    <2> QED
      BY <1>1, <1>2, <1>5, <2>1, RestartStep
  <1>6. ASSUME PodEvent
        PROVE  TypeOK' /\ ListenersKnow' /\ \E v \in AllViews' : AllKnown(v)'
    <2>1. TypeOK'
      BY <1>1, <1>6, EnvironmentTypes
    <2> QED
      BY <1>1, <1>2, <1>6, <2>1, PodEventStep
  <1>7. ASSUME OperatorNodeLost
        PROVE  TypeOK' /\ ListenersKnow' /\ \E v \in AllViews' : AllKnown(v)'
    <2>1. TypeOK'
      BY <1>1, <1>7, EnvironmentTypes
    <2> QED
      BY <1>1, <1>2, <1>7, <2>1, OperatorNodeLostStep
  <1>8. ASSUME NEW a \in Allocations, SetAllocationStatusNodeError(a)
        PROVE  TypeOK' /\ ListenersKnow' /\ \E v \in AllViews' : AllKnown(v)'
    <2>1. TypeOK'
      BY <1>1, <1>8, EnvironmentTypes
    <2> QED
      BY <1>1, <1>2, <1>8, <2>1, NodeErrorStep
  <1>9. ASSUME NewOperatorNode
        PROVE  TypeOK' /\ ListenersKnow' /\ \E v \in AllViews' : AllKnown(v)'
    <2>1. TypeOK'
      BY <1>1, <1>9, EnvironmentTypes
    <2> QED
      BY <1>1, <1>2, <1>9, <2>1, NewOperatorNodeStep
  <1>10. ASSUME DoCleanup
         PROVE  TypeOK' /\ ListenersKnow' /\ \E v \in AllViews' : AllKnown(v)'
    <2>1. TypeOK'
      BY <1>1, <1>10, EnvironmentTypes
    <2> QED
      BY <1>1, <1>2, <1>10, <2>1, DoCleanupStep
  <1>11. ASSUME NEW c \in late, RunLate(c)
         PROVE  TypeOK' /\ ListenersKnow' /\ \E v \in AllViews' : AllKnown(v)'
    <2>1. TypeOK'
      BY <1>1, <1>11, EnvironmentTypes
    <2> QED
      BY <1>1, <1>2, <1>11, <2>1, RunLateStep
  <1>12. ASSUME NEW a \in Allocations, AllocationEvent(a) \/ Handles(a)
         PROVE  TypeOK' /\ ListenersKnow' /\ \E v \in AllViews' : AllKnown(v)'
    <2>1. CASE AllocationEvent(a)
      <3>1. TypeOK'
        BY <1>1, <2>1, HandlerStepTypes
      <3> QED
        BY <1>1, <1>2, <2>1, <3>1, AllocationEventStep
    <2>2. ASSUME NEW kind \in {"success", "pending", "node_error", "error"}, Start(a, kind)
          PROVE  TypeOK' /\ ListenersKnow' /\ \E v \in AllViews' : AllKnown(v)'
      <3>1. TypeOK'
        BY <1>1, <2>2, HandlerStepTypes
      <3> QED
        BY <1>1, <1>2, <2>2, <3>1, StartStep
    <2>3. CASE GetOperatorsList(a)
      <3>1. TypeOK'
        BY <1>1, <2>3, HandlerStepTypes
      <3> QED
        BY <1>1, <1>2, <2>3, <3>1, GetOperatorsListStep
    <2>4. ASSUME NEW n \in Nodes, AddAddress(a, n)
          PROVE  TypeOK' /\ ListenersKnow' /\ \E v \in AllViews' : AllKnown(v)'
      <3>1. TypeOK'
        BY <1>1, <2>4, HandlerStepTypes
      <3> QED
        BY <1>1, <1>2, <2>4, <3>1, AddAddressStep
    <2>5. ASSUME NEW n \in Nodes, RemoveAddress(a, n)
          PROVE  TypeOK' /\ ListenersKnow' /\ \E v \in AllViews' : AllKnown(v)'
      <3>1. TypeOK'
        BY <1>1, <2>5, HandlerStepTypes
      <3> QED
        BY <1>1, <1>2, <2>5, <3>1, RemoveAddressStep
    <2>6. CASE SetAllocationStatus(a)
      <3>1. TypeOK'
        BY <1>1, <2>6, HandlerStepTypes
      <3> QED
        BY <1>1, <1>2, <2>6, <3>1, SetAllocationStatusStep
    <2>7. ASSUME NEW n \in Nodes, ChangeAllocationNode(a, n)
          PROVE  TypeOK' /\ ListenersKnow' /\ \E v \in AllViews' : AllKnown(v)'
      <3>1. TypeOK'
        BY <1>1, <2>7, HandlerStepTypes
      <3> QED
        BY <1>1, <1>2, <2>7, <3>1, ChangeNodeStep DEF ChangeAllocationNode
    <2>8. CASE NoOperatorReady(a)
      <3>1. TypeOK'
        BY <1>1, <2>8, HandlerStepTypes
      <3> QED
        BY <1>1, <1>2, <2>8, <3>1, ChangeNodeStep DEF NoOperatorReady
    <2>9. CASE SetAllocationStatusPending(a)
      <3>1. TypeOK'
        BY <1>1, <2>9, HandlerStepTypes
      <3> QED
        BY <1>1, <1>2, <2>9, <3>1, PendingStep
    <2>10. CASE Panic(a)
      BY <1>5, <2>10 DEF Panic
    <2> QED
      BY <1>12, <2>1, <2>2, <2>3, <2>4, <2>5, <2>6, <2>7, <2>8, <2>9, <2>10 DEF Handles
  <1> QED
    BY <1>3, <1>4, <1>5, <1>6, <1>7, <1>8, <1>9, <1>10, <1>11, <1>12 DEF Next, Environment, Crash, Listeners

(* The inductive invariant holds in every state. *)
THEOREM Inductive == Spec => []IInv
BY InitIInv, StepIInv, PTL DEF Spec

(* What is on its way keeps its type: pods, calls, objects and handlers. *)
THEOREM TypeCorrect == Spec => []TypeOK
  <1>1. IInv => TypeOK
    BY DEF IInv
  <1> QED
    BY <1>1, Inductive, PTL

(* Nothing about the node of an allocation, or of the allocation, is on its  *)
(* way: then nobody has yet to hear of a loss or of a return.                *)
LEMMA CalmFacts ==
    ASSUME TypeOK, ListenersKnow, NEW a \in Allocations, NEW n, Calm(n), NEW views
    PROVE  ~ReturnPending(n) /\ (n = alloc[a].node => ~LossPending(a, n, views))
  <1>1. /\ DOMAIN podWatch = 1 .. Len(podWatch) /\ DOMAIN lostNodes = 1 .. Len(lostNodes)
        /\ DOMAIN newNodes = 1 .. Len(newNodes)
    BY DEF TypeOK
  <1>2. ~ReturnPending(n)
    BY <1>1 DEF Calm, ReturnPending
  <1>3. ~LossSeen(n, views)
    BY <1>1 DEF Calm, LossSeen
  <1>4. n = alloc[a].node => a \notin losing.fresh
    BY DEF Calm, ListenersKnow
  <1> QED
    BY <1>1, <1>2, <1>3, <1>4 DEF Calm, LossPending

(* allocationswatcher.go:291, for any number of nodes, allocations, changes  *)
(* of pods and failures: an allocation that nobody has anything left to do   *)
(* about is successful and, once its node is calm too, served by it.         *)
THEOREM SuccessServed == Spec => []SuccessIsServed
  <1>1. IInv => SuccessIsServed
    <2> SUFFICES ASSUME IInv, NEW a \in Allocations \ givenUp, Settled(a)
                 PROVE  /\ alloc[a].state = "success"
                        /\ Calm(alloc[a].node) => pod[alloc[a].node] = "ready" /\ a \in held[alloc[a].node]
      BY DEF SuccessIsServed
    <2>1. TypeOK /\ ListenersKnow
      BY DEF IInv
    <2>2. PICK views \in AllViews : AllKnown(views)
      BY DEF IInv
    <2>3. TroubleIsKnown(a) /\ AbsenceIsKnown(a, views)
      BY <2>2 DEF AllKnown, Known
    <2>4. ~Unhandled(a) /\ ~Deciding(a) /\ ~Placing(a, alloc[a].node) /\ w[a].pc = "idle"
      BY DEF Settled, Unhandled, Deciding, Placing
    <2>5. alloc[a].state = "success"
      BY <2>3, <2>4 DEF TroubleIsKnown
    <2>6. ASSUME Calm(alloc[a].node)
          PROVE  OnItsNode(a)
      BY <2>1, <2>3, <2>4, <2>5, <2>6, CalmFacts DEF AbsenceIsKnown
    <2> QED
      BY <2>5, <2>6 DEF OnItsNode
  <1> QED
    BY <1>1, Inductive, PTL

(* speaker.go:31, for any number of nodes, allocations, changes of pods and  *)
(* failures: the address is on no other ready node about which nothing is    *)
(* on its way.                                                               *)
THEOREM NoOtherNode == Spec => []OnNoOtherNode
  <1>1. IInv => OnNoOtherNode
    <2> SUFFICES ASSUME IInv, NEW a \in Allocations \ givenUp, NEW n \in Nodes,
                        n # alloc[a].node, Settled(a), Calm(n), pod[n] = "ready", a \in held[n]
                 PROVE  FALSE
      BY DEF OnNoOtherNode
    <2>1. TypeOK /\ ListenersKnow
      BY DEF IInv
    <2>2. PICK views \in AllViews : AllKnown(views)
      BY DEF IInv
    <2>3. StrayIsKnown(a)
      BY <2>2 DEF AllKnown, Known
    <2>4. ~Unhandled(a) /\ ~Deciding(a) /\ ~Removing(a, n)
      BY DEF Settled, Unhandled, Deciding, Removing
    <2>5. ~ReturnPending(n)
      BY <2>1, CalmFacts
    <2> QED
      BY <2>3, <2>4, <2>5 DEF StrayIsKnown, Stray
  <1> QED
    BY <1>1, Inductive, PTL
=============================================================================
