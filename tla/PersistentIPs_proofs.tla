------------------------ MODULE PersistentIPs_proofs ------------------------
(***************************************************************************)
(* Proofs about PersistentIPs, for any number of services, addresses,      *)
(* pools and goroutines, with faults, edits, restarts and pool events.     *)
(***************************************************************************)
EXTENDS PersistentIPs, TLAPS

-----------------------------------------------------------------------------
(* Steps of one thread *)

(* Where a thread does not hold the lock of its allocation. *)
Outside == {"idle", "isProcessing", "addProcessing", "isLocked", "addToLock", "lookup", "giveUp"}

(* Only thread g moves ... *)
Only(g) ==
    /\ w' \in [Threads -> Thread]
    /\ \A h \in Threads : h # g => w'[h] = w[h]

(* ... and goes on with its handler: r follows q in it ... *)
Follows(r, q) ==
    /\ r.s = q.s
    /\ r.kind = q.kind
    /\ r.pc \notin Outside
    /\ q.result # "" => r.result # ""
    /\ r.got \subseteq q.got

(* ... and what it takes in hand it had, or a pool offers it to its service. *)
Continues(g) ==
    /\ w'[g].s = w[g].s
    /\ w'[g].kind = w[g].kind
    /\ w'[g].pc \notin Outside
    /\ w[g].result # "" => w'[g].result # ""
    /\ \A a \in w'[g].got : a \in w[g].got \/ CanUseIP(w[g].s, a)

(* A thread record put in the place of g's. *)
LEMMA Replaced ==
  ASSUME NEW g \in Threads, NEW r \in Thread, w \in [Threads -> Thread],
         w' = [w EXCEPT ![g] = r]
  PROVE  Only(g) /\ w'[g] = r
  BY DEF Only

(* The same for a record that follows in the handler. *)
LEMMA ReplacedContinues ==
  ASSUME NEW g \in Threads, NEW r \in Thread, w \in [Threads -> Thread],
         w' = [w EXCEPT ![g] = r], Follows(r, w[g])
  PROVE  Only(g) /\ Continues(g)
<1>1. Only(g) /\ w'[g] = r
  BY Replaced
<1> QED
  BY <1>1 DEF Continues, Follows

(* A thread goes to another place of its handler. *)
LEMMA GotoContinues ==
  ASSUME NEW g \in Threads, NEW l \in Locations \ Outside, w \in [Threads -> Thread],
         Goto(g, l)
  PROVE  Only(g) /\ Continues(g)
<1>1. w[g] \in Thread
  OBVIOUS
<1> DEFINE r == [w[g] EXCEPT !.pc = l]
<1>2. r \in Thread /\ Follows(r, w[g])
  BY <1>1 DEF Thread, Follows
<1>3. w' = [w EXCEPT ![g] = r]
  BY DEF Goto
<1> HIDE DEF r
<1> QED
  BY <1>2, <1>3, ReplacedContinues

(* A thread goes to the end of its handler. *)
LEMMA EndContinues ==
  ASSUME NEW g \in Threads, w \in [Threads -> Thread], End(g)
  PROVE  Only(g) /\ Continues(g)
  BY GotoContinues DEF End, Locations, Outside

(* The handler that creates an allocation *)
LEMMA BookContinues ==
  ASSUME TypeOK, NEW g \in Threads, Book(g)
  PROVE  Only(g) /\ Continues(g)
<1>0. w \in [Threads -> Thread] /\ w[g] \in Thread
  BY DEF TypeOK
<1>1. CASE RolledBack(g)
  BY <1>0, <1>1, EndContinues DEF RolledBack
<1>2. CASE FindAllocation(g)
  <2> DEFINE r == [w[g] EXCEPT !.pc = "build", !.todo = w[g].want, !.result = "pending"]
  <2>1. r \in Thread /\ Follows(r, w[g])
    BY <1>0 DEF Thread, Locations, States, Follows, Outside
  <2>2. End(g) \/ w' = [w EXCEPT ![g] = r]
    BY <1>2 DEF FindAllocation
  <2> HIDE DEF r
  <2> QED
    BY <1>0, <2>1, <2>2, EndContinues, ReplacedContinues
<1>3. ASSUME NEW a \in w[g].todo, Build(g, a) PROVE Only(g) /\ Continues(g)
  <2>1. w[g].pc = "build" /\ a \in Addresses
    BY <1>0, <1>3 DEF Build, At, Thread
  <2>2. ASSUME NEW res \in AddOperatorNodeToAllocation(w[g].result), CanUseIP(w[g].s, a),
               w' = [w EXCEPT ![g] = [w[g] EXCEPT !.todo = w[g].todo \ {a}, !.got = w[g].got \cup {a},
                                                  !.result = res]]
        PROVE  Only(g) /\ Continues(g)
    <3> DEFINE r == [w[g] EXCEPT !.todo = w[g].todo \ {a}, !.got = w[g].got \cup {a}, !.result = res]
    <3>1. res \in States /\ (w[g].result # "" => res # "")
      BY <1>0 DEF AddOperatorNodeToAllocation, Thread, States
    <3>2. r \in Thread /\ r.s = w[g].s /\ r.kind = w[g].kind /\ r.pc = "build"
          /\ r.result = res /\ r.got = w[g].got \cup {a}
      BY <1>0, <2>1, <3>1 DEF Thread
    <3>3. w' = [w EXCEPT ![g] = r]
      BY <2>2
    <3> HIDE DEF r
    <3>4. Only(g) /\ w'[g] = r
      BY <1>0, <3>2, <3>3, Replaced
    <3> QED
      BY <2>2, <3>1, <3>2, <3>4 DEF Continues, Outside
  <2>3. CASE w' = [w EXCEPT ![g] = [w[g] EXCEPT !.todo = w[g].todo \ {a}, !.result = "error"]]
    <3> DEFINE r == [w[g] EXCEPT !.todo = w[g].todo \ {a}, !.result = "error"]
    <3>1. r \in Thread /\ Follows(r, w[g])
      BY <1>0, <2>1 DEF Thread, States, Follows, Outside
    <3> HIDE DEF r
    <3> QED
      BY <1>0, <2>3, <3>1, ReplacedContinues DEF r
  <2>4. CASE CanUseIP(w[g].s, a)
    <3>1. PICK res \in AddOperatorNodeToAllocation(w[g].result) :
             w' = [w EXCEPT ![g] = [w[g] EXCEPT !.todo = w[g].todo \ {a}, !.got = w[g].got \cup {a},
                                                !.result = res]]
      BY <1>3, <2>4, Zenon DEF Build
    <3> QED
      BY <2>2, <2>4, <3>1
  <2>5. CASE ~CanUseIP(w[g].s, a)
    BY <1>3, <2>3, <2>5, Zenon DEF Build
  <2> QED
    BY <2>4, <2>5
<1>4. CASE Built(g)
  <2> DEFINE r == [w[g] EXCEPT !.pc = "release", !.todo = Removed(w[g])]
  <2>1. r \in Thread /\ Follows(r, w[g])
    BY <1>0 DEF Thread, Locations, Follows, Outside, Removed
  <2>2. Goto(g, "create") \/ w' = [w EXCEPT ![g] = r]
    BY <1>4 DEF Built
  <2>3. "create" \in Locations \ Outside
    BY DEF Locations, Outside
  <2> HIDE DEF r
  <2> QED
    BY <1>0, <2>1, <2>2, <2>3, GotoContinues, ReplacedContinues
<1>5. CASE Create(g)
  <2> DEFINE r == [w[g] EXCEPT !.pc = "setStatus", !.ips = w[g].got, !.got = {}]
  <2>1. r \in Thread /\ Follows(r, w[g])
    BY <1>0 DEF Thread, Locations, Follows, Outside
  <2>2. Goto(g, "rollback") \/ w' = [w EXCEPT ![g] = r]
    BY <1>5 DEF Create
  <2>3. "rollback" \in Locations \ Outside
    BY DEF Locations, Outside
  <2> HIDE DEF r
  <2> QED
    BY <1>0, <2>1, <2>2, <2>3, GotoContinues, ReplacedContinues
<1>6. ASSUME NEW a \in w[g].got, Rollback(g, a) PROVE Only(g) /\ Continues(g)
  <2>0. w[g].pc = "rollback"
    BY <1>6 DEF Rollback, At
  <2> DEFINE r == [w[g] EXCEPT !.got = w[g].got \ {a}]
  <2>1. r \in Thread /\ Follows(r, w[g])
    BY <1>0, <2>0 DEF Thread, Follows, Outside
  <2>2. w' = [w EXCEPT ![g] = r]
    BY <1>6 DEF Rollback
  <2> HIDE DEF r
  <2> QED
    BY <1>0, <2>1, <2>2, ReplacedContinues
<1> QED
  BY <1>1, <1>2, <1>3, <1>4, <1>5, <1>6 DEF Book

(* A copy that is current is a copy of an object that exists.  A thread that *)
(* has no copy yet has no current one.                                       *)
FreshCopies ==
    \A g \in fresh : /\ alloc[w[g].s] # NoObject
                     /\ w[g].pc \notin {"idle", "isProcessing", "lookup"}

(* The object that UpdateAllocation writes *)
LEMMA UpdatedObject ==
  ASSUME TypeOK, FreshCopies, NEW g \in fresh
  PROVE  LET obj == [alloc[w[g].s] EXCEPT !.ips = Kept(w[g]) \cup w[g].got]
         IN  obj \in IPAllocation /\ obj.ips = Kept(w[g]) \cup w[g].got
             /\ obj.ips \in SUBSET Addresses
<1>1. w[g] \in Thread
  BY DEF TypeOK
<1>2. alloc[w[g].s] \in IPAllocation
  BY <1>1 DEF TypeOK, FreshCopies, Thread
<1>3. Kept(w[g]) \cup w[g].got \in SUBSET Addresses
  BY <1>1 DEF Kept, Thread
<1> QED
  BY <1>2, <1>3 DEF IPAllocation

(* The leader dies, with or without the allocation it was working on. *)
Dies(g) ==
    /\ Die
    /\ alloc' = alloc \/ alloc' = [alloc EXCEPT ![w[g].s] = NoObject]
    /\ UNCHANGED <<svc, cloud, changes, restarts>>

(* Reconciliation, unless the leader dies of a nil dereference *)
LEMMA ReconcilerContinues ==
  ASSUME TypeOK, FreshCopies, NEW g \in Threads, Reconciler(g)
  PROVE  (Only(g) /\ Continues(g)) \/ Dies(g)
<1>0. w \in [Threads -> Thread] /\ w[g] \in Thread
  BY DEF TypeOK
<1>1. CASE CleanedUp(g)
  BY <1>0, <1>1, EndContinues DEF CleanedUp
<1>2. CASE ReconcileDelete(g)
  <2>1. End(g) \/ Dies(g)
    BY <1>2 DEF ReconcileDelete, Dies
  <2> QED
    BY <1>0, <2>1, EndContinues
<1>3. CASE Unpatched(g)
  <2>1. End(g) \/ Goto(g, "ensureFind")
    BY <1>3 DEF Unpatched
  <2>2. "ensureFind" \in Locations \ Outside
    BY DEF Locations, Outside
  <2> QED
    BY <1>0, <2>1, <2>2, EndContinues, GotoContinues
<1>4. CASE Patch(g)
  <2>1. Goto(g, "update") /\ "update" \in Locations \ Outside
    BY <1>4 DEF Patch, Locations, Outside
  <2> QED
    BY <1>0, <2>1, GotoContinues
<1>5. CASE FindService(g)
  <2> DEFINE r == [w[g] EXCEPT !.pc = "reconcile", !.want = svc[w[g].s].ips,
                               !.lb = svc[w[g].s].lb]
  <2>1. CASE svc[w[g].s] = NoObject
    BY <1>0, <1>5, <2>1, EndContinues DEF FindService
  <2>2. CASE svc[w[g].s] # NoObject
    <3>1. svc[w[g].s] \in Service
      BY <1>0, <2>2 DEF TypeOK, Thread
    <3>2. svc[w[g].s].ips \in SUBSET Addresses /\ svc[w[g].s].lb \in BOOLEAN
      BY <3>1 DEF Service
    <3>3. r \in Thread /\ Follows(r, w[g])
      BY <1>0, <3>2 DEF Thread, Locations, Follows, Outside
    <3>4. w' = [w EXCEPT ![g] = r]
      BY <1>5, <2>2 DEF FindService
    <3> HIDE DEF r
    <3> QED
      BY <1>0, <3>3, <3>4, ReplacedContinues
  <2> QED
    BY <2>1, <2>2
<1>6. CASE Reconcile(g)
  <2>1. PICK res \in {"pending", "error"} :
           w' = [w EXCEPT ![g] = [w[g] EXCEPT !.pc = "build", !.todo = w[g].want \ w[g].ips,
                                              !.result = res]]
    BY <1>6 DEF Reconcile, AddOperatorNodeToAllocation
  <2> DEFINE r == [w[g] EXCEPT !.pc = "build", !.todo = w[g].want \ w[g].ips, !.result = res]
  <2>2. r \in Thread /\ Follows(r, w[g])
    BY <1>0 DEF Thread, Locations, States, Follows, Outside
  <2>3. w' = [w EXCEPT ![g] = r]
    BY <2>1
  <2> HIDE DEF r
  <2> QED
    BY <1>0, <2>2, <2>3, ReplacedContinues
<1>7. ASSUME NEW a \in w[g].todo, ReleaseRemoved(g, a) PROVE Only(g) /\ Continues(g)
  <2>0. w[g].pc = "release"
    BY <1>0, <1>7 DEF ReleaseRemoved, At
  <2> DEFINE r == [w[g] EXCEPT !.todo = w[g].todo \ {a}]
  <2>1. r \in Thread /\ Follows(r, w[g])
    BY <1>0, <2>0 DEF Thread, Follows, Outside
  <2>2. w' = [w EXCEPT ![g] = r]
    BY <1>7 DEF ReleaseRemoved
  <2> HIDE DEF r
  <2> QED
    BY <1>0, <2>1, <2>2, ReplacedContinues
<1>8. CASE Update(g)
  <2> DEFINE obj == [alloc[w[g].s] EXCEPT !.ips = Kept(w[g]) \cup w[g].got]
             r == [w[g] EXCEPT !.pc = "setPatchStatus", !.got = {}, !.ips = obj.ips,
                               !.todo = Removed(w[g])]
             q == [w[g] EXCEPT !.pc = "return", !.got = {}, !.result = "error"]
  <2>1. CASE g \in fresh /\ w' = [w EXCEPT ![g] = r]
    <3>1. obj.ips \in SUBSET Addresses /\ Removed(w[g]) \in SUBSET Addresses
      BY <1>0, <2>1, UpdatedObject DEF Removed, Thread
    <3> HIDE DEF obj
    <3>2. r \in Thread /\ Follows(r, w[g])
      BY <1>0, <3>1 DEF Thread, Locations, Follows, Outside
    <3> HIDE DEF r
    <3> QED
      BY <1>0, <2>1, <3>2, ReplacedContinues
  <2>2. CASE w' = [w EXCEPT ![g] = q]
    <3>1. q \in Thread /\ Follows(q, w[g])
      BY <1>0 DEF Thread, Locations, States, Follows, Outside
    <3> HIDE DEF q
    <3> QED
      BY <1>0, <2>2, <3>1, ReplacedContinues
  <2> QED
    BY <1>8, <2>1, <2>2, Zenon DEF Update
<1>9. CASE SetPatchStatus(g)
  <2> DEFINE r == [w[g] EXCEPT !.pc = "cleanup",
                               !.todo = IF w[g].state = "success" THEN w[g].todo ELSE {}]
  <2>1. r \in Thread /\ Follows(r, w[g])
    BY <1>0 DEF Thread, Locations, States, Follows, Outside
  <2>2. End(g) \/ w' = [w EXCEPT ![g] = r]
    BY <1>9 DEF SetPatchStatus
  <2> HIDE DEF r
  <2> QED
    BY <1>0, <2>1, <2>2, EndContinues, ReplacedContinues
<1>10. ASSUME NEW a \in w[g].todo, Cleanup(g, a) PROVE Only(g) /\ Continues(g)
  <2> DEFINE r == [w[g] EXCEPT !.pc = "cleanupCloud", !.todo = w[g].todo \ {a}, !.cur = {a}]
  <2>1. r \in Thread /\ Follows(r, w[g])
    BY ZenonT(60), <1>0 DEF Thread, Locations, States, Follows, Outside
  <2>2. w' = [w EXCEPT ![g] = r]
    BY <1>10 DEF Cleanup
  <2> HIDE DEF r
  <2> QED
    BY <1>0, <2>1, <2>2, ReplacedContinues
<1>11. CASE DeallocateAddress(g, "cleanupCloud", "cleanup")
  <2> DEFINE r == [w[g] EXCEPT !.pc = "cleanup", !.cur = {}]
  <2>1. r \in Thread /\ Follows(r, w[g])
    BY <1>0 DEF Thread, Locations, States, Follows, Outside
  <2>2. w' = [w EXCEPT ![g] = r]
    BY <1>11 DEF DeallocateAddress
  <2> HIDE DEF r
  <2> QED
    BY <1>0, <2>1, <2>2, ReplacedContinues
<1> QED
  BY <1>1, <1>2, <1>3, <1>4, <1>5, <1>6, <1>7, <1>8, <1>9, <1>10, <1>11 DEF Reconciler

(* Reading an object and ensuring an allocation *)
LEMMA AllocatorContinues ==
  ASSUME TypeOK, FreshCopies, NEW g \in Threads, Allocator(g)
  PROVE  (Only(g) /\ Continues(g)) \/ Dies(g)
<1>0. w \in [Threads -> Thread] /\ w[g] \in Thread
  BY DEF TypeOK
<1>c. ASSUME alloc[w[g].s] # NoObject
      PROVE  /\ alloc[w[g].s].ips \in SUBSET Addresses
             /\ alloc[w[g].s].state \in States
  <2>1. alloc[w[g].s] \in IPAllocation
    BY <1>0, <1>c DEF TypeOK, Thread
  <2> QED
    BY <2>1 DEF IPAllocation
<1>1. CASE Get(g)
  <2> DEFINE l == CASE w[g].kind = "pending" -> "ensureFind"
                    [] w[g].kind = "node_error" -> "changeNode"
                    [] OTHER -> "findService"
             r == [Copy(w[g]) EXCEPT !.pc = l, !.result = "error"]
             q == [w[g] EXCEPT !.pc = "return", !.result = "error"]
  <2>1. l \in Locations \ Outside
    BY DEF Locations, Outside
  <2> HIDE DEF l
  <2>2. CASE w' = [w EXCEPT ![g] = q]
    <3>1. q \in Thread /\ Follows(q, w[g])
      BY <1>0 DEF Thread, Locations, States, Follows, Outside
    <3> HIDE DEF q
    <3> QED
      BY <1>0, <2>2, <3>1, ReplacedContinues
  <2>3. CASE alloc[w[g].s] # NoObject /\ w' = [w EXCEPT ![g] = r]
    <3>1. r \in Thread /\ Follows(r, w[g])
      BY <1>0, <1>c, <2>1, <2>3 DEF Copy, Thread, States, Follows
    <3> HIDE DEF r
    <3> QED
      BY <1>0, <2>3, <3>1, ReplacedContinues
  <2>4. CASE End(g)
    BY <1>0, <2>4, EndContinues
  <2> QED
    BY <1>1, <2>2, <2>3, <2>4, Zenon DEF Get, l
<1>2. CASE GetFailed(g)
  <2> DEFINE r == [Copy(w[g]) EXCEPT !.pc = "setStatus", !.result = "failed"]
  <2>1. CASE alloc[w[g].s] # NoObject /\ w' = [w EXCEPT ![g] = r]
    <3>1. r \in Thread /\ Follows(r, w[g])
      BY ZenonT(60), <1>0, <1>c, <2>1 DEF Copy, Thread, Locations, States, Follows, Outside
    <3> HIDE DEF r
    <3> QED
      BY <1>0, <2>1, <3>1, ReplacedContinues
  <2>2. CASE End(g)
    BY <1>0, <2>2, EndContinues
  <2> QED
    BY <1>2, <2>1, <2>2, Zenon DEF GetFailed
<1>3. CASE EnsureFindService(g)
  <2> DEFINE r == [w[g] EXCEPT !.pc = "ensure", !.todo = w[g].ips]
  <2>1. r \in Thread /\ Follows(r, w[g])
    BY <1>0 DEF Thread, Locations, Follows, Outside
  <2>2. Goto(g, "deleteAlloc") \/ w' = [w EXCEPT ![g] = r]
    BY <1>3 DEF EnsureFindService
  <2>3. "deleteAlloc" \in Locations \ Outside
    BY DEF Locations, Outside
  <2> HIDE DEF r
  <2> QED
    BY <1>0, <2>1, <2>2, <2>3, GotoContinues, ReplacedContinues
<1>4. CASE DeleteAllocation(g) \/ SetStatus(g)
  <2>1. End(g)
    BY <1>4 DEF DeleteAllocation, SetStatus
  <2> QED
    BY <1>0, <2>1, EndContinues
<1>5. ASSUME NEW a \in w[g].todo, Ensure(g, a) PROVE Only(g) /\ Continues(g)
  <2> DEFINE r == [w[g] EXCEPT !.pc = "place", !.todo = w[g].todo \ {a}, !.cur = {a}]
  <2>1. r \in Thread /\ Follows(r, w[g])
    BY ZenonT(60), <1>0 DEF Thread, Locations, Follows, Outside
  <2>2. w' = [w EXCEPT ![g] = r]
    BY <1>5 DEF Ensure
  <2> HIDE DEF r
  <2> QED
    BY <1>0, <2>1, <2>2, ReplacedContinues
<1>6. CASE AllocateAddress(g)
  <2> DEFINE r == [w[g] EXCEPT !.pc = "ensure", !.cur = {}]
             q(res) == [w[g] EXCEPT !.pc = "setStatus", !.cur = {}, !.todo = {}, !.result = res]
  <2>1. CASE w' = [w EXCEPT ![g] = r]
    <3>1. r \in Thread /\ Follows(r, w[g])
      BY <1>0 DEF Thread, Locations, Follows, Outside
    <3> HIDE DEF r
    <3> QED
      BY <1>0, <2>1, <3>1, ReplacedContinues
  <2>2. ASSUME NEW res \in {"error", "node_error"}, w' = [w EXCEPT ![g] = q(res)]
        PROVE  Only(g) /\ Continues(g)
    <3>1. q(res) \in Thread /\ Follows(q(res), w[g])
      BY <1>0 DEF Thread, Locations, States, Follows, Outside
    <3> HIDE DEF q
    <3> QED
      BY <1>0, <2>2, <3>1, ReplacedContinues
  <2> QED
    BY <1>6, <2>1, <2>2, Zenon DEF AllocateAddress
<1>7. CASE Ensured(g)
  <2> DEFINE r == [w[g] EXCEPT !.pc = "setStatus", !.result = "success"]
  <2>1. r \in Thread /\ Follows(r, w[g])
    BY <1>0 DEF Thread, Locations, States, Follows, Outside
  <2>2. w' = [w EXCEPT ![g] = r]
    BY <1>7 DEF Ensured
  <2> HIDE DEF r
  <2> QED
    BY <1>0, <2>1, <2>2, ReplacedContinues
<1>8. CASE ChangeAllocationNode(g)
  <2> DEFINE q(res) == [w[g] EXCEPT !.pc = "setStatus", !.result = res]
  <2> DEFINE S == IF w[g].ips \subseteq Known THEN AddOperatorNodeToAllocation("pending")
                                             ELSE {"error"}
  <2>0. S \subseteq {"pending", "error"}
    BY DEF AddOperatorNodeToAllocation
  <2>1. ASSUME NEW res \in S, w' = [w EXCEPT ![g] = q(res)]
        PROVE  Only(g) /\ Continues(g)
    <3>1. res \in {"pending", "error"}
      BY <2>0
    <3>2. q(res) \in Thread /\ Follows(q(res), w[g])
      BY <1>0, <3>1 DEF Thread, Locations, States, Follows, Outside
    <3> HIDE DEF q
    <3> QED
      BY <1>0, <2>1, <3>2, ReplacedContinues
  <2> QED
    BY <1>8, <2>1, Zenon DEF ChangeAllocationNode, Dies
<1> QED
  BY <1>1, <1>2, <1>3, <1>4, <1>5, <1>6, <1>7, <1>8 DEF Allocator

(* Giving the addresses of a deleted object back *)
LEMMA DeallocatorContinues ==
  ASSUME TypeOK, NEW g \in Threads, Deallocator(g)
  PROVE  Only(g) /\ Continues(g)
<1>0. w \in [Threads -> Thread] /\ w[g] \in Thread
  BY DEF TypeOK
<1>1. ASSUME NEW a \in w[g].got, Dealloc(g, a) PROVE Only(g) /\ Continues(g)
  <2> DEFINE r == [w[g] EXCEPT !.pc = "deallocCloud", !.got = w[g].got \ {a}, !.cur = {a}]
  <2>1. r \in Thread /\ Follows(r, w[g])
    BY ZenonT(60), <1>0 DEF Thread, Locations, Follows, Outside
  <2>2. w' = [w EXCEPT ![g] = r]
    BY <1>1 DEF Dealloc
  <2> HIDE DEF r
  <2> QED
    BY <1>0, <2>1, <2>2, ReplacedContinues
<1>2. CASE DeallocateAddress(g, "deallocCloud", "dealloc")
  <2> DEFINE r == [w[g] EXCEPT !.pc = "dealloc", !.cur = {}]
  <2>1. r \in Thread /\ Follows(r, w[g])
    BY <1>0 DEF Thread, Locations, Follows, Outside
  <2>2. w' = [w EXCEPT ![g] = r]
    BY <1>2 DEF DeallocateAddress
  <2> HIDE DEF r
  <2> QED
    BY <1>0, <2>1, <2>2, ReplacedContinues
<1>3. CASE Deallocated(g)
  <2> DEFINE r == [w[g] EXCEPT !.pc = "find", !.want = svc[w[g].s].ips]
  <2>1. CASE End(g)
    BY <1>0, <2>1, EndContinues
  <2>2. CASE svc[w[g].s] # NoObject /\ w' = [w EXCEPT ![g] = r]
    <3>1. svc[w[g].s] \in Service
      BY <1>0, <2>2 DEF TypeOK, Thread
    <3>2. svc[w[g].s].ips \in SUBSET Addresses
      BY <3>1 DEF Service
    <3>3. r \in Thread /\ Follows(r, w[g])
      BY <1>0, <3>2 DEF Thread, Locations, Follows, Outside
    <3> HIDE DEF r
    <3> QED
      BY <1>0, <2>2, <3>3, ReplacedContinues
  <2> QED
    BY <1>3, <2>1, <2>2, Zenon DEF Deallocated
<1> QED
  BY <1>1, <1>2, <1>3 DEF Deallocator

-----------------------------------------------------------------------------
(* The invariant *)

(* The places before the lock is held, and the handlers that pass there. *)
Approach ==
    \A g \in Threads :
        /\ w[g].pc \in {"isProcessing", "addProcessing"} => w[g].kind = "error" /\ g \in Goroutines
        /\ w[g].pc \in {"isLocked", "addToLock"} => w[g].kind \in Lockers
        /\ w[g].pc = "lookup" => w[g].kind = "changed"

(* The handler of a changed service looks its allocation up: a deletion of   *)
(* the service is an event of its own, and comes after it.                   *)
Looking == w[Informer].pc = "lookup" => svc[w[Informer].s] # NoObject

(* The table of free addresses offers only what the pools have. *)
Offered == \A p \in Pools : avail[p] \subseteq PoolAddresses[p]

(* Wherever an address is between a pool and the allocation of a service, it *)
(* is an address of a pool that admits the namespace of the service.         *)
Granted ==
    /\ OnlyAllowedPools
    /\ \A t \in tasks : Owed(t) \subseteq Admitted(t.s)
    /\ \A g \in Threads : w[g].got \subseteq Admitted(w[g].s)

IInv == TypeOK /\ FreshCopies /\ Approach /\ Looking /\ Offered /\ Granted

(* A goroutine in the retry loop: before its attempt has read the object, or *)
(* in an attempt that is going to be repeated.                               *)
Retrying(g) ==
    /\ w[g].kind = "error"
    /\ w[g].pc \notin {"idle", "isProcessing", "addProcessing"}
    /\ w[g].pc \in {"isLocked", "addToLock", "get", "giveUp"} \/ w[g].result # ""

Retried == \A s \in errorAllocations : \E g \in Goroutines : w[g].s = s /\ Retrying(g)

-----------------------------------------------------------------------------
(* What a step of a handler does to the shared state *)

(* The object it writes has only addresses the service may use. *)
Stores(g) ==
    \/ UNCHANGED api
    \/ UNCHANGED <<alloc, tasks>> /\ alloc[w[g].s] # NoObject /\ fresh' = fresh \cup {g}
    \/ \E obj \in IPAllocation : obj.ips \subseteq Admitted(w[g].s) /\ Write(g, obj)
    \/ DeleteAllocationByName(w[g].s)

(* A handler at work is past the lock.  It adds nothing to the list of the   *)
(* retry loops, and an attempt that is not to be repeated takes its entry    *)
(* off that list.                                                            *)
Unlists(g) ==
    /\ w[g].pc \notin Outside
    /\ errorAllocations' \subseteq errorAllocations
    /\ w[g].pc = "get" /\ w'[g].result = "" /\ w[g].kind = "error"
          => w[g].s \notin errorAllocations'

(* What a step of g's handler leaves alone, and what it may do. *)
Effects(g) ==
    /\ Stores(g)
    /\ avail' \in [Pools -> SUBSET Addresses]
    /\ Offered'
    /\ cloud' \subseteq Addresses
    /\ Unlists(g)
    /\ UNCHANGED <<environment, lockedObjects>>

(* The tables of free addresses *)
LEMMA AvailableKept ==
  ASSUME TypeOK, Offered, UNCHANGED avail
  PROVE  avail' \in [Pools -> SUBSET Addresses] /\ Offered'
  BY DEF TypeOK, Offered

(* Booking an address takes it from the offer. *)
LEMMA UseIPOffers ==
  ASSUME TypeOK, Offered, NEW s, NEW a, UseIP(s, a)
  PROVE  avail' \in [Pools -> SUBSET Addresses] /\ Offered'
  BY DEF TypeOK, Offered, UseIP

(* An address given back goes to the pool that has it. *)
LEMMA ReleaseIPOffers ==
  ASSUME TypeOK, Offered, NEW s, NEW a \in Addresses, ReleaseIP(s, a)
  PROVE  avail' \in [Pools -> SUBSET Addresses] /\ Offered'
  BY DEF TypeOK, Offered, ReleaseIP

(* An address in use is taken from the offer. *)
LEMMA EnsureOffers ==
  ASSUME TypeOK, Offered, NEW a, EnsureAddressIsNotAvailable(a)
  PROVE  avail' \in [Pools -> SUBSET Addresses] /\ Offered'
  BY DEF TypeOK, Offered, EnsureAddressIsNotAvailable

(* A write of the status keeps the addresses. *)
LEMMA WriteStatusStores ==
  ASSUME IInv, NEW g \in Threads, WriteStatus(g)
  PROVE  Stores(g)
<1> DEFINE obj == [alloc[w[g].s] EXCEPT !.state = w[g].result]
<1>1. w[g] \in Thread /\ alloc[w[g].s] \in IPAllocation
  BY DEF IInv, TypeOK, FreshCopies, WriteStatus, Thread
<1>2. alloc[w[g].s].ips \subseteq Admitted(w[g].s)
  BY <1>1 DEF IInv, FreshCopies, WriteStatus, Granted, OnlyAllowedPools, Thread
<1>3. obj \in IPAllocation /\ obj.ips = alloc[w[g].s].ips
  BY <1>1 DEF IPAllocation, Thread
<1>4. UNCHANGED api \/ Write(g, obj)
  BY DEF WriteStatus, Put
<1> HIDE DEF obj
<1> QED
  BY <1>2, <1>3, <1>4, Zenon DEF Stores

(* All but Get leave both lists of the lock alone. *)
LEMMA TablesKept ==
  ASSUME IInv, NEW g \in Threads, w[g].pc \notin Outside \cup {"get"}, Stores(g),
         avail' \in [Pools -> SUBSET Addresses] /\ Offered',
         cloud' \subseteq Addresses, UNCHANGED <<environment, tables>>
  PROVE  Effects(g)
  BY DEF Effects, Unlists, tables

(* Steps that only move the thread *)
LEMMA OnlyMoves ==
  ASSUME IInv, NEW g \in Threads, w[g].pc \notin Outside \cup {"get"},
         UNCHANGED <<environment, api, tables, avail, cloud>>
  PROVE  Effects(g)
<1>1. Stores(g) /\ cloud' \subseteq Addresses
  BY DEF Stores, IInv, TypeOK
<1>2. avail' \in [Pools -> SUBSET Addresses] /\ Offered'
  BY AvailableKept DEF IInv
<1> QED
  BY <1>1, <1>2, TablesKept

(* Steps that give an address back *)
LEMMA OnlyReleases ==
  ASSUME IInv, NEW g \in Threads, NEW a \in w[g].todo \cup w[g].got, w[g].pc \notin Outside \cup {"get"},
         ReleaseIP(w[g].s, a), UNCHANGED <<environment, api, tables, cloud>>
  PROVE  Effects(g)
<1>1. Stores(g) /\ cloud' \subseteq Addresses
  BY DEF Stores, IInv, TypeOK
<1>2. a \in Addresses
  BY DEF IInv, TypeOK, Thread
<1>3. avail' \in [Pools -> SUBSET Addresses] /\ Offered'
  BY <1>2, ReleaseIPOffers DEF IInv
<1> QED
  BY <1>1, <1>3, TablesKept

(* Steps that only write the object *)
LEMMA OnlyStores ==
  ASSUME IInv, NEW g \in Threads, w[g].pc \notin Outside \cup {"get"}, Stores(g),
         UNCHANGED <<environment, tables, avail, cloud>>
  PROVE  Effects(g)
<1>1. cloud' \subseteq Addresses
  BY DEF IInv, TypeOK
<1>2. avail' \in [Pools -> SUBSET Addresses] /\ Offered'
  BY AvailableKept DEF IInv
<1> QED
  BY <1>1, <1>2, TablesKept

(* Steps that only call the cloud *)
LEMMA OnlyUnassigns ==
  ASSUME IInv, NEW g \in Threads, w[g].pc \notin Outside \cup {"get"}, NEW addrs, UnassignIP(addrs),
         UNCHANGED <<environment, api, tables, avail>>
  PROVE  Effects(g)
<1>1. Stores(g) /\ cloud' \subseteq Addresses
  BY DEF Stores, IInv, TypeOK, UnassignIP
<1>2. avail' \in [Pools -> SUBSET Addresses] /\ Offered'
  BY AvailableKept DEF IInv
<1> QED
  BY <1>1, <1>2, TablesKept

(* Creating an allocation *)
LEMMA BookEffects ==
  ASSUME IInv, NEW g \in Threads, Book(g)
  PROVE  Effects(g)
<1>1. CASE FindAllocation(g) \/ Built(g) \/ RolledBack(g)
  BY <1>1, OnlyMoves DEF FindAllocation, Built, RolledBack, At, Outside
<1>2. ASSUME NEW a \in w[g].todo, Build(g, a) PROVE Effects(g)
  <2>1. avail' \in [Pools -> SUBSET Addresses] /\ Offered'
    BY <1>2, UseIPOffers, AvailableKept DEF Build, IInv
  <2>2. Stores(g) /\ cloud' \subseteq Addresses
    BY <1>2 DEF Build, Stores, IInv, TypeOK
  <2> QED
    BY <1>2, <2>1, <2>2, TablesKept DEF Build, At, Outside
<1>3. CASE Create(g)
  <2> DEFINE obj == [ips |-> w[g].got, state |-> ""]
  <2>1. obj \in IPAllocation /\ obj.ips = w[g].got
    BY DEF IInv, TypeOK, Thread, IPAllocation, States
  <2>2. obj.ips \subseteq Admitted(w[g].s)
    BY <2>1 DEF IInv, Granted
  <2>3. Write(g, obj) \/ UNCHANGED api
    BY <1>3 DEF Create
  <2> HIDE DEF obj
  <2>4. Stores(g)
    BY <2>1, <2>2, <2>3, Zenon DEF Stores
  <2> QED
    BY <1>3, <2>4, OnlyStores DEF Create, At, Outside
<1>4. ASSUME NEW a \in w[g].got, Rollback(g, a) PROVE Effects(g)
  BY <1>4, OnlyReleases DEF Rollback, At, Outside
<1> QED
  BY <1>1, <1>2, <1>3, <1>4 DEF Book

(* Giving the addresses of a deleted object back *)
LEMMA DeallocatorEffects ==
  ASSUME IInv, NEW g \in Threads, Deallocator(g)
  PROVE  Effects(g)
<1>1. ASSUME NEW a \in w[g].got, Dealloc(g, a) PROVE Effects(g)
  BY <1>1, OnlyReleases DEF Dealloc, At, Outside
<1>2. CASE DeallocateAddress(g, "deallocCloud", "dealloc")
  BY <1>2, OnlyUnassigns DEF DeallocateAddress, At, Outside
<1>3. CASE Deallocated(g)
  BY <1>3, OnlyMoves DEF Deallocated, At, Outside
<1> QED
  BY <1>1, <1>2, <1>3 DEF Deallocator

(* Reconciliation *)
LEMMA ReconcilerEffects ==
  ASSUME IInv, NEW g \in Threads, Reconciler(g)
  PROVE  Effects(g) \/ Dies(g)
<1>1. CASE FindService(g) \/ Reconcile(g) \/ Unpatched(g) \/ Patch(g) \/ CleanedUp(g)
  BY <1>1, OnlyMoves DEF FindService, Reconcile, Unpatched, Patch, CleanedUp, At, Outside
<1>2. ASSUME NEW a \in w[g].todo, ReleaseRemoved(g, a) \/ Cleanup(g, a) PROVE Effects(g)
  BY <1>2, OnlyReleases DEF ReleaseRemoved, Cleanup, At, Outside
<1>3. CASE DeallocateAddress(g, "cleanupCloud", "cleanup")
  BY <1>3, OnlyUnassigns DEF DeallocateAddress, At, Outside
<1>4. CASE ReconcileDelete(g)
  <2>1. CASE Dies(g)
    BY <2>1
  <2>2. CASE Stores(g) /\ UNCHANGED <<environment, tables, avail, cloud>>
    BY <1>4, <2>2, OnlyStores DEF ReconcileDelete, At, Outside
  <2> QED
    BY <1>4, <2>1, <2>2 DEF ReconcileDelete, Stores, Dies
<1>5. CASE Update(g)
  <2> DEFINE obj == [alloc[w[g].s] EXCEPT !.ips = Kept(w[g]) \cup w[g].got]
  <2>1. UNCHANGED api \/ (g \in fresh /\ Write(g, obj))
    BY <1>5, Zenon DEF Update, Put
  <2>2. ASSUME g \in fresh PROVE obj \in IPAllocation /\ obj.ips \subseteq Admitted(w[g].s)
    <3>1. obj \in IPAllocation /\ obj.ips = Kept(w[g]) \cup w[g].got
      BY <2>2, UpdatedObject DEF IInv
    <3> HIDE DEF obj
    <3> QED
      BY <3>1 DEF IInv, Granted, Kept, Usable
  <2> HIDE DEF obj
  <2>3. Stores(g)
    BY <2>1, <2>2, Zenon DEF Stores
  <2> QED
    BY <1>5, <2>3, OnlyStores DEF Update, At, Outside
<1>6. CASE SetPatchStatus(g)
  <2>1. WriteStatus(g) \/ UNCHANGED api
    BY <1>6 DEF SetPatchStatus
  <2>2. Stores(g)
    BY <2>1, WriteStatusStores DEF Stores
  <2> QED
    BY <1>6, <2>2, OnlyStores DEF SetPatchStatus, At, Outside
<1> QED
  BY <1>1, <1>2, <1>3, <1>4, <1>5, <1>6 DEF Reconciler

(* Reading an object and ensuring an allocation *)
LEMMA AllocatorEffects ==
  ASSUME IInv, NEW g \in Threads, Allocator(g)
  PROVE  Effects(g) \/ Dies(g)
<1>0. w[g] \in Thread
  BY DEF IInv, TypeOK
<1>1. CASE EnsureFindService(g) \/ Ensured(g)
  BY <1>1, OnlyMoves DEF EnsureFindService, Ensured, At, Outside
<1>2. CASE DeleteAllocation(g)
  <2>1. Stores(g)
    BY <1>2 DEF DeleteAllocation, Stores
  <2> QED
    BY <1>2, <2>1, OnlyStores DEF DeleteAllocation, At, Outside
<1>3. CASE SetStatus(g)
  <2>1. WriteStatus(g) \/ UNCHANGED api
    BY <1>3 DEF SetStatus
  <2>2. Stores(g)
    BY <2>1, WriteStatusStores DEF Stores
  <2> QED
    BY <1>3, <2>2, OnlyStores DEF SetStatus, At, Outside
<1>4. CASE GetFailed(g)
  <2>1. Stores(g)
    BY <1>4 DEF GetFailed, Stores, api
  <2> QED
    BY <1>4, <2>1, OnlyStores DEF GetFailed, At, Outside
<1>5. ASSUME NEW a \in w[g].todo, Ensure(g, a) PROVE Effects(g)
  <2>1. avail' \in [Pools -> SUBSET Addresses] /\ Offered'
    BY <1>5, EnsureOffers DEF Ensure, IInv
  <2>2. Stores(g) /\ cloud' \subseteq Addresses
    BY <1>5 DEF Ensure, Stores, IInv, TypeOK
  <2> QED
    BY <1>5, <2>1, <2>2, TablesKept DEF Ensure, At, Outside
<1>6. CASE AllocateAddress(g)
  <2>1. avail' \in [Pools -> SUBSET Addresses] /\ Offered'
    BY <1>6, AvailableKept DEF AllocateAddress, IInv
  <2>2. Stores(g) /\ cloud' \subseteq Addresses
    BY <1>0, <1>6 DEF AllocateAddress, AssignIPToServer, Stores, IInv, TypeOK, Thread
  <2> QED
    BY <1>6, <2>1, <2>2, TablesKept DEF AllocateAddress, At, Outside
<1>7. CASE ChangeAllocationNode(g)
  <2>1. CASE Dies(g)
    BY <2>1
  <2>2. CASE g \in fresh /\ (Write(g, alloc[w[g].s]) \/ UNCHANGED api) /\ UNCHANGED <<environment, tables, avail, cloud>>
    <3>1. alloc[w[g].s] \in IPAllocation /\ alloc[w[g].s].ips \subseteq Admitted(w[g].s)
      BY <1>0, <2>2 DEF IInv, TypeOK, FreshCopies, Granted, OnlyAllowedPools, Thread
    <3>2. Stores(g)
      BY <2>2, <3>1, Zenon DEF Stores
    <3> QED
      BY <1>7, <2>2, <3>2, OnlyStores DEF ChangeAllocationNode, At, Outside
  <2> QED
    BY <1>7, <2>1, <2>2 DEF ChangeAllocationNode, Dies
<1>8. CASE Get(g)
  <2>1. avail' \in [Pools -> SUBSET Addresses] /\ Offered'
    BY <1>8, AvailableKept DEF Get, IInv
  <2>2. Stores(g) /\ cloud' \subseteq Addresses
    BY <1>8 DEF Get, Stores, api, IInv, TypeOK
  <2>3. errorAllocations' \subseteq errorAllocations
    BY <1>8, Zenon DEF Get
  <2>4. w'[g].result = "" /\ w[g].kind = "error" => w[g].s \notin errorAllocations'
    BY ZenonT(60), <1>0, <1>8 DEF Get, IInv, TypeOK, Copy, Thread
  <2> QED
    BY <1>8, <2>1, <2>2, <2>3, <2>4 DEF Get, At, Outside, Effects, Unlists
<1> QED
  BY <1>1, <1>2, <1>3, <1>4, <1>5, <1>6, <1>7, <1>8 DEF Allocator

-----------------------------------------------------------------------------
(* The invariant is inductive: steps of the handlers *)

(* The types, and what belongs to the objects of the API server *)
Objects ==
    /\ alloc \in [Services -> IPAllocation \cup {NoObject}]
    /\ tasks \subseteq Task
    /\ fresh \subseteq Threads
    /\ OnlyAllowedPools
    /\ \A t \in tasks : Owed(t) \subseteq Admitted(t.s)

(* A write that reaches the server makes every other copy stale. *)
LEMMA WriteKeepsObjects ==
  ASSUME IInv, NEW g \in Threads, NEW obj \in IPAllocation,
         obj.ips \subseteq Admitted(w[g].s), Write(g, obj)
  PROVE  /\ Objects'
         /\ \A h \in fresh' : h = g \/ (h \in fresh /\ w[h].s # w[g].s)
         /\ alloc'[w[g].s] # NoObject
         /\ \A s \in Services : s # w[g].s => alloc'[s] = alloc[s]
<1> DEFINE s == w[g].s
<1>0. s \in Services /\ alloc \in [Services -> IPAllocation \cup {NoObject}]
      /\ tasks \subseteq Task /\ fresh \subseteq Threads
  BY DEF IInv, TypeOK, Thread
<1>1. obj # NoObject /\ obj.state \in States /\ obj.ips \subseteq Addresses
  BY NoObjectAssumption DEF IPAllocation
<1>2. EventTasks(s, obj.state) \subseteq Task
      /\ \A t \in EventTasks(s, obj.state) : Owed(t) = {}
  BY <1>0 DEF EventTasks, Task, Owed, Handled
<1>3. alloc' = [alloc EXCEPT ![s] = obj] /\ tasks' = tasks \cup EventTasks(s, obj.state)
      /\ fresh' = (fresh \ OtherCopies(s)) \cup {g}
  BY DEF Write
<1>4. OnlyAllowedPools'
  BY <1>0, <1>3 DEF OnlyAllowedPools, Admitted, IInv, Granted
<1>5. (\A t \in tasks : Owed(t) \subseteq Admitted(t.s))'
  BY <1>2, <1>3 DEF IInv, Granted, Admitted, Owed
<1>6. Objects'
  BY <1>0, <1>2, <1>3, <1>4, <1>5 DEF Objects
<1> QED
  BY <1>0, <1>1, <1>3, <1>6 DEF OtherCopies

(* A deletion makes every copy stale, and owes the addresses. *)
LEMMA DeleteKeepsObjects ==
  ASSUME IInv, NEW s \in Services, DeleteAllocationByName(s)
  PROVE  /\ Objects'
         /\ \A h \in fresh' : h \in fresh /\ alloc'[w[h].s] = alloc[w[h].s]
<1>0. /\ alloc \in [Services -> IPAllocation \cup {NoObject}]
      /\ tasks \subseteq Task /\ fresh \subseteq Threads
      /\ \A h \in Threads : w[h].s \in Services
  BY DEF IInv, TypeOK, Thread
<1>1. CASE UNCHANGED api
  BY <1>0, <1>1 DEF api, Objects, IInv, Granted, OnlyAllowedPools, Admitted, Owed
<1>2. CASE alloc[s] # NoObject
  <2> DEFINE t == [kind |-> "delete", s |-> s, ips |-> alloc[s].ips]
  <2>1. alloc[s].ips \in SUBSET Addresses /\ alloc[s].ips \subseteq Admitted(s)
    BY <1>0, <1>2 DEF IPAllocation, IInv, Granted, OnlyAllowedPools
  <2>2. t \in Task /\ Owed(t) \subseteq Admitted(t.s)
    BY <2>1 DEF Task, Owed
  <2>3. alloc' = [alloc EXCEPT ![s] = NoObject] /\ tasks' = tasks \cup {t}
        /\ fresh' = fresh \ OtherCopies(s)
    BY <1>2 DEF DeleteAllocationByName
  <2> HIDE DEF t
  <2>4. OnlyAllowedPools'
    BY <1>0, <2>3 DEF OnlyAllowedPools, Admitted, IInv, Granted
  <2>5. (\A u \in tasks : Owed(u) \subseteq Admitted(u.s))'
    BY <2>2, <2>3 DEF IInv, Granted, Admitted, Owed
  <2>6. Objects'
    BY <1>0, <2>2, <2>3, <2>4, <2>5 DEF Objects
  <2> QED
    BY <1>0, <2>3, <2>6 DEF OtherCopies
<1> QED
  BY <1>1, <1>2 DEF DeleteAllocationByName

(* A step of a handler keeps the objects, and with them the fresh copies. *)
LEMMA StoresKeepsObjects ==
  ASSUME IInv, NEW g \in Threads, Stores(g), Only(g), w'[g].s = w[g].s, w'[g].pc \notin Outside
  PROVE  Objects' /\ FreshCopies'
<1>0. w[g].s \in Services /\ fresh \subseteq Threads /\ \A h \in Threads : w[h].s \in Services
  BY DEF IInv, TypeOK, Thread
<1>1. CASE UNCHANGED api
  BY <1>0, <1>1 DEF api, Objects, FreshCopies, Only, Outside, IInv, TypeOK, Granted, OnlyAllowedPools, Admitted, Owed
<1>2. CASE UNCHANGED <<alloc, tasks>> /\ alloc[w[g].s] # NoObject /\ fresh' = fresh \cup {g}
  BY <1>0, <1>2 DEF Objects, FreshCopies, Only, Outside, IInv, TypeOK, Granted, OnlyAllowedPools, Admitted, Owed
<1>3. ASSUME NEW obj \in IPAllocation, obj.ips \subseteq Admitted(w[g].s), Write(g, obj)
      PROVE  Objects' /\ FreshCopies'
  <2>1. /\ Objects'
        /\ \A h \in fresh' : h = g \/ (h \in fresh /\ w[h].s # w[g].s)
        /\ alloc'[w[g].s] # NoObject
        /\ \A s \in Services : s # w[g].s => alloc'[s] = alloc[s]
    BY <1>3, WriteKeepsObjects
  <2> QED
    BY <1>0, <2>1 DEF FreshCopies, Only, Outside, IInv
<1>4. CASE DeleteAllocationByName(w[g].s)
  <2>1. Objects' /\ \A h \in fresh' : h \in fresh /\ alloc'[w[h].s] = alloc[w[h].s]
    BY <1>0, <1>4, DeleteKeepsObjects
  <2> QED
    BY <1>0, <2>1 DEF FreshCopies, Only, Outside, IInv
<1> QED
  BY <1>1, <1>2, <1>3, <1>4 DEF Stores

(* A step of a handler keeps the invariant. *)
LEMMA HandlerKeepsIInv ==
  ASSUME IInv, NEW g \in Threads, Only(g), Continues(g), Effects(g)
  PROVE  IInv'
<1>1. Objects' /\ FreshCopies'
  BY StoresKeepsObjects DEF Continues, Effects
<1>2. TypeOK'
  BY <1>1 DEF Objects, Only, Effects, Unlists, environment, IInv, TypeOK
<1>3. Approach'
  BY DEF Only, Continues, Outside, IInv, Approach
<1>l. Looking'
  BY DEF Only, Continues, Outside, IInv, Looking, Effects, environment, Threads
<1>4. \A a \in w'[g].got : a \in Admitted(w[g].s)
  <2>1. SUFFICES ASSUME NEW a \in w'[g].got, CanUseIP(w[g].s, a) PROVE a \in Admitted(w[g].s)
    BY DEF Continues, IInv, Granted
  <2>2. w[g] \in Thread /\ Allowed[w[g].s] \subseteq Pools
    BY PoolAssumption DEF IInv, TypeOK, Thread
  <2>3. PICK p \in Allowed[w[g].s] : a \in avail[p]
    BY <2>1 DEF CanUseIP
  <2> QED
    BY <2>2, <2>3 DEF Admitted, IInv, TypeOK, Offered
<1>5. (\A h \in Threads : w[h].got \subseteq Admitted(w[h].s))'
  BY <1>4 DEF Only, Continues, IInv, Granted, Admitted
<1> QED
  BY <1>1, <1>2, <1>3, <1>l, <1>5 DEF Effects, IInv, Granted, Objects

(* The death of the leader *)
LEMMA IdleType ==
  Idle \in Thread /\ Idle.pc = "idle" /\ Idle.got = {} /\ Idle.kind = "create"
<1>1. (CHOOSE s \in Services : TRUE) \in Services
  BY ServiceAssumption
<1> QED
  BY <1>1 DEF Idle, Thread, Kinds, Locations, States

(* Nothing but the objects survives the leader. *)
LEMMA DieKeepsIInv ==
  ASSUME IInv, Die, alloc' \in [Services -> IPAllocation \cup {NoObject}], OnlyAllowedPools',
         UNCHANGED <<svc, cloud, changes, restarts>>
  PROVE  IInv'
<1>1. w' \in [Threads -> Thread] /\ \A g \in Threads : w'[g] = Idle
  BY IdleType DEF Die
<1>2. TypeOK'
  BY <1>1 DEF Die, IInv, TypeOK
<1>3. FreshCopies' /\ Offered'
  BY DEF Die, FreshCopies, Offered
<1>4. Approach' /\ Looking'
  BY <1>1, IdleType DEF Approach, Looking, Threads
<1>5. Granted'
  BY <1>1, IdleType DEF Granted, Die
<1> QED
  BY <1>2, <1>3, <1>4, <1>5 DEF IInv

(* The two panics of the handlers *)
LEMMA DiesKeepsIInv ==
  ASSUME IInv, NEW g \in Threads, Dies(g)
  PROVE  IInv'
<1>1. w[g].s \in Services
  BY DEF IInv, TypeOK, Thread
<1>2. alloc' \in [Services -> IPAllocation \cup {NoObject}]
  BY <1>1 DEF Dies, IInv, TypeOK
<1>3. OnlyAllowedPools'
  BY <1>1 DEF Dies, IInv, TypeOK, Granted, OnlyAllowedPools, Admitted
<1> QED
  BY <1>2, <1>3, DieKeepsIInv DEF Dies

-----------------------------------------------------------------------------
(* The invariant is inductive: starts and ends of goroutines *)

(* What the invariant asks of one thread *)
GoodThread(g, r) ==
    /\ r \in Thread
    /\ r.got \subseteq Admitted(r.s)
    /\ r.pc \in {"isProcessing", "addProcessing"} => r.kind = "error" /\ g \in Goroutines
    /\ r.pc \in {"isLocked", "addToLock"} => r.kind \in Lockers
    /\ r.pc = "lookup" => r.kind = "changed"

(* An idle thread is no threat to the invariant. *)
LEMMA IdleIsGood ==
  ASSUME NEW g \in Threads
  PROVE  GoodThread(g, Idle)
  BY IdleType DEF GoodThread

(* A thread gets a new record, and the tables of the lock change. *)
LEMMA MoveKeepsIInv ==
  ASSUME IInv, NEW g \in Threads, NEW r, GoodThread(g, r), w' = [w EXCEPT ![g] = r],
         fresh' \subseteq fresh \cup {g},
         g \in fresh' => alloc[r.s] # NoObject /\ r.pc \notin {"idle", "isProcessing", "lookup"},
         tasks' \subseteq Task, \A t \in tasks' : Owed(t) \subseteq Admitted(t.s),
         svc' \in [Services -> Service \cup {NoObject}], g # Informer => svc' = svc,
         g = Informer /\ r.pc = "lookup" => svc'[r.s] # NoObject,
         changes' \in 0 .. MaxChanges,
         lockedObjects' \subseteq Services, errorAllocations' \subseteq Services,
         UNCHANGED <<alloc, avail, cloud, poolEvents, up, restarts>>
  PROVE  IInv'
<1>1. r \in Thread /\ w \in [Threads -> Thread] /\ fresh \subseteq Threads
  BY DEF GoodThread, IInv, TypeOK
<1>2. Only(g) /\ w'[g] = r
  BY <1>1, Replaced
<1>3. TypeOK'
  BY <1>1, <1>2 DEF Only, IInv, TypeOK
<1>4. FreshCopies'
  BY <1>1, <1>2 DEF Only, IInv, FreshCopies
<1>5. Approach'
  BY <1>2 DEF GoodThread, Only, IInv, Approach
<1>l. Looking'
  BY <1>2 DEF Only, IInv, Looking, Threads
<1>6. Offered'
  BY DEF IInv, Offered
<1>7. (\A h \in Threads : w[h].got \subseteq Admitted(w[h].s))'
  BY <1>2 DEF GoodThread, Only, IInv, Granted, Admitted
<1>8. OnlyAllowedPools'
  BY DEF IInv, Granted, OnlyAllowedPools, Admitted
<1>9. Granted'
  BY <1>7, <1>8 DEF Granted, Owed, Admitted
<1> QED
  BY <1>3, <1>4, <1>5, <1>l, <1>6, <1>9 DEF IInv

(* The same when only the thread and the tables change. *)
LEMMA LockMoveKeepsIInv ==
  ASSUME IInv, NEW g \in Threads, NEW r, GoodThread(g, r), w' = [w EXCEPT ![g] = r],
         fresh' \subseteq fresh, r.pc # "lookup",
         g \in fresh' => r.s = w[g].s /\ r.pc \notin {"idle", "isProcessing", "lookup"},
         lockedObjects' \subseteq Services, errorAllocations' \subseteq Services,
         tasks' \subseteq tasks,
         UNCHANGED <<environment, alloc, avail, cloud>>
  PROVE  IInv'
<1>1. tasks' \subseteq Task /\ \A t \in tasks' : Owed(t) \subseteq Admitted(t.s)
  BY DEF IInv, TypeOK, Granted
<1>2. /\ svc' \in [Services -> Service \cup {NoObject}] /\ svc' = svc
      /\ changes' \in 0 .. MaxChanges
      /\ UNCHANGED <<alloc, avail, cloud, poolEvents, up, restarts>>
  BY DEF environment, IInv, TypeOK
<1>3. g \in fresh' => alloc[r.s] # NoObject /\ r.pc \notin {"idle", "isProcessing", "lookup"}
  BY DEF IInv, FreshCopies
<1> QED
  BY <1>1, <1>2, <1>3, MoveKeepsIInv

(* Taking and leaving the lock, and the list of the retry loops *)
LEMMA LockKeepsIInv ==
  ASSUME IInv, NEW g \in Threads, Lock(g)
  PROVE  IInv'
<1>0. /\ w \in [Threads -> Thread] /\ w[g] \in Thread /\ w[g].s \in Services
      /\ w[g].got \subseteq Admitted(w[g].s)
      /\ lockedObjects \subseteq Services /\ errorAllocations \subseteq Services
  BY DEF IInv, TypeOK, Granted, Thread
<1>f. g \in fresh => w[g].pc \notin {"idle", "isProcessing", "lookup"}
  BY DEF IInv, FreshCopies
<1>1. CASE IsErrorAllocationAlreadyProcessing(g)
  <2> DEFINE q == [w[g] EXCEPT !.pc = "addProcessing"]
  <2>1. GoodThread(g, q) /\ g \notin fresh /\ q.pc = "addProcessing"
    BY <1>0, <1>1, <1>f DEF GoodThread, Thread, Locations, IInv, Approach,
                            IsErrorAllocationAlreadyProcessing, At
  <2>2. w' = [w EXCEPT ![g] = Idle] \/ w' = [w EXCEPT ![g] = q]
    BY <1>1 DEF IsErrorAllocationAlreadyProcessing, Goto
  <2>3. UNCHANGED <<environment, api, tables, avail, cloud>>
    BY <1>1 DEF IsErrorAllocationAlreadyProcessing
  <2> HIDE DEF q
  <2>4. /\ UNCHANGED <<environment, alloc, avail, cloud>> /\ fresh' = fresh /\ tasks' = tasks
        /\ lockedObjects' \subseteq Services /\ errorAllocations' \subseteq Services
    BY <1>0, <2>3 DEF api, tables
  <2> QED
    BY <1>0, <2>1, <2>2, <2>4, IdleIsGood, IdleType, LockMoveKeepsIInv
<1>2. CASE AddErrorAllocationToProcessingList(g)
  <2> DEFINE q == [w[g] EXCEPT !.pc = "isLocked"]
  <2>1. GoodThread(g, q) /\ q.s = w[g].s /\ q.pc = "isLocked"
    BY <1>0, <1>2 DEF GoodThread, Thread, Locations, Lockers, Handled, IInv, Approach,
                      AddErrorAllocationToProcessingList, At
  <2>2. w' = [w EXCEPT ![g] = q]
    BY <1>2 DEF AddErrorAllocationToProcessingList, Goto
  <2> HIDE DEF q
  <2>4. /\ UNCHANGED <<environment, alloc, avail, cloud>> /\ fresh' = fresh /\ tasks' = tasks
        /\ lockedObjects' \subseteq Services /\ errorAllocations' \subseteq Services
    BY <1>0, <1>2 DEF api, AddErrorAllocationToProcessingList
  <2> QED
    BY <1>0, <2>1, <2>2, <2>4, LockMoveKeepsIInv
<1>3. CASE IsLocked(g)
  <2> DEFINE q == [w[g] EXCEPT !.pc = "addToLock"]
  <2>1. GoodThread(g, q) /\ q.s = w[g].s /\ q.pc = "addToLock"
    BY <1>0, <1>3 DEF GoodThread, Thread, Locations, IInv, Approach, IsLocked, At
  <2>2. w' = [w EXCEPT ![g] = q]
    BY <1>3 DEF IsLocked, Goto
  <2> HIDE DEF q
  <2>4. /\ UNCHANGED <<environment, alloc, avail, cloud>> /\ fresh' = fresh /\ tasks' = tasks
        /\ lockedObjects' \subseteq Services /\ errorAllocations' \subseteq Services
    BY <1>0, <1>3 DEF api, tables, IsLocked
  <2> QED
    BY <1>0, <2>1, <2>2, <2>4, LockMoveKeepsIInv
<1>4. CASE LockTimeout(g)
  <2> DEFINE q == [w[g] EXCEPT !.pc = "giveUp"]
  <2>1. GoodThread(g, q) /\ q.s = w[g].s /\ q.pc = "giveUp"
    BY <1>0 DEF GoodThread, Thread, Locations
  <2>2. \/ w' = [w EXCEPT ![g] = q] /\ fresh' = fresh
        \/ w' = [w EXCEPT ![g] = Idle] /\ fresh' = fresh \ {g}
    BY <1>4 DEF LockTimeout, Goto
  <2> HIDE DEF q
  <2>4. /\ UNCHANGED <<environment, alloc, avail, cloud>> /\ tasks' = tasks
        /\ lockedObjects' \subseteq Services /\ errorAllocations' \subseteq Services
    BY <1>0, <1>4 DEF tables, LockTimeout
  <2>5. CASE w' = [w EXCEPT ![g] = q] /\ fresh' = fresh
    BY <1>0, <2>1, <2>4, <2>5, LockMoveKeepsIInv
  <2>6. CASE w' = [w EXCEPT ![g] = Idle] /\ fresh' = fresh \ {g}
    BY <1>0, <2>4, <2>6, IdleIsGood, IdleType, LockMoveKeepsIInv
  <2> QED
    BY <2>2, <2>5, <2>6
<1>5. CASE AddToLock(g)
  <2> DEFINE l == CASE w[g].kind = "delete" -> "dealloc"
                    [] w[g].kind = "changed" -> "spawn"
                    [] OTHER -> "get"
             q == [w[g] EXCEPT !.pc = l]
  <2>1. l \in {"dealloc", "spawn", "get"}
    OBVIOUS
  <2>2. w' = [w EXCEPT ![g] = q]
    BY <1>5 DEF AddToLock, Goto
  <2> HIDE DEF l
  <2>3. GoodThread(g, q) /\ q.s = w[g].s /\ q.pc = l
    BY <1>0, <2>1 DEF GoodThread, Thread, Locations
  <2> HIDE DEF q
  <2>4. /\ UNCHANGED <<environment, alloc, avail, cloud>> /\ fresh' = fresh /\ tasks' = tasks
        /\ lockedObjects' \subseteq Services /\ errorAllocations' \subseteq Services
    BY <1>0, <1>5 DEF api, AddToLock
  <2> QED
    BY <1>0, <2>1, <2>2, <2>3, <2>4, LockMoveKeepsIInv
<1>6. CASE Return(g)
  <2> DEFINE q(l) == [Idle EXCEPT !.kind = "error", !.s = w[g].s, !.pc = l]
  <2>1. \A l \in {"isLocked", "giveUp"} : GoodThread(g, q(l)) /\ q(l).pc # "lookup"
    BY ZenonT(60), <1>0, IdleType DEF GoodThread, Thread, Locations, Kinds, Lockers, Handled
  <2>2. w' = [w EXCEPT ![g] = Idle] \/ \E l \in {"isLocked", "giveUp"} : w' = [w EXCEPT ![g] = q(l)]
    BY <1>6 DEF Return
  <2> HIDE DEF q
  <2>4. /\ UNCHANGED <<environment, alloc, avail, cloud>> /\ fresh' = fresh \ {g} /\ tasks' = tasks
        /\ lockedObjects' \subseteq Services /\ errorAllocations' \subseteq Services
    BY <1>0, <1>6 DEF Return
  <2>5. PICK r : GoodThread(g, r) /\ r.pc # "lookup" /\ w' = [w EXCEPT ![g] = r]
    BY <2>1, <2>2, IdleIsGood, IdleType
  <2> QED
    BY <1>0, <2>4, <2>5, LockMoveKeepsIInv
<1>7. CASE GiveUp(g)
  <2> DEFINE q == [w[g] EXCEPT !.kind = "exhausted", !.pc = "getFailed"]
  <2>0. "exhausted" \in Kinds /\ "getFailed" \in Locations
    BY DEF Kinds, Locations
  <2>1. GoodThread(g, q) /\ q.s = w[g].s /\ q.pc = "getFailed"
    BY <1>0, <2>0 DEF GoodThread, Thread
  <2>2. w' = [w EXCEPT ![g] = q]
    BY <1>7 DEF GiveUp
  <2> HIDE DEF q
  <2>4. /\ UNCHANGED <<environment, alloc, avail, cloud>> /\ fresh' = fresh /\ tasks' = tasks
        /\ lockedObjects' \subseteq Services /\ errorAllocations' \subseteq Services
    BY <1>0, <1>7 DEF api, GiveUp
  <2> QED
    BY <1>0, <2>1, <2>2, <2>4, LockMoveKeepsIInv
<1> QED
  BY <1>1, <1>2, <1>3, <1>4, <1>5, <1>6, <1>7 DEF Lock

(* A goroutine starts with what its task owes. *)
LEMMA StartKeepsIInv ==
  ASSUME IInv, NEW g \in Goroutines, NEW t \in tasks, Start(g, t)
  PROVE  IInv'
<1>0. g \in Threads /\ t \in Task /\ Owed(t) \subseteq Admitted(t.s) /\ g \notin fresh
  BY DEF Threads, IInv, TypeOK, Granted, FreshCopies, Start, At
<1>1. /\ t.kind \in Handled \cup {"create", "delete"} /\ t.s \in Services
      /\ t.ips \in SUBSET Addresses
  BY <1>0 DEF Task
<1> DEFINE l == CASE t.kind = "create" -> "find"
                  [] t.kind = "error" -> "isProcessing"
                  [] OTHER -> "isLocked"
           i == IF t.kind = "create" THEN t.ips ELSE {}
           j == IF t.kind = "delete" THEN t.ips ELSE {}
           r == [Idle EXCEPT !.kind = t.kind, !.s = t.s, !.want = i, !.got = j, !.pc = l]
<1>2. /\ l \in {"find", "isProcessing", "isLocked"}
      /\ l = "isProcessing" => t.kind = "error"
      /\ l = "isLocked" => t.kind \in Lockers
  BY <1>1 DEF Lockers
<1>3. i \in SUBSET Addresses /\ j \in SUBSET Addresses /\ j \subseteq Admitted(t.s)
  BY <1>0, <1>1 DEF Owed
<1>4. w' = [w EXCEPT ![g] = r]
  BY DEF Start, Started
<1> HIDE DEF l, i, j
<1>5. GoodThread(g, r) /\ r.pc # "lookup"
  BY <1>1, <1>2, <1>3, IdleType DEF GoodThread, Thread, Kinds, Locations
<1> HIDE DEF r
<1>6. /\ UNCHANGED <<environment, alloc, avail, cloud>> /\ fresh' = fresh /\ tasks' \subseteq tasks
      /\ lockedObjects' \subseteq Services /\ errorAllocations' \subseteq Services
  BY DEF Start, tables, IInv, TypeOK
<1> QED
  BY <1>0, <1>4, <1>5, <1>6, LockMoveKeepsIInv

-----------------------------------------------------------------------------
(* The invariant is inductive: the informer and the world outside *)

(* What the informer's thread starts with *)
InformerRecord(kind, l, s, service) ==
    [Idle EXCEPT !.kind = kind, !.pc = l, !.s = s, !.want = service.ips, !.lb = service.lb]

(* Its handlers start in good order. *)
LEMMA InformerThread ==
  ASSUME NEW s \in Services, NEW service \in Service, NEW kind, NEW l,
         (kind = "deleted" /\ l = "deleteAlloc") \/ (kind = "changed" /\ l = "lookup")
  PROVE  /\ GoodThread(Informer, InformerRecord(kind, l, s, service))
         /\ InformerRecord(kind, l, s, service).s = s
         /\ InformerRecord(kind, l, s, service).pc = l
<1>1. service.ips \in SUBSET Addresses /\ service.lb \in BOOLEAN
  BY DEF Service
<1>2. kind \in Kinds /\ l \in Locations
  BY DEF Kinds, Locations
<1> QED
  BY <1>1, <1>2, IdleType DEF GoodThread, Thread, InformerRecord

(* A service that exists leads to a task of the right type. *)
LEMMA CreateTaskType ==
  ASSUME NEW s \in Services, NEW service \in Service
  PROVE  CreateTask(s, service) \subseteq Task /\ \A t \in CreateTask(s, service) : Owed(t) = {}
<1>1. service.ips \in SUBSET Addresses
  BY DEF Service
<1> QED
  BY <1>1 DEF CreateTask, Task, Owed

(* The state of an object leads to a task of the right type. *)
LEMMA EventTasksType ==
  ASSUME NEW s \in Services, NEW state
  PROVE  EventTasks(s, state) \subseteq Task /\ \A t \in EventTasks(s, state) : Owed(t) = {}
  BY DEF EventTasks, Task, Owed, Handled

(* The bound on outside events *)
LEMMA OutsideEventCounted ==
  ASSUME IInv, OutsideEvent
  PROVE  changes' \in 0 .. MaxChanges
  BY EnvironmentAssumption DEF OutsideEvent, IInv, TypeOK

(* The informer was idle, and a service changes. *)
LEMMA ServiceEventKeepsIInv ==
  ASSUME IInv, OutsideEvent, At(Informer, "idle"),
         svc' \in [Services -> Service \cup {NoObject}],
         tasks' \subseteq Task, \A t \in tasks' : Owed(t) \subseteq Admitted(t.s),
         NEW r, GoodThread(Informer, r), w' = [w EXCEPT ![Informer] = r],
         r.pc = "lookup" => svc'[r.s] # NoObject,
         UNCHANGED <<alloc, fresh, tables, avail, cloud, poolEvents, up, restarts>>
  PROVE  IInv'
<1>1. Informer \in Threads /\ Informer \notin fresh
  BY DEF Threads, IInv, FreshCopies, At
<1>2. lockedObjects' \subseteq Services /\ errorAllocations' \subseteq Services
  BY DEF tables, IInv, TypeOK
<1>3. fresh' \subseteq fresh \cup {Informer}
      /\ UNCHANGED <<alloc, avail, cloud, poolEvents, up, restarts>>
  OBVIOUS
<1>4. Informer \in fresh' => alloc[r.s] # NoObject /\ r.pc \notin {"idle", "isProcessing", "lookup"}
  BY <1>1
<1> QED
  BY <1>1, <1>2, <1>3, <1>4, OutsideEventCounted, MoveKeepsIInv

(* Services come, go and change. *)
LEMMA ServiceKeepsIInv ==
  ASSUME IInv, NEW s \in Services, ServiceAdded(s) \/ ServiceDeleted(s) \/ ServiceChanged(s)
  PROVE  IInv'
<1>0. /\ svc \in [Services -> Service \cup {NoObject}] /\ w \in [Threads -> Thread]
      /\ tasks \subseteq Task /\ \A t \in tasks : Owed(t) \subseteq Admitted(t.s)
      /\ w[Informer] \in Thread
  BY DEF IInv, TypeOK, Granted, Threads
<1>i. ASSUME At(Informer, "idle") PROVE GoodThread(Informer, w[Informer])
  BY <1>0, <1>i DEF At, GoodThread, IInv, Granted, Threads
<1>e. w = [w EXCEPT ![Informer] = w[Informer]]
  BY <1>0 DEF Threads
<1>1. CASE ServiceAdded(s)
  <2>1. PICK service \in [lb : {TRUE}, ips : ExternalIPs[s]] :
           /\ svc' = [svc EXCEPT ![s] = service]
           /\ tasks' = tasks \cup (IF up THEN CreateTask(s, service) ELSE {})
    BY <1>1 DEF ServiceAdded
  <2>2. service \in Service
    <3>1. ExternalIPs[s] \subseteq SUBSET Addresses
      BY ServiceAssumption
    <3> QED
      BY <3>1 DEF Service
  <2>3. svc' \in [Services -> Service \cup {NoObject}]
    BY <1>0, <2>1, <2>2
  <2>4. tasks' \subseteq Task /\ \A t \in tasks' : Owed(t) \subseteq Admitted(t.s)
    BY <1>0, <2>1, <2>2, CreateTaskType
  <2>5. OutsideEvent /\ At(Informer, "idle") /\ w' = w
        /\ UNCHANGED <<alloc, fresh, tables, avail, cloud, poolEvents, up, restarts>>
    BY <1>1 DEF ServiceAdded
  <2>6. w[Informer].pc # "lookup" /\ GoodThread(Informer, w[Informer])
    BY <1>i, <2>5 DEF At
  <2>7. PICK r : GoodThread(Informer, r) /\ w' = [w EXCEPT ![Informer] = r] /\ r.pc # "lookup"
    BY <1>e, <2>5, <2>6
  <2> QED
    BY <2>3, <2>4, <2>5, <2>7, ServiceEventKeepsIInv
<1>2. CASE ServiceDeleted(s)
  <2> DEFINE q == InformerRecord("deleted", "deleteAlloc", s, svc[s])
  <2>1. svc[s] \in Service /\ svc' \in [Services -> Service \cup {NoObject}]
    BY <1>0, <1>2 DEF ServiceDeleted
  <2>2. GoodThread(Informer, q) /\ q.pc # "lookup"
    BY <2>1, InformerThread
  <2>3. /\ OutsideEvent /\ At(Informer, "idle")
        /\ w' = w \/ w' = [w EXCEPT ![Informer] = q]
        /\ tasks' = tasks
        /\ UNCHANGED <<alloc, fresh, tables, avail, cloud, poolEvents, up, restarts>>
    BY <1>2 DEF ServiceDeleted, InformerStarts, InformerRecord, api
  <2> HIDE DEF q
  <2>4. w[Informer].pc # "lookup"
    BY <2>3 DEF At
  <2>5. PICK r : GoodThread(Informer, r) /\ w' = [w EXCEPT ![Informer] = r] /\ r.pc # "lookup"
    BY <1>e, <1>i, <2>2, <2>3, <2>4
  <2> QED
    BY <1>0, <2>1, <2>3, <2>5, ServiceEventKeepsIInv
<1>3. CASE ServiceChanged(s)
  <2>1. PICK service \in [lb : {TRUE} \cup (IF TypeChanges THEN {FALSE} ELSE {}),
                          ips : ExternalIPs[s]] :
           /\ svc' = [svc EXCEPT ![s] = service]
           /\ IF up THEN InformerStarts("changed", "lookup", s, service) ELSE UNCHANGED w
    BY <1>3 DEF ServiceChanged
  <2>2. service \in Service /\ service # NoObject
    <3>1. ExternalIPs[s] \subseteq SUBSET Addresses
      BY ServiceAssumption
    <3>2. service \in Service
      BY <3>1 DEF Service
    <3> QED
      BY <3>2, NoObjectAssumption
  <2> DEFINE q == InformerRecord("changed", "lookup", s, service)
  <2>3. GoodThread(Informer, q) /\ q.s = s
    BY <2>2, InformerThread
  <2>4. svc' \in [Services -> Service \cup {NoObject}] /\ svc'[s] # NoObject
    BY <1>0, <2>1, <2>2
  <2>5. w' = w \/ w' = [w EXCEPT ![Informer] = q]
    BY <2>1 DEF InformerStarts, InformerRecord
  <2>6. /\ OutsideEvent /\ At(Informer, "idle") /\ tasks' = tasks
        /\ UNCHANGED <<alloc, fresh, tables, avail, cloud, poolEvents, up, restarts>>
    BY <1>3 DEF ServiceChanged, api
  <2> HIDE DEF q
  <2>7. w[Informer].pc # "lookup"
    BY <2>6 DEF At
  <2>8. PICK r : /\ GoodThread(Informer, r) /\ w' = [w EXCEPT ![Informer] = r]
                 /\ r.pc = "lookup" => svc'[r.s] # NoObject
    BY <1>e, <1>i, <2>3, <2>4, <2>5, <2>6, <2>7
  <2> QED
    BY <1>0, <2>4, <2>6, <2>8, ServiceEventKeepsIInv
<1> QED
  BY <1>1, <1>2, <1>3

(* serviceChanged looks the allocation up. *)
LEMMA LookupKeepsIInv ==
  ASSUME IInv, LookupAllocation
  PROVE  IInv'
<1> DEFINE s == w[Informer].s
           q == [Copy(w[Informer]) EXCEPT !.pc = "isLocked"]
<1>0. /\ Informer \in Threads /\ w[Informer] \in Thread /\ s \in Services
      /\ Informer \notin fresh /\ w[Informer].kind = "changed" /\ svc[s] # NoObject
      /\ w[Informer].got \subseteq Admitted(s)
  BY DEF Threads, IInv, TypeOK, Thread, FreshCopies, Approach, Looking, Granted, LookupAllocation, At
<1>1. svc[s] \in Service
  BY <1>0 DEF IInv, TypeOK
<1>2. /\ \A t \in tasks : Owed(t) \subseteq Admitted(t.s)
      /\ tasks \subseteq Task
      /\ \A t \in CreateTask(s, svc[s]) : Owed(t) = {}
      /\ CreateTask(s, svc[s]) \subseteq Task
  BY <1>0, <1>1, CreateTaskType DEF IInv, TypeOK, Granted
<1>3. tasks' = tasks \/ tasks' = tasks \cup CreateTask(s, svc[s])
  BY DEF LookupAllocation
<1>4. tasks' \subseteq Task /\ \A t \in tasks' : Owed(t) \subseteq Admitted(t.s)
  BY <1>2, <1>3
<1>5. /\ svc' \in [Services -> Service \cup {NoObject}]
      /\ changes' \in 0 .. MaxChanges
      /\ UNCHANGED <<alloc, avail, cloud, poolEvents, up, restarts>>
      /\ lockedObjects' \subseteq Services /\ errorAllocations' \subseteq Services
  BY DEF LookupAllocation, environment, tables, IInv, TypeOK
<1>6. CASE w' = [w EXCEPT ![Informer] = Idle] /\ fresh' = fresh
  <2>1. Idle.pc # "lookup"
    BY IdleType
  <2> QED
    BY <1>0, <1>4, <1>5, <1>6, <2>1, IdleIsGood, MoveKeepsIInv
<1>7. CASE alloc[s] # NoObject /\ w' = [w EXCEPT ![Informer] = q] /\ fresh' = fresh \cup {Informer}
  <2>1. alloc[s].ips \in SUBSET Addresses /\ alloc[s].state \in States
    BY <1>0, <1>7 DEF IInv, TypeOK, IPAllocation
  <2>2. GoodThread(Informer, q) /\ q.s = s /\ q.pc = "isLocked"
    BY <1>0, <2>1 DEF GoodThread, Copy, Thread, Locations, Lockers
  <2> HIDE DEF q
  <2> QED
    BY <1>0, <1>4, <1>5, <1>7, <2>2, MoveKeepsIInv
<1> QED
  BY <1>6, <1>7, Zenon DEF LookupAllocation

(* The goroutine of serviceChanged takes over the informer's copies. *)
LEMMA SpawnKeepsIInv ==
  ASSUME IInv, NEW g \in Goroutines, SpawnReconcile(g)
  PROVE  IInv'
<1> DEFINE q == [w[Informer] EXCEPT !.kind = "reconcile", !.pc = "reconcile", !.got = {}]
           r == [w[Informer] EXCEPT !.pc = "return"]
<1>0. /\ g \in Threads /\ Informer \in Threads /\ g # Informer
      /\ w \in [Threads -> Thread] /\ w[Informer] \in Thread
  BY ThreadAssumption DEF Threads, IInv, TypeOK
<1>1. q \in Thread /\ q.s = w[Informer].s /\ q.got = {} /\ q.pc = "reconcile"
  BY <1>0 DEF Thread, Locations, Kinds
<1>2. /\ r \in Thread /\ r.s = w[Informer].s /\ r.got = w[Informer].got /\ r.pc = "return"
      /\ r.kind = w[Informer].kind
  BY <1>0 DEF Thread, Locations
<1>3. w' = [w EXCEPT ![g] = q, ![Informer] = r]
  BY <1>0 DEF SpawnReconcile
<1> HIDE DEF q, r
<1>4. /\ w' \in [Threads -> Thread] /\ w'[g] = q /\ w'[Informer] = r
      /\ \A h \in Threads : h # g /\ h # Informer => w'[h] = w[h]
  BY <1>0, <1>1, <1>2, <1>3
<1>5. /\ fresh' = IF Informer \in fresh THEN fresh \cup {g} ELSE fresh
      /\ UNCHANGED <<svc, alloc, tasks, lockedObjects, errorAllocations, avail, cloud, poolEvents,
                     up, changes, restarts>>
  BY DEF SpawnReconcile, environment, tables
<1>6. TypeOK'
  BY <1>0, <1>4, <1>5 DEF IInv, TypeOK
<1>7. FreshCopies'
  <2>1. g \notin fresh /\ fresh \subseteq Threads
    BY DEF SpawnReconcile, At, IInv, TypeOK, FreshCopies
  <2> QED
    BY <1>0, <1>1, <1>2, <1>4, <1>5, <2>1 DEF IInv, FreshCopies
<1>8. Approach' /\ Looking'
  BY <1>0, <1>1, <1>2, <1>4 DEF IInv, Approach, Looking
<1>9. Offered'
  BY <1>5 DEF IInv, Offered
<1>10. (\A h \in Threads : w[h].got \subseteq Admitted(w[h].s))'
  BY <1>0, <1>1, <1>2, <1>4 DEF IInv, Granted, Admitted
<1>11. OnlyAllowedPools' /\ (\A t \in tasks : Owed(t) \subseteq Admitted(t.s))'
  BY <1>5 DEF IInv, Granted, OnlyAllowedPools, Admitted, Owed
<1> QED
  BY <1>6, <1>7, <1>8, <1>9, <1>10, <1>11 DEF IInv, Granted

(* operatorNodeLost writes a status behind the back of every handler. *)
LEMMA NodeLostKeepsIInv ==
  ASSUME IInv, NEW s \in Services, OperatorNodeLost(s)
  PROVE  IInv'
<1>0. /\ alloc \in [Services -> IPAllocation \cup {NoObject}] /\ alloc[s] \in IPAllocation
      /\ alloc[s].ips \subseteq Admitted(s)
      /\ \A h \in Threads : w[h].s \in Services
      /\ fresh \subseteq Threads /\ tasks \subseteq Task
  BY DEF IInv, TypeOK, Thread, Granted, OnlyAllowedPools, OperatorNodeLost
<1> DEFINE obj == [alloc[s] EXCEPT !.state = "node_error"]
<1>1. obj \in IPAllocation /\ obj.ips = alloc[s].ips /\ obj # NoObject
  <2>1. obj \in IPAllocation /\ obj.ips = alloc[s].ips
    BY <1>0 DEF IPAllocation, States
  <2> HIDE DEF obj
  <2> QED
    BY <2>1, NoObjectAssumption
<1>2. alloc' = [alloc EXCEPT ![s] = obj]
  BY DEF OperatorNodeLost
<1> HIDE DEF obj
<1>3. /\ tasks' = tasks \cup EventTasks(s, "node_error") /\ fresh' = fresh \ OtherCopies(s)
      /\ UNCHANGED <<svc, w, lockedObjects, errorAllocations, avail, cloud, poolEvents, up, restarts>>
  BY DEF OperatorNodeLost, tables
<1>4. alloc' \in [Services -> IPAllocation \cup {NoObject}] /\ alloc'[s] = obj
      /\ \A t \in Services : t # s => alloc'[t] = alloc[t]
  BY <1>0, <1>1, <1>2
<1>5. tasks' \subseteq Task /\ (\A t \in tasks : Owed(t) \subseteq Admitted(t.s))'
  BY <1>0, <1>3, EventTasksType DEF IInv, Granted, Admitted, Owed
<1>6. changes' \in 0 .. MaxChanges
  BY OutsideEventCounted DEF OperatorNodeLost
<1>7. TypeOK'
  BY <1>3, <1>4, <1>5, <1>6 DEF IInv, TypeOK
<1>8. FreshCopies'
  BY <1>0, <1>3, <1>4 DEF IInv, FreshCopies, OtherCopies
<1>9. Approach' /\ Looking' /\ Offered'
  BY <1>3 DEF IInv, Approach, Looking, Offered
<1>10. OnlyAllowedPools'
  BY <1>0, <1>1, <1>4 DEF IInv, Granted, OnlyAllowedPools, Admitted
<1>11. (\A h \in Threads : w[h].got \subseteq Admitted(w[h].s))'
  BY <1>3 DEF IInv, Granted, Admitted
<1> QED
  BY <1>5, <1>7, <1>8, <1>9, <1>10, <1>11 DEF IInv, Granted

(* A pool that is added or computed again offers its own addresses. *)
LEMMA ReplacedOffers ==
  ASSUME TypeOK, Offered, NEW p \in Pools, NEW free \in SUBSET PoolAddresses[p],
         AddOrReplaceAvailability(p, free)
  PROVE  avail' \in [Pools -> SUBSET Addresses] /\ Offered'
<1> DEFINE entry == IF free # {} THEN free ELSE avail[p]
<1>1. entry \subseteq PoolAddresses[p] /\ entry \subseteq Addresses
  BY PoolAssumption DEF Offered
<1>2. avail' = [avail EXCEPT ![p] = entry]
  BY DEF AddOrReplaceAvailability
<1> HIDE DEF entry
<1> QED
  BY <1>1, <1>2 DEF TypeOK, Offered

(* Events of pools *)
LEMMA PoolEventKeepsIInv ==
  ASSUME IInv, NEW p \in Pools, AddPool(p) \/ PersistentPoolModified(p) \/ PoolUpdated(p)
  PROVE  IInv'
<1>1. UNCHANGED <<svc, alloc, tasks, w, fresh, lockedObjects, errorAllocations, cloud, up, changes,
                  restarts>>
  BY DEF AddPool, PersistentPoolModified, PoolUpdated, tables
<1>0. poolEvents' \subseteq {"added", "modified"} \X Pools
  <2>1. <<"modified", p>> \in {"added", "modified"} \X Pools
    OBVIOUS
  <2>2. poolEvents' \subseteq poolEvents \cup {<<"modified", p>>}
    BY DEF AddPool, PersistentPoolModified, PoolUpdated
  <2> QED
    BY <2>1, <2>2 DEF IInv, TypeOK
<1>2. avail' \in [Pools -> SUBSET Addresses] /\ Offered'
  <2>1. CASE PoolUpdated(p)
    BY <2>1 DEF PoolUpdated, IInv, TypeOK, Offered
  <2>2. CASE AddPool(p)
    BY <2>2, ReplacedOffers DEF AddPool, IInv
  <2>3. CASE PersistentPoolModified(p)
    BY <2>3, ReplacedOffers DEF PersistentPoolModified, IInv
  <2> QED
    BY <2>1, <2>2, <2>3
<1>3. TypeOK'
  BY <1>0, <1>1, <1>2 DEF IInv, TypeOK
<1>4. FreshCopies' /\ Approach' /\ Looking'
  BY <1>1 DEF IInv, FreshCopies, Approach, Looking
<1>5. Granted'
  BY <1>1 DEF IInv, Granted, OnlyAllowedPools, Admitted, Owed
<1> QED
  BY <1>2, <1>3, <1>4, <1>5 DEF IInv

(* A new leader *)
LEMMA RestartKeepsIInv ==
  ASSUME IInv, Restart
  PROVE  IInv'
<1>1. /\ UNCHANGED <<svc, alloc, w, fresh, lockedObjects, errorAllocations, cloud, changes,
                     avail, poolEvents>>
      /\ up' = TRUE /\ restarts' = restarts + 1 /\ restarts < MaxRestarts
  BY DEF Restart, WarmupIPAvailability, tables
<1>2. restarts' \in 0 .. MaxRestarts
  BY <1>1, EnvironmentAssumption DEF IInv, TypeOK
<1>4. avail' \in [Pools -> SUBSET Addresses] /\ Offered'
  BY <1>1, AvailableKept DEF IInv
<1>5. \A s \in Services : svc[s] # NoObject =>
         CreateTask(s, svc[s]) \subseteq Task /\ \A t \in CreateTask(s, svc[s]) : Owed(t) = {}
  BY CreateTaskType DEF IInv, TypeOK
<1> DEFINE A == UNION {CreateTask(s, svc[s]) : s \in {t \in Services : svc[t] # NoObject}}
           B == UNION {EventTasks(s, alloc[s].state) :
                         s \in {t \in Services : alloc[t] # NoObject}}
<1>a. tasks' = A \cup B
  BY DEF Restart
<1>b. \A u \in A : \E s \in Services : svc[s] # NoObject /\ u \in CreateTask(s, svc[s])
  OBVIOUS
<1>c. \A u \in B : \E s \in Services : u \in EventTasks(s, alloc[s].state)
  OBVIOUS
<1> HIDE DEF A, B
<1>6. \A t \in tasks' : t \in Task /\ Owed(t) = {}
  BY <1>5, <1>a, <1>b, <1>c, EventTasksType
<1>7. TypeOK'
  BY <1>1, <1>2, <1>4, <1>6 DEF IInv, TypeOK
<1>8. FreshCopies' /\ Approach' /\ Looking'
  BY <1>1 DEF IInv, FreshCopies, Approach, Looking
<1>9. (\A t \in tasks : Owed(t) \subseteq Admitted(t.s))'
  BY <1>6 DEF Owed
<1>10. Granted'
  BY <1>1, <1>9 DEF IInv, Granted, OnlyAllowedPools, Admitted
<1> QED
  BY <1>4, <1>7, <1>8, <1>10 DEF IInv

-----------------------------------------------------------------------------
(* The invariant holds *)

(* The first leader *)
LEMMA InitIInv ==
  ASSUME Init
  PROVE  IInv
<1>1. w \in [Threads -> Thread] /\ \A g \in Threads : w[g] = Idle
  BY IdleType DEF Init
<1>2. avail \in [Pools -> SUBSET Addresses] /\ Offered
  BY PoolAssumption DEF Init, Offered
<1>3. TypeOK
  BY <1>1, <1>2, EnvironmentAssumption DEF Init, TypeOK
<1>4. FreshCopies /\ Approach /\ Looking
  BY <1>1, IdleType DEF Init, FreshCopies, Approach, Looking, Threads
<1>5. Granted
  BY <1>1, IdleType DEF Init, Granted, OnlyAllowedPools
<1> QED
  BY <1>2, <1>3, <1>4, <1>5 DEF IInv

(* A step of a handler that has started *)
LEMMA HandlerStep ==
  ASSUME IInv, NEW g \in Threads, Book(g) \/ Reconciler(g) \/ Allocator(g) \/ Deallocator(g)
  PROVE  (Only(g) /\ Continues(g) /\ Effects(g)) \/ Dies(g)
<1>0. TypeOK /\ FreshCopies
  BY DEF IInv
<1>1. (Only(g) /\ Continues(g)) \/ Dies(g)
  BY <1>0, BookContinues, ReconcilerContinues, AllocatorContinues, DeallocatorContinues
<1>2. Effects(g) \/ Dies(g)
  BY BookEffects, ReconcilerEffects, AllocatorEffects, DeallocatorEffects
<1> QED
  BY <1>1, <1>2

(* What is not a step of a running handler keeps the invariant as well. *)
LEMMA OtherStepsKeepIInv ==
  ASSUME IInv, Environment \/ LookupAllocation \/ Restart
               \/ (\E g \in Goroutines, t \in tasks : Start(g, t))
               \/ (\E g \in Goroutines : SpawnReconcile(g))
               \/ (\E p \in Pools : AddPool(p) \/ PersistentPoolModified(p))
  PROVE  IInv'
<1>1. CASE Environment
  <2>1. CASE Crash
    <3>1. Die /\ alloc' = alloc /\ UNCHANGED <<svc, cloud, changes, restarts>>
      BY <2>1 DEF Crash
    <3>2. alloc' \in [Services -> IPAllocation \cup {NoObject}] /\ OnlyAllowedPools'
      BY <3>1 DEF IInv, TypeOK, Granted, OnlyAllowedPools, Admitted
    <3> QED
      BY <3>1, <3>2, DieKeepsIInv
  <2> QED
    BY <1>1, <2>1, ServiceKeepsIInv, NodeLostKeepsIInv, PoolEventKeepsIInv DEF Environment
<1> QED
  BY <1>1, LookupKeepsIInv, RestartKeepsIInv, StartKeepsIInv, SpawnKeepsIInv, PoolEventKeepsIInv

(* Every step keeps the invariant. *)
LEMMA NextKeepsIInv ==
  ASSUME IInv, [Next]_vars
  PROVE  IInv'
<1>1. CASE UNCHANGED vars
  BY <1>1 DEF vars, IInv, TypeOK, FreshCopies, Approach, Looking, Offered, Granted,
              OnlyAllowedPools, Admitted, Owed
<1>2. ASSUME NEW g \in Threads, Step(g) PROVE IInv'
  BY <1>2, LockKeepsIInv, HandlerStep, HandlerKeepsIInv, DiesKeepsIInv DEF Step
<1> QED
  BY <1>1, <1>2, OtherStepsKeepIInv, Zenon DEF Next, Controller

(* The invariant, for every value of the constants *)
LEMMA InvariantHolds == Spec => []IInv
<1>1. Init => IInv
  BY InitIInv
<1>2. IInv /\ [Next]_vars => IInv'
  BY NextKeepsIInv
<1> QED
  BY <1>1, <1>2, PTL DEF Spec

(* Whatever the services, pools, goroutines, faults and restarts, every      *)
(* table, object and local variable of the controller has its type: no       *)
(* handler reads a field of a missing object, except where the leader dies.  *)
THEOREM TypeCorrect == Spec => []TypeOK
<1>1. IInv => TypeOK
  BY DEF IInv
<1> QED
  BY <1>1, InvariantHolds, PTL

(* allowedNamespaces is honoured for good: no interleaving of bookings,      *)
(* patches, conflicts, crashes, restarts and pool events gives an allocation *)
(* an address of a pool that does not admit its service.                     *)
THEOREM AllowedPoolsOnly == Spec => []OnlyAllowedPools
<1>1. IInv => OnlyAllowedPools
  BY DEF IInv, Granted
<1> QED
  BY <1>1, InvariantHolds, PTL

-----------------------------------------------------------------------------
(* The entries of the lock and of the list of the retry loops have an owner *)

(* A thread that answers for an entry goes on doing so, unless the entry goes. *)
Answers(g) ==
    /\ HoldsLock(g) => \/ HoldsLock(g)' /\ w'[g].s = w[g].s
                       \/ w[g].s \notin lockedObjects'
    /\ Retrying(g) => \/ Retrying(g)' /\ w'[g].s = w[g].s
                      \/ w[g].s \notin errorAllocations'

Owners == NoLeakedLock /\ Retried

(* If they all do, a lock that was held is held ... *)
LEMMA AnswersKeepsLocked ==
  ASSUME Owners, \A g \in Threads : Answers(g), NEW s \in lockedObjects' \cap lockedObjects
  PROVE  \E g \in Threads : w'[g].s = s /\ HoldsLock(g)'
  BY DEF Owners, NoLeakedLock, Answers

(* ... and an entry that was retried is retried. *)
LEMMA AnswersKeepsRetried ==
  ASSUME Owners, \A g \in Threads : Answers(g), NEW s \in errorAllocations' \cap errorAllocations
  PROVE  \E g \in Goroutines : w'[g].s = s /\ Retrying(g)'
  BY DEF Owners, Retried, Answers, Threads

(* Steps that add no entry *)
LEMMA AnswersKeepsOwners ==
  ASSUME Owners, \A g \in Threads : Answers(g),
         lockedObjects' \subseteq lockedObjects, errorAllocations' \subseteq errorAllocations
  PROVE  Owners'
  BY AnswersKeepsLocked, AnswersKeepsRetried DEF Owners, NoLeakedLock, Retried

(* A thread that does not move still answers. *)
LEMMA UnmovedAnswers ==
  ASSUME NEW g \in Threads, w'[g] = w[g]
  PROVE  Answers(g)
  BY DEF Answers, HoldsLock, Retrying

(* One that is before the lock answers for nothing in it; the retry loop is  *)
(* entered after its entry is made.                                          *)
LEMMA OutsideAnswers ==
  ASSUME NEW g \in Threads, w[g].pc \in {"idle", "isProcessing", "addProcessing"}
  PROVE  Answers(g)
  BY DEF Answers, HoldsLock, Retrying

(* A handler at work keeps its lock and its entry. *)
LEMMA HandlerKeepsOwners ==
  ASSUME IInv, Owners, NEW g \in Threads, Only(g), Continues(g), Effects(g)
  PROVE  Owners'
<1>1. lockedObjects' = lockedObjects /\ errorAllocations' \subseteq errorAllocations
  BY DEF Effects, Unlists
<1>2. HoldsLock(g) => HoldsLock(g)' /\ w'[g].s = w[g].s
  BY DEF Continues, HoldsLock, Outside
<1>3. Retrying(g) => \/ Retrying(g)' /\ w'[g].s = w[g].s
                     \/ w[g].s \notin errorAllocations'
  BY DEF Continues, Effects, Unlists, Retrying, Outside
<1>4. Answers(g)
  BY <1>2, <1>3 DEF Answers
<1>5. \A h \in Threads : Answers(h)
  BY <1>4, UnmovedAnswers DEF Only
<1> QED
  BY <1>1, <1>5, AnswersKeepsOwners

(* The steps at the lock itself *)
LEMMA LockKeepsOwners ==
  ASSUME IInv, Owners, NEW g \in Threads, Lock(g)
  PROVE  Owners'
<1>0. w \in [Threads -> Thread] /\ w[g] \in Thread
  BY DEF IInv, TypeOK
<1>o. \A h \in Threads : h # g => w'[h] = w[h]
  BY <1>0 DEF Lock, IsErrorAllocationAlreadyProcessing, AddErrorAllocationToProcessingList,
              IsLocked, LockTimeout, AddToLock, Return, GiveUp, Goto
<1>h. \A h \in Threads : h # g => Answers(h)
  BY <1>o, UnmovedAnswers
<1>1. CASE IsErrorAllocationAlreadyProcessing(g)
  BY <1>1, <1>h, OutsideAnswers, AnswersKeepsOwners
     DEF IsErrorAllocationAlreadyProcessing, At, tables
<1>2. CASE AddErrorAllocationToProcessingList(g)
  <2>1. w[g].pc = "addProcessing" /\ w'[g] = [w[g] EXCEPT !.pc = "isLocked"]
        /\ lockedObjects' = lockedObjects /\ errorAllocations' = errorAllocations \cup {w[g].s}
    BY <1>0, <1>2 DEF AddErrorAllocationToProcessingList, At, Goto
  <2>2. w[g].kind = "error" /\ g \in Goroutines
    BY <2>1 DEF IInv, Approach
  <2>3. Retrying(g)' /\ w'[g].s = w[g].s
    BY <1>0, <2>1, <2>2 DEF Retrying, Thread
  <2>4. \A h \in Threads : Answers(h)
    BY <1>h, <2>1, OutsideAnswers
  <2> QED
    BY <2>1, <2>2, <2>3, <2>4, AnswersKeepsLocked, AnswersKeepsRetried
       DEF Owners, NoLeakedLock, Retried
<1>3. CASE IsLocked(g)
  <2>1. w[g].pc = "isLocked" /\ w'[g] = [w[g] EXCEPT !.pc = "addToLock"]
        /\ lockedObjects' = lockedObjects /\ errorAllocations' = errorAllocations
    BY <1>0, <1>3 DEF IsLocked, At, Goto, tables
  <2>2. Answers(g)
    BY <1>0, <2>1 DEF Answers, HoldsLock, Retrying, Thread
  <2> QED
    BY <1>h, <2>1, <2>2, AnswersKeepsOwners
<1>4. CASE LockTimeout(g)
  <2>1. w[g].pc = "isLocked"
        /\ (w[g].kind = "error" => w'[g] = [w[g] EXCEPT !.pc = "giveUp"])
        /\ lockedObjects' = lockedObjects /\ errorAllocations' = errorAllocations
    BY <1>0, <1>4 DEF LockTimeout, At, Goto, tables
  <2>2. Answers(g)
    BY <1>0, <2>1 DEF Answers, HoldsLock, Retrying, Thread
  <2> QED
    BY <1>h, <2>1, <2>2, AnswersKeepsOwners
<1>5. CASE AddToLock(g)
  <2> DEFINE l == CASE w[g].kind = "delete" -> "dealloc"
                    [] w[g].kind = "changed" -> "spawn"
                    [] OTHER -> "get"
  <2>1. w[g].pc = "addToLock" /\ w'[g] = [w[g] EXCEPT !.pc = l]
        /\ lockedObjects' = lockedObjects \cup {w[g].s} /\ errorAllocations' = errorAllocations
    BY <1>0, <1>5 DEF AddToLock, At, Goto
  <2>2. l \in {"dealloc", "spawn", "get"} /\ (w[g].kind = "error" => l = "get")
    OBVIOUS
  <2> HIDE DEF l
  <2>3. w[g].kind \in Lockers
    BY <2>1 DEF IInv, Approach
  <2>4. w'[g].s = w[g].s /\ w'[g].kind = w[g].kind /\ w'[g].pc = l
    BY <1>0, <2>1 DEF Thread
  <2>5. HoldsLock(g)' /\ ~HoldsLock(g)
    BY <2>1, <2>2, <2>3, <2>4 DEF HoldsLock
  <2>6. Retrying(g) => Retrying(g)'
    BY <2>2, <2>4 DEF Retrying
  <2>7. \A h \in Threads : Answers(h)
    BY <1>h, <2>4, <2>5, <2>6 DEF Answers
  <2> QED
    BY <2>1, <2>4, <2>5, <2>7, AnswersKeepsLocked, AnswersKeepsRetried
       DEF Owners, NoLeakedLock, Retried
<1>6. CASE Return(g)
  <2>1. /\ w[g].pc = "return" /\ errorAllocations' = errorAllocations
        /\ lockedObjects' \subseteq lockedObjects
        /\ w[g].kind \in Lockers => w[g].s \notin lockedObjects'
    BY <1>6 DEF Return, At
  <2>2. ASSUME Retrying(g) PROVE Retrying(g)' /\ w'[g].s = w[g].s
    <3>1. w[g].kind = "error" /\ w[g].result # ""
      BY <2>1, <2>2 DEF Retrying
    <3>2. PICK l \in {"isLocked", "giveUp"} :
             w' = [w EXCEPT ![g] = [Idle EXCEPT !.kind = "error", !.s = w[g].s, !.pc = l]]
      BY <1>6, <3>1 DEF Return
    <3>3. w'[g].kind = "error" /\ w'[g].s = w[g].s /\ w'[g].pc = l
      BY <1>0, <3>2, IdleType DEF Thread
    <3> QED
      BY <3>3 DEF Retrying
  <2>3. Answers(g)
    BY <2>1, <2>2 DEF Answers, HoldsLock
  <2> QED
    BY <1>h, <2>1, <2>3, AnswersKeepsOwners
<1>7. CASE GiveUp(g)
  <2>1. /\ w[g].pc = "giveUp" /\ errorAllocations' = errorAllocations \ {w[g].s}
        /\ lockedObjects' = lockedObjects
    BY <1>7 DEF GiveUp, At
  <2>2. Answers(g)
    BY <2>1 DEF Answers, HoldsLock
  <2> QED
    BY <1>h, <2>1, <2>2, AnswersKeepsOwners
<1> QED
  BY <1>1, <1>2, <1>3, <1>4, <1>5, <1>6, <1>7 DEF Lock

(* Death leaves no entry, and whoever starts answered for nothing. *)
LEMMA OtherStepsKeepOwners ==
  ASSUME IInv, Owners, Environment \/ LookupAllocation \/ Restart
               \/ (\E g \in Goroutines, t \in tasks : Start(g, t))
               \/ (\E g \in Goroutines : SpawnReconcile(g))
               \/ (\E p \in Pools : AddPool(p) \/ PersistentPoolModified(p))
  PROVE  Owners'
<1>0. w \in [Threads -> Thread] /\ Informer \in Threads /\ Goroutines \subseteq Threads
  BY DEF IInv, TypeOK, Threads
<1>1. CASE Crash
  BY <1>1 DEF Crash, Die, Owners, NoLeakedLock, Retried
<1>2. ASSUME UNCHANGED tables, NEW g \in Threads,
             w[g].pc \in {"idle", "isProcessing", "addProcessing"},
             \A h \in Threads : h # g => w'[h] = w[h]
      PROVE  Owners'
  BY <1>2, OutsideAnswers, UnmovedAnswers, AnswersKeepsOwners DEF tables
<1>3. ASSUME NEW s \in Services, ServiceAdded(s) \/ ServiceDeleted(s) \/ ServiceChanged(s)
      PROVE  Owners'
  BY <1>0, <1>2, <1>3 DEF ServiceAdded, ServiceDeleted, ServiceChanged, At, InformerStarts
<1>4. ASSUME UNCHANGED <<w, tables>> PROVE Owners'
  BY <1>4, UnmovedAnswers, AnswersKeepsOwners DEF tables
<1>5. CASE LookupAllocation
  <2>1. w[Informer].pc = "lookup" /\ w[Informer].kind = "changed" /\ UNCHANGED tables
        /\ \A h \in Threads : h # Informer => w'[h] = w[h]
    BY <1>0, <1>5 DEF LookupAllocation, At, IInv, Approach
  <2>2. Answers(Informer)
    BY <2>1 DEF Answers, HoldsLock, Retrying
  <2> QED
    BY <2>1, <2>2, UnmovedAnswers, AnswersKeepsOwners DEF tables
<1>6. ASSUME NEW g \in Goroutines, NEW t \in tasks, Start(g, t) PROVE Owners'
  BY <1>0, <1>2, <1>6 DEF Start, At
<1>7. ASSUME NEW g \in Goroutines, SpawnReconcile(g) PROVE Owners'
  <2>1. /\ w[g].pc = "idle" /\ w[Informer].pc = "spawn" /\ UNCHANGED tables /\ g # Informer
        /\ \A h \in Threads : h # g /\ h # Informer => w'[h] = w[h]
    BY <1>0, <1>7, ThreadAssumption DEF SpawnReconcile, At
  <2>2. w'[Informer] = [w[Informer] EXCEPT !.pc = "return"]
    BY <1>0, <1>7, <2>1 DEF SpawnReconcile
  <2>3. Answers(Informer)
    BY <1>0, <2>1, <2>2 DEF Answers, HoldsLock, Retrying, Thread
  <2>4. Answers(g)
    BY <1>0, <2>1, OutsideAnswers
  <2> QED
    BY <2>1, <2>3, <2>4, UnmovedAnswers, AnswersKeepsOwners DEF tables
<1>8. ASSUME NEW s \in Services, OperatorNodeLost(s) PROVE Owners'
  BY <1>4, <1>8 DEF OperatorNodeLost
<1>9. ASSUME NEW p \in Pools, PoolUpdated(p) \/ AddPool(p) \/ PersistentPoolModified(p)
      PROVE  Owners'
  BY <1>4, <1>9 DEF PoolUpdated, AddPool, PersistentPoolModified
<1>10. CASE Restart
  BY <1>4, <1>10 DEF Restart
<1> QED
  BY <1>1, <1>3, <1>5, <1>6, <1>7, <1>8, <1>9, <1>10 DEF Environment

(* Every entry has an owner. *)
LEMMA OwnersHold == Spec => []Owners
<1>1. Init => Owners
  BY DEF Init, Owners, NoLeakedLock, Retried
<1>2. IInv /\ Owners /\ [Next]_vars => Owners'
  <2> SUFFICES ASSUME IInv, Owners, [Next]_vars PROVE Owners'
    OBVIOUS
  <2>1. CASE UNCHANGED vars
    BY <2>1, UnmovedAnswers, AnswersKeepsOwners DEF vars
  <2>2. ASSUME NEW g \in Threads, Dies(g) PROVE Owners'
    BY <2>2 DEF Dies, Die, Owners, NoLeakedLock, Retried
  <2>3. ASSUME NEW g \in Threads, Step(g) PROVE Owners'
    BY <2>2, <2>3, LockKeepsOwners, HandlerStep, HandlerKeepsOwners DEF Step
  <2> QED
    BY <2>1, <2>3, OtherStepsKeepOwners, Zenon DEF Next, Controller
<1> QED
  BY <1>1, <1>2, InvariantHolds, PTL DEF Spec

(* AcquireAllocationLock and the deferred RemoveFromLock: an allocation is   *)
(* never locked without a thread on its way to unlock it, on any path, with  *)
(* faults, panics and restarts, and although two threads may hold the lock.  *)
THEOREM LockIsNotLeaked == Spec => []NoLeakedLock
<1>1. Owners => NoLeakedLock
  BY DEF Owners
<1> QED
  BY <1>1, OwnersHold, PTL

(* processAllocationStatusError: an allocation is never left in the list of  *)
(* the retry loops without a goroutine that retries it.                      *)
THEOREM ErrorEntryIsNotStuck == Spec => []NoStuckErrorEntry
<1>1. Owners => NoStuckErrorEntry
  BY DEF Owners, Retried, Retrying, NoStuckErrorEntry
<1> QED
  BY <1>1, OwnersHold, PTL
=============================================================================
