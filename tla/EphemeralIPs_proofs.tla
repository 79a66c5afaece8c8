-------------------------- MODULE EphemeralIPs_proofs --------------------------
(***************************************************************************)
(* Proofs about EphemeralIPs: for any services, goroutines and addresses,  *)
(* any faults, crashes and changes, an address that is paid for is in one  *)
(* place (an object, the hands of a goroutine, an unhandled deletion) or   *)
(* was given up, and an object only has addresses that are its own.        *)
(*                                                                         *)
(* The argument follows one address at a time (Single).  What makes it go  *)
(* through is that a goroutine with an address in its hands is at one of   *)
(* three places (Sound), and that a copy with the current resourceVersion  *)
(* shows the address that its write is going to keep or, when the address  *)
(* is new, that there is none to be overwritten (Current).  A leader that  *)
(* starts finds nothing under way (Down).                                  *)
(*                                                                         *)
(* The lemmas on quiet steps cover the actions that move no address; the   *)
(* actions that move one have a lemma each, per place it leaves and enters.*)
(***************************************************************************)
EXTENDS EphemeralIPs, TLAPS

(* The address of the object, if there is one. *)
Has(s) == IF alloc[s] = NoObject THEN {} ELSE alloc[s].addr

(* Only a deletion owes an address. *)
Owing == \A t \in tasks : t.addr # {} => t.kind = "delete"

Sound(r) ==
    /\ r.got # {} => r.pc \in {"create", "update", "dealloc"}
    /\ r.pc = "create" => r.obj.addr = r.got
    /\ r.pc = "update" /\ r.got # {} => r.obj.addr = r.got

Sounds == \A g \in Goroutines : Sound(w[g])

(* The places where a goroutine may have a current copy *)
Copying ==
    {"findService", "reconcile", "deleteOther", "patch", "update", "setStatus", "ensureFind",
     "place", "setSuccess", "ingress", "deleteAlloc", "changeNode"}

Current(r, obj) ==
    /\ r.pc \in Copying
    /\ obj # NoObject
    /\ IF r.got = {} THEN r.obj.addr = obj.addr ELSE obj.addr = {}

CurrentCopies == \A g \in fresh : Current(w[g], alloc[w[g].s])

InObject(a) == \E s \in Services : a \in Has(s)
InHands(a) == \E g \in Goroutines : a \in w[g].got
IsOwed(a) == \E t \in tasks : a \in t.addr

(* The address is in one place at most, is paid for while it is there, and   *)
(* is there, or given up, while it is paid for.                              *)
Single(a) ==
    /\ \A s, t \in Services : a \in Has(s) /\ a \in Has(t) => s = t
    /\ \A g, h \in Goroutines : a \in w[g].got /\ a \in w[h].got => g = h
    /\ \A t, u \in tasks : a \in t.addr /\ a \in u.addr => t = u
    /\ ~(InObject(a) /\ InHands(a)) /\ ~(InObject(a) /\ IsOwed(a)) /\ ~(InHands(a) /\ IsOwed(a))
    /\ InObject(a) \/ InHands(a) \/ IsOwed(a) => a \in cloud /\ a \notin orphans
    /\ a \in cloud => a \in orphans \/ InObject(a) \/ InHands(a) \/ IsOwed(a)
    /\ a \in orphans => a \in cloud

Books == \A a \in Addresses : Single(a)

(* TypeOK, for the variables that the argument is about and for the others *)
Core ==
    /\ alloc \in [Services -> IPAllocation \cup {NoObject}]
    /\ tasks \subseteq Task
    /\ w \in [Goroutines -> Thread]
    /\ fresh \subseteq Goroutines
    /\ cloud \subseteq Addresses /\ orphans \subseteq Addresses

Rest ==
    /\ svc \in [Services -> {"none", "lb", "other"}]
    /\ ingress \in [Services -> SUBSET Addresses]
    /\ pool \in {"absent", "unlisted", "listed"}
    /\ removing \subseteq Services
    /\ up \in BOOLEAN
    /\ changes \in 0 .. MaxChanges /\ faults \in 0 .. MaxFaults /\ restarts \in 0 .. MaxRestarts

(* Nothing is under way while there is no leader. *)
Down == ~up => tasks = {} /\ removing = {} /\ \A g \in Goroutines : At(g, "idle")

Inv == Core /\ Owing /\ Sounds /\ CurrentCopies /\ Books
IInv == Inv /\ Rest /\ Down

-----------------------------------------------------------------------------
(* What a step may do without touching the books *)

QuietTasks ==
    /\ tasks' \subseteq Task
    /\ \A t \in tasks' : t \in tasks \/ t.addr = {}
    /\ \A t \in tasks : t \in tasks' \/ t.addr = {}

Keeps ==
    /\ alloc' \in [Services -> IPAllocation \cup {NoObject}]
    /\ \A s \in Services : Has(s)' = Has(s)
    /\ QuietTasks

(* Only g has a new copy; the others' objects are unchanged. *)
FreshKept(g) ==
    /\ fresh' \subseteq Goroutines
    /\ \A h \in fresh' : h = g \/ (h \in fresh /\ alloc'[w[h].s] = alloc[w[h].s])

(* Idle is a goroutine. *)
LEMMA IdleType == Idle \in Thread /\ Sound(Idle)
<1>1. (CHOOSE s \in Services : TRUE) \in Services
  BY BoundsAssumption
<1> QED
  BY <1>1 DEF Idle, Thread, Kinds, Handled, Locations, Blank, IPAllocation, States, Sound

(* The first states are consistent. *)
LEMMA InitIInv == Init => IInv
<1> SUFFICES ASSUME Init PROVE IInv
  OBVIOUS
<1>1. Core /\ Rest
  BY IdleType, BoundsAssumption DEF Init, Core, Rest
<1>2. Owing /\ Sounds /\ CurrentCopies
  BY IdleType DEF Init, Owing, Sounds, CurrentCopies
<1>3. Books
  BY DEF Init, Books, Single, InObject, InHands, IsOwed, Has, Idle
<1> QED
  BY <1>1, <1>2, <1>3 DEF IInv, Inv, Down, Init

(* No address changes its place. *)
LEMMA QuietBooks ==
    ASSUME Books, \A s \in Services : Has(s)' = Has(s), QuietTasks,
           \A h \in Goroutines : w'[h].got = w[h].got, UNCHANGED money
    PROVE  Books'
<1> SUFFICES ASSUME NEW a \in Addresses PROVE Single(a)'
  BY DEF Books
<1>1. Single(a)
  BY DEF Books
<1>2. InObject(a)' <=> InObject(a)
  BY DEF InObject
<1>3. InHands(a)' <=> InHands(a)
  BY DEF InHands
<1>4. IsOwed(a)' <=> IsOwed(a)
  BY DEF IsOwed, QuietTasks
<1>5. \A t, u \in tasks' : a \in t.addr /\ a \in u.addr => t = u
  BY <1>1 DEF Single, QuietTasks
<1> QED
  BY <1>1, <1>2, <1>3, <1>4, <1>5 DEF Single, money

(* The thread g goes on as r, the others are where they were. *)
LEMMA Moved ==
    ASSUME Core, Sounds, NEW g \in Goroutines, NEW r \in Thread, Sound(r), w' = [w EXCEPT ![g] = r]
    PROVE  /\ w' \in [Goroutines -> Thread]
           /\ w'[g] = r
           /\ \A h \in Goroutines : h # g => w'[h] = w[h]
           /\ Sounds'
BY DEF Core, Sounds

(* Copies that are still current *)
LEMMA StillCurrent ==
    ASSUME Inv, NEW g \in Goroutines, NEW r \in Thread, w' = [w EXCEPT ![g] = r],
           FreshKept(g), g \in fresh' => Current(r, alloc'[r.s])
    PROVE  CurrentCopies'
<1> SUFFICES ASSUME NEW h \in fresh' PROVE Current(w'[h], alloc'[w'[h].s])
  BY DEF CurrentCopies
<1>1. CASE h = g
  BY <1>1 DEF Inv, Core
<1>2. CASE h # g
  <2>1. w'[h] = w[h] /\ h \in fresh /\ alloc'[w[h].s] = alloc[w[h].s]
    BY <1>2 DEF FreshKept, Inv, Core
  <2> QED
    BY <2>1 DEF Inv, CurrentCopies
<1> QED
  BY <1>1, <1>2

(* A step of a thread that has no address in its hands, before or after *)
LEMMA QuietThread ==
    ASSUME Inv, NEW g \in Goroutines, NEW r \in Thread, Sound(r), w' = [w EXCEPT ![g] = r],
           w[g].got = {}, r.got = {}, Keeps, UNCHANGED money,
           FreshKept(g), g \in fresh' => Current(r, alloc'[r.s])
    PROVE  Inv'
<1>1. /\ w' \in [Goroutines -> Thread]
      /\ \A h \in Goroutines : w'[h].got = w[h].got
      /\ Sounds'
  BY Moved DEF Inv
<1>2. Books'
  BY <1>1, QuietBooks DEF Inv, Keeps
<1>3. CurrentCopies'
  BY StillCurrent
<1>4. Core'
  BY <1>1 DEF Inv, Core, Keeps, QuietTasks, FreshKept, money
<1>5. Owing'
  BY DEF Inv, Owing, Keeps, QuietTasks
<1> QED
  BY <1>1, <1>2, <1>3, <1>4, <1>5 DEF Inv

(* A step of nobody *)
LEMMA QuietOutside ==
    ASSUME Inv, UNCHANGED w, Keeps, UNCHANGED money, fresh' \subseteq fresh,
           \A h \in fresh' : alloc'[w[h].s] = alloc[w[h].s]
    PROVE  Inv'
<1>1. Books'
  BY QuietBooks DEF Inv, Keeps
<1>2. CurrentCopies'
  BY DEF Inv, CurrentCopies
<1>3. Core'
  BY DEF Inv, Core, Keeps, QuietTasks, money
<1>4. Owing' /\ Sounds'
  BY DEF Inv, Owing, Sounds, Keeps, QuietTasks
<1> QED
  BY <1>1, <1>2, <1>3, <1>4 DEF Inv

(* Nothing is written. *)
LEMMA NoWrite ==
    ASSUME Inv, UNCHANGED <<alloc, tasks>>
    PROVE  Keeps
BY DEF Inv, Core, Keeps, QuietTasks, Has

(* Events owe nothing. *)
LEMMA EventTypes ==
    ASSUME NEW s \in Services
    PROVE  /\ \A k \in Kinds : Event(k, s) \subseteq Task /\ \A t \in Event(k, s) : t.addr = {}
           /\ \A state \in States :
                 EventTasks(s, state) \subseteq Task /\ \A t \in EventTasks(s, state) : t.addr = {}
BY DEF Event, EventTasks, Task, Kinds, Handled, States

(* A write that keeps the address of the object *)
LEMMA QuietWrite ==
    ASSUME Inv, NEW s \in Services, NEW obj \in IPAllocation, NEW writers,
           alloc[s] # NoObject, obj.addr = alloc[s].addr, Write(s, obj, writers)
    PROVE  Keeps
<1>1. EventTasks(s, obj.state) \subseteq Task /\ \A t \in EventTasks(s, obj.state) : t.addr = {}
  BY EventTypes DEF IPAllocation
<1>2. QuietTasks
  BY <1>1 DEF Write, QuietTasks, Inv, Core
<1>3. alloc' \in [Services -> IPAllocation \cup {NoObject}]
  BY DEF Write, Inv, Core
<1>4. \A t \in Services : Has(t)' = Has(t)
  BY NoObjectAssumption DEF Write, Has, Inv, Core
<1> QED
  BY <1>2, <1>3, <1>4 DEF Keeps

(* Whoever has a copy of the object has an old one now. *)
LEMMA WriteFresh ==
    ASSUME Inv, NEW s \in Services, NEW obj, NEW g \in Goroutines, NEW writers \in SUBSET {g},
           Write(s, obj, writers)
    PROVE  FreshKept(g)
BY DEF Write, FreshKept, Copies, Inv, Core

(* The handler has left, or is before its next attempt. *)
LEMMA LeaveType ==
    ASSUME Inv, NEW g \in Goroutines, Leave(g)
    PROVE  \E r \in Thread : /\ Sound(r) /\ r.got = {} /\ w' = [w EXCEPT ![g] = r]
                             /\ r.pc \notin Copying
<1> DEFINE Again(l) == [Idle EXCEPT !.kind = "error", !.s = w[g].s, !.pc = l]
<1>1. w[g].s \in Services
  BY DEF Inv, Core, Thread
<1>2. \A l \in {"get", "getFailed"} :
         Again(l) \in Thread /\ Sound(Again(l)) /\ Again(l).got = {} /\ Again(l).pc = l
  BY ZenonT(60), <1>1, IdleType DEF Thread, Kinds, Handled, Locations, Sound, Idle
<1>3. Idle.got = {} /\ Idle.pc = "idle"
  BY DEF Idle
<1>4. PICK l \in {"get", "getFailed", "idle"} : w' = [w EXCEPT ![g] = IF l = "idle" THEN Idle ELSE Again(l)]
  BY DEF Leave, Set
<1> HIDE DEF Again
<1> QED
  BY <1>2, <1>3, <1>4, IdleType DEF Copying

(* A handler that has no address in its hands leaves. *)
LEMMA QuietLeave ==
    ASSUME Inv, NEW g \in Goroutines, Leave(g), w[g].got = {}, Keeps, UNCHANGED money,
           FreshKept(g), g \notin fresh'
    PROVE  Inv'
<1>1. PICK r \in Thread : Sound(r) /\ r.got = {} /\ w' = [w EXCEPT ![g] = r]
  BY LeaveType
<1> QED
  BY <1>1, QuietThread

(* A handler returns without having written anything to an allocation. *)
LEMMA QuietEnd ==
    ASSUME Inv, NEW g \in Goroutines, End(g), w[g].got = {}, Keeps, UNCHANGED <<alloc, money>>
    PROVE  Inv'
<1>1. FreshKept(g) /\ g \notin fresh'
  BY DEF End, FreshKept, Inv, Core
<1>2. UNCHANGED money
  OBVIOUS
<1> QED
  BY <1>1, <1>2, QuietLeave DEF End

(* It goes on with the copies it has. *)
LEMMA QuietGoto ==
    ASSUME Inv, NEW g \in Goroutines, NEW l \in Locations \ {"create", "update"}, Goto(g, l),
           w[g].got = {}, Keeps, UNCHANGED money, FreshKept(g),
           g \in fresh' => g \in fresh /\ l \in Copying /\ alloc'[w[g].s] = alloc[w[g].s]
    PROVE  Inv'
<1> DEFINE r == [w[g] EXCEPT !.pc = l]
<1>1. w[g] \in Thread
  BY DEF Inv, Core
<1>2. r \in Thread /\ Sound(r) /\ r.got = {} /\ r.pc = l /\ r.s = w[g].s /\ r.obj = w[g].obj
  BY <1>1 DEF Thread, Sound
<1>3. w' = [w EXCEPT ![g] = r]
  BY DEF Goto, Set
<1> HIDE DEF r
<1>4. g \in fresh' => Current(r, alloc'[r.s])
  BY <1>2 DEF Inv, CurrentCopies, Current
<1> QED
  BY <1>2, <1>3, <1>4, QuietThread

(* It goes on with a current copy, or with none. *)
LEMMA QuietSet ==
    ASSUME Inv, NEW g \in Goroutines, NEW r \in Thread, Set(g, r),
           r.pc \notin {"create", "update"}, w[g].got = {}, r.got = {}, Keeps, UNCHANGED money,
           FreshKept(g), g \in fresh' => Current(r, alloc'[r.s])
    PROVE  Inv'
<1>1. Sound(r)
  BY DEF Sound
<1> QED
  BY <1>1, QuietThread DEF Set

(* Away from three places nobody has an address in his hands. *)
LEMMA EmptyHands ==
    ASSUME Inv, NEW g \in Goroutines, w[g].pc \notin {"create", "update", "dealloc"}
    PROVE  w[g].got = {}
BY DEF Inv, Sounds, Sound

(* Without a write the copies of the others stay current. *)
LEMMA FreshOther ==
    ASSUME Inv, NEW g \in Goroutines, UNCHANGED alloc, fresh' \subseteq fresh \cup {g}
    PROVE  FreshKept(g)
BY DEF FreshKept, Inv, Core

(* Who is not at a place for copies has no current one. *)
LEMMA NoCopy ==
    ASSUME Inv, NEW g \in Goroutines, w[g].pc \notin Copying
    PROVE  g \notin fresh
BY DEF Inv, CurrentCopies, Current

-----------------------------------------------------------------------------
(* Steps of the goroutines that leave every address where it is *)

(* LookupAllocation keeps the books. *)
LEMMA LookupStep ==
    ASSUME Inv, Rest, NEW g \in Goroutines, LookupAllocation(g)
    PROVE  Inv'
<1> DEFINE s == w[g].s
           r == [w[g] EXCEPT !.pc = "reconcile", !.obj = alloc[s], !.lb = svc[s] = "lb",
                             !.ing = ingress[s]]
<1>1. w[g].pc = "lookup" /\ w[g] \in Thread /\ s \in Services
  BY DEF LookupAllocation, At, Inv, Core, Thread
<1>2. w[g].got = {} /\ g \notin fresh
  BY <1>1, EmptyHands, NoCopy DEF Copying
<1>3. Keeps /\ UNCHANGED money /\ UNCHANGED alloc
  BY NoWrite DEF LookupAllocation
<1>4. CASE alloc[s] # NoObject /\ Set(g, r) /\ fresh' = fresh \cup {g}
  <2>1. /\ r \in Thread /\ r.pc = "reconcile" /\ r.got = {}
        /\ r.obj = alloc[s] /\ r.s = s
    BY <1>1, <1>2, <1>4 DEF Thread, Locations, Inv, Core, Rest
  <2>2. FreshKept(g)
    BY <1>3, <1>4, FreshOther
  <2>3. Current(r, alloc'[r.s])
    BY <1>3, <1>4, <2>1 DEF Current, Copying
  <2> HIDE DEF r
  <2> QED
    BY <1>2, <1>3, <1>4, <2>1, <2>2, <2>3, QuietSet
<1>5. CASE Goto(g, "find") /\ UNCHANGED fresh
  BY <1>2, <1>3, <1>5, FreshOther, QuietGoto DEF Locations
<1>6. CASE End(g)
  BY <1>2, <1>3, <1>6, QuietEnd
<1> QED
  BY <1>4, <1>5, <1>6 DEF LookupAllocation

(* FindAllocation keeps the books. *)
LEMMA FindAllocationStep ==
    ASSUME Inv, NEW g \in Goroutines, FindAllocation(g)
    PROVE  Inv'
<1>1. w[g].pc = "find"
  BY DEF FindAllocation, At
<1>2. w[g].got = {} /\ g \notin fresh
  BY <1>1, EmptyHands, NoCopy DEF Copying
<1>3. Keeps /\ UNCHANGED money /\ UNCHANGED alloc
  BY NoWrite DEF FindAllocation
<1>4. CASE Goto(g, "build") /\ UNCHANGED fresh
  BY <1>2, <1>3, <1>4, FreshOther, QuietGoto DEF Locations
<1>5. CASE End(g)
  BY <1>2, <1>3, <1>5, QuietEnd
<1> QED
  BY <1>4, <1>5 DEF FindAllocation

(* A status is written with a current copy. *)
LEMMA StatusKeeps ==
    ASSUME Inv, NEW g \in Goroutines, WriteStatus(g)
    PROVE  Keeps /\ FreshKept(g) /\ g \notin fresh'
<1> DEFINE s == w[g].s
           obj == [alloc[s] EXCEPT !.state = w[g].result]
<1>1. s \in Services /\ w[g].result \in States /\ alloc[s] # NoObject
  BY DEF WriteStatus, Inv, Core, Thread, CurrentCopies, Current
<1>2. obj \in IPAllocation /\ obj.addr = alloc[s].addr
  BY <1>1 DEF IPAllocation, Inv, Core
<1>3. Write(s, obj, {})
  BY DEF WriteStatus
<1> HIDE DEF obj
<1>4. Keeps
  BY <1>1, <1>2, <1>3, QuietWrite
<1>5. FreshKept(g)
  BY <1>1, <1>3, WriteFresh
<1>6. g \notin fresh'
  BY <1>3 DEF Write, Copies
<1> QED
  BY <1>4, <1>5, <1>6

(* SetStatus keeps the books. *)
LEMMA SetStatusStep ==
    ASSUME Inv, NEW g \in Goroutines, SetStatus(g)
    PROVE  Inv'
<1>1. w[g].got = {}
  BY EmptyHands DEF SetStatus, At
<1>2. CASE WriteStatus(g) /\ Leave(g)
  BY <1>1, <1>2, StatusKeeps, QuietLeave DEF SetStatus
<1>3. CASE End(g) /\ UNCHANGED <<alloc, tasks>>
  BY <1>1, <1>3, NoWrite, QuietEnd DEF SetStatus
<1> QED
  BY <1>2, <1>3 DEF SetStatus

(* SetAllocationStatusSuccess keeps the books. *)
LEMMA SuccessStep ==
    ASSUME Inv, NEW g \in Goroutines, SetAllocationStatusSuccess(g)
    PROVE  Inv'
<1>1. w[g].got = {}
  BY EmptyHands DEF SetAllocationStatusSuccess, At
<1>2. CASE WriteStatus(g) /\ Goto(g, "ingress")
  BY <1>1, <1>2, StatusKeeps, QuietGoto DEF SetAllocationStatusSuccess, Locations
<1>3. CASE End(g) /\ UNCHANGED <<alloc, tasks>>
  BY <1>1, <1>3, NoWrite, QuietEnd DEF SetAllocationStatusSuccess
<1> QED
  BY <1>2, <1>3 DEF SetAllocationStatusSuccess

(* A copy is read: the object is there. *)
LEMMA Reads ==
    ASSUME Inv, NEW g \in Goroutines, NEW r \in Thread, Set(g, r), w[g].got = {}, r.got = {},
           r.pc \in Copying \ {"update"}, r.s \in Services, alloc[r.s] # NoObject,
           r.obj = alloc[r.s], UNCHANGED <<alloc, tasks>>, UNCHANGED money, fresh' = fresh \cup {g}
    PROVE  Inv'
<1>1. Keeps /\ FreshKept(g)
  BY NoWrite, FreshOther
<1>2. Current(r, alloc'[r.s])
  BY DEF Current
<1> QED
  BY <1>1, <1>2, QuietSet DEF Copying

(* The goroutine ends whatever the retry loop says, or tries again. *)
LEMMA QuietIdle ==
    ASSUME Inv, NEW g \in Goroutines, NEW r \in Thread, Set(g, r), w[g].got = {}, r.got = {},
           r.pc \notin {"create", "update"}, UNCHANGED <<alloc, tasks>>, UNCHANGED money,
           fresh' = fresh \ {g}
    PROVE  Inv'
BY NoWrite, FreshOther, QuietSet

(* Get keeps the books. *)
LEMMA GetStep ==
    ASSUME Inv, NEW g \in Goroutines, Get(g)
    PROVE  Inv'
<1> DEFINE s == w[g].s
           again(l) == [w[g] EXCEPT !.pc = l]
           pc == CASE w[g].kind = "pending" -> "ensureFind"
                   [] w[g].kind = "node_error" -> "changeNode"
                   [] OTHER -> "findService"
           r == [w[g] EXCEPT !.obj = alloc[s], !.result = "error", !.pc = pc]
<1>1. w[g].pc = "get" /\ w[g] \in Thread /\ s \in Services
  BY DEF Get, At, Inv, Core, Thread
<1>2. w[g].got = {}
  BY <1>1, EmptyHands
<1>3. UNCHANGED <<alloc, tasks>> /\ UNCHANGED money
  BY DEF Get
<1>4. Idle \in Thread /\ Idle.got = {} /\ Idle.pc = "idle"
  BY IdleType DEF Idle
<1>5. ASSUME NEW l \in {"get", "getFailed", "idle"}, fresh' = fresh \ {g},
             Set(g, IF l = "idle" THEN Idle ELSE again(l))
      PROVE  Inv'
  <2>1. \A k \in {"get", "getFailed"} : again(k) \in Thread /\ again(k).got = {} /\ again(k).pc = k
    BY <1>1, <1>2 DEF Thread, Locations
  <2> HIDE DEF again
  <2>2. CASE l = "idle"
    BY <1>2, <1>3, <1>4, <1>5, <2>2, QuietIdle
  <2>3. CASE l # "idle"
    BY <1>2, <1>3, <1>5, <2>1, <2>3, QuietIdle
  <2> QED
    BY <2>2, <2>3
<1>6. CASE Set(g, Idle) /\ fresh' = fresh \ {g}
  BY <1>2, <1>3, <1>4, <1>6, QuietIdle
<1>7. CASE alloc[s] # NoObject /\ Set(g, r) /\ fresh' = fresh \cup {g}
  <2>1. pc \in {"ensureFind", "changeNode", "findService"}
    OBVIOUS
  <2> HIDE DEF pc
  <2>2. r \in Thread /\ r.got = {} /\ r.pc = pc /\ r.s = s /\ r.obj = alloc[s]
    BY <1>1, <1>2, <1>7, <2>1 DEF Thread, Locations, States, Inv, Core
  <2> HIDE DEF r
  <2> QED
    BY <1>1, <1>2, <1>3, <1>7, <2>1, <2>2, Reads DEF Copying
<1> QED
  BY <1>5, <1>6, <1>7 DEF Get

(* So does the end of the retry loop. *)
LEMMA GetFailedStep ==
    ASSUME Inv, NEW g \in Goroutines, GetFailed(g)
    PROVE  Inv'
<1> DEFINE s == w[g].s
           r == [w[g] EXCEPT !.kind = "create", !.obj = alloc[s], !.pc = "setStatus",
                             !.result = "failed"]
<1>1. w[g].pc = "getFailed" /\ w[g] \in Thread /\ s \in Services
  BY DEF GetFailed, At, Inv, Core, Thread
<1>2. w[g].got = {}
  BY <1>1, EmptyHands
<1>3. UNCHANGED <<alloc, tasks>> /\ UNCHANGED money
  BY DEF GetFailed
<1>4. Idle \in Thread /\ Idle.got = {} /\ Idle.pc = "idle"
  BY IdleType DEF Idle
<1>5. CASE Set(g, Idle) /\ fresh' = fresh \ {g}
  BY <1>2, <1>3, <1>4, <1>5, QuietIdle
<1>6. CASE alloc[s] # NoObject /\ Set(g, r) /\ fresh' = fresh \cup {g}
  <2>1. r \in Thread /\ r.got = {} /\ r.pc = "setStatus" /\ r.s = s /\ r.obj = alloc[s]
    BY <1>1, <1>2, <1>6 DEF Thread, Locations, States, Kinds, Inv, Core
  <2> HIDE DEF r
  <2> QED
    BY <1>1, <1>2, <1>3, <1>6, <2>1, Reads DEF Copying
<1> QED
  BY <1>5, <1>6 DEF GetFailed

(* A goroutine goes on without reading or writing an allocation. *)
LEMMA GoesOn ==
    ASSUME Inv, NEW g \in Goroutines, NEW r \in Thread, Set(g, r), w[g].got = {},
           r.got = {}, r.pc \in Copying, r.s = w[g].s, r.obj.addr = w[g].obj.addr, r.pc # "create",
           UNCHANGED <<alloc, tasks>>, UNCHANGED money, UNCHANGED fresh
    PROVE  Inv'
<1>1. Keeps /\ FreshKept(g)
  BY NoWrite, FreshOther
<1>2. g \in fresh' => Current(r, alloc'[r.s])
  BY DEF Current, Inv, CurrentCopies
<1>3. Sound(r)
  BY DEF Sound
<1> QED
  BY <1>1, <1>2, <1>3, QuietThread DEF Set

(* FindService keeps the books. *)
LEMMA FindServiceStep ==
    ASSUME Inv, Rest, NEW g \in Goroutines, FindService(g)
    PROVE  Inv'
<1> DEFINE s == w[g].s
           r == [w[g] EXCEPT !.pc = "reconcile", !.lb = svc[s] = "lb", !.ing = ingress[s]]
<1>1. w[g].pc = "findService" /\ w[g] \in Thread /\ s \in Services
  BY DEF FindService, At, Inv, Core, Thread
<1>2. w[g].got = {}
  BY <1>1, EmptyHands
<1>3. UNCHANGED <<alloc, tasks>> /\ UNCHANGED money
  BY DEF FindService
<1>4. CASE End(g)
  BY <1>2, <1>3, <1>4, NoWrite, QuietEnd
<1>5. CASE Set(g, r) /\ UNCHANGED fresh
  <2>1. r \in Thread /\ r.got = {} /\ r.pc = "reconcile" /\ r.s = s /\ r.obj = w[g].obj
    BY <1>1, <1>2 DEF Thread, Locations, Rest
  <2> HIDE DEF r
  <2> QED
    BY <1>2, <1>3, <1>5, <2>1, GoesOn DEF Copying
<1> QED
  BY <1>4, <1>5 DEF FindService

(* The ingress of a service is not in the books. *)
LEMMA IngressKeeps ==
    ASSUME Inv, NEW s \in Services, NEW ips, SetIngress(s, ips), UNCHANGED alloc
    PROVE  Keeps
<1>1. Event("changed", s) \subseteq Task /\ \A t \in Event("changed", s) : t.addr = {}
  BY EventTypes DEF Kinds
<1> QED
  BY <1>1 DEF SetIngress, Keeps, QuietTasks, Has, Inv, Core

(* Reconcile keeps the books. *)
LEMMA ReconcileStep ==
    ASSUME Inv, NEW g \in Goroutines, Reconcile(g)
    PROVE  Inv'
<1>1. w[g].pc = "reconcile" /\ w[g].s \in Services
  BY DEF Reconcile, At, Inv, Core, Thread
<1>2. w[g].got = {}
  BY <1>1, EmptyHands
<1>3. UNCHANGED alloc /\ UNCHANGED money
  BY DEF Reconcile
<1>4. Keeps
  BY <1>1, <1>3, NoWrite, IngressKeeps DEF Reconcile, services
<1>5. ASSUME NEW l \in {"patch", "deleteOther"}, Goto(g, l), UNCHANGED fresh
      PROVE  Inv'
  BY <1>2, <1>3, <1>4, <1>5, FreshOther, QuietGoto DEF Locations, Copying
<1>6. CASE End(g)
  BY <1>2, <1>3, <1>4, <1>6, QuietEnd
<1> QED
  BY <1>5, <1>6 DEF Reconcile

(* PatchNode keeps the books: the address stays in the entry. *)
LEMMA PatchNodeStep ==
    ASSUME Inv, NEW g \in Goroutines, PatchNode(g)
    PROVE  Inv'
<1> DEFINE r == [w[g] EXCEPT !.pc = "update", !.obj.entry = "node", !.result = "pending"]
<1>1. w[g].pc = "patch" /\ w[g] \in Thread
  BY DEF PatchNode, At, Inv, Core
<1>2. w[g].got = {}
  BY <1>1, EmptyHands
<1>3. UNCHANGED <<alloc, tasks>> /\ UNCHANGED money
  BY DEF PatchNode
<1>4. CASE Set(g, r) /\ UNCHANGED fresh
  <2>1. r.obj \in IPAllocation /\ r.obj.addr = w[g].obj.addr
    BY <1>1 DEF Thread, IPAllocation
  <2>2. r \in Thread /\ r.got = {} /\ r.pc = "update" /\ r.s = w[g].s
    BY <1>1, <1>2, <2>1 DEF Thread, Locations, States
  <2> HIDE DEF r
  <2> QED
    BY <1>2, <1>3, <1>4, <2>1, <2>2, GoesOn DEF Copying
<1>5. CASE Goto(g, "ensureFind") /\ UNCHANGED fresh
  BY <1>2, <1>3, <1>5, NoWrite, FreshOther, QuietGoto DEF Locations, Copying
<1>6. CASE End(g)
  BY <1>2, <1>3, <1>6, NoWrite, QuietEnd
<1> QED
  BY <1>4, <1>5, <1>6 DEF PatchNode

(* EnsureFindService keeps the books. *)
LEMMA EnsureFindServiceStep ==
    ASSUME Inv, NEW g \in Goroutines, EnsureFindService(g)
    PROVE  Inv'
<1>1. w[g].pc = "ensureFind"
  BY DEF EnsureFindService, At
<1>2. w[g].got = {}
  BY <1>1, EmptyHands
<1>3. Keeps /\ FreshKept(g) /\ UNCHANGED money /\ UNCHANGED alloc /\ UNCHANGED fresh
  BY NoWrite, FreshOther DEF EnsureFindService
<1>4. PICK l \in {"place", "deleteAlloc"} : Goto(g, l)
  BY DEF EnsureFindService
<1> QED
  BY <1>2, <1>3, <1>4, QuietGoto DEF Locations, Copying

(* AllocateAddress keeps the books. *)
LEMMA AllocateAddressStep ==
    ASSUME Inv, NEW g \in Goroutines, AllocateAddress(g)
    PROVE  Inv'
<1> DEFINE to(l, res) == [w[g] EXCEPT !.pc = l, !.result = res]
<1>1. w[g].pc = "place" /\ w[g] \in Thread
  BY DEF AllocateAddress, At, Inv, Core
<1>2. w[g].got = {}
  BY <1>1, EmptyHands
<1>3. UNCHANGED <<alloc, tasks>> /\ UNCHANGED money /\ UNCHANGED fresh
  BY DEF AllocateAddress
<1>4. PICK l \in {"setSuccess", "setStatus"}, res \in States : Set(g, to(l, res))
  BY DEF AllocateAddress, States
<1>5. to(l, res) \in Thread /\ to(l, res).got = {} /\ to(l, res).pc = l
      /\ to(l, res).s = w[g].s /\ to(l, res).obj = w[g].obj
  BY <1>1, <1>2 DEF Thread, Locations
<1> HIDE DEF to
<1> QED
  BY <1>2, <1>3, <1>4, <1>5, GoesOn DEF Copying

(* UpdateServiceIngressWithIps keeps the books. *)
LEMMA UpdateIngressStep ==
    ASSUME Inv, NEW g \in Goroutines, UpdateServiceIngressWithIps(g)
    PROVE  Inv'
<1>1. w[g].pc = "ingress" /\ w[g].s \in Services
  BY DEF UpdateServiceIngressWithIps, At, Inv, Core, Thread
<1>2. w[g].got = {}
  BY <1>1, EmptyHands
<1>3. UNCHANGED alloc /\ UNCHANGED money
  BY DEF UpdateServiceIngressWithIps
<1>4. Keeps
  BY <1>1, <1>3, NoWrite, IngressKeeps DEF UpdateServiceIngressWithIps
<1>5. CASE Goto(g, "deleteAlloc") /\ UNCHANGED fresh
  BY <1>2, <1>3, <1>4, <1>5, FreshOther, QuietGoto DEF Locations, Copying
<1>6. CASE End(g)
  BY <1>2, <1>3, <1>4, <1>6, QuietEnd
<1> QED
  BY <1>5, <1>6 DEF UpdateServiceIngressWithIps

(* RemoveServiceIngressIPs keeps the books. *)
LEMMA RemoveIngressStep ==
    ASSUME Inv, NEW g \in Goroutines, RemoveServiceIngressIPs(g)
    PROVE  Inv'
<1>1. w[g].pc = "removeIngress" /\ w[g].s \in Services
  BY DEF RemoveServiceIngressIPs, At, Inv, Core, Thread
<1>2. w[g].got = {} /\ g \notin fresh
  BY <1>1, EmptyHands, NoCopy DEF Copying
<1>3. UNCHANGED alloc /\ UNCHANGED money /\ UNCHANGED fresh /\ Goto(g, "recreate")
  BY DEF RemoveServiceIngressIPs
<1>4. Keeps
  BY <1>1, <1>3, NoWrite, IngressKeeps DEF RemoveServiceIngressIPs
<1> QED
  BY <1>2, <1>3, <1>4, FreshOther, QuietGoto DEF Locations

(* Recreate keeps the books. *)
LEMMA RecreateStep ==
    ASSUME Inv, NEW g \in Goroutines, Recreate(g)
    PROVE  Inv'
<1>1. w[g].pc = "recreate"
  BY DEF Recreate, At
<1>2. w[g].got = {} /\ g \notin fresh
  BY <1>1, EmptyHands, NoCopy DEF Copying
<1>3. Keeps /\ UNCHANGED money /\ UNCHANGED alloc
  BY NoWrite DEF Recreate
<1>4. CASE Goto(g, "find") /\ UNCHANGED fresh
  BY <1>2, <1>3, <1>4, FreshOther, QuietGoto DEF Locations
<1>5. CASE End(g)
  BY <1>2, <1>3, <1>5, QuietEnd
<1> QED
  BY <1>4, <1>5 DEF Recreate

(* A new node for the object of a current copy: the address stays. *)
LEMMA ChangeNodeWrite ==
    ASSUME Inv, NEW g \in Goroutines, w[g].pc = "changeNode", g \in fresh, UNCHANGED money,
           NEW entry \in {"none", "noNode", "node"}, NEW res \in States,
           Write(w[g].s, [alloc[w[g].s] EXCEPT !.entry = entry], {g}),
           Set(g, [w[g] EXCEPT !.pc = "setStatus", !.result = res])
    PROVE  Inv'
<1> DEFINE s == w[g].s
           obj == [alloc[s] EXCEPT !.entry = entry]
           r == [w[g] EXCEPT !.pc = "setStatus", !.result = res]
<1>1. w[g] \in Thread /\ s \in Services /\ w[g].got = {}
  BY EmptyHands DEF Inv, Core, Thread
<1>2. alloc[s] # NoObject /\ alloc[s] \in IPAllocation /\ w[g].obj.addr = alloc[s].addr
  BY <1>1 DEF Inv, Core, CurrentCopies, Current
<1>3. obj \in IPAllocation /\ obj.addr = alloc[s].addr
  BY <1>2 DEF IPAllocation
<1>4. r \in Thread /\ r.got = {} /\ r.pc = "setStatus" /\ r.s = s /\ r.obj = w[g].obj
  BY <1>1 DEF Thread, Locations
<1>5. Write(s, obj, {g}) /\ Set(g, r)
  OBVIOUS
<1> HIDE DEF obj, r
<1>6. Keeps
  BY <1>1, <1>2, <1>3, <1>5, QuietWrite
<1>7. FreshKept(g)
  BY <1>1, <1>5, WriteFresh
<1>8. alloc'[s] = obj
  BY <1>1, <1>5 DEF Write, Inv, Core
<1>9. Current(r, alloc'[r.s])
  BY <1>2, <1>3, <1>4, <1>8, NoObjectAssumption DEF Current, Copying
<1> QED
  BY <1>1, <1>4, <1>5, <1>6, <1>7, <1>9, QuietSet

-----------------------------------------------------------------------------
(* Steps outside the goroutines that leave every address where it is *)

(* A user's change of a service keeps the books. *)
LEMMA ServiceEventStep ==
    ASSUME Inv, NEW s \in Services, NEW old, NEW new, NEW kind \in Kinds,
           ServiceEvent(s, old, new, kind)
    PROVE  Inv'
<1>1. Event(kind, s) \subseteq Task /\ \A t \in Event(kind, s) : t.addr = {}
  BY EventTypes
<1>2. Keeps
  BY <1>1 DEF ServiceEvent, Keeps, QuietTasks, Has, Inv, Core
<1> QED
  BY <1>2, QuietOutside DEF ServiceEvent

(* The loss of a node keeps the books. *)
LEMMA NodeLostStep ==
    ASSUME Inv, NEW s \in Services, OperatorNodeLost(s)
    PROVE  Inv'
<1> DEFINE obj == [alloc[s] EXCEPT !.state = "node_error"]
<1>1. alloc[s] # NoObject /\ alloc[s] \in IPAllocation
  BY DEF OperatorNodeLost, HasEntry, Inv, Core
<1>2. obj \in IPAllocation /\ obj.addr = alloc[s].addr
  BY <1>1 DEF IPAllocation, States
<1>3. Write(s, obj, {}) /\ UNCHANGED money /\ UNCHANGED w
  BY DEF OperatorNodeLost
<1> HIDE DEF obj
<1>4. Keeps
  BY <1>1, <1>2, <1>3, QuietWrite
<1>5. fresh' \subseteq fresh /\ \A h \in fresh' : alloc'[w[h].s] = alloc[w[h].s]
  BY <1>3 DEF Write, Copies, Inv, Core
<1> QED
  BY <1>3, <1>4, <1>5, QuietOutside

(* So does the pool, when it comes or goes. *)
LEMMA PoolStep ==
    ASSUME Inv, PoolChanged \/ PoolListed
    PROVE  Inv'
<1>1. UNCHANGED <<alloc, tasks, w, fresh>> /\ UNCHANGED money
  BY DEF PoolChanged, PoolListed
<1> QED
  BY <1>1, NoWrite, QuietOutside

(* A new leader is told of the objects, and nobody owes anything. *)
LEMMA RestartStep ==
    ASSUME Inv, Down, Restart
    PROVE  Inv'
<1>1. tasks = {} /\ UNCHANGED <<alloc, w, fresh>> /\ UNCHANGED money
  BY DEF Down, Restart
<1>2. \A t \in tasks' : t \in Task /\ t.addr = {}
  <2> SUFFICES ASSUME NEW t \in tasks' PROVE t \in Task /\ t.addr = {}
    OBVIOUS
  <2>1. \/ \E s \in Services : t \in Event("create", s)
        \/ \E s \in Services : alloc[s] # NoObject /\ t \in EventTasks(s, alloc[s].state)
    BY DEF Restart
  <2>2. CASE \E s \in Services : t \in Event("create", s)
    BY <2>2, EventTypes DEF Kinds
  <2>3. CASE \E s \in Services : alloc[s] # NoObject /\ t \in EventTasks(s, alloc[s].state)
    <3>1. PICK s \in Services : alloc[s] # NoObject /\ t \in EventTasks(s, alloc[s].state)
      BY <2>3
    <3>2. alloc[s].state \in States
      BY <3>1 DEF Inv, Core, IPAllocation
    <3> QED
      BY <3>1, <3>2, EventTypes
  <2> QED
    BY <2>1, <2>2, <2>3
<1>3. Keeps
  BY <1>1, <1>2 DEF Keeps, QuietTasks, Has, Inv, Core
<1> QED
  BY <1>1, <1>3, QuietOutside

-----------------------------------------------------------------------------
(* Steps that move an address *)

(* The address of a task is in the hands of the goroutine that starts. *)
LEMMA StartStep ==
    ASSUME Inv, NEW g \in Goroutines, NEW t \in tasks, Start(g, t)
    PROVE  Inv'
<1> DEFINE r == [Idle EXCEPT !.kind = t.kind, !.s = t.s, !.got = t.addr, !.pc = Entry(t.kind)]
<1>1. t \in Task /\ t.kind \in Kinds /\ t.s \in Services /\ t.addr \in SUBSET Addresses
  BY DEF Inv, Core, Task
<1>2. w[g].pc = "idle" /\ w[g].got = {} /\ g \notin fresh
  BY EmptyHands, NoCopy DEF Start, At, Copying
<1>3. UNCHANGED <<alloc, fresh>> /\ UNCHANGED money /\ tasks' = tasks \ {t} /\ w' = [w EXCEPT ![g] = r]
  BY DEF Start, Set
<1>4. /\ Entry(t.kind) \in Locations \ {"create", "update"}
      /\ t.kind = "delete" => Entry(t.kind) = "dealloc"
  BY <1>1 DEF Entry, Locations
<1>5. t.addr # {} => t.kind = "delete"
  BY DEF Inv, Owing
<1>6. r \in Thread /\ r.got = t.addr /\ r.pc = Entry(t.kind)
  BY <1>1, <1>4, IdleType DEF Thread, Idle
<1>7. Sound(r)
  BY <1>4, <1>5, <1>6 DEF Sound
<1> HIDE DEF r
<1>8. w' \in [Goroutines -> Thread] /\ w'[g] = r /\ Sounds' /\ \A h \in Goroutines : h # g => w'[h] = w[h]
  BY <1>3, <1>6, <1>7, Moved DEF Inv
<1>9. Core' /\ Owing'
  BY <1>3, <1>8 DEF Inv, Core, Owing, money
<1>10. CurrentCopies'
  BY <1>2, <1>3, <1>8 DEF Inv, Core, CurrentCopies
<1>11. Books'
  <2> SUFFICES ASSUME NEW a \in Addresses PROVE Single(a)'
    BY DEF Books
  <2>1. Single(a)
    BY DEF Inv, Books
  <2>2. \A s \in Services : Has(s)' = Has(s)
    BY <1>3 DEF Has
  <2>3. InObject(a)' <=> InObject(a)
    BY <2>2 DEF InObject
  <2>4. CASE a \in t.addr
    <3>1. IsOwed(a) /\ ~InHands(a) /\ ~InObject(a) /\ a \in cloud /\ a \notin orphans
      BY <2>1, <2>4 DEF Single, IsOwed
    <3>2. ~IsOwed(a)' /\ InHands(a)'
      BY <1>3, <1>6, <1>8, <2>1, <2>4 DEF Single, IsOwed, InHands
    <3>3. \A h, k \in Goroutines : a \in w'[h].got /\ a \in w'[k].got => h = k
      BY <1>8, <3>1 DEF InHands
    <3>4. \A v, u \in tasks' : a \in v.addr /\ a \in u.addr => v = u
      BY <1>3, <2>1 DEF Single
    <3> QED
      BY <1>3, <2>1, <2>2, <2>3, <3>1, <3>2, <3>3, <3>4 DEF Single, money
  <2>5. CASE a \notin t.addr
    <3>1. IsOwed(a)' <=> IsOwed(a)
      BY <1>3, <2>5 DEF IsOwed
    <3>2. \A h \in Goroutines : a \in w'[h].got <=> a \in w[h].got
      BY <1>2, <1>6, <1>8, <2>5
    <3>3. InHands(a)' <=> InHands(a)
      BY <3>2 DEF InHands
    <3>4. \A v, u \in tasks' : a \in v.addr /\ a \in u.addr => v = u
      BY <1>3, <2>1 DEF Single
    <3> QED
      BY <1>3, <2>1, <2>2, <2>3, <3>1, <3>2, <3>3, <3>4 DEF Single, money
  <2> QED
    BY <2>4, <2>5
<1> QED
  BY <1>8, <1>9, <1>10, <1>11 DEF Inv

(* The address of a deletion that finds the allocation locked is given up. *)
LEMMA LockTimeoutStep ==
    ASSUME Inv, NEW t \in tasks, LockTimeout(t)
    PROVE  Inv'
<1>1. /\ UNCHANGED <<alloc, w, fresh, cloud>> /\ tasks' = tasks \ {t}
      /\ orphans' = orphans \cup t.addr
  BY DEF LockTimeout
<1>2. t.addr \in SUBSET Addresses
  BY DEF Inv, Core, Task
<1>3. Core' /\ Owing' /\ Sounds' /\ CurrentCopies'
  BY <1>1, <1>2 DEF Inv, Core, Owing, Sounds, CurrentCopies
<1>4. Books'
  <2> SUFFICES ASSUME NEW a \in Addresses PROVE Single(a)'
    BY DEF Books
  <2>1. Single(a)
    BY DEF Inv, Books
  <2>2. \A s \in Services : Has(s)' = Has(s)
    BY <1>1 DEF Has
  <2>3. (InObject(a)' <=> InObject(a)) /\ (InHands(a)' <=> InHands(a))
    BY <1>1, <2>2 DEF InObject, InHands
  <2>4. a \notin t.addr => (IsOwed(a)' <=> IsOwed(a))
    BY <1>1 DEF IsOwed
  <2>5. a \in t.addr => IsOwed(a) /\ ~IsOwed(a)'
    BY <1>1, <2>1 DEF Single, IsOwed
  <2> QED
    BY <1>1, <2>1, <2>2, <2>3, <2>4, <2>5 DEF Single
<1> QED
  BY <1>3, <1>4 DEF Inv

(* An address is bought: it is in the hands of the goroutine. *)
LEMMA BuyStep ==
    ASSUME Inv, NEW g \in Goroutines, NEW r \in Thread, Sound(r), Set(g, r), w[g].got = {},
           UNCHANGED <<alloc, tasks>>, NEW a \in Addresses \ cloud, r.got = {a},
           cloud' = cloud \cup {a}, UNCHANGED orphans,
           UNCHANGED fresh, g \in fresh => Current(r, alloc[r.s])
    PROVE  Inv'
<1>1. w' \in [Goroutines -> Thread] /\ w'[g] = r /\ Sounds' /\ \A h \in Goroutines : h # g => w'[h] = w[h]
  BY Moved DEF Inv, Set
<1>2. Core' /\ Owing'
  BY <1>1 DEF Inv, Core, Owing
<1>3. CurrentCopies'
  BY FreshOther, StillCurrent DEF Set
<1>4. Books'
  <2> SUFFICES ASSUME NEW b \in Addresses PROVE Single(b)'
    BY DEF Books
  <2>1. Single(b)
    BY DEF Inv, Books
  <2>2. \A s \in Services : Has(s)' = Has(s)
    BY DEF Has
  <2>3. (InObject(b)' <=> InObject(b)) /\ (IsOwed(b)' <=> IsOwed(b))
    BY <2>2 DEF InObject, IsOwed
  <2>4. CASE b = a
    <3>1. ~InHands(b) /\ ~InObject(b) /\ ~IsOwed(b)
      BY <2>1, <2>4 DEF Single
    <3>2. b \notin orphans
      BY <2>1, <2>4 DEF Single
    <3>3. InHands(b)' /\ \A h, k \in Goroutines : b \in w'[h].got /\ b \in w'[k].got => h = k
      BY <1>1, <2>4, <3>1 DEF InHands
    <3> QED
      BY <2>1, <2>2, <2>3, <2>4, <3>1, <3>2, <3>3 DEF Single
  <2>5. CASE b # a
    <3>1. \A h \in Goroutines : b \in w'[h].got <=> b \in w[h].got
      BY <1>1, <2>5
    <3>2. InHands(b)' <=> InHands(b)
      BY <3>1 DEF InHands
    <3> QED
      BY <2>1, <2>2, <2>3, <2>5, <3>1, <3>2 DEF Single
  <2> QED
    BY <2>4, <2>5
<1> QED
  BY <1>1, <1>2, <1>3, <1>4 DEF Inv

(* The purchase whose answer is lost: the address is given up at once. *)
Lost(a) == cloud' = cloud \cup {a} /\ orphans' = orphans \cup {a}

(* A lost address is in nobody's hands. *)
LEMMA LostStep ==
    ASSUME Inv, NEW g \in Goroutines, NEW r \in Thread, Sound(r), w' = [w EXCEPT ![g] = r],
           w[g].got = {}, r.got = {}, UNCHANGED <<alloc, tasks>>,
           NEW a \in Addresses \ cloud, Lost(a),
           fresh' \subseteq fresh, g \in fresh' => Current(r, alloc[r.s])
    PROVE  Inv'
<1>1. w' \in [Goroutines -> Thread] /\ w'[g] = r /\ Sounds' /\ \A h \in Goroutines : h # g => w'[h] = w[h]
  BY Moved DEF Inv
<1>2. Core' /\ Owing'
  BY <1>1 DEF Inv, Core, Owing, Lost
<1>3. CurrentCopies'
  BY FreshOther, StillCurrent
<1>4. Books'
  <2> SUFFICES ASSUME NEW b \in Addresses PROVE Single(b)'
    BY DEF Books
  <2>1. Single(b)
    BY DEF Inv, Books
  <2>2. \A s \in Services : Has(s)' = Has(s)
    BY DEF Has
  <2>3. \A h \in Goroutines : w'[h].got = w[h].got
    BY <1>1
  <2>4. (InObject(b)' <=> InObject(b)) /\ (IsOwed(b)' <=> IsOwed(b)) /\ (InHands(b)' <=> InHands(b))
    BY <2>2, <2>3 DEF InObject, IsOwed, InHands
  <2> QED
    BY <2>1, <2>2, <2>3, <2>4 DEF Single, Lost
<1> QED
  BY <1>1, <1>2, <1>3, <1>4 DEF Inv

(* What Buy may do to the money. *)
LEMMA BuyCases ==
    ASSUME NEW entry, NEW got, Buy(entry, got)
    PROVE  \/ got = {} /\ UNCHANGED money
           \/ got = {} /\ \E a \in Addresses \ cloud : Lost(a)
           \/ \E a \in Addresses \ cloud : got = {a} /\ cloud' = cloud \cup {a} /\ UNCHANGED orphans
BY DEF Buy, GetAndAssignNewAddress, Lost

(* BuildAllocations buys the address of an object to be created. *)
LEMMA BuildStep ==
    ASSUME Inv, NEW g \in Goroutines, BuildAllocations(g)
    PROVE  Inv'
<1>1. w[g].pc = "build" /\ w[g] \in Thread
  BY DEF BuildAllocations, At, Inv, Core
<1>2. w[g].got = {} /\ g \notin fresh
  BY <1>1, EmptyHands, NoCopy DEF Copying
<1>3. UNCHANGED <<alloc, tasks>> /\ UNCHANGED fresh
  BY DEF BuildAllocations
<1>4. PICK entry \in {"none", "noNode", "node"}, got \in SUBSET Addresses :
         /\ (got = {} /\ UNCHANGED money) \/ Buy(entry, got)
         /\ Set(g, [w[g] EXCEPT !.pc = "create", !.got = got,
                                !.obj = [Blank EXCEPT !.entry = entry, !.addr = got],
                                !.result = IF got = {} THEN "error" ELSE "pending"])
  BY DEF BuildAllocations
<1> DEFINE obj == [Blank EXCEPT !.entry = entry, !.addr = got]
           res == IF got = {} THEN "error" ELSE "pending"
           r == [w[g] EXCEPT !.pc = "create", !.got = got, !.obj = obj, !.result = res]
<1>5. obj \in IPAllocation /\ obj.addr = got /\ res \in States
  BY DEF Blank, IPAllocation, States
<1>6. Set(g, r)
  BY <1>4
<1> HIDE DEF obj, res
<1>7. r \in Thread /\ r.got = got /\ r.pc = "create" /\ r.obj = obj
  BY <1>1, <1>5 DEF Thread, Locations
<1>8. Sound(r)
  BY <1>5, <1>7 DEF Sound
<1> HIDE DEF r
<1>9. CASE got = {} /\ UNCHANGED money
  BY <1>2, <1>3, <1>6, <1>7, <1>8, <1>9, NoWrite, FreshOther, QuietThread DEF Set
<1>10. CASE got = {} /\ \E a \in Addresses \ cloud : Lost(a)
  BY <1>2, <1>3, <1>6, <1>7, <1>8, <1>10, LostStep DEF Set
<1>11. CASE \E a \in Addresses \ cloud : got = {a} /\ cloud' = cloud \cup {a} /\ UNCHANGED orphans
  BY <1>2, <1>3, <1>6, <1>7, <1>8, <1>11, BuyStep
<1> QED
  BY <1>4, <1>9, <1>10, <1>11, BuyCases

(* PatchAddress buys one for an entry that has none. *)
LEMMA PatchAddressStep ==
    ASSUME Inv, NEW g \in Goroutines, PatchAddress(g)
    PROVE  Inv'
<1>1. w[g].pc = "patch" /\ w[g] \in Thread /\ w[g].obj.addr = {}
  BY DEF PatchAddress, At, Inv, Core
<1>2. w[g].got = {}
  BY <1>1, EmptyHands
<1>3. UNCHANGED <<alloc, tasks>>
  BY DEF PatchAddress
<1>4. CASE End(g) /\ UNCHANGED money
  BY <1>2, <1>3, <1>4, NoWrite, QuietEnd
<1>5. CASE End(g) /\ \E a \in Addresses \ cloud : Lost(a)
  <2>1. PICK r \in Thread : Sound(r) /\ r.got = {} /\ w' = [w EXCEPT ![g] = r]
    BY <1>5, LeaveType DEF End
  <2>2. fresh' = fresh \ {g}
    BY <1>5 DEF End
  <2> QED
    BY <1>2, <1>3, <1>5, <2>1, <2>2, LostStep
<1>6. ASSUME NEW entry \in {"noNode", "node"}, NEW a \in Addresses \ cloud,
             cloud' = cloud \cup {a}, UNCHANGED orphans, UNCHANGED fresh,
             Set(g, [w[g] EXCEPT !.pc = "update", !.obj.entry = entry, !.obj.addr = {a},
                                 !.got = {a}, !.result = "error"])
      PROVE  Inv'
  <2> DEFINE r == [w[g] EXCEPT !.pc = "update", !.obj.entry = entry, !.obj.addr = {a},
                               !.got = {a}, !.result = "error"]
  <2>1. r.obj \in IPAllocation /\ r.obj.addr = {a}
    BY <1>1 DEF Thread, IPAllocation
  <2>2. r \in Thread /\ r.got = {a} /\ r.pc = "update" /\ r.s = w[g].s
    BY <1>1, <2>1 DEF Thread, Locations, States
  <2>3. Set(g, r)
    BY <1>6
  <2> HIDE DEF r
  <2>4. Sound(r)
    BY <2>1, <2>2 DEF Sound
  <2>5. g \in fresh => Current(r, alloc[r.s])
    BY <1>1, <1>2, <2>1, <2>2 DEF Current, Copying, Inv, CurrentCopies
  <2> QED
    BY <1>2, <1>3, <1>6, <2>2, <2>3, <2>4, <2>5, BuyStep
<1>7. ASSUME NEW entry \in {"noNode", "node"}, NEW got \in SUBSET Addresses, Buy(entry, got),
             IF got = {} THEN End(g)
             ELSE /\ Set(g, [w[g] EXCEPT !.pc = "update", !.obj.entry = entry, !.obj.addr = got,
                                         !.got = got, !.result = "error"])
                  /\ UNCHANGED fresh
      PROVE  Inv'
  BY <1>4, <1>5, <1>6, <1>7, BuyCases
<1> QED
  BY <1>4, <1>7 DEF PatchAddress

(* The address in the hands of g is written to an object that has none. *)
LEMMA HandsToObject ==
    ASSUME Inv, NEW g \in Goroutines, NEW r \in Thread, Sound(r), w' = [w EXCEPT ![g] = r],
           r.got = {}, NEW s \in Services, Has(s) = {}, NEW obj \in IPAllocation,
           obj.addr = w[g].got, NEW writers \in SUBSET {g}, Write(s, obj, writers),
           g \in writers \/ w[g].s = s,
           g \in writers => r.s = s /\ Current(r, obj), UNCHANGED money
    PROVE  Inv'
<1>1. w' \in [Goroutines -> Thread] /\ w'[g] = r /\ Sounds' /\ \A h \in Goroutines : h # g => w'[h] = w[h]
  BY Moved DEF Inv
<1>2. EventTasks(s, obj.state) \subseteq Task /\ \A t \in EventTasks(s, obj.state) : t.addr = {}
  BY EventTypes DEF IPAllocation
<1>3. QuietTasks
  BY <1>2 DEF Write, QuietTasks, Inv, Core
<1>4. /\ alloc' \in [Services -> IPAllocation \cup {NoObject}]
      /\ alloc'[s] = obj /\ \A u \in Services : u # s => alloc'[u] = alloc[u]
  BY DEF Write, Inv, Core
<1>5. FreshKept(g)
  BY WriteFresh
<1>6. CurrentCopies'
  <2>1. g \in fresh' => g \in writers
    BY DEF Write, Copies
  <2> QED
    BY <1>4, <1>5, <2>1, StillCurrent
<1>7. Core' /\ Owing'
  BY <1>1, <1>3, <1>4, <1>5 DEF Inv, Core, Owing, QuietTasks, FreshKept, money
<1>8. Has(s)' = w[g].got /\ \A u \in Services : u # s => Has(u)' = Has(u)
  BY <1>4, NoObjectAssumption DEF Has
<1>9. Books'
  <2> SUFFICES ASSUME NEW a \in Addresses PROVE Single(a)'
    BY DEF Books
  <2>1. Single(a)
    BY DEF Inv, Books
  <2>2. IsOwed(a)' <=> IsOwed(a)
    BY <1>3 DEF IsOwed, QuietTasks
  <2>3. \A t, u \in tasks' : a \in t.addr /\ a \in u.addr => t = u
    BY <1>3, <2>1 DEF Single, QuietTasks
  <2>4. CASE a \in w[g].got
    <3>1. InHands(a) /\ ~InObject(a) /\ ~IsOwed(a)
      BY <2>1, <2>4 DEF Single, InHands
    <3>2. InObject(a)' /\ \A t, u \in Services : a \in Has(t)' /\ a \in Has(u)' => t = u
      BY <1>8, <2>4, <3>1 DEF InObject
    <3>3. \A h \in Goroutines : a \notin w'[h].got
      BY <1>1, <2>1, <2>4 DEF Single
    <3>4. ~InHands(a)'
      BY <3>3 DEF InHands
    <3> QED
      BY <2>1, <2>2, <2>3, <3>1, <3>2, <3>3, <3>4 DEF Single, money
  <2>5. CASE a \notin w[g].got
    <3>1. \A u \in Services : a \in Has(u)' <=> a \in Has(u)
      BY <1>8, <2>5
    <3>2. \A h \in Goroutines : a \in w'[h].got <=> a \in w[h].got
      BY <1>1, <2>5
    <3>3. (InObject(a)' <=> InObject(a)) /\ (InHands(a)' <=> InHands(a))
      BY <3>1, <3>2 DEF InObject, InHands
    <3> QED
      BY <2>1, <2>2, <2>3, <3>1, <3>2, <3>3 DEF Single, money
  <2> QED
    BY <2>4, <2>5
<1> QED
  BY <1>1, <1>6, <1>7, <1>9 DEF Inv

(* The address in the hands of g is deleted in the cloud, or given up. *)
LEMMA HandsEmptied ==
    ASSUME Inv, NEW g \in Goroutines, NEW r \in Thread, Sound(r), w' = [w EXCEPT ![g] = r],
           r.got = {}, UNCHANGED <<alloc, tasks>>, fresh' \subseteq fresh \ {g},
           \/ cloud' = cloud \ w[g].got /\ UNCHANGED orphans
           \/ UNCHANGED cloud /\ orphans' = orphans \cup w[g].got
    PROVE  Inv'
<1>1. w' \in [Goroutines -> Thread] /\ w'[g] = r /\ Sounds' /\ \A h \in Goroutines : h # g => w'[h] = w[h]
  BY Moved DEF Inv
<1>2. w[g].got \in SUBSET Addresses
  BY DEF Inv, Core, Thread
<1>3. Core' /\ Owing'
  BY <1>1, <1>2 DEF Inv, Core, Owing
<1>4. CurrentCopies'
  BY FreshOther, StillCurrent
<1>5. Books'
  <2> SUFFICES ASSUME NEW a \in Addresses PROVE Single(a)'
    BY DEF Books
  <2>1. Single(a)
    BY DEF Inv, Books
  <2>2. \A s \in Services : Has(s)' = Has(s)
    BY DEF Has
  <2>3. (InObject(a)' <=> InObject(a)) /\ (IsOwed(a)' <=> IsOwed(a))
    BY <2>2 DEF InObject, IsOwed
  <2>4. CASE a \in w[g].got
    <3>1. InHands(a) /\ ~InObject(a) /\ ~IsOwed(a) /\ a \in cloud /\ a \notin orphans
      BY <2>1, <2>4 DEF Single, InHands
    <3>2. \A h \in Goroutines : a \notin w'[h].got
      BY <1>1, <2>1, <2>4 DEF Single
    <3>3. ~InHands(a)'
      BY <3>2 DEF InHands
    <3> QED
      BY <2>1, <2>2, <2>3, <2>4, <3>1, <3>2, <3>3 DEF Single
  <2>5. CASE a \notin w[g].got
    <3>1. \A h \in Goroutines : a \in w'[h].got <=> a \in w[h].got
      BY <1>1, <2>5
    <3>2. InHands(a)' <=> InHands(a)
      BY <3>1 DEF InHands
    <3> QED
      BY <2>1, <2>2, <2>3, <2>5, <3>1, <3>2 DEF Single
  <2> QED
    BY <2>4, <2>5
<1> QED
  BY <1>1, <1>3, <1>4, <1>5 DEF Inv

(* CreateAllocation writes the address, or gives it up. *)
LEMMA CreateStep ==
    ASSUME Inv, NEW g \in Goroutines, CreateAllocation(g)
    PROVE  Inv'
<1> DEFINE s == w[g].s
           obj == w[g].obj
           r == [w[g] EXCEPT !.pc = "setStatus", !.got = {}]
<1>1. w[g].pc = "create" /\ w[g] \in Thread /\ s \in Services /\ obj \in IPAllocation
  BY DEF CreateAllocation, At, Inv, Core, Thread
<1>2. obj.addr = w[g].got /\ g \notin fresh
  BY <1>1, NoCopy DEF Copying, Inv, Sounds, Sound
<1>3. Idle \in Thread /\ Sound(Idle) /\ Idle.got = {}
  BY IdleType DEF Idle
<1>4. UNCHANGED cloud
  BY DEF CreateAllocation
<1>5. CASE alloc[s] = NoObject /\ Set(g, r) /\ Write(s, obj, {g}) /\ UNCHANGED orphans
  <2>1. r \in Thread /\ r.got = {} /\ r.pc = "setStatus" /\ r.s = s /\ r.obj = obj
    BY <1>1 DEF Thread, Locations
  <2>2. Sound(r)
    BY <2>1 DEF Sound
  <2>3. Current(r, obj)
    BY <1>1, <2>1, NoObjectAssumption DEF Current, Copying
  <2>4. Has(s) = {} /\ UNCHANGED money
    BY <1>4, <1>5 DEF Has, money
  <2> HIDE DEF r, obj
  <2> QED
    BY <1>1, <1>2, <1>5, <2>1, <2>2, <2>3, <2>4, HandsToObject DEF Set
<1>6. CASE alloc[s] = NoObject /\ Set(g, Idle) /\ Write(s, obj, {}) /\ UNCHANGED orphans
  <2>1. Has(s) = {} /\ UNCHANGED money
    BY <1>4, <1>6 DEF Has, money
  <2> HIDE DEF obj
  <2> QED
    BY <1>1, <1>2, <1>3, <1>6, <2>1, HandsToObject DEF Set
<1>7. CASE /\ Set(g, Idle) /\ fresh' = fresh \ {g} /\ orphans' = orphans \cup w[g].got
           /\ UNCHANGED <<alloc, tasks>>
  BY <1>3, <1>4, <1>7, HandsEmptied DEF Set
<1> QED
  BY <1>5, <1>6, <1>7 DEF CreateAllocation

(* UpdateAllocation writes a new address to an object that has none, or the  *)
(* address that the object has.                                              *)
LEMMA UpdateStep ==
    ASSUME Inv, NEW g \in Goroutines, UpdateAllocation(g)
    PROVE  Inv'
<1> DEFINE s == w[g].s
           obj == [alloc[s] EXCEPT !.entry = w[g].obj.entry, !.addr = w[g].obj.addr]
           r == [w[g] EXCEPT !.pc = "setStatus", !.got = {}]
<1>1. w[g].pc = "update" /\ w[g] \in Thread /\ s \in Services /\ w[g].obj \in IPAllocation
  BY DEF UpdateAllocation, At, Inv, Core, Thread
<1>2. UNCHANGED cloud
  BY DEF UpdateAllocation
<1>3. w[g].got # {} => w[g].obj.addr = w[g].got
  BY <1>1 DEF Inv, Sounds, Sound
<1>4. CASE /\ g \in fresh /\ UNCHANGED orphans
           /\ (Set(g, r) /\ Write(s, obj, {g})) \/ (Leave(g) /\ Write(s, obj, {}))
  <2>1. /\ alloc[s] # NoObject /\ alloc[s] \in IPAllocation
        /\ IF w[g].got = {} THEN w[g].obj.addr = alloc[s].addr ELSE alloc[s].addr = {}
    BY <1>1, <1>4 DEF Inv, Core, CurrentCopies, Current
  <2>2. obj \in IPAllocation /\ obj.addr = w[g].obj.addr
    BY <1>1, <2>1 DEF IPAllocation
  <2>3. UNCHANGED money
    BY <1>2, <1>4 DEF money
  <2>4. PICK q \in Thread, writers \in SUBSET {g} :
           /\ Sound(q) /\ q.got = {} /\ w' = [w EXCEPT ![g] = q] /\ Write(s, obj, writers)
           /\ g \in writers => q.s = s /\ Current(q, obj)
    <3>1. r \in Thread /\ r.got = {} /\ r.pc = "setStatus" /\ r.s = s /\ r.obj = w[g].obj
      BY <1>1 DEF Thread, Locations
    <3>2. Sound(r) /\ Current(r, obj)
      BY <2>2, <3>1, NoObjectAssumption DEF Sound, Current, Copying
    <3> HIDE DEF r, obj
    <3>3. CASE Set(g, r) /\ Write(s, obj, {g})
      BY <3>1, <3>2, <3>3 DEF Set
    <3>4. CASE Leave(g) /\ Write(s, obj, {})
      <4>1. PICK q \in Thread : Sound(q) /\ q.got = {} /\ w' = [w EXCEPT ![g] = q]
        BY <3>4, LeaveType
      <4> QED
        BY <3>4, <4>1
    <3> QED
      BY <1>4, <3>3, <3>4
  <2> HIDE DEF obj
  <2>5. CASE w[g].got = {}
    <3>1. Keeps
      BY <1>1, <2>1, <2>2, <2>4, <2>5, QuietWrite
    <3>2. FreshKept(g)
      BY <1>1, <2>4, WriteFresh
    <3>3. g \in fresh' => g \in writers
      BY <2>4 DEF Write, Copies
    <3>4. alloc'[s] = obj
      BY <1>1, <2>4 DEF Write, Inv, Core
    <3> QED
      BY <2>3, <2>4, <2>5, <3>1, <3>2, <3>3, <3>4, QuietThread
  <2>6. CASE w[g].got # {}
    <3>1. Has(s) = {} /\ obj.addr = w[g].got
      BY <1>3, <2>1, <2>2, <2>6 DEF Has
    <3> QED
      BY <1>1, <2>2, <2>3, <2>4, <3>1, HandsToObject
  <2> QED
    BY <2>5, <2>6
<1>5. CASE End(g) /\ orphans' = orphans \cup w[g].got /\ UNCHANGED <<alloc, tasks>>
  <2>1. PICK q \in Thread : Sound(q) /\ q.got = {} /\ w' = [w EXCEPT ![g] = q]
    BY <1>5, LeaveType DEF End
  <2>2. fresh' = fresh \ {g}
    BY <1>5 DEF End
  <2> QED
    BY <1>2, <1>5, <2>1, <2>2, HandsEmptied
<1> QED
  BY <1>4, <1>5 DEF UpdateAllocation

(* DeallocateAddress gives the address back, or up. *)
LEMMA DeallocateStep ==
    ASSUME Inv, NEW g \in Goroutines, DeallocateAddress(g)
    PROVE  Inv'
<1> DEFINE r == [w[g] EXCEPT !.pc = "removeIngress", !.got = {}]
<1>1. w[g].pc = "dealloc" /\ w[g] \in Thread
  BY DEF DeallocateAddress, At, Inv, Core
<1>2. g \notin fresh
  BY <1>1, NoCopy DEF Copying
<1>3. r \in Thread /\ r.got = {} /\ r.pc = "removeIngress"
  BY <1>1 DEF Thread, Locations
<1>4. w' = [w EXCEPT ![g] = r]
  BY DEF DeallocateAddress, Set
<1> HIDE DEF r
<1>5. Sound(r)
  BY <1>3 DEF Sound
<1>6. UNCHANGED <<alloc, tasks>> /\ fresh' \subseteq fresh \ {g}
  BY <1>2 DEF DeallocateAddress
<1>7. \/ cloud' = cloud \ w[g].got /\ UNCHANGED orphans
      \/ UNCHANGED cloud /\ orphans' = orphans \cup w[g].got
  BY DEF DeallocateAddress
<1> QED
  BY <1>3, <1>4, <1>5, <1>6, <1>7, HandsEmptied

(* The address of a deleted object is owed by the event of its deletion. *)
LEMMA DeleteByName ==
    ASSUME Inv, NEW g \in Goroutines, w[g].got = {}, NEW s \in Services, w[g].s = s,
           DeleteAllocationByName(s), Leave(g), fresh' = fresh \ Copies(s), UNCHANGED money
    PROVE  Inv'
<1> DEFINE d == [kind |-> "delete", s |-> s, addr |-> Has(s)]
<1>1. PICK r \in Thread : Sound(r) /\ r.got = {} /\ w' = [w EXCEPT ![g] = r]
  BY LeaveType
<1>2. w' \in [Goroutines -> Thread] /\ w'[g] = r /\ Sounds' /\ \A h \in Goroutines : h # g => w'[h] = w[h]
  BY <1>1, Moved DEF Inv
<1>3. /\ alloc' \in [Services -> IPAllocation \cup {NoObject}]
      /\ alloc'[s] = NoObject /\ \A u \in Services : u # s => alloc'[u] = alloc[u]
  BY DEF DeleteAllocationByName, Inv, Core
<1>4. Has(s)' = {} /\ \A u \in Services : u # s => Has(u)' = Has(u)
  BY <1>3 DEF Has
<1>5. Has(s) \in SUBSET Addresses
  BY DEF Has, Inv, Core, IPAllocation
<1>6. d \in Task /\ d.addr = Has(s) /\ d.kind = "delete"
  BY <1>5 DEF Task, Kinds
<1>7. \/ tasks' = tasks /\ Has(s) = {}
      \/ tasks' = tasks \cup {d}
  <2>1. CASE alloc[s] = NoObject
    BY <2>1 DEF DeleteAllocationByName, Has
  <2>2. CASE alloc[s] # NoObject
    <3>1. Has(s) = alloc[s].addr
      BY <2>2 DEF Has
    <3>2. DeletedEvent(s) = {d}
      BY <3>1 DEF DeletedEvent
    <3> HIDE DEF d
    <3> QED
      BY <2>2, <3>2 DEF DeleteAllocationByName
  <2> QED
    BY <2>1, <2>2
<1> HIDE DEF d
<1>8. FreshKept(g) /\ g \notin fresh'
  BY <1>3 DEF FreshKept, Copies, Inv, Core, Thread
<1>9. Core' /\ Owing'
  BY <1>2, <1>3, <1>6, <1>7, <1>8 DEF Inv, Core, Owing, FreshKept, money
<1>10. CurrentCopies'
  BY <1>1, <1>8, StillCurrent
<1>11. Books'
  <2> SUFFICES ASSUME NEW a \in Addresses PROVE Single(a)'
    BY DEF Books
  <2>1. Single(a)
    BY DEF Inv, Books
  <2>2. \A h \in Goroutines : w'[h].got = w[h].got
    BY <1>1, <1>2
  <2>3. InHands(a)' <=> InHands(a)
    BY <2>2 DEF InHands
  <2>4. CASE a \in Has(s)
    <3>1. InObject(a) /\ ~InHands(a) /\ ~IsOwed(a)
      BY <2>1, <2>4 DEF Single, InObject
    <3>2. ~InObject(a)' /\ \A u \in Services : a \notin Has(u)'
      BY <1>4, <2>1, <2>4 DEF Single, InObject
    <3>3. IsOwed(a)' /\ \A t, u \in tasks' : a \in t.addr /\ a \in u.addr => t = u
      BY <1>6, <1>7, <2>4, <3>1 DEF IsOwed
    <3> QED
      BY <2>1, <2>2, <2>3, <3>1, <3>2, <3>3 DEF Single, money
  <2>5. CASE a \notin Has(s)
    <3>1. \A u \in Services : a \in Has(u)' <=> a \in Has(u)
      BY <1>4, <2>5
    <3>2. InObject(a)' <=> InObject(a)
      BY <3>1 DEF InObject
    <3>3. IsOwed(a)' <=> IsOwed(a)
      BY <1>6, <1>7, <2>5 DEF IsOwed
    <3>4. \A t, u \in tasks' : a \in t.addr /\ a \in u.addr => t = u
      BY <1>6, <1>7, <2>1, <2>5 DEF Single
    <3> QED
      BY <2>1, <2>2, <2>3, <3>1, <3>2, <3>3, <3>4 DEF Single, money
  <2> QED
    BY <2>4, <2>5
<1> QED
  BY <1>2, <1>9, <1>10, <1>11 DEF Inv

(* DeleteAllocation keeps the books. *)
LEMMA DeleteStep ==
    ASSUME Inv, NEW g \in Goroutines, DeleteAllocation(g)
    PROVE  Inv'
<1>1. w[g].pc = "deleteAlloc" /\ w[g].s \in Services
  BY DEF DeleteAllocation, At, Inv, Core, Thread
<1>2. w[g].got = {}
  BY <1>1, EmptyHands
<1>3. UNCHANGED money
  BY DEF DeleteAllocation
<1>4. CASE DeleteAllocationByName(w[g].s) /\ Leave(g) /\ fresh' = fresh \ Copies(w[g].s)
  BY <1>1, <1>2, <1>3, <1>4, DeleteByName
<1>5. CASE End(g) /\ UNCHANGED <<alloc, tasks>>
  BY <1>2, <1>3, <1>5, NoWrite, QuietEnd
<1> QED
  BY <1>4, <1>5 DEF DeleteAllocation

(* The pool is gone: the address that is taken out of the object is given up. *)
LEMMA PoolRemovalStep ==
    ASSUME Inv, NEW s \in Services, DeallocateAddressesOfPool(s)
    PROVE  Inv'
<1> DEFINE obj == [Blank EXCEPT !.state = "address_deleted_from_pool"]
<1>1. UNCHANGED w /\ UNCHANGED cloud
  BY DEF DeallocateAddressesOfPool
<1>2. CASE UNCHANGED <<alloc, tasks, fresh, orphans>>
  <2>1. Keeps /\ UNCHANGED money
    BY <1>1, <1>2, NoWrite DEF money
  <2> QED
    BY <1>1, <1>2, <2>1, QuietOutside
<1>3. CASE HasEntry(s) /\ Write(s, obj, {}) /\ orphans' = orphans \cup alloc[s].addr
  <2>1. obj \in IPAllocation /\ obj.addr = {}
    BY DEF Blank, IPAllocation, States
  <2>2. EventTasks(s, obj.state) \subseteq Task /\ \A t \in EventTasks(s, obj.state) : t.addr = {}
    BY <2>1, EventTypes DEF IPAllocation
  <2> HIDE DEF obj
  <2>3. QuietTasks
    BY <1>3, <2>2 DEF Write, QuietTasks, Inv, Core
  <2>4. /\ alloc' \in [Services -> IPAllocation \cup {NoObject}]
        /\ alloc'[s] = obj /\ \A u \in Services : u # s => alloc'[u] = alloc[u]
    BY <1>3, <2>1 DEF Write, Inv, Core
  <2>5. Has(s)' = {} /\ \A u \in Services : u # s => Has(u)' = Has(u)
    BY <2>1, <2>4 DEF Has
  <2>6. Has(s) \in SUBSET Addresses /\ Has(s) = alloc[s].addr
    BY <1>3 DEF Has, HasEntry, Inv, Core, IPAllocation
  <2>7. fresh' \subseteq fresh /\ \A h \in fresh' : alloc'[w[h].s] = alloc[w[h].s]
    BY <1>3 DEF Write, Copies, Inv, Core
  <2>8. CurrentCopies'
    BY <1>1, <2>7 DEF Inv, CurrentCopies
  <2>9. Core' /\ Owing' /\ Sounds'
    BY <1>1, <1>3, <2>3, <2>4, <2>6, <2>7 DEF Inv, Core, Owing, Sounds, QuietTasks
  <2>10. Books'
    <3> SUFFICES ASSUME NEW a \in Addresses PROVE Single(a)'
      BY DEF Books
    <3>1. Single(a)
      BY DEF Inv, Books
    <3>2. (InHands(a)' <=> InHands(a)) /\ (IsOwed(a)' <=> IsOwed(a))
      BY <1>1, <2>3 DEF InHands, IsOwed, QuietTasks
    <3>3. \A t, u \in tasks' : a \in t.addr /\ a \in u.addr => t = u
      BY <2>3, <3>1 DEF Single, QuietTasks
    <3>4. CASE a \in Has(s)
      <4>1. InObject(a) /\ ~InHands(a) /\ ~IsOwed(a) /\ a \in cloud /\ a \in orphans'
        BY <1>3, <2>6, <3>1, <3>4 DEF Single, InObject
      <4>2. ~InObject(a)' /\ \A u \in Services : a \notin Has(u)'
        BY <2>5, <3>1, <3>4 DEF Single, InObject
      <4> QED
        BY <1>1, <3>1, <3>2, <3>3, <4>1, <4>2 DEF Single
    <3>5. CASE a \notin Has(s)
      <4>1. \A u \in Services : a \in Has(u)' <=> a \in Has(u)
        BY <2>5, <3>5
      <4>2. (InObject(a)' <=> InObject(a)) /\ (a \in orphans' <=> a \in orphans)
        BY <1>3, <2>6, <3>5, <4>1 DEF InObject
      <4> QED
        BY <1>1, <3>1, <3>2, <3>3, <4>1, <4>2 DEF Single
    <3> QED
      BY <3>4, <3>5
  <2> QED
    BY <2>8, <2>9, <2>10 DEF Inv
<1> QED
  BY <1>2, <1>3 DEF DeallocateAddressesOfPool

(* What the dying leader had in memory is given up, and the address of an    *)
(* object that goes with it.                                                 *)
LEMMA DieStep ==
    ASSUME Inv, NEW untold, Die(untold),
           \/ UNCHANGED alloc /\ untold = {}
           \/ \E s \in Services : alloc' = [alloc EXCEPT ![s] = NoObject] /\ untold = Has(s)
    PROVE  Inv'
<1>1. /\ tasks' = {} /\ fresh' = {} /\ cloud' = cloud /\ w' = [g \in Goroutines |-> Idle]
      /\ orphans' = orphans \cup untold \cup (UNION {w[g].got : g \in Goroutines})
                            \cup (UNION {t.addr : t \in tasks})
  BY DEF Die
<1>2. PICK gone \in SUBSET Services :
         /\ alloc' \in [Services -> IPAllocation \cup {NoObject}]
         /\ \A u \in Services : Has(u)' = IF u \in gone THEN {} ELSE Has(u)
         /\ untold = UNION {Has(u) : u \in gone}
  <2>1. CASE UNCHANGED alloc /\ untold = {}
    <3>1. \A u \in Services : Has(u)' = Has(u)
      BY <2>1 DEF Has
    <3> QED
      BY <2>1, <3>1 DEF Inv, Core
  <2>2. CASE \E s \in Services : alloc' = [alloc EXCEPT ![s] = NoObject] /\ untold = Has(s)
    <3>1. PICK s \in Services : alloc' = [alloc EXCEPT ![s] = NoObject] /\ untold = Has(s)
      BY <2>2
    <3>2. \A u \in Services : Has(u)' = IF u \in {s} THEN {} ELSE Has(u)
      BY <3>1 DEF Has, Inv, Core
    <3>3. alloc' \in [Services -> IPAllocation \cup {NoObject}]
      BY <3>1 DEF Inv, Core
    <3>4. untold = UNION {Has(u) : u \in {s}}
      BY <3>1
    <3> QED
      BY <3>2, <3>3, <3>4
  <2> QED
    BY <2>1, <2>2
<1>3. /\ \A g \in Goroutines : w[g].got \in SUBSET Addresses
      /\ \A t \in tasks : t.addr \in SUBSET Addresses
      /\ \A u \in Services : Has(u) \in SUBSET Addresses
  BY DEF Inv, Core, Thread, Task, Has, IPAllocation
<1>4. \A a : a \in orphans' <=> \/ a \in orphans \/ InHands(a) \/ IsOwed(a)
                                \/ \E u \in gone : a \in Has(u)
  BY <1>1, <1>2 DEF InHands, IsOwed
<1>5. orphans' \subseteq Addresses
  BY <1>2, <1>3, <1>4 DEF Inv, Core, InHands, IsOwed
<1>6. Core' /\ Owing' /\ CurrentCopies' /\ Sounds'
  BY <1>1, <1>2, <1>5, IdleType DEF Inv, Core, Owing, CurrentCopies, Sounds
<1>7. Books'
  <2> SUFFICES ASSUME NEW a \in Addresses PROVE Single(a)'
    BY DEF Books
  <2>1. Single(a)
    BY DEF Inv, Books
  <2>2. ~InHands(a)' /\ ~IsOwed(a)' /\ \A g \in Goroutines : a \notin w'[g].got
    BY <1>1 DEF InHands, IsOwed, Idle
  <2>3. InObject(a)' <=> \E u \in Services \ gone : a \in Has(u)
    BY <1>2 DEF InObject
  <2>4. InObject(a) <=> \E u \in Services : a \in Has(u)
    BY DEF InObject
  <2>5. \A s, t \in Services : a \in Has(s)' /\ a \in Has(t)' => s = t
    BY <1>2, <2>1 DEF Single
  <2>6. InObject(a)' => a \in cloud /\ a \notin orphans'
    BY <1>2, <1>4, <2>1, <2>3, <2>4 DEF Single
  <2>7. a \in cloud => a \in orphans' \/ InObject(a)'
    BY <1>4, <2>1, <2>3, <2>4 DEF Single
  <2>8. a \in orphans' => a \in cloud
    BY <1>2, <1>4, <2>1, <2>4 DEF Single
  <2> QED
    BY <1>1, <2>2, <2>5, <2>6, <2>7, <2>8 DEF Single
<1> QED
  BY <1>6, <1>7 DEF Inv

(* ReconcileDelete keeps the books, the panic of the retry loop included. *)
LEMMA ReconcileDeleteStep ==
    ASSUME Inv, NEW g \in Goroutines, ReconcileDelete(g)
    PROVE  Inv'
<1> DEFINE s == w[g].s
<1>1. w[g].pc = "deleteOther" /\ s \in Services
  BY DEF ReconcileDelete, At, Inv, Core, Thread
<1>2. w[g].got = {}
  BY <1>1, EmptyHands
<1>3. CASE /\ DeleteAllocationByName(s) /\ fresh' = fresh \ Copies(s) /\ Leave(g)
           /\ UNCHANGED money
  BY <1>1, <1>2, <1>3, DeleteByName
<1>4. CASE /\ alloc' = [alloc EXCEPT ![s] = NoObject]
           /\ Die(IF alloc[s] = NoObject THEN {} ELSE alloc[s].addr)
  BY <1>1, <1>4, DieStep DEF Has
<1>5. CASE End(g) /\ UNCHANGED <<alloc, tasks>> /\ UNCHANGED money
  BY <1>2, <1>5, NoWrite, QuietEnd
<1> QED
  BY <1>3, <1>4, <1>5 DEF ReconcileDelete

(* PatchBlank keeps the books: it ends, or the leader dies. *)
LEMMA PatchBlankStep ==
    ASSUME Inv, NEW g \in Goroutines, PatchBlank(g)
    PROVE  Inv'
<1>1. w[g].got = {}
  BY EmptyHands DEF PatchBlank, At
<1>2. CASE Die({}) /\ UNCHANGED alloc
  BY <1>2, DieStep
<1>3. CASE End(g) /\ UNCHANGED <<alloc, tasks>> /\ UNCHANGED money
  BY <1>1, <1>3, NoWrite, QuietEnd
<1> QED
  BY <1>2, <1>3 DEF PatchBlank

(* ChangeAllocationNode keeps the books. *)
LEMMA ChangeNodeStep ==
    ASSUME Inv, NEW g \in Goroutines, ChangeAllocationNode(g)
    PROVE  Inv'
<1>1. w[g].pc = "changeNode"
  BY DEF ChangeAllocationNode, At
<1>2. w[g].obj.entry \in {"none", "noNode", "node"} /\ {"pending", "error"} \subseteq States
  BY DEF Inv, Core, Thread, IPAllocation, States
<1>3. CASE Die({}) /\ UNCHANGED alloc
  BY <1>3, DieStep
<1>4. ASSUME NEW entry \in {"none", "noNode", "node"}, NEW res \in States,
             g \in fresh, UNCHANGED money,
             Write(w[g].s, [alloc[w[g].s] EXCEPT !.entry = entry], {g}),
             Set(g, [w[g] EXCEPT !.pc = "setStatus", !.result = res])
      PROVE  Inv'
  BY <1>1, <1>4, ChangeNodeWrite
<1> QED
  BY <1>2, <1>3, <1>4 DEF ChangeAllocationNode

-----------------------------------------------------------------------------
(* The other variables *)

(* A goroutine changes the ingress at most, and the leader dies at most once. *)
Kept ==
    /\ svc' = svc /\ ingress' \in [Services -> SUBSET Addresses]
    /\ faults' \in 0 .. MaxFaults
    /\ \/ UNCHANGED leader
       \/ /\ up' = FALSE /\ tasks' = {} /\ removing' = {} /\ w' = [g \in Goroutines |-> Idle]
          /\ pool' \in {"absent", "unlisted", "listed"} /\ UNCHANGED <<changes, restarts>>

(* Counting a fault stays within the bound. *)
LEMMA FaultType ==
    ASSUME Rest, Fault \/ NoFault
    PROVE  faults' \in 0 .. MaxFaults
BY BoundsAssumption DEF Rest, Fault, NoFault

(* The death of the leader, for the other variables *)
LEMMA DieKept ==
    ASSUME Rest, NEW untold, Die(untold), faults' \in 0 .. MaxFaults
    PROVE  Kept
BY DEF Rest, Die, Kept, services

(* A step without a death *)
LEMMA StayKept ==
    ASSUME Rest, UNCHANGED services, UNCHANGED leader, faults' \in 0 .. MaxFaults
    PROVE  Kept
BY DEF Rest, Kept, services

(* A step that writes an ingress *)
LEMMA IngressKept ==
    ASSUME Rest, NEW s \in Services, NEW ips \in SUBSET Addresses, SetIngress(s, ips),
           UNCHANGED leader, faults' \in 0 .. MaxFaults
    PROVE  Kept
BY DEF Rest, Kept, SetIngress

(* What a goroutine does to the other variables *)
LEMMA GoroutineKept ==
    ASSUME Inv, Rest, NEW g \in Goroutines,
           Create(g) \/ Reconciler(g) \/ Allocator(g) \/ Deallocator(g)
    PROVE  Kept
<1>1. w[g].s \in Services /\ w[g].obj.addr \in SUBSET Addresses
  BY DEF Inv, Core, Thread, IPAllocation
<1>2. faults \in 0 .. MaxFaults
  BY DEF Rest
<1>3. \A entry, got : Buy(entry, got) => Fault \/ NoFault
  BY DEF Buy, GetAndAssignNewAddress
<1>4. WriteStatus(g) \/ WriteFails(g) => Fault \/ NoFault
  BY DEF WriteStatus, WriteFails
<1>5. CASE LookupAllocation(g) \/ FindAllocation(g) \/ BuildAllocations(g) \/ CreateAllocation(g)
  <2>1. Fault \/ NoFault
    BY <1>3, <1>5 DEF LookupAllocation, FindAllocation, BuildAllocations, CreateAllocation
  <2>2. UNCHANGED services /\ UNCHANGED leader
    BY <1>5 DEF LookupAllocation, FindAllocation, BuildAllocations, CreateAllocation
  <2> QED
    BY <2>1, <2>2, FaultType, StayKept
<1>6. CASE Get(g) \/ GetFailed(g) \/ PatchNode(g) \/ PatchAddress(g) \/ UpdateAllocation(g)
  <2>1. Fault \/ NoFault
    BY <1>3, <1>4, <1>6 DEF Get, GetFailed, PatchNode, PatchAddress, UpdateAllocation
  <2>2. UNCHANGED services /\ UNCHANGED leader
    BY <1>6 DEF Get, GetFailed, PatchNode, PatchAddress, UpdateAllocation
  <2> QED
    BY <2>1, <2>2, FaultType, StayKept
<1>7. CASE FindService(g) \/ EnsureFindService(g) \/ Recreate(g)
  BY <1>2, <1>7, StayKept DEF FindService, EnsureFindService, Recreate
<1>8. CASE DeleteAllocation(g) \/ AllocateAddress(g) \/ SetStatus(g)
           \/ SetAllocationStatusSuccess(g) \/ DeallocateAddress(g)
  <2>1. Fault \/ NoFault
    BY <1>4, <1>8 DEF DeleteAllocation, AllocateAddress, SetStatus, SetAllocationStatusSuccess,
                      DeallocateAddress
  <2>2. UNCHANGED services /\ UNCHANGED leader
    BY <1>8 DEF DeleteAllocation, AllocateAddress, SetStatus, SetAllocationStatusSuccess,
                DeallocateAddress
  <2> QED
    BY <2>1, <2>2, FaultType, StayKept
<1>9. CASE Reconcile(g) \/ UpdateServiceIngressWithIps(g) \/ RemoveServiceIngressIPs(g)
  <2>1. Fault \/ NoFault
    BY <1>9 DEF Reconcile, UpdateServiceIngressWithIps, RemoveServiceIngressIPs
  <2>2. UNCHANGED leader
    BY <1>9 DEF Reconcile, UpdateServiceIngressWithIps, RemoveServiceIngressIPs
  <2>3. UNCHANGED services \/ \E ips \in SUBSET Addresses : SetIngress(w[g].s, ips)
    BY <1>1, <1>9 DEF Reconcile, UpdateServiceIngressWithIps, RemoveServiceIngressIPs
  <2> QED
    BY <1>1, <2>1, <2>2, <2>3, FaultType, StayKept, IngressKept
<1>10. CASE ReconcileDelete(g)
  <2>1. Fault \/ NoFault
    BY <1>10 DEF ReconcileDelete
  <2>2. (UNCHANGED services /\ UNCHANGED leader) \/ \E untold : Die(untold)
    BY <1>10 DEF ReconcileDelete
  <2> QED
    BY <2>1, <2>2, FaultType, StayKept, DieKept
<1>11. CASE PatchBlank(g)
  BY <1>2, <1>11, StayKept, DieKept DEF PatchBlank
<1>12. CASE ChangeAllocationNode(g)
  <2>1. Fault \/ NoFault
    BY <1>4, <1>12 DEF ChangeAllocationNode
  <2>2. (UNCHANGED services /\ UNCHANGED leader) \/ Die({})
    BY <1>12 DEF ChangeAllocationNode
  <2> QED
    BY <2>1, <2>2, FaultType, StayKept, DieKept
<1> QED
  BY <1>5, <1>6, <1>7, <1>8, <1>9, <1>10, <1>11, <1>12
     DEF Create, Reconciler, Allocator, Deallocator

(* A goroutine only runs while there is a leader. *)
LEMMA GoroutineUp ==
    ASSUME Rest, Down, NEW g \in Goroutines,
           Create(g) \/ Reconciler(g) \/ Allocator(g) \/ Deallocator(g)
    PROVE  up
<1>1. w[g].pc # "idle"
  <2>1. CASE Create(g)
    BY <2>1 DEF Create, LookupAllocation, FindAllocation, BuildAllocations, CreateAllocation, At
  <2>2. CASE Reconciler(g)
    BY <2>2 DEF Reconciler, Get, GetFailed, FindService, Reconcile, ReconcileDelete, PatchBlank,
                PatchNode, PatchAddress, UpdateAllocation, At
  <2>3. CASE Allocator(g)
    BY <2>3 DEF Allocator, EnsureFindService, DeleteAllocation, AllocateAddress, SetStatus,
                SetAllocationStatusSuccess, UpdateServiceIngressWithIps, ChangeAllocationNode, At
  <2>4. CASE Deallocator(g)
    BY <2>4 DEF Deallocator, DeallocateAddress, RemoveServiceIngressIPs, Recreate, At
  <2> QED
    BY <2>1, <2>2, <2>3, <2>4
<1> QED
  BY <1>1 DEF Rest, Down, At

(* What Kept says is enough for the other variables. *)
LEMMA KeptRest ==
    ASSUME Rest, up, Kept
    PROVE  Rest' /\ Down'
<1>1. CASE UNCHANGED leader
  BY <1>1 DEF Rest, Down, Kept, leader
<1>2. CASE /\ up' = FALSE /\ tasks' = {} /\ removing' = {} /\ w' = [g \in Goroutines |-> Idle]
           /\ pool' \in {"absent", "unlisted", "listed"} /\ UNCHANGED <<changes, restarts>>
  <2>1. Rest'
    BY <1>2 DEF Rest, Kept
  <2>2. Down'
    BY <1>2 DEF Down, At, Idle
  <2> QED
    BY <2>1, <2>2
<1> QED
  BY <1>1, <1>2 DEF Kept

(* Every step of a goroutine keeps the invariant. *)
LEMMA GoroutineStep ==
    ASSUME IInv, NEW g \in Goroutines,
           Create(g) \/ Reconciler(g) \/ Allocator(g) \/ Deallocator(g)
    PROVE  IInv'
<1>1. Inv /\ Rest /\ Down
  BY DEF IInv
<1>2. Rest' /\ Down'
  BY <1>1, GoroutineKept, GoroutineUp, KeptRest
<1>3. Inv'
  <2>1. CASE Create(g)
    BY <1>1, <2>1, LookupStep, FindAllocationStep, BuildStep, CreateStep DEF Create
  <2>2. CASE Reconciler(g)
    BY <1>1, <2>2, GetStep, GetFailedStep, FindServiceStep, ReconcileStep, ReconcileDeleteStep,
       PatchBlankStep, PatchNodeStep, PatchAddressStep, UpdateStep DEF Reconciler
  <2>3. CASE Allocator(g)
    BY <1>1, <2>3, EnsureFindServiceStep, DeleteStep, AllocateAddressStep, SetStatusStep,
       SuccessStep, UpdateIngressStep, ChangeNodeStep DEF Allocator
  <2>4. CASE Deallocator(g)
    BY <1>1, <2>4, DeallocateStep, RemoveIngressStep, RecreateStep DEF Deallocator
  <2> QED
    BY <2>1, <2>2, <2>3, <2>4
<1> QED
  BY <1>2, <1>3 DEF IInv

(* So does every change of a service. *)
LEMMA ServiceStep ==
    ASSUME IInv, NEW s \in Services, ServiceAdded(s) \/ ServiceDeleted(s) \/ TypeChanged(s)
    PROVE  IInv'
<1>1. Inv /\ Rest /\ Down
  BY DEF IInv
<1>2. PICK old \in SUBSET {"none", "lb", "other"}, new \in {"none", "lb", "other"},
           kind \in Kinds : ServiceEvent(s, old, new, kind)
  BY DEF ServiceAdded, ServiceDeleted, TypeChanged, Kinds
<1>3. Inv'
  BY <1>1, <1>2, ServiceEventStep
<1>4. svc' \in [Services -> {"none", "lb", "other"}] /\ ingress' \in [Services -> SUBSET Addresses]
  BY <1>1, <1>2 DEF ServiceEvent, Rest
<1>5. Rest'
  BY <1>1, <1>2, <1>4, BoundsAssumption DEF ServiceEvent, OutsideEvent, Rest
<1>6. Down'
  BY <1>1, <1>2 DEF ServiceEvent, Down, At
<1> QED
  BY <1>3, <1>5, <1>6 DEF IInv

(* So do the loss of a node and the changes of the pool. *)
LEMMA OutsideStep ==
    ASSUME IInv, (\E s \in Services : OperatorNodeLost(s)) \/ PoolChanged \/ PoolListed
    PROVE  IInv'
<1>1. Inv /\ Rest
  BY DEF IInv
<1>2. Inv'
  BY <1>1, NodeLostStep, PoolStep
<1>3. UNCHANGED services /\ UNCHANGED <<faults, restarts, up>> /\ up
  BY DEF OperatorNodeLost, PoolChanged, PoolListed, services
<1>4. changes' \in 0 .. MaxChanges
  <2>1. changes' = changes \/ OutsideEvent
    BY DEF OperatorNodeLost, PoolChanged, PoolListed
  <2> QED
    BY <1>1, <2>1, BoundsAssumption DEF OutsideEvent, Rest
<1>5. pool' \in {"absent", "unlisted", "listed"} /\ removing' \subseteq Services
  BY <1>1 DEF OperatorNodeLost, PoolChanged, PoolListed, Rest
<1>6. Rest'
  BY <1>1, <1>3, <1>4, <1>5 DEF Rest, services
<1> QED
  BY <1>2, <1>3, <1>6 DEF IInv, Down

(* So does the rest of the controller. *)
LEMMA ControllerStep ==
    ASSUME IInv, \/ \E t \in tasks : LockTimeout(t) \/ \E g \in Goroutines : Start(g, t)
                 \/ \E s \in Services : DeallocateAddressesOfPool(s)
                 \/ Restart
    PROVE  IInv'
<1>1. Inv /\ Rest /\ Down
  BY DEF IInv
<1>2. CASE \E t \in tasks : LockTimeout(t) \/ \E g \in Goroutines : Start(g, t)
  <2>1. up /\ UNCHANGED leader /\ UNCHANGED services /\ UNCHANGED faults
    BY <1>1, <1>2 DEF Rest, Down, LockTimeout, Start
  <2>2. Rest' /\ Down'
    BY <1>1, <2>1 DEF Rest, Down, leader, services
  <2>3. Inv'
    BY <1>1, <1>2, LockTimeoutStep, StartStep
  <2> QED
    BY <2>2, <2>3 DEF IInv
<1>3. CASE \E s \in Services : DeallocateAddressesOfPool(s)
  <2>1. PICK s \in Services : DeallocateAddressesOfPool(s)
    BY <1>3
  <2>2. up /\ UNCHANGED up
    BY <1>1, <2>1 DEF Rest, Down, DeallocateAddressesOfPool
  <2>3. faults' \in 0 .. MaxFaults
    BY <1>1, <2>1, FaultType DEF DeallocateAddressesOfPool
  <2>4. Rest' /\ Down'
    BY <1>1, <2>1, <2>2, <2>3 DEF Rest, Down, DeallocateAddressesOfPool, services
  <2>5. Inv'
    BY <1>1, <2>1, PoolRemovalStep
  <2> QED
    BY <2>4, <2>5 DEF IInv
<1>4. CASE Restart
  <2>1. Inv'
    BY <1>1, <1>4, RestartStep
  <2>2. Rest' /\ Down'
    BY <1>1, <1>4, BoundsAssumption DEF Rest, Down, Restart, services
  <2> QED
    BY <2>1, <2>2 DEF IInv
<1> QED
  BY <1>2, <1>3, <1>4

(* So does a crash. *)
LEMMA CrashStep ==
    ASSUME IInv, Crash
    PROVE  IInv'
<1>1. Inv /\ Rest /\ up /\ Die({}) /\ UNCHANGED alloc /\ UNCHANGED faults
  BY DEF IInv, Crash
<1>2. Inv'
  BY <1>1, DieStep
<1>3. faults' \in 0 .. MaxFaults
  BY <1>1 DEF Rest
<1>4. Kept
  BY <1>1, <1>3, DieKept
<1> QED
  BY <1>1, <1>2, <1>4, KeptRest DEF IInv

(* Stuttering changes nothing. *)
LEMMA StutterStep ==
    ASSUME IInv, UNCHANGED vars
    PROVE  IInv'
<1>1. Inv /\ Rest /\ Down
  BY DEF IInv
<1>2. UNCHANGED <<alloc, tasks, w, fresh>> /\ UNCHANGED money
  BY DEF vars, money
<1>3. Inv'
  BY <1>1, <1>2, NoWrite, QuietOutside
<1>4. Rest' /\ Down'
  BY <1>1 DEF vars, Rest, Down, At
<1> QED
  BY <1>3, <1>4 DEF IInv

(* The invariant is inductive. *)
LEMMA NextIInv == IInv /\ [Next]_vars => IInv'
<1> SUFFICES ASSUME IInv, [Next]_vars PROVE IInv'
  OBVIOUS
<1>1. CASE Environment
  BY <1>1, ServiceStep, OutsideStep, CrashStep DEF Environment
<1>2. CASE Controller
  BY <1>2, GoroutineStep, OutsideStep, ControllerStep DEF Controller
<1>3. CASE UNCHANGED vars
  BY <1>3, StutterStep
<1> QED
  BY <1>1, <1>2, <1>3 DEF Next

(* The invariant holds in every reachable state. *)
LEMMA Invariance == Spec => []IInv
BY InitIInv, NextIInv, PTL DEF Spec

-----------------------------------------------------------------------------
(* Every variable of EphemeralIPs keeps its type: what the goroutines write  *)
(* to the API server is an IPAllocation, under the name of a service.        *)
THEOREM TypeCorrect == Spec => []TypeOK
<1>1. IInv => TypeOK
  BY DEF IInv, Inv, Core, Rest, TypeOK
<1> QED
  BY <1>1, Invariance, PTL

(* Every floating IP that is paid for is in an allocation, in the hands of a *)
(* goroutine of ephemeralips/allocator.go or of the allocations watcher, or  *)
(* owed by an unhandled deletion, unless it was given up where a call failed,*)
(* a lock timed out, the leader died or the pool was gone.                   *)
THEOREM NoOtherLeak == Spec => []BoughtIsAccountedFor
<1>1. IInv => BoughtIsAccountedFor
  <2> SUFFICES ASSUME IInv, NEW a \in cloud
               PROVE  \/ a \in orphans
                      \/ \E s \in Objects : a \in alloc[s].addr
                      \/ \E g \in Goroutines : a \in w[g].got
                      \/ \E t \in tasks : a \in t.addr
    BY DEF BoughtIsAccountedFor
  <2>1. Single(a)
    BY DEF IInv, Inv, Core, Books
  <2>2. InObject(a) => \E s \in Objects : a \in alloc[s].addr
    BY DEF InObject, Has, Objects
  <2> QED
    BY <2>1, <2>2 DEF Single, InHands, IsOwed
<1> QED
  BY <1>1, Invariance, PTL

(* The address of a live allocation was bought for it alone: it is paid for, *)
(* was not given up, and is in no other object, in nobody's hands and owed   *)
(* by no deletion, whatever CreateAllocation, UpdateAllocation and the       *)
(* deletions of the goroutines do in whatever order.                         *)
THEOREM OwnsAddress == Spec => []AllocationOwnsAddress
<1>1. IInv => AllocationOwnsAddress
  <2> SUFFICES ASSUME IInv, NEW s \in Objects
               PROVE  /\ alloc[s].addr \subseteq cloud \ orphans
                      /\ \A t \in Objects : s # t => alloc[s].addr \cap alloc[t].addr = {}
                      /\ \A g \in Goroutines : alloc[s].addr \cap w[g].got = {}
                      /\ \A t \in tasks : alloc[s].addr \cap t.addr = {}
    BY DEF AllocationOwnsAddress
  <2>1. s \in Services /\ Has(s) = alloc[s].addr /\ Has(s) \in SUBSET Addresses
    BY DEF Objects, Has, IInv, Inv, Core, IPAllocation
  <2>2. \A t \in Objects : t \in Services /\ Has(t) = alloc[t].addr
    BY DEF Objects, Has
  <2>3. ASSUME NEW a \in Has(s)
        PROVE  /\ a \in cloud \ orphans
               /\ \A t \in Objects : s # t => a \notin alloc[t].addr
               /\ \A g \in Goroutines : a \notin w[g].got
               /\ \A t \in tasks : a \notin t.addr
    <3>1. Single(a) /\ InObject(a)
      BY <2>1 DEF IInv, Inv, Books, InObject
    <3> QED
      BY <2>1, <2>2, <3>1 DEF Single, InHands, IsOwed
  <2> QED
    BY <2>1, <2>3
<1> QED
  BY <1>1, Invariance, PTL
=============================================================================
