--------------------- MODULE PersistentIPsLedger_proofs ---------------------
(***************************************************************************)
(* Proofs about who has an address: SingleOwner, and that the controller   *)
(* implements AddressLedger.                                               *)
(*                                                                         *)
(* Both hold as long as the first leader runs, no service is edited from   *)
(* one set of addresses to another and no pool is touched: the runs edit   *)
(* and warmup show why they do not hold beyond.                            *)
(***************************************************************************)
EXTENDS PersistentIPsLedger, PersistentIPs_proofs

(* The externalIPs of a service never change. *)
FixedIPs == \A s \in Services : \A x, y \in ExternalIPs[s] : x = y

(* All the addresses a service ever asks for *)
Wanted(s) == UNION ExternalIPs[s]

-----------------------------------------------------------------------------
(* Who has an address *)

(* The addresses of the object of s *)
IpsOf(s) == IF alloc[s] = NoObject THEN {} ELSE alloc[s].ips

(* The deletions that are not handled yet *)
Debts == {t \in tasks : t.kind = "delete"}

(* SingleOwner, in these terms *)
Apart ==
    /\ \A s, t \in Services : s # t => IpsOf(s) \cap IpsOf(t) = {}
    /\ \A p \in Pools, s \in Services : avail[p] \cap IpsOf(s) = {}
    /\ \A p \in Pools, g \in Threads : avail[p] \cap w[g].got = {}
    /\ \A p \in Pools, t \in Debts : avail[p] \cap t.ips = {}
    /\ \A g \in Threads, s \in Services : w[g].got \cap IpsOf(s) = {}
    /\ \A g, h \in Threads : g # h => w[g].got \cap w[h].got = {}
    /\ \A g \in Threads, t \in Debts : w[g].got \cap t.ips = {}
    /\ \A s \in Services, t \in Debts : IpsOf(s) \cap t.ips = {}
    /\ \A t, u \in Debts : t # u => t.ips \cap u.ips = {}

(* Apart says what the runs check. *)
LEMMA ApartIsSingleOwner == Apart => SingleOwner
<1> SUFFICES ASSUME Apart PROVE SingleOwner
  OBVIOUS
<1>1. BoundToSingleService /\ AvailableIsFree
  BY DEF Apart, IpsOf, BoundToSingleService, AvailableIsFree
<1>2. \A t \in tasks : Owed(t) = {} \/ (t \in Debts /\ Owed(t) = t.ips)
  BY DEF Owed, Debts
<1>3. \A s \in Services : alloc[s] # NoObject => IpsOf(s) = alloc[s].ips
  BY DEF IpsOf
<1>4. \A p \in Pools, t \in tasks : avail[p] \cap Owed(t) = {}
  BY <1>2 DEF Apart
<1>5. \A g \in Threads, s \in Services :
         alloc[s] # NoObject => w[g].got \cap alloc[s].ips = {}
  BY <1>3 DEF Apart
<1>6. \A g \in Threads, t \in tasks : w[g].got \cap Owed(t) = {}
  BY <1>2 DEF Apart
<1>7. \A s \in Services, t \in tasks :
         alloc[s] # NoObject => alloc[s].ips \cap Owed(t) = {}
  BY <1>2, <1>3 DEF Apart
<1>8. \A t, u \in tasks : t # u => Owed(t) \cap Owed(u) = {}
  BY <1>2 DEF Apart
<1>9. /\ \A p \in Pools, g \in Threads : avail[p] \cap w[g].got = {}
      /\ \A g, h \in Threads : g # h => w[g].got \cap w[h].got = {}
  BY DEF Apart
<1> QED
  BY <1>1, <1>4, <1>5, <1>6, <1>7, <1>8, <1>9 DEF SingleOwner

-----------------------------------------------------------------------------
(* Moves: what a step may do to the owners *)

(* The stage of the addresses in the hands of a thread *)
Stage(r) == IF r.kind = "delete" /\ r.pc \in OwingLocations THEN "owed" ELSE "booked"

(* Objects and deletions stay. *)
SameObjects ==
    /\ \A s \in Services : IpsOf(s)' = IpsOf(s)
    /\ Debts' = Debts

(* Nobody gains an address. *)
Shrinks ==
    /\ \A p \in Pools : avail'[p] \subseteq avail[p]
    /\ \A s \in Services : IpsOf(s)' \subseteq IpsOf(s)
    /\ \A g \in Threads : w'[g].got \subseteq w[g].got
    /\ Debts' \subseteq Debts

(* Nothing moves. *)
Holds ==
    /\ SameObjects
    /\ \A g \in Threads : w'[g].got = w[g].got
    /\ UNCHANGED avail

(* Thread g forgets what it has in hand. *)
Drops(g) ==
    /\ SameObjects
    /\ w'[g].got = {}
    /\ \A h \in Threads : h # g => w'[h].got = w[h].got
    /\ UNCHANGED avail

(* An address is withdrawn from the pools. *)
Withdraws(a) ==
    /\ SameObjects
    /\ \A g \in Threads : w'[g].got = w[g].got
    /\ \A p \in Pools : avail'[p] = avail[p] \ {a}

(* Thread g takes an address out of the pools ... *)
Books(g, a) ==
    /\ SameObjects
    /\ \E p \in Pools : a \in avail[p]
    /\ \A p \in Pools : avail'[p] = avail[p] \ {a}
    /\ w'[g].got = w[g].got \cup {a}
    /\ w'[g].s = w[g].s /\ Stage(w'[g]) = "booked"
    /\ \A h \in Threads : h # g => w'[h].got = w[h].got

(* ... gives one back ... *)
Returns(g, a) ==
    /\ SameObjects
    /\ a \in w[g].got
    /\ \E p \in Pools : a \in avail'[p]
    /\ \A p \in Pools : avail'[p] = avail[p] \/ avail'[p] = avail[p] \cup {a}
    /\ w'[g].got = w[g].got \ {a}
    /\ \A h \in Threads : h # g => w'[h].got = w[h].got

(* ... or has all it holds written into the object of its service. *)
Binds(g) ==
    /\ \A s \in Services :
          IpsOf(s)' = IF s = w[g].s THEN IpsOf(s) \cup w[g].got ELSE IpsOf(s)
    /\ Debts' = Debts
    /\ Stage(w[g]) = "booked"
    /\ w'[g].got = {}
    /\ \A h \in Threads : h # g => w'[h].got = w[h].got
    /\ UNCHANGED avail

(* The object of s is deleted. *)
Unbinds(s) ==
    /\ \A t \in Services : IpsOf(t)' = IF t = s THEN {} ELSE IpsOf(t)
    /\ Debts' = Debts \cup {[kind |-> "delete", s |-> s, ips |-> IpsOf(s)]}
    /\ \A g \in Threads : w'[g].got = w[g].got
    /\ UNCHANGED avail

(* Thread g starts on a deletion. *)
Collects(g, t) ==
    /\ t \in Debts
    /\ \A s \in Services : IpsOf(s)' = IpsOf(s)
    /\ Debts' = Debts \ {t}
    /\ w[g].got = {}
    /\ w'[g].got = t.ips
    /\ w'[g].s = t.s /\ Stage(w'[g]) = "owed"
    /\ \A h \in Threads : h # g => w'[h].got = w[h].got
    /\ UNCHANGED avail

(* Each of the moves leaves the owners apart. *)
LEMMA ShrinksKeepsApart ==
  ASSUME Apart, Shrinks
  PROVE  Apart'
<1>1. /\ (\A s, t \in Services : s # t => IpsOf(s) \cap IpsOf(t) = {})'
      /\ (\A p \in Pools, s \in Services : avail[p] \cap IpsOf(s) = {})'
      /\ (\A g \in Threads, s \in Services : w[g].got \cap IpsOf(s) = {})'
      /\ (\A s \in Services, t \in Debts : IpsOf(s) \cap t.ips = {})'
  BY DEF Apart, Shrinks
<1>2. /\ (\A p \in Pools, g \in Threads : avail[p] \cap w[g].got = {})'
      /\ (\A g, h \in Threads : g # h => w[g].got \cap w[h].got = {})'
      /\ (\A g \in Threads, t \in Debts : w[g].got \cap t.ips = {})'
  BY DEF Apart, Shrinks
<1>3. /\ (\A p \in Pools, t \in Debts : avail[p] \cap t.ips = {})'
      /\ (\A t, u \in Debts : t # u => t.ips \cap u.ips = {})'
  BY DEF Apart, Shrinks
<1> QED
  BY <1>1, <1>2, <1>3 DEF Apart

(* What was in a pool was with nobody else. *)
LEMMA BooksKeepsApart ==
  ASSUME Apart, NEW g \in Threads, NEW a, Books(g, a)
  PROVE  Apart'
<1>1. PICK q \in Pools : a \in avail[q]
  BY DEF Books
<1>2. /\ \A s \in Services : a \notin IpsOf(s)
      /\ \A h \in Threads : a \notin w[h].got
      /\ \A t \in Debts : a \notin t.ips
  BY <1>1 DEF Apart
<1>3. /\ (\A s, t \in Services : s # t => IpsOf(s) \cap IpsOf(t) = {})'
      /\ (\A p \in Pools, s \in Services : avail[p] \cap IpsOf(s) = {})'
      /\ (\A h \in Threads, s \in Services : w[h].got \cap IpsOf(s) = {})'
      /\ (\A s \in Services, t \in Debts : IpsOf(s) \cap t.ips = {})'
  BY <1>2 DEF Apart, Books, SameObjects
<1>4. /\ (\A p \in Pools, h \in Threads : avail[p] \cap w[h].got = {})'
      /\ (\A f, h \in Threads : f # h => w[f].got \cap w[h].got = {})'
      /\ (\A h \in Threads, t \in Debts : w[h].got \cap t.ips = {})'
  BY <1>2 DEF Apart, Books, SameObjects
<1>5. /\ (\A p \in Pools, t \in Debts : avail[p] \cap t.ips = {})'
      /\ (\A t, u \in Debts : t # u => t.ips \cap u.ips = {})'
  BY <1>2 DEF Apart, Books, SameObjects
<1> QED
  BY <1>3, <1>4, <1>5 DEF Apart

(* What a thread gives back it had alone. *)
LEMMA ReturnsKeepsApart ==
  ASSUME Apart, NEW g \in Threads, NEW a, Returns(g, a)
  PROVE  Apart'
<1>2. /\ \A s \in Services : a \notin IpsOf(s)
      /\ \A h \in Threads : h # g => a \notin w[h].got
      /\ \A t \in Debts : a \notin t.ips
  BY DEF Apart, Returns
<1>3. /\ (\A s, t \in Services : s # t => IpsOf(s) \cap IpsOf(t) = {})'
      /\ (\A p \in Pools, s \in Services : avail[p] \cap IpsOf(s) = {})'
      /\ (\A h \in Threads, s \in Services : w[h].got \cap IpsOf(s) = {})'
      /\ (\A s \in Services, t \in Debts : IpsOf(s) \cap t.ips = {})'
  BY <1>2 DEF Apart, Returns, SameObjects
<1>4. /\ (\A p \in Pools, h \in Threads : avail[p] \cap w[h].got = {})'
      /\ (\A f, h \in Threads : f # h => w[f].got \cap w[h].got = {})'
      /\ (\A h \in Threads, t \in Debts : w[h].got \cap t.ips = {})'
  BY <1>2 DEF Apart, Returns, SameObjects
<1>5. /\ (\A p \in Pools, t \in Debts : avail[p] \cap t.ips = {})'
      /\ (\A t, u \in Debts : t # u => t.ips \cap u.ips = {})'
  BY <1>2 DEF Apart, Returns, SameObjects
<1> QED
  BY <1>3, <1>4, <1>5 DEF Apart

(* What a thread has in hand is in no object and in no other hand. *)
LEMMA BindsKeepsApart ==
  ASSUME Apart, NEW g \in Threads, w[g].s \in Services, Binds(g)
  PROVE  Apart'
<1>0. \A s \in Services : IpsOf(s)' = IpsOf(s) \/ (s = w[g].s /\ IpsOf(s)' = IpsOf(s) \cup w[g].got)
  BY DEF Binds
<1>1. (\A s, t \in Services : s # t => IpsOf(s) \cap IpsOf(t) = {})'
  <2> SUFFICES ASSUME NEW s \in Services, NEW t \in Services, s # t
               PROVE  IpsOf(s)' \cap IpsOf(t)' = {}
    OBVIOUS
  <2>1. /\ IpsOf(s) \cap IpsOf(t) = {} /\ w[g].got \cap IpsOf(s) = {}
        /\ w[g].got \cap IpsOf(t) = {}
    BY DEF Apart
  <2> QED
    BY <1>0, <2>1
<1>2. /\ (\A p \in Pools, s \in Services : avail[p] \cap IpsOf(s) = {})'
      /\ (\A s \in Services, t \in Debts : IpsOf(s) \cap t.ips = {})'
  BY <1>0 DEF Apart, Binds
<1>3. (\A h \in Threads, s \in Services : w[h].got \cap IpsOf(s) = {})'
  BY <1>0 DEF Apart, Binds
<1>4. /\ (\A p \in Pools, h \in Threads : avail[p] \cap w[h].got = {})'
      /\ (\A f, h \in Threads : f # h => w[f].got \cap w[h].got = {})'
      /\ (\A h \in Threads, t \in Debts : w[h].got \cap t.ips = {})'
  BY DEF Apart, Binds
<1>5. /\ (\A p \in Pools, t \in Debts : avail[p] \cap t.ips = {})'
      /\ (\A t, u \in Debts : t # u => t.ips \cap u.ips = {})'
  BY DEF Apart, Binds
<1> QED
  BY <1>1, <1>2, <1>3, <1>4, <1>5 DEF Apart

(* A deletion carries the addresses of one object. *)
LEMMA UnbindsKeepsApart ==
  ASSUME Apart, NEW s \in Services, Unbinds(s)
  PROVE  Apart'
<1> DEFINE d == [kind |-> "delete", s |-> s, ips |-> IpsOf(s)]
<1>1. d.ips = IpsOf(s) /\ Debts' = Debts \cup {d}
  BY DEF Unbinds
<1> HIDE DEF d
<1>3. /\ (\A r, t \in Services : r # t => IpsOf(r) \cap IpsOf(t) = {})'
      /\ (\A p \in Pools, t \in Services : avail[p] \cap IpsOf(t) = {})'
      /\ (\A h \in Threads, t \in Services : w[h].got \cap IpsOf(t) = {})'
  BY DEF Apart, Unbinds
<1>6. (\A r \in Services, t \in Debts : IpsOf(r) \cap t.ips = {})'
  BY <1>1 DEF Apart, Unbinds
<1>4. /\ (\A p \in Pools, h \in Threads : avail[p] \cap w[h].got = {})'
      /\ (\A f, h \in Threads : f # h => w[f].got \cap w[h].got = {})'
      /\ (\A h \in Threads, t \in Debts : w[h].got \cap t.ips = {})'
  BY <1>1 DEF Apart, Unbinds
<1>5. /\ (\A p \in Pools, t \in Debts : avail[p] \cap t.ips = {})'
      /\ (\A t, u \in Debts : t # u => t.ips \cap u.ips = {})'
  BY <1>1 DEF Apart, Unbinds
<1> QED
  BY <1>3, <1>4, <1>5, <1>6 DEF Apart

(* What a deletion carries nobody else has. *)
LEMMA CollectsKeepsApart ==
  ASSUME Apart, NEW g \in Threads, NEW t, Collects(g, t)
  PROVE  Apart'
<1>3. /\ (\A s, u \in Services : s # u => IpsOf(s) \cap IpsOf(u) = {})'
      /\ (\A p \in Pools, s \in Services : avail[p] \cap IpsOf(s) = {})'
      /\ (\A h \in Threads, s \in Services : w[h].got \cap IpsOf(s) = {})'
      /\ (\A s \in Services, u \in Debts : IpsOf(s) \cap u.ips = {})'
  BY DEF Apart, Collects
<1>4. /\ (\A p \in Pools, h \in Threads : avail[p] \cap w[h].got = {})'
      /\ (\A f, h \in Threads : f # h => w[f].got \cap w[h].got = {})'
      /\ (\A h \in Threads, u \in Debts : w[h].got \cap u.ips = {})'
  BY DEF Apart, Collects
<1>5. /\ (\A p \in Pools, u \in Debts : avail[p] \cap u.ips = {})'
      /\ (\A u, v \in Debts : u # v => u.ips \cap v.ips = {})'
  BY DEF Apart, Collects
<1> QED
  BY <1>3, <1>4, <1>5 DEF Apart

(* A step of any thread, or the death of the leader *)
Moves ==
    \/ Holds
    \/ \E a \in Addresses : Withdraws(a)
    \/ \E g \in Threads :
          \/ Drops(g) \/ Binds(g)
          \/ \E a \in Addresses : Books(g, a) \/ Returns(g, a)
          \/ \E t \in Debts : Collects(g, t)
    \/ \E s \in Services : Unbinds(s)

(* All of them *)
LEMMA MovesKeepApart ==
  ASSUME Apart, Moves, \A g \in Threads : w[g].s \in Services
  PROVE  Apart'
<1>1. Holds => Shrinks
  BY DEF Holds, SameObjects, Shrinks
<1>2. ASSUME NEW a, Withdraws(a) PROVE Shrinks
  BY <1>2 DEF Withdraws, SameObjects, Shrinks
<1>3. ASSUME NEW g \in Threads, Drops(g) PROVE Shrinks
  BY <1>3 DEF Drops, SameObjects, Shrinks
<1> QED
  BY <1>1, <1>2, <1>3, ShrinksKeepsApart, BooksKeepsApart, ReturnsKeepsApart,
     BindsKeepsApart, UnbindsKeepsApart, CollectsKeepsApart DEF Moves

-----------------------------------------------------------------------------
(* The invariant *)

(* A thread works for a service that asks for one set of addresses: it has   *)
(* none to remove from the object.                                           *)
Clean(r) ==
    /\ r.want \subseteq Wanted(r.s)
    /\ r.got \subseteq Wanted(r.s)
    /\ r.ips \subseteq Wanted(r.s) /\ r.ips \subseteq Admitted(r.s)
    /\ r.pc = "idle" => r.got = {}
    /\ r.pc \in {"dealloc", "deallocCloud"} => r.kind = "delete"
    /\ r.pc = "find" => r.kind \in {"create", "delete"}
    /\ r.pc = "build" => r.todo \subseteq Wanted(r.s)
    /\ r.pc \in {"release", "update"} => r.kind \notin {"create", "delete"}
    /\ r.pc \in {"reconcile", "build", "release", "update"} /\ r.kind \notin {"create", "delete"}
          => r.want = Wanted(r.s)
    /\ r.kind = "changed" => r.want = Wanted(r.s)
    /\ r.pc = "spawn" => r.kind = "changed"
    /\ r.pc \in {"release", "setPatchStatus", "cleanup"} => r.todo = {}
    /\ r.pc # "cleanupCloud"

(* So do the objects and the goroutines to start. *)
Meant ==
    /\ \A s \in Services : IpsOf(s) \subseteq Wanted(s)
    /\ \A t \in tasks : t.ips \subseteq Wanted(t.s)

(* A copy with the current resourceVersion has the addresses of the object. *)
Copies == \A g \in fresh : w[g].ips = alloc[w[g].s].ips

(* What the services ask for *)
Served == \A s \in Services : svc[s] # NoObject => svc[s].ips = Wanted(s)

(* The pools are listed while the leader runs, and afterwards nothing is left. *)
Running ==
    /\ up => poolEvents = {}
    /\ ~up => /\ tasks = {}
              /\ \A g \in Threads : w[g] = Idle
              /\ \A p \in Pools : avail[p] = {}
              /\ poolEvents = {"added"} \X Pools

Own ==
    /\ \A g \in Threads : Clean(w[g])
    /\ Meant
    /\ Copies
    /\ Served
    /\ Running

-----------------------------------------------------------------------------
(* Steps of one thread *)

(* A thread takes a step of its handler, and what it holds stays in its stage. *)
Turn(g) ==
    /\ \A h \in Threads : h # g => w'[h] = w[h]
    /\ Clean(w'[g])
    /\ w'[g].s = w[g].s
    /\ w'[g].got = {} \/ Stage(w'[g]) = Stage(w[g])

(* A thread record put in the place of g's *)
LEMMA Turned ==
  ASSUME IInv, NEW g \in Threads, NEW r, w' = [w EXCEPT ![g] = r], Clean(r), r.s = w[g].s,
         r.got = {} \/ Stage(r) = Stage(w[g])
  PROVE  Turn(g) /\ w'[g] = r
<1>1. w \in [Threads -> Thread]
  BY DEF IInv, TypeOK
<1>2. w'[g] = r /\ \A h \in Threads : h # g => w'[h] = w[h]
  BY <1>1
<1> QED
  BY <1>2 DEF Turn

(* A handler goes on to l: nothing but the place changes. *)
LEMMA GotoTurns ==
  ASSUME IInv, NEW g \in Threads, NEW l, Goto(g, l), Clean([w[g] EXCEPT !.pc = l]),
         w[g].got = {} \/ Stage([w[g] EXCEPT !.pc = l]) = Stage(w[g])
  PROVE  Turn(g) /\ w'[g].got = w[g].got /\ w'[g].ips = w[g].ips
<1>1. w[g] \in Thread
  BY DEF IInv, TypeOK
<1> DEFINE r == [w[g] EXCEPT !.pc = l]
<1>2. r.s = w[g].s /\ r.got = w[g].got /\ r.ips = w[g].ips
  BY <1>1 DEF Thread
<1>3. w' = [w EXCEPT ![g] = r]
  BY DEF Goto
<1>4. Clean(r) /\ (r.got = {} \/ Stage(r) = Stage(w[g]))
  BY <1>2
<1> HIDE DEF r
<1> QED
  BY <1>2, <1>3, <1>4, Turned

(* The handler ends. *)
LEMMA EndTurns ==
  ASSUME IInv, NEW g \in Threads, Clean(w[g]), End(g),
         w[g].got = {} \/ Stage(w[g]) = "booked"
  PROVE  Turn(g) /\ w'[g].got = w[g].got /\ w'[g].ips = w[g].ips
<1>1. w[g] \in Thread
  BY DEF IInv, TypeOK
<1>2. Clean([w[g] EXCEPT !.pc = "return"])
  BY <1>1 DEF Thread, Clean
<1>3. Stage([w[g] EXCEPT !.pc = "return"]) = "booked"
  BY <1>1 DEF Thread, Stage, OwingLocations
<1> QED
  BY <1>2, <1>3, GotoTurns DEF End

(* The API server: nothing is written, at most a copy is taken. *)
LEMMA ReadKeeps ==
  ASSUME IInv, Own, NEW g \in Threads, Turn(g), UNCHANGED <<alloc, tasks>>,
         fresh' \subseteq fresh \cup {g},
         g \in fresh' => w'[g].ips = alloc[w[g].s].ips
  PROVE  SameObjects /\ Meant' /\ Copies'
<1>1. SameObjects
  BY DEF SameObjects, IpsOf, Debts
<1>2. Meant'
  BY DEF Own, Meant, IpsOf
<1>3. Copies'
  BY DEF Own, Copies, Turn, IInv, TypeOK
<1> QED
  BY <1>1, <1>2, <1>3

(* The same, when the API server is not called at all *)
LEMMA NoCallKeeps ==
  ASSUME IInv, Own, NEW g \in Threads, Turn(g), UNCHANGED api, w'[g].ips = w[g].ips
  PROVE  SameObjects /\ Meant' /\ Copies'
<1>1. UNCHANGED <<alloc, tasks>> /\ fresh' \subseteq fresh \cup {g}
  BY DEF api
<1>2. g \in fresh' => w'[g].ips = alloc[w[g].s].ips
  BY DEF api, Own, Copies
<1> QED
  BY <1>1, <1>2, ReadKeeps

(* An object is written. *)
LEMMA WriteKeeps ==
  ASSUME IInv, Own, NEW g \in Threads, Turn(g), NEW obj \in IPAllocation, Write(g, obj),
         obj.ips \subseteq Wanted(w[g].s), w'[g].ips = obj.ips
  PROVE  /\ \A s \in Services : IpsOf(s)' = IF s = w[g].s THEN obj.ips ELSE IpsOf(s)
         /\ Debts' = Debts
         /\ Meant' /\ Copies'
<1> DEFINE s0 == w[g].s
<1>0. s0 \in Services /\ alloc \in [Services -> IPAllocation \cup {NoObject}]
      /\ fresh \subseteq Threads /\ \A h \in Threads : w[h].s \in Services
  BY DEF IInv, TypeOK, Thread
<1>1. obj # NoObject
  BY NoObjectAssumption
<1>2. alloc' = [alloc EXCEPT ![s0] = obj] /\ tasks' = tasks \cup EventTasks(s0, obj.state)
      /\ fresh' = (fresh \ OtherCopies(s0)) \cup {g}
  BY DEF Write
<1>3. \A t \in EventTasks(s0, obj.state) : t.kind # "delete" /\ t.ips = {}
  BY DEF EventTasks, Handled
<1>4. Debts' = Debts
  BY <1>2, <1>3 DEF Debts
<1>5. \A s \in Services : IpsOf(s)' = IF s = s0 THEN obj.ips ELSE IpsOf(s)
  BY <1>0, <1>1, <1>2 DEF IpsOf
<1>6. Meant'
  BY <1>2, <1>3, <1>5 DEF Own, Meant
<1>7. Copies'
  BY <1>0, <1>2 DEF Own, Copies, Turn, OtherCopies
<1> QED
  BY <1>4, <1>5, <1>6, <1>7

(* The object is deleted by its name. *)
LEMMA DeleteKeeps ==
  ASSUME IInv, Own, NEW g \in Threads, Turn(g), DeleteAllocationByName(w[g].s),
         w'[g].ips = w[g].ips, w'[g].got = w[g].got, UNCHANGED avail
  PROVE  /\ Holds \/ Unbinds(w[g].s)
         /\ Meant' /\ Copies'
<1> DEFINE s0 == w[g].s
<1>0. s0 \in Services /\ alloc \in [Services -> IPAllocation \cup {NoObject}]
      /\ fresh \subseteq Threads /\ \A h \in Threads : w[h].s \in Services
  BY DEF IInv, TypeOK, Thread
<1>g. \A h \in Threads : w'[h].got = w[h].got
  BY DEF Turn
<1>1. CASE alloc[s0] = NoObject
  <2>1. UNCHANGED api
    BY <1>1 DEF DeleteAllocationByName
  <2>2. SameObjects /\ Meant' /\ Copies'
    BY <2>1, NoCallKeeps
  <2> QED
    BY <1>g, <2>2 DEF Holds
<1>2. CASE alloc[s0] # NoObject
  <2> DEFINE d == [kind |-> "delete", s |-> s0, ips |-> alloc[s0].ips]
  <2>1. alloc' = [alloc EXCEPT ![s0] = NoObject] /\ tasks' = tasks \cup {d}
        /\ fresh' = fresh \ OtherCopies(s0)
    BY <1>2 DEF DeleteAllocationByName
  <2>2. IpsOf(s0) = alloc[s0].ips
    BY <1>2 DEF IpsOf
  <2>3. d = [kind |-> "delete", s |-> s0, ips |-> IpsOf(s0)] /\ d.kind = "delete" /\ d.s = s0
        /\ d.ips = IpsOf(s0)
    BY <2>2
  <2> HIDE DEF d
  <2>4. \A s \in Services : IpsOf(s)' = IF s = s0 THEN {} ELSE IpsOf(s)
    BY <1>0, <2>1 DEF IpsOf
  <2>5. Debts' = Debts \cup {d}
    BY <2>1, <2>3 DEF Debts
  <2>6. Unbinds(s0)
    BY <1>0, <1>g, <2>3, <2>4, <2>5 DEF Unbinds
  <2>7. Meant'
    BY <1>0, <2>1, <2>3, <2>4 DEF Own, Meant
  <2>8. Copies'
    BY <1>0, <2>1 DEF Own, Copies, Turn, OtherCopies
  <2> QED
    BY <2>6, <2>7, <2>8
<1> QED
  BY <1>1, <1>2

(* While a handler is at work, the pools are listed. *)
LEMMA AtWork ==
  ASSUME Own, NEW g \in Threads, w[g].pc # "idle"
  PROVE  up /\ poolEvents = {} /\ Listed = Pools
<1>1. up /\ poolEvents = {}
  BY IdleType DEF Own, Running
<1> QED
  BY <1>1 DEF Listed

(* A thread that works for fixed addresses removes none. *)
LEMMA NothingRemoved ==
  ASSUME IInv, Own, NEW g \in Threads, w[g].pc \in {"build", "release", "update"},
         w[g].kind \notin {"create", "delete"}
  PROVE  Kept(w[g]) = w[g].ips /\ Removed(w[g]) = {}
<1>1. Listed = Pools
  BY AtWork
<1>2. w[g] \in Thread /\ Clean(w[g])
  BY DEF IInv, TypeOK, Own
<1>3. w[g].s \in Services /\ Allowed[w[g].s] \subseteq Pools
  BY <1>2, PoolAssumption DEF Thread
<1>4. Usable(w[g].s) = Admitted(w[g].s)
  BY <1>1, <1>3 DEF Usable, Admitted
<1>5. w[g].want = Wanted(w[g].s) /\ w[g].ips \subseteq Wanted(w[g].s)
      /\ w[g].ips \subseteq Admitted(w[g].s)
  BY <1>2 DEF Clean
<1>6. Kept(w[g]) = w[g].ips
  BY <1>4, <1>5 DEF Kept
<1> QED
  BY <1>6 DEF Removed

-----------------------------------------------------------------------------
(* Handlers *)

(* What a step of g's handler does to the owners *)
Acts(g) ==
    /\ Turn(g)
    /\ Meant'
    /\ Copies'
    /\ UNCHANGED environment
    /\ \/ Holds \/ Drops(g) \/ Binds(g) \/ Unbinds(w[g].s)
       \/ \E a \in Addresses : Withdraws(a) \/ Books(g, a) \/ Returns(g, a)

(* A step that only moves the thread *)
LEMMA MovesOn ==
  ASSUME IInv, Own, NEW g \in Threads, Turn(g), w'[g].got = w[g].got, w'[g].ips = w[g].ips,
         UNCHANGED <<environment, api, avail>>
  PROVE  Acts(g)
<1>1. SameObjects /\ Meant' /\ Copies'
  BY NoCallKeeps
<1>2. Holds
  BY <1>1 DEF Holds, Turn
<1> QED
  BY <1>1, <1>2 DEF Acts

(* Steps that touch nothing but the record of the thread *)
LEMMA RecordActs ==
  ASSUME IInv, Own, NEW g \in Threads, NEW r, w' = [w EXCEPT ![g] = r], Clean(r), r.s = w[g].s,
         r.got = w[g].got, r.ips = w[g].ips, r.got = {} \/ Stage(r) = Stage(w[g]),
         UNCHANGED <<environment, api, avail>>
  PROVE  Acts(g)
<1>1. Turn(g) /\ w'[g] = r
  BY Turned
<1> QED
  BY <1>1, MovesOn

(* To another location *)
LEMMA GotoActs ==
  ASSUME IInv, Own, NEW g \in Threads, NEW l, Goto(g, l), Clean([w[g] EXCEPT !.pc = l]),
         w[g].got = {} \/ Stage([w[g] EXCEPT !.pc = l]) = Stage(w[g]),
         UNCHANGED <<environment, api, avail>>
  PROVE  Acts(g)
  BY GotoTurns, MovesOn

(* The end of the handler *)
LEMMA EndActs ==
  ASSUME IInv, Own, NEW g \in Threads, End(g), w[g].got = {} \/ Stage(w[g]) = "booked",
         UNCHANGED <<environment, api, avail>>
  PROVE  Acts(g)
  BY EndTurns, MovesOn DEF Own

(* An address in the hands of a thread goes back to its pool. *)
LEMMA ReleaseActs ==
  ASSUME IInv, Own, NEW g \in Threads, NEW a \in w[g].got, w[g].pc # "idle",
         ReleaseIP(w[g].s, a), Turn(g), w'[g].got = w[g].got \ {a}, w'[g].ips = w[g].ips,
         UNCHANGED <<environment, api>>
  PROVE  Acts(g)
<1>0. w[g].s \in Services /\ Allowed[w[g].s] \subseteq Pools /\ a \in Addresses
  BY PoolAssumption DEF IInv, TypeOK, Thread
<1>1. SameObjects /\ Meant' /\ Copies'
  BY NoCallKeeps
<1>2. Listed = Pools
  BY AtWork
<1>3. \A p \in Pools : avail'[p] = avail[p] \/ avail'[p] = avail[p] \cup {a}
  BY DEF ReleaseIP
<1>4. a \in Admitted(w[g].s)
  BY DEF IInv, Granted
<1>5. PICK q \in Allowed[w[g].s] : a \in PoolAddresses[q]
  BY <1>4 DEF Admitted
<1>6. q \in Pools /\ a \in avail'[q]
  BY <1>0, <1>2, <1>5 DEF ReleaseIP
<1>7. Returns(g, a)
  BY <1>1, <1>3, <1>6 DEF Returns, Turn
<1> QED
  BY <1>0, <1>1, <1>7 DEF Acts

(* Booking for a new allocation *)
LEMMA BookActs ==
  ASSUME IInv, Own, NEW g \in Threads, Book(g)
  PROVE  Acts(g)
<1>0. /\ w \in [Threads -> Thread] /\ w[g] \in Thread /\ Clean(w[g])
      /\ w[g].s \in Services /\ Allowed[w[g].s] \subseteq Pools
  BY PoolAssumption DEF IInv, TypeOK, Own, Thread
<1>s. w[g].pc \in {"find", "build", "create", "rollback"} /\ Stage(w[g]) = "booked"
  BY DEF Book, FindAllocation, Build, Built, Create, Rollback, RolledBack, At, Stage, OwingLocations
<1>p. Listed = Pools
  BY <1>s, AtWork
<1>1. CASE RolledBack(g)
  BY <1>1, <1>s, EndActs DEF RolledBack
<1>2. CASE FindAllocation(g)
  <2> DEFINE r == [w[g] EXCEPT !.pc = "build", !.todo = w[g].want, !.result = "pending"]
  <2>1. w[g].pc = "find"
    BY <1>2 DEF FindAllocation, At
  <2>2. Clean(r) /\ Stage(r) = "booked"
    BY <1>0, <2>1 DEF Thread, Clean, Stage, OwingLocations
  <2>3. r.s = w[g].s /\ r.got = w[g].got /\ r.ips = w[g].ips
    BY <1>0 DEF Thread
  <2>4. End(g) \/ w' = [w EXCEPT ![g] = r]
    BY <1>2 DEF FindAllocation
  <2> HIDE DEF r
  <2>5. UNCHANGED <<environment, api, avail>>
    BY <1>2 DEF FindAllocation
  <2> QED
    BY <1>s, <2>2, <2>3, <2>4, <2>5, EndActs, RecordActs
<1>3. ASSUME NEW a \in w[g].todo, Build(g, a) PROVE Acts(g)
  <2>1. w[g].pc = "build" /\ a \in Addresses /\ a \in Wanted(w[g].s)
    BY <1>0, <1>3 DEF Build, At, Thread, Clean
  <2>2. UNCHANGED <<environment, api>>
    BY <1>3 DEF Build
  <2>3. ASSUME NEW res, CanUseIP(w[g].s, a), UseIP(w[g].s, a),
               w' = [w EXCEPT ![g] = [w[g] EXCEPT !.todo = w[g].todo \ {a}, !.got = w[g].got \cup {a},
                                                  !.result = res]]
        PROVE  Acts(g)
    <3> DEFINE r == [w[g] EXCEPT !.todo = w[g].todo \ {a}, !.got = w[g].got \cup {a}, !.result = res]
    <3>1. Clean(r) /\ Stage(r) = "booked"
      BY <1>0, <2>1 DEF Thread, Clean, Stage, OwingLocations
    <3>2. r.s = w[g].s /\ r.ips = w[g].ips /\ r.got = w[g].got \cup {a}
      BY <1>0 DEF Thread
    <3>3. w' = [w EXCEPT ![g] = r]
      BY <2>3
    <3> HIDE DEF r
    <3>4. Turn(g) /\ w'[g] = r
      BY <1>s, <3>1, <3>2, <3>3, Turned
    <3>5. SameObjects /\ Meant' /\ Copies'
      BY <2>2, <3>2, <3>4, NoCallKeeps
    <3>6. PICK q \in Allowed[w[g].s] : a \in avail[q]
      BY <2>3 DEF CanUseIP
    <3>7. \A p \in Pools : avail'[p] = avail[p] \ {a}
      <4> SUFFICES ASSUME NEW p \in Pools PROVE avail'[p] = avail[p] \ {a}
        OBVIOUS
      <4>1. CASE p \in Allowed[w[g].s]
        BY <2>3, <4>1 DEF UseIP
      <4>2. CASE p \notin Allowed[w[g].s]
        <5>1. p # q /\ q \in Pools /\ avail'[p] = avail[p]
          BY <1>0, <2>3, <3>6, <4>2 DEF UseIP
        <5>2. a \in PoolAddresses[q] /\ avail[p] \subseteq PoolAddresses[p]
          BY <3>6, <5>1 DEF IInv, Offered
        <5>3. PoolAddresses[p] \cap PoolAddresses[q] = {}
          BY <5>1, PoolAssumption
        <5> QED
          BY <5>1, <5>2, <5>3
      <4> QED
        BY <4>1, <4>2
    <3>8. Books(g, a)
      BY <1>0, <3>1, <3>2, <3>4, <3>5, <3>6, <3>7 DEF Books, Turn
    <3> QED
      BY <2>1, <2>2, <3>4, <3>5, <3>8 DEF Acts
  <2>4. ASSUME w' = [w EXCEPT ![g] = [w[g] EXCEPT !.todo = w[g].todo \ {a}, !.result = "error"]],
               UNCHANGED avail
        PROVE  Acts(g)
    <3> DEFINE r == [w[g] EXCEPT !.todo = w[g].todo \ {a}, !.result = "error"]
    <3>1. Clean(r) /\ Stage(r) = "booked"
      BY <1>0, <2>1 DEF Thread, Clean, Stage, OwingLocations
    <3>2. r.s = w[g].s /\ r.got = w[g].got /\ r.ips = w[g].ips
      BY <1>0 DEF Thread
    <3>3. w' = [w EXCEPT ![g] = r]
      BY <2>4
    <3> HIDE DEF r
    <3> QED
      BY <1>s, <2>2, <2>4, <3>1, <3>2, <3>3, RecordActs
  <2>5. CASE CanUseIP(w[g].s, a)
    <3>1. PICK res \in AddOperatorNodeToAllocation(w[g].result) :
             w' = [w EXCEPT ![g] = [w[g] EXCEPT !.todo = w[g].todo \ {a}, !.got = w[g].got \cup {a},
                                                !.result = res]]
      BY <1>3, <2>5, Zenon DEF Build
    <3>2. UseIP(w[g].s, a)
      BY <1>3, <2>5, Zenon DEF Build
    <3> QED
      BY <2>3, <2>5, <3>1, <3>2
  <2>6. CASE ~CanUseIP(w[g].s, a)
    BY <1>3, <2>4, <2>6, Zenon DEF Build
  <2> QED
    BY <2>5, <2>6
<1>4. CASE Built(g)
  <2>0. w[g].pc = "build" /\ UNCHANGED <<environment, api, avail>>
    BY <1>4 DEF Built, At
  <2>1. CASE w[g].kind \in {"create", "delete"}
    <3>1. Goto(g, "create")
      BY <1>4, <2>1 DEF Built
    <3>2. Clean([w[g] EXCEPT !.pc = "create"]) /\ Stage([w[g] EXCEPT !.pc = "create"]) = "booked"
      BY <1>0 DEF Thread, Clean, Stage, OwingLocations
    <3> QED
      BY <1>s, <2>0, <3>1, <3>2, GotoActs
  <2>2. CASE w[g].kind \notin {"create", "delete"}
    <3> DEFINE r == [w[g] EXCEPT !.pc = "release", !.todo = Removed(w[g])]
    <3>1. w' = [w EXCEPT ![g] = r]
      BY <1>4, <2>2 DEF Built
    <3>2. Removed(w[g]) = {}
      BY <2>0, <2>2, NothingRemoved
    <3>3. Clean(r) /\ Stage(r) = "booked"
      BY <1>0, <2>0, <2>2, <3>2 DEF Thread, Clean, Stage, OwingLocations
    <3>4. r.s = w[g].s /\ r.got = w[g].got /\ r.ips = w[g].ips
      BY <1>0 DEF Thread
    <3> HIDE DEF r
    <3> QED
      BY <1>s, <2>0, <3>1, <3>3, <3>4, RecordActs
  <2> QED
    BY <2>1, <2>2
<1>5. CASE Create(g)
  <2>0. w[g].pc = "create" /\ UNCHANGED <<environment, avail>>
    BY <1>5 DEF Create, At
  <2>1. CASE Goto(g, "rollback") /\ UNCHANGED api
    <3>1. Clean([w[g] EXCEPT !.pc = "rollback"]) /\ Stage([w[g] EXCEPT !.pc = "rollback"]) = "booked"
      BY <1>0 DEF Thread, Clean, Stage, OwingLocations
    <3> QED
      BY <1>s, <2>0, <2>1, <3>1, GotoActs
  <2> DEFINE obj == [ips |-> w[g].got, state |-> ""]
             r == [w[g] EXCEPT !.pc = "setStatus", !.ips = w[g].got, !.got = {}]
  <2>2. CASE alloc[w[g].s] = NoObject /\ Write(g, obj) /\ w' = [w EXCEPT ![g] = r]
    <3>1. obj \in IPAllocation /\ obj.ips = w[g].got
      BY <1>0 DEF Thread, IPAllocation, States
    <3>2. w[g].got \subseteq Wanted(w[g].s) /\ w[g].got \subseteq Admitted(w[g].s)
      BY <1>0 DEF Clean, IInv, Granted
    <3>3. Clean(r) /\ r.s = w[g].s /\ r.ips = w[g].got /\ r.got = {}
      BY <1>0, <3>2 DEF Thread, Clean
    <3> HIDE DEF obj, r
    <3>4. Turn(g) /\ w'[g] = r
      BY <2>2, <3>3, Turned
    <3>5. /\ \A s \in Services : IpsOf(s)' = IF s = w[g].s THEN obj.ips ELSE IpsOf(s)
          /\ Debts' = Debts /\ Meant' /\ Copies'
      BY <2>2, <3>1, <3>2, <3>3, <3>4, WriteKeeps
    <3>6. IpsOf(w[g].s) = {}
      BY <2>2 DEF IpsOf
    <3>7. \A s \in Services : IpsOf(s)' = IF s = w[g].s THEN IpsOf(s) \cup w[g].got ELSE IpsOf(s)
      BY <3>1, <3>5, <3>6
    <3>8. Binds(g)
      BY <1>s, <2>0, <3>3, <3>4, <3>5, <3>7 DEF Binds, Turn
    <3> QED
      BY <2>0, <3>4, <3>5, <3>8 DEF Acts
  <2> QED
    BY <1>5, <2>1, <2>2 DEF Create
<1>6. ASSUME NEW a \in w[g].got, Rollback(g, a) PROVE Acts(g)
  <2> DEFINE r == [w[g] EXCEPT !.got = w[g].got \ {a}]
  <2>0. w[g].pc = "rollback" /\ ReleaseIP(w[g].s, a) /\ UNCHANGED <<environment, api>>
        /\ w' = [w EXCEPT ![g] = r]
    BY <1>6 DEF Rollback, At
  <2>1. Clean(r) /\ Stage(r) = "booked" /\ r.s = w[g].s /\ r.ips = w[g].ips
        /\ r.got = w[g].got \ {a}
    BY <1>0, <2>0 DEF Thread, Clean, Stage, OwingLocations
  <2> HIDE DEF r
  <2>2. Turn(g) /\ w'[g] = r
    BY <1>s, <2>0, <2>1, Turned
  <2> QED
    BY <2>0, <2>1, <2>2, ReleaseActs
<1> QED
  BY <1>1, <1>2, <1>3, <1>4, <1>5, <1>6 DEF Book

(* A current copy is written back with the addresses it has. *)
LEMMA RewriteActs ==
  ASSUME IInv, Own, NEW g \in fresh, Turn(g), NEW obj \in IPAllocation, Write(g, obj),
         obj.ips = alloc[w[g].s].ips, w'[g].got = w[g].got, w'[g].ips = w[g].ips,
         UNCHANGED <<environment, avail>>
  PROVE  Acts(g)
<1>0. g \in Threads /\ w[g].s \in Services /\ alloc[w[g].s] # NoObject
  BY DEF IInv, TypeOK, FreshCopies, Thread
<1>1. IpsOf(w[g].s) = obj.ips /\ w[g].ips = obj.ips
  BY <1>0 DEF IpsOf, Own, Copies
<1>2. obj.ips \subseteq Wanted(w[g].s)
  BY <1>0, <1>1 DEF Own, Meant
<1>3. /\ \A s \in Services : IpsOf(s)' = IF s = w[g].s THEN obj.ips ELSE IpsOf(s)
      /\ Debts' = Debts /\ Meant' /\ Copies'
  BY <1>0, <1>1, <1>2, WriteKeeps
<1>4. SameObjects
  BY <1>1, <1>3 DEF SameObjects
<1>5. Holds
  BY <1>4 DEF Holds, Turn
<1> QED
  BY <1>3, <1>5 DEF Acts

(* A write of the status *)
LEMMA WriteStatusActs ==
  ASSUME IInv, Own, NEW g \in Threads, Turn(g), WriteStatus(g),
         w'[g].got = w[g].got, w'[g].ips = w[g].ips, UNCHANGED <<environment, avail>>
  PROVE  Acts(g)
<1> DEFINE obj == [alloc[w[g].s] EXCEPT !.state = w[g].result]
<1>1. g \in fresh /\ w[g] \in Thread /\ alloc[w[g].s] \in IPAllocation
  BY DEF IInv, TypeOK, FreshCopies, WriteStatus, Thread
<1>2. obj \in IPAllocation /\ obj.ips = alloc[w[g].s].ips
  BY <1>1 DEF IPAllocation, Thread
<1>3. UNCHANGED api \/ Write(g, obj)
  BY DEF WriteStatus, Put
<1> HIDE DEF obj
<1> QED
  BY <1>1, <1>2, <1>3, RewriteActs, MovesOn

(* Reconciliation *)
LEMMA ReconcilerActs ==
  ASSUME IInv, Own, NEW g \in Threads, Reconciler(g)
  PROVE  Acts(g) \/ Dies(g)
<1>0. /\ w \in [Threads -> Thread] /\ w[g] \in Thread /\ Clean(w[g])
      /\ w[g].s \in Services
  BY DEF IInv, TypeOK, Own, Thread
<1>s. Stage(w[g]) = "booked"
  BY DEF Reconciler, FindService, ReconcileDelete, Reconcile, ReleaseRemoved, Unpatched, Patch,
         Update, SetPatchStatus, Cleanup, DeallocateAddress, CleanedUp, At, Stage, OwingLocations
<1>1. CASE CleanedUp(g)
  BY <1>1, <1>s, EndActs DEF CleanedUp
<1>2. CASE ReconcileDelete(g)
  <2>1. CASE End(g) /\ DeleteAllocationByName(w[g].s) /\ UNCHANGED <<environment, avail>>
    <3>1. Turn(g) /\ w'[g].got = w[g].got /\ w'[g].ips = w[g].ips
      BY <1>0, <1>s, <2>1, EndTurns
    <3>2. (Holds \/ Unbinds(w[g].s)) /\ Meant' /\ Copies'
      BY <2>1, <3>1, DeleteKeeps
    <3> QED
      BY <2>1, <3>1, <3>2 DEF Acts
  <2>2. CASE End(g) /\ UNCHANGED <<environment, api, avail>>
    BY <1>s, <2>2, EndActs
  <2>3. Dies(g) \/ (End(g) /\ UNCHANGED <<environment, api, avail>>)
        \/ (End(g) /\ DeleteAllocationByName(w[g].s) /\ UNCHANGED <<environment, avail>>)
    BY <1>2 DEF ReconcileDelete, Dies
  <2> QED
    BY <2>1, <2>2, <2>3
<1>3. CASE Unpatched(g)
  <2>1. Clean([w[g] EXCEPT !.pc = "ensureFind"]) /\ Stage([w[g] EXCEPT !.pc = "ensureFind"]) = "booked"
    BY <1>0 DEF Thread, Clean, Stage, OwingLocations
  <2> QED
    BY <1>3, <1>s, <2>1, EndActs, GotoActs DEF Unpatched
<1>4. CASE Patch(g)
  <2>0. w[g].pc = "release"
    BY <1>4 DEF Patch, At
  <2>1. Clean([w[g] EXCEPT !.pc = "update"]) /\ Stage([w[g] EXCEPT !.pc = "update"]) = "booked"
    BY <1>0, <2>0 DEF Thread, Clean, Stage, OwingLocations
  <2> QED
    BY <1>4, <1>s, <2>1, GotoActs DEF Patch
<1>5. CASE FindService(g)
  <2>0. UNCHANGED <<environment, api, avail>>
    BY <1>5 DEF FindService
  <2>1. CASE svc[w[g].s] = NoObject
    BY <1>5, <1>s, <2>0, <2>1, EndActs DEF FindService
  <2>2. CASE svc[w[g].s] # NoObject
    <3> DEFINE r == [w[g] EXCEPT !.pc = "reconcile", !.want = svc[w[g].s].ips,
                                 !.lb = svc[w[g].s].lb]
    <3>1. svc[w[g].s].ips = Wanted(w[g].s)
      BY <1>0, <2>2 DEF Own, Served
    <3>2. Clean(r) /\ Stage(r) = "booked" /\ r.s = w[g].s /\ r.got = w[g].got /\ r.ips = w[g].ips
      BY <1>0, <3>1 DEF Thread, Clean, Stage, OwingLocations
    <3>3. w' = [w EXCEPT ![g] = r]
      BY <1>5, <2>2 DEF FindService
    <3> HIDE DEF r
    <3> QED
      BY <1>s, <2>0, <3>2, <3>3, RecordActs
  <2> QED
    BY <2>1, <2>2
<1>6. CASE Reconcile(g)
  <2>1. PICK res \in {"pending", "error"} :
           w' = [w EXCEPT ![g] = [w[g] EXCEPT !.pc = "build", !.todo = w[g].want \ w[g].ips,
                                              !.result = res]]
    BY <1>6 DEF Reconcile, AddOperatorNodeToAllocation
  <2> DEFINE r == [w[g] EXCEPT !.pc = "build", !.todo = w[g].want \ w[g].ips, !.result = res]
  <2>2. w[g].pc = "reconcile" /\ UNCHANGED <<environment, api, avail>>
    BY <1>6 DEF Reconcile, At
  <2>3. Clean(r) /\ Stage(r) = "booked" /\ r.s = w[g].s /\ r.got = w[g].got /\ r.ips = w[g].ips
    BY <1>0, <2>2 DEF Thread, Clean, Stage, OwingLocations
  <2>4. w' = [w EXCEPT ![g] = r]
    BY <2>1
  <2> HIDE DEF r
  <2> QED
    BY <1>s, <2>2, <2>3, <2>4, RecordActs
<1>7. ASSUME NEW a \in w[g].todo, ReleaseRemoved(g, a) \/ Cleanup(g, a) PROVE FALSE
  BY <1>0, <1>7 DEF ReleaseRemoved, Cleanup, At, Clean
<1>8. CASE Update(g)
  <2> DEFINE obj == [alloc[w[g].s] EXCEPT !.ips = Kept(w[g]) \cup w[g].got]
             r == [w[g] EXCEPT !.pc = "setPatchStatus", !.got = {}, !.ips = obj.ips,
                               !.todo = Removed(w[g])]
             q == [w[g] EXCEPT !.pc = "return", !.got = {}, !.result = "error"]
  <2>0. w[g].pc = "update" /\ UNCHANGED <<environment, avail>>
        /\ w[g].kind \notin {"create", "delete"}
    BY <1>0, <1>8 DEF Update, At, Clean
  <2>k. Kept(w[g]) = w[g].ips /\ Removed(w[g]) = {}
    BY <2>0, NothingRemoved
  <2>1. CASE g \in fresh /\ ((UNCHANGED api /\ obj = alloc[w[g].s]) \/ Write(g, obj))
             /\ w' = [w EXCEPT ![g] = r]
    <3>1. obj \in IPAllocation /\ obj.ips = w[g].ips \cup w[g].got
      BY <2>1, <2>k, UpdatedObject DEF IInv
    <3>2. /\ alloc[w[g].s] # NoObject /\ IpsOf(w[g].s) = alloc[w[g].s].ips
          /\ alloc[w[g].s].ips = w[g].ips
      BY <2>1 DEF IInv, FreshCopies, IpsOf, Own, Copies
    <3>3. obj.ips \subseteq Wanted(w[g].s) /\ obj.ips \subseteq Admitted(w[g].s)
      BY <1>0, <3>1 DEF Clean, IInv, Granted
    <3>o. CASE UNCHANGED api /\ obj = alloc[w[g].s]
      <4> HIDE DEF obj
      <4>2. Clean(r) /\ r.s = w[g].s /\ r.ips = obj.ips /\ r.got = {}
        BY <1>0, <2>k, <3>3 DEF Thread, Clean
      <4> HIDE DEF r
      <4>3. Turn(g) /\ w'[g] = r
        BY <2>1, <4>2, Turned
      <4>4. obj.ips = w[g].ips
        BY <3>2, <3>o
      <4>5. SameObjects /\ Meant' /\ Copies'
        BY <3>o, <4>2, <4>3, <4>4, NoCallKeeps
      <4>6. Drops(g)
        BY <2>0, <4>2, <4>3, <4>5 DEF Drops, Turn
      <4> QED
        BY <2>0, <4>3, <4>5, <4>6 DEF Acts
    <3>w. CASE Write(g, obj)
      <4> HIDE DEF obj
      <4>2. Clean(r) /\ r.s = w[g].s /\ r.ips = obj.ips /\ r.got = {}
        BY <1>0, <2>k, <3>3 DEF Thread, Clean
      <4> HIDE DEF r
      <4>3. Turn(g) /\ w'[g] = r
        BY <2>1, <4>2, Turned
      <4>4. /\ \A s \in Services : IpsOf(s)' = IF s = w[g].s THEN obj.ips ELSE IpsOf(s)
            /\ Debts' = Debts /\ Meant' /\ Copies'
        BY <3>w, <3>1, <3>3, <4>2, <4>3, WriteKeeps
      <4>5. Binds(g)
        BY <1>s, <2>0, <3>1, <3>2, <4>2, <4>3, <4>4 DEF Binds, Turn
      <4> QED
        BY <2>0, <4>3, <4>4, <4>5 DEF Acts
    <3> QED
      BY <2>1, <3>o, <3>w
  <2>2. CASE w' = [w EXCEPT ![g] = q] /\ UNCHANGED api
    <3>1. Clean(q) /\ q.s = w[g].s /\ q.ips = w[g].ips /\ q.got = {}
      BY <1>0 DEF Thread, Clean
    <3> HIDE DEF q
    <3>2. Turn(g) /\ w'[g] = q
      BY <2>2, <3>1, Turned
    <3>3. SameObjects /\ Meant' /\ Copies'
      BY <2>2, <3>1, <3>2, NoCallKeeps
    <3>4. Drops(g)
      BY <2>0, <3>1, <3>2, <3>3 DEF Drops, Turn
    <3> QED
      BY <2>0, <3>2, <3>3, <3>4 DEF Acts
  <2> QED
    BY <1>8, <2>1, <2>2, Zenon DEF Update, Put
<1>9. CASE SetPatchStatus(g)
  <2> DEFINE r == [w[g] EXCEPT !.pc = "cleanup",
                               !.todo = IF w[g].state = "success" THEN w[g].todo ELSE {}]
  <2>0. w[g].pc = "setPatchStatus" /\ UNCHANGED <<environment, avail>>
    BY <1>9 DEF SetPatchStatus, At
  <2>1. Clean(r) /\ Stage(r) = "booked" /\ r.s = w[g].s /\ r.got = w[g].got /\ r.ips = w[g].ips
    BY <1>0, <2>0 DEF Thread, Clean, Stage, OwingLocations
  <2>2. (WriteStatus(g) /\ w' = [w EXCEPT ![g] = r]) \/ (End(g) /\ UNCHANGED api)
    BY <1>9 DEF SetPatchStatus
  <2> HIDE DEF r
  <2>3. ASSUME WriteStatus(g), w' = [w EXCEPT ![g] = r] PROVE Acts(g)
    <3>1. Turn(g) /\ w'[g] = r
      BY <1>s, <2>1, <2>3, Turned
    <3> QED
      BY <2>0, <2>1, <2>3, <3>1, WriteStatusActs
  <2> QED
    BY <1>s, <2>0, <2>2, <2>3, EndActs
<1>10. CASE DeallocateAddress(g, "cleanupCloud", "cleanup")
  <2>1. w[g].pc = "cleanupCloud"
    BY <1>10 DEF DeallocateAddress, At
  <2> QED
    BY <1>0, <2>1 DEF Clean
<1> QED
  BY <1>1, <1>2, <1>3, <1>4, <1>5, <1>6, <1>7, <1>8, <1>9, <1>10 DEF Reconciler

(* A copy is read from the API server. *)
LEMMA CopyActs ==
  ASSUME IInv, Own, NEW g \in Threads, alloc[w[g].s] # NoObject, NEW r,
         w' = [w EXCEPT ![g] = r], Clean(r), r.s = w[g].s, r.got = w[g].got,
         r.got = {} \/ Stage(r) = Stage(w[g]), r.ips = alloc[w[g].s].ips,
         fresh' = fresh \cup {g}, UNCHANGED <<environment, alloc, tasks, avail>>
  PROVE  Acts(g)
<1>1. Turn(g) /\ w'[g] = r
  BY Turned
<1>2. SameObjects /\ Meant' /\ Copies'
  BY <1>1, ReadKeeps
<1>3. Holds
  BY <1>1, <1>2 DEF Holds, Turn
<1> QED
  BY <1>1, <1>2, <1>3 DEF Acts

(* Reading an object and ensuring an allocation *)
LEMMA AllocatorActs ==
  ASSUME IInv, Own, NEW g \in Threads, Allocator(g)
  PROVE  Acts(g) \/ Dies(g)
<1>0. /\ w \in [Threads -> Thread] /\ w[g] \in Thread /\ Clean(w[g])
      /\ w[g].s \in Services
  BY DEF IInv, TypeOK, Own, Thread
<1>s. Stage(w[g]) = "booked"
  BY DEF Allocator, Get, GetFailed, EnsureFindService, DeleteAllocation, Ensure, AllocateAddress,
         Ensured, SetStatus, ChangeAllocationNode, At, Stage, OwingLocations
<1>c. ASSUME alloc[w[g].s] # NoObject
      PROVE  /\ alloc[w[g].s] \in IPAllocation
             /\ alloc[w[g].s].ips \subseteq Wanted(w[g].s)
             /\ alloc[w[g].s].ips \subseteq Admitted(w[g].s)
  <2>1. alloc[w[g].s] \in IPAllocation /\ IpsOf(w[g].s) = alloc[w[g].s].ips
    BY <1>0, <1>c DEF IInv, TypeOK, IpsOf
  <2> QED
    BY <1>0, <1>c, <2>1 DEF Own, Meant, IInv, Granted, OnlyAllowedPools
<1>1. CASE Get(g)
  <2> DEFINE l == CASE w[g].kind = "pending" -> "ensureFind"
                    [] w[g].kind = "node_error" -> "changeNode"
                    [] OTHER -> "findService"
             r == [Copy(w[g]) EXCEPT !.pc = l, !.result = "error"]
             q == [w[g] EXCEPT !.pc = "return", !.result = "error"]
  <2>0. UNCHANGED <<environment, alloc, tasks, avail>>
    BY <1>1 DEF Get
  <2>l. l \in {"ensureFind", "changeNode", "findService"}
    OBVIOUS
  <2> HIDE DEF l
  <2>1. CASE fresh' = fresh /\ w' = [w EXCEPT ![g] = q]
    <3>1. Clean(q) /\ Stage(q) = "booked" /\ q.s = w[g].s /\ q.got = w[g].got /\ q.ips = w[g].ips
      BY <1>0 DEF Thread, Clean, Stage, OwingLocations
    <3> HIDE DEF q
    <3>2. UNCHANGED <<environment, api, avail>>
      BY <2>0, <2>1 DEF api
    <3> QED
      BY <1>s, <2>1, <3>1, <3>2, RecordActs
  <2>2. CASE fresh' = fresh /\ End(g)
    <3>2. UNCHANGED <<environment, api, avail>>
      BY <2>0, <2>2 DEF api
    <3> QED
      BY <1>s, <2>2, <3>2, EndActs
  <2>3. CASE alloc[w[g].s] # NoObject /\ w' = [w EXCEPT ![g] = r] /\ fresh' = fresh \cup {g}
    <3>1. Clean(r) /\ Stage(r) = "booked" /\ r.s = w[g].s /\ r.got = w[g].got
          /\ r.ips = alloc[w[g].s].ips
      BY <1>0, <1>c, <2>3, <2>l DEF Thread, Clean, Stage, OwingLocations, Copy
    <3> HIDE DEF r
    <3> QED
      BY <1>s, <2>0, <2>3, <3>1, CopyActs
  <2> QED
    BY <1>1, <2>1, <2>2, <2>3, Zenon DEF Get, l
<1>2. CASE GetFailed(g)
  <2> DEFINE r == [Copy(w[g]) EXCEPT !.pc = "setStatus", !.result = "failed"]
  <2>0. UNCHANGED <<environment, alloc, tasks, avail>>
    BY <1>2 DEF GetFailed
  <2>1. CASE End(g) /\ fresh' = fresh
    <3>2. UNCHANGED <<environment, api, avail>>
      BY <2>0, <2>1 DEF api
    <3> QED
      BY <1>s, <2>1, <3>2, EndActs
  <2>2. CASE alloc[w[g].s] # NoObject /\ w' = [w EXCEPT ![g] = r] /\ fresh' = fresh \cup {g}
    <3>1. Clean(r) /\ Stage(r) = "booked" /\ r.s = w[g].s /\ r.got = w[g].got
          /\ r.ips = alloc[w[g].s].ips
      BY <1>0, <1>c, <2>2 DEF Thread, Clean, Stage, OwingLocations, Copy
    <3> HIDE DEF r
    <3> QED
      BY <1>s, <2>0, <2>2, <3>1, CopyActs
  <2> QED
    BY <1>2, <2>1, <2>2 DEF GetFailed
<1>3. CASE EnsureFindService(g)
  <2> DEFINE r == [w[g] EXCEPT !.pc = "ensure", !.todo = w[g].ips]
  <2>1. Clean(r) /\ Stage(r) = "booked" /\ r.s = w[g].s /\ r.got = w[g].got /\ r.ips = w[g].ips
    BY <1>0 DEF Thread, Clean, Stage, OwingLocations
  <2>2. Clean([w[g] EXCEPT !.pc = "deleteAlloc"]) /\ Stage([w[g] EXCEPT !.pc = "deleteAlloc"]) = "booked"
    BY <1>0 DEF Thread, Clean, Stage, OwingLocations
  <2>3. Goto(g, "deleteAlloc") \/ w' = [w EXCEPT ![g] = r]
    BY <1>3 DEF EnsureFindService
  <2>4. UNCHANGED <<environment, api, avail>>
    BY <1>3 DEF EnsureFindService
  <2> HIDE DEF r
  <2> QED
    BY <1>s, <2>1, <2>2, <2>3, <2>4, RecordActs, GotoActs
<1>4. CASE DeleteAllocation(g)
  <2>0. End(g) /\ UNCHANGED <<environment, avail>>
        /\ (DeleteAllocationByName(w[g].s) \/ UNCHANGED api)
    BY <1>4 DEF DeleteAllocation
  <2>1. CASE DeleteAllocationByName(w[g].s)
    <3>1. Turn(g) /\ w'[g].got = w[g].got /\ w'[g].ips = w[g].ips
      BY <1>0, <1>s, <2>0, EndTurns
    <3>2. (Holds \/ Unbinds(w[g].s)) /\ Meant' /\ Copies'
      BY <2>0, <2>1, <3>1, DeleteKeeps
    <3> QED
      BY <2>0, <3>1, <3>2 DEF Acts
  <2> QED
    BY <1>s, <2>0, <2>1, EndActs
<1>5. ASSUME NEW a \in w[g].todo, Ensure(g, a) PROVE Acts(g)
  <2> DEFINE r == [w[g] EXCEPT !.pc = "place", !.todo = w[g].todo \ {a}, !.cur = {a}]
  <2>1. Clean(r) /\ Stage(r) = "booked" /\ r.s = w[g].s /\ r.got = w[g].got /\ r.ips = w[g].ips
    BY <1>0 DEF Thread, Clean, Stage, OwingLocations
  <2>2. w' = [w EXCEPT ![g] = r] /\ UNCHANGED <<environment, api>> /\ EnsureAddressIsNotAvailable(a)
    BY <1>5 DEF Ensure
  <2> HIDE DEF r
  <2>3. Turn(g) /\ w'[g] = r
    BY <1>s, <2>1, <2>2, Turned
  <2>4. SameObjects /\ Meant' /\ Copies'
    BY <2>1, <2>2, <2>3, NoCallKeeps
  <2>5. \A p \in Pools : avail'[p] = avail[p] \ {a}
    BY <2>2 DEF EnsureAddressIsNotAvailable, IInv, Offered
  <2>6. Withdraws(a) /\ a \in Addresses
    BY <1>0, <2>1, <2>3, <2>4, <2>5 DEF Withdraws, Turn, Thread
  <2> QED
    BY <2>2, <2>3, <2>4, <2>6 DEF Acts
<1>6. CASE AllocateAddress(g)
  <2> DEFINE r == [w[g] EXCEPT !.pc = "ensure", !.cur = {}]
  <2>0. UNCHANGED <<environment, api, avail>>
    BY <1>6 DEF AllocateAddress
  <2>1. CASE w' = [w EXCEPT ![g] = r]
    <3>1. Clean(r) /\ Stage(r) = "booked" /\ r.s = w[g].s /\ r.got = w[g].got /\ r.ips = w[g].ips
      BY <1>0 DEF Thread, Clean, Stage, OwingLocations
    <3> HIDE DEF r
    <3> QED
      BY <1>s, <2>0, <2>1, <3>1, RecordActs
  <2>2. ASSUME NEW res,
               w' = [w EXCEPT ![g] = [w[g] EXCEPT !.pc = "setStatus", !.cur = {}, !.todo = {},
                                                  !.result = res]]
        PROVE  Acts(g)
    <3> DEFINE q == [w[g] EXCEPT !.pc = "setStatus", !.cur = {}, !.todo = {}, !.result = res]
    <3>1. Clean(q) /\ Stage(q) = "booked" /\ q.s = w[g].s /\ q.got = w[g].got /\ q.ips = w[g].ips
      BY <1>0 DEF Thread, Clean, Stage, OwingLocations
    <3>2. w' = [w EXCEPT ![g] = q]
      BY <2>2
    <3> HIDE DEF q
    <3> QED
      BY <1>s, <2>0, <3>1, <3>2, RecordActs
  <2> QED
    BY <1>6, <2>1, <2>2, Zenon DEF AllocateAddress
<1>7. CASE Ensured(g)
  <2> DEFINE r == [w[g] EXCEPT !.pc = "setStatus", !.result = "success"]
  <2>1. Clean(r) /\ Stage(r) = "booked" /\ r.s = w[g].s /\ r.got = w[g].got /\ r.ips = w[g].ips
    BY <1>0 DEF Thread, Clean, Stage, OwingLocations
  <2>2. w' = [w EXCEPT ![g] = r] /\ UNCHANGED <<environment, api, avail>>
    BY <1>7 DEF Ensured
  <2> HIDE DEF r
  <2> QED
    BY <1>s, <2>1, <2>2, RecordActs
<1>8. CASE SetStatus(g)
  <2>1. Turn(g) /\ w'[g].got = w[g].got /\ w'[g].ips = w[g].ips
    BY <1>0, <1>8, <1>s, EndTurns DEF SetStatus
  <2> QED
    BY <1>8, <2>1, WriteStatusActs, MovesOn DEF SetStatus
<1>9. CASE ChangeAllocationNode(g)
  <2>1. ASSUME g \in fresh, Write(g, alloc[w[g].s]) \/ UNCHANGED api, NEW res,
               w' = [w EXCEPT ![g] = [w[g] EXCEPT !.pc = "setStatus", !.result = res]],
               UNCHANGED <<environment, avail>>
        PROVE  Acts(g)
    <3> DEFINE r == [w[g] EXCEPT !.pc = "setStatus", !.result = res]
    <3>1. Clean(r) /\ Stage(r) = "booked" /\ r.s = w[g].s /\ r.got = w[g].got /\ r.ips = w[g].ips
      BY <1>0 DEF Thread, Clean, Stage, OwingLocations
    <3>2. w' = [w EXCEPT ![g] = r]
      BY <2>1
    <3> HIDE DEF r
    <3>3. Turn(g) /\ w'[g] = r
      BY <1>s, <3>1, <3>2, Turned
    <3>4. alloc[w[g].s] \in IPAllocation
      BY <1>c, <2>1 DEF IInv, FreshCopies
    <3>5. CASE UNCHANGED api
      BY <2>1, <3>1, <3>3, <3>5, MovesOn
    <3>6. CASE Write(g, alloc[w[g].s])
      <4>1. PICK obj \in IPAllocation : obj = alloc[w[g].s]
        BY <3>4
      <4> QED
        BY <2>1, <3>1, <3>3, <3>6, <4>1, RewriteActs
    <3> QED
      BY <2>1, <3>5, <3>6
  <2> QED
    BY <1>9, <2>1, Zenon DEF ChangeAllocationNode, Dies
<1> QED
  BY <1>1, <1>2, <1>3, <1>4, <1>5, <1>6, <1>7, <1>8, <1>9 DEF Allocator

(* Giving the addresses of a deleted object back *)
LEMMA DeallocatorActs ==
  ASSUME IInv, Own, NEW g \in Threads, Deallocator(g)
  PROVE  Acts(g)
<1>0. /\ w \in [Threads -> Thread] /\ w[g] \in Thread /\ Clean(w[g])
      /\ w[g].s \in Services
  BY DEF IInv, TypeOK, Own, Thread
<1>1. ASSUME NEW a \in w[g].got, Dealloc(g, a) PROVE Acts(g)
  <2> DEFINE r == [w[g] EXCEPT !.pc = "deallocCloud", !.got = w[g].got \ {a}, !.cur = {a}]
  <2>0. w[g].pc = "dealloc" /\ ReleaseIP(w[g].s, a) /\ UNCHANGED <<environment, api>>
        /\ w' = [w EXCEPT ![g] = r]
    BY <1>1 DEF Dealloc, At
  <2>1. Clean(r) /\ Stage(r) = Stage(w[g]) /\ r.s = w[g].s /\ r.ips = w[g].ips
        /\ r.got = w[g].got \ {a}
    BY <1>0, <2>0 DEF Thread, Clean, Stage, OwingLocations
  <2> HIDE DEF r
  <2>2. Turn(g) /\ w'[g] = r
    BY <2>0, <2>1, Turned
  <2> QED
    BY <2>0, <2>1, <2>2, ReleaseActs
<1>2. CASE DeallocateAddress(g, "deallocCloud", "dealloc")
  <2> DEFINE r == [w[g] EXCEPT !.pc = "dealloc", !.cur = {}]
  <2>0. w[g].pc = "deallocCloud" /\ UNCHANGED <<environment, api, avail>>
        /\ w' = [w EXCEPT ![g] = r]
    BY <1>2 DEF DeallocateAddress, At
  <2>1. Clean(r) /\ Stage(r) = Stage(w[g]) /\ r.s = w[g].s /\ r.ips = w[g].ips
        /\ r.got = w[g].got
    BY <1>0, <2>0 DEF Thread, Clean, Stage, OwingLocations
  <2> HIDE DEF r
  <2> QED
    BY <2>0, <2>1, RecordActs
<1>3. CASE Deallocated(g)
  <2>0. w[g].pc = "dealloc" /\ w[g].got = {} /\ UNCHANGED <<environment, api, avail>>
    BY <1>3 DEF Deallocated, At
  <2>1. CASE End(g)
    BY <2>0, <2>1, EndActs
  <2> DEFINE r == [w[g] EXCEPT !.pc = "find", !.want = svc[w[g].s].ips]
  <2>2. CASE svc[w[g].s] # NoObject /\ w' = [w EXCEPT ![g] = r]
    <3>1. svc[w[g].s].ips = Wanted(w[g].s)
      BY <1>0, <2>2 DEF Own, Served
    <3>2. Clean(r) /\ r.s = w[g].s /\ r.ips = w[g].ips /\ r.got = w[g].got
      BY <1>0, <2>0, <3>1 DEF Thread, Clean
    <3> HIDE DEF r
    <3> QED
      BY <2>0, <2>2, <3>2, RecordActs
  <2> QED
    BY <1>3, <2>1, <2>2 DEF Deallocated
<1> QED
  BY <1>1, <1>2, <1>3 DEF Deallocator

-----------------------------------------------------------------------------
(* The steps, all together *)

(* What a thread goes on holding stays in its stage. *)
Steadfast ==
    \A g \in Threads :
        \/ w[g].got = {} \/ w'[g].got = {}
        \/ w'[g].s = w[g].s /\ Stage(w'[g]) = Stage(w[g])

(* A step of the system that the leader survives, or that is none of its own *)
Goes ==
    /\ Own'
    /\ Steadfast
    /\ UNCHANGED up
    /\ Holds \/ (up /\ Moves)

(* Steps of the handlers *)
LEMMA ActsGoes ==
  ASSUME IInv, Own, NEW g \in Threads, w[g].pc # "idle", Acts(g)
  PROVE  Goes
<1>1. up /\ poolEvents = {}
  BY AtWork
<1>2. UNCHANGED <<svc, poolEvents, up>>
  BY DEF Acts, environment
<1>3. w[g].s \in Services
  BY DEF IInv, TypeOK, Thread
<1>4. (\A h \in Threads : Clean(w[h]))'
  <2> SUFFICES ASSUME NEW h \in Threads PROVE Clean(w'[h])
    BY DEF Clean, Wanted, Admitted
  <2> QED
    BY DEF Acts, Turn, Own
<1>5. Served' /\ Running'
  BY <1>1, <1>2 DEF Own, Served, Running, Wanted
<1>6. Own'
  BY <1>4, <1>5 DEF Own, Acts
<1>7. Steadfast
  BY DEF Acts, Turn, Steadfast
<1>8. Moves
  BY <1>3 DEF Acts, Moves
<1> QED
  BY <1>1, <1>2, <1>6, <1>7, <1>8 DEF Goes

(* Every step of a handler, if it does not end the process *)
LEMMA HandlerGoes ==
  ASSUME IInv, Own, NEW g \in Threads, Book(g) \/ Reconciler(g) \/ Allocator(g) \/ Deallocator(g)
  PROVE  Goes \/ (up /\ Dies(g))
<1>1. CASE Book(g)
  <2>1. w[g].pc # "idle"
    BY <1>1 DEF Book, FindAllocation, Build, Built, Create, Rollback, RolledBack, At
  <2> QED
    BY <1>1, <2>1, BookActs, ActsGoes
<1>2. CASE Reconciler(g)
  <2>1. w[g].pc # "idle"
    BY <1>2 DEF Reconciler, FindService, ReconcileDelete, Reconcile, ReleaseRemoved, Unpatched,
                Patch, Update, SetPatchStatus, Cleanup, DeallocateAddress, CleanedUp, At
  <2> QED
    BY <1>2, <2>1, ReconcilerActs, ActsGoes, AtWork
<1>3. CASE Allocator(g)
  <2>1. w[g].pc # "idle"
    BY <1>3 DEF Allocator, Get, GetFailed, EnsureFindService, DeleteAllocation, Ensure,
                AllocateAddress, Ensured, SetStatus, ChangeAllocationNode, At
  <2> QED
    BY <1>3, <2>1, AllocatorActs, ActsGoes, AtWork
<1>4. CASE Deallocator(g)
  <2>1. w[g].pc # "idle"
    BY <1>4 DEF Deallocator, Dealloc, DeallocateAddress, Deallocated, At
  <2> QED
    BY <1>4, <2>1, DeallocatorActs, ActsGoes
<1> QED
  BY <1>1, <1>2, <1>3, <1>4

(* An idle thread has nothing. *)
LEMMA IdleClean == Clean(Idle) /\ Idle.ips = {}
<1>1. /\ Idle.want = {} /\ Idle.got = {} /\ Idle.ips = {} /\ Idle.todo = {}
      /\ Idle.pc = "idle" /\ Idle.kind = "create"
  BY DEF Idle
<1> QED
  BY <1>1 DEF Clean

(* A thread gets another record while the leader runs: it keeps what it has  *)
(* in hand, drops it, or collects what a deletion owes.                      *)
LEMMA ThreadGoes ==
  ASSUME IInv, Own, up, NEW g \in Threads, NEW r, w' = [w EXCEPT ![g] = r], Clean(r),
         w[g].got = {} \/ r.got = {} \/ (r.s = w[g].s /\ Stage(r) = Stage(w[g])),
         fresh' \subseteq fresh \cup {g}, g \in fresh' => r.ips = alloc[r.s].ips,
         Served', \A t \in tasks' : t.ips \subseteq Wanted(t.s),
         \/ Debts' = Debts /\ (r.got = w[g].got \/ r.got = {})
         \/ \E t \in Debts : /\ Debts' = Debts \ {t}
                             /\ w[g].got = {} /\ r.got = t.ips
                             /\ r.s = t.s /\ Stage(r) = "owed",
         UNCHANGED <<alloc, avail, poolEvents, up>>
  PROVE  Goes
<1>0. w \in [Threads -> Thread] /\ fresh \subseteq Threads
  BY DEF IInv, TypeOK
<1>1. w'[g] = r /\ \A h \in Threads : h # g => w'[h] = w[h]
  BY <1>0
<1>2. (\A h \in Threads : Clean(w[h]))'
  <2> SUFFICES ASSUME NEW h \in Threads PROVE Clean(w'[h])
    BY DEF Clean, Wanted, Admitted
  <2> QED
    BY <1>1 DEF Own
<1>3. Meant' /\ \A s \in Services : IpsOf(s)' = IpsOf(s)
  BY DEF Own, Meant, IpsOf, Wanted
<1>4. Copies'
  BY <1>0, <1>1 DEF Own, Copies
<1>5. Running'
  BY DEF Own, Running
<1>6. Own'
  BY <1>2, <1>3, <1>4, <1>5 DEF Own
<1>7. Steadfast
  BY <1>1 DEF Steadfast
<1>8. Moves
  <2>1. CASE Debts' = Debts /\ r.got = w[g].got
    <3>1. Holds
      BY <1>1, <1>3, <2>1 DEF Holds, SameObjects
    <3> QED
      BY <3>1 DEF Moves
  <2>2. CASE Debts' = Debts /\ r.got = {}
    <3>1. Drops(g)
      BY <1>1, <1>3, <2>2 DEF Drops, SameObjects
    <3> QED
      BY <3>1 DEF Moves
  <2>3. ASSUME NEW t \in Debts, Debts' = Debts \ {t}, w[g].got = {}, r.got = t.ips,
               r.s = t.s, Stage(r) = "owed"
        PROVE  Moves
    <3>1. Collects(g, t)
      BY <1>1, <1>3, <2>3 DEF Collects
    <3> QED
      BY <3>1 DEF Moves
  <2> QED
    BY <2>1, <2>2, <2>3
<1> QED
  BY <1>6, <1>7, <1>8 DEF Goes

(* The same, when no task is taken or added *)
LEMMA LockThreadGoes ==
  ASSUME IInv, Own, NEW g \in Threads, w[g].pc # "idle", NEW r, w' = [w EXCEPT ![g] = r], Clean(r),
         r.got = {} \/ (r.got = w[g].got /\ r.s = w[g].s /\ Stage(r) = Stage(w[g])),
         fresh' \subseteq fresh, g \in fresh' => r.ips = w[g].ips /\ r.s = w[g].s,
         UNCHANGED <<environment, alloc, tasks, avail>>
  PROVE  Goes
<1>1. up
  BY AtWork
<1>2. Served' /\ Debts' = Debts /\ UNCHANGED <<alloc, avail, poolEvents, up>>
  BY DEF environment, Own, Served, Debts, Wanted
<1>3. g \in fresh' => r.ips = alloc[r.s].ips
  BY DEF Own, Copies
<1>4. \A t \in tasks' : t.ips \subseteq Wanted(t.s)
  BY DEF Own, Meant
<1> QED
  BY <1>1, <1>2, <1>3, <1>4, ThreadGoes

(* Taking and leaving the lock, and the list of the retry loops *)
LEMMA LockGoes ==
  ASSUME IInv, Own, NEW g \in Threads, Lock(g)
  PROVE  Goes
<1>0. /\ w \in [Threads -> Thread] /\ w[g] \in Thread /\ Clean(w[g]) /\ w[g].s \in Services
  BY DEF IInv, TypeOK, Own, Thread
<1>f. g \in fresh => w[g].pc \notin {"idle", "isProcessing", "lookup"}
  BY DEF IInv, FreshCopies
<1>i. w[g].pc # "idle" /\ UNCHANGED <<environment, alloc, tasks, avail>>
  BY DEF Lock, IsErrorAllocationAlreadyProcessing, AddErrorAllocationToProcessingList, IsLocked,
         LockTimeout, AddToLock, Return, GiveUp, At, api
<1>d. Idle.got = {} /\ Clean(Idle)
  BY IdleType, IdleClean
<1>1. CASE IsErrorAllocationAlreadyProcessing(g)
  <2> DEFINE q == [w[g] EXCEPT !.pc = "addProcessing"]
  <2>0. w[g].pc = "isProcessing" /\ fresh' = fresh
    BY <1>1 DEF IsErrorAllocationAlreadyProcessing, At, api
  <2>1. Clean(q) /\ Stage(q) = Stage(w[g]) /\ q.s = w[g].s /\ q.got = w[g].got /\ q.ips = w[g].ips
    BY <1>0, <2>0 DEF Thread, Clean, Stage, OwingLocations
  <2>2. w' = [w EXCEPT ![g] = Idle] \/ w' = [w EXCEPT ![g] = q]
    BY <1>1 DEF IsErrorAllocationAlreadyProcessing, Goto
  <2> HIDE DEF q
  <2> QED
    BY <1>d, <1>f, <1>i, <2>0, <2>1, <2>2, LockThreadGoes
<1>2. CASE AddErrorAllocationToProcessingList(g)
  <2> DEFINE q == [w[g] EXCEPT !.pc = "isLocked"]
  <2>0. w[g].pc = "addProcessing" /\ fresh' = fresh /\ w[g].kind = "error"
    BY <1>2 DEF AddErrorAllocationToProcessingList, At, api, IInv, Approach
  <2>1. Clean(q) /\ Stage(q) = Stage(w[g]) /\ q.s = w[g].s /\ q.got = w[g].got /\ q.ips = w[g].ips
    BY <1>0, <2>0 DEF Thread, Clean, Stage, OwingLocations
  <2>2. w' = [w EXCEPT ![g] = q]
    BY <1>2 DEF AddErrorAllocationToProcessingList, Goto
  <2> HIDE DEF q
  <2> QED
    BY <1>i, <2>0, <2>1, <2>2, LockThreadGoes
<1>3. CASE IsLocked(g)
  <2> DEFINE q == [w[g] EXCEPT !.pc = "addToLock"]
  <2>0. w[g].pc = "isLocked" /\ fresh' = fresh
    BY <1>3 DEF IsLocked, At, api
  <2>1. Clean(q) /\ Stage(q) = Stage(w[g]) /\ q.s = w[g].s /\ q.got = w[g].got /\ q.ips = w[g].ips
    BY <1>0, <2>0 DEF Thread, Clean, Stage, OwingLocations
  <2>2. w' = [w EXCEPT ![g] = q]
    BY <1>3 DEF IsLocked, Goto
  <2> HIDE DEF q
  <2> QED
    BY <1>i, <2>0, <2>1, <2>2, LockThreadGoes
<1>4. CASE LockTimeout(g)
  <2>0. w[g].pc = "isLocked"
    BY <1>4 DEF LockTimeout, At
  <2>1. CASE w[g].kind = "error"
    <3> DEFINE q == [w[g] EXCEPT !.pc = "giveUp"]
    <3>1. Clean(q) /\ Stage(q) = Stage(w[g]) /\ q.s = w[g].s /\ q.got = w[g].got /\ q.ips = w[g].ips
      BY <1>0, <2>0, <2>1 DEF Thread, Clean, Stage, OwingLocations
    <3>2. w' = [w EXCEPT ![g] = q] /\ fresh' = fresh
      BY <1>4, <2>1 DEF LockTimeout, Goto
    <3> HIDE DEF q
    <3> QED
      BY <1>i, <3>1, <3>2, LockThreadGoes
  <2>2. CASE w[g].kind # "error"
    <3>1. w' = [w EXCEPT ![g] = Idle] /\ fresh' = fresh \ {g}
      BY <1>4, <2>2 DEF LockTimeout
    <3> QED
      BY <1>d, <1>i, <3>1, LockThreadGoes
  <2> QED
    BY <2>1, <2>2
<1>5. CASE AddToLock(g)
  <2> DEFINE l == CASE w[g].kind = "delete" -> "dealloc"
                    [] w[g].kind = "changed" -> "spawn"
                    [] OTHER -> "get"
             q == [w[g] EXCEPT !.pc = l]
  <2>0. w[g].pc = "addToLock" /\ fresh' = fresh
    BY <1>5 DEF AddToLock, At, api
  <2>1. l \in {"dealloc", "spawn", "get"} /\ (w[g].kind = "delete" <=> l = "dealloc")
        /\ (l = "spawn" => w[g].kind = "changed")
    OBVIOUS
  <2>2. w' = [w EXCEPT ![g] = q]
    BY <1>5 DEF AddToLock, Goto
  <2> HIDE DEF l
  <2>3. Clean(q) /\ Stage(q) = Stage(w[g]) /\ q.s = w[g].s /\ q.got = w[g].got /\ q.ips = w[g].ips
    BY <1>0, <2>0, <2>1 DEF Thread, Clean, Stage, OwingLocations
  <2> HIDE DEF q
  <2> QED
    BY <1>i, <2>0, <2>2, <2>3, LockThreadGoes
<1>6. CASE Return(g)
  <2> DEFINE q(l) == [Idle EXCEPT !.kind = "error", !.s = w[g].s, !.pc = l]
  <2>1. \A l \in {"isLocked", "giveUp"} : Clean(q(l)) /\ q(l).got = {}
    BY DEF Idle, Clean
  <2>2. w' = [w EXCEPT ![g] = Idle] \/ \E l \in {"isLocked", "giveUp"} : w' = [w EXCEPT ![g] = q(l)]
    BY <1>6 DEF Return
  <2>3. fresh' = fresh \ {g}
    BY <1>6 DEF Return
  <2> HIDE DEF q
  <2>4. PICK r : Clean(r) /\ r.got = {} /\ w' = [w EXCEPT ![g] = r]
    BY <1>d, <2>1, <2>2
  <2> QED
    BY <1>i, <2>3, <2>4, LockThreadGoes
<1>7. CASE GiveUp(g)
  <2> DEFINE q == [w[g] EXCEPT !.kind = "exhausted", !.pc = "getFailed"]
  <2>0. w[g].pc = "giveUp" /\ fresh' = fresh
    BY <1>7 DEF GiveUp, At, api
  <2>1. Clean(q) /\ Stage(q) = Stage(w[g]) /\ q.s = w[g].s /\ q.got = w[g].got /\ q.ips = w[g].ips
    BY <1>0, <2>0 DEF Thread, Clean, Stage, OwingLocations
  <2>2. w' = [w EXCEPT ![g] = q]
    BY <1>7 DEF GiveUp
  <2> HIDE DEF q
  <2> QED
    BY <1>i, <2>0, <2>1, <2>2, LockThreadGoes
<1> QED
  BY <1>1, <1>2, <1>3, <1>4, <1>5, <1>6, <1>7 DEF Lock

(* A goroutine starts on a task. *)
LEMMA StartGoes ==
  ASSUME IInv, Own, NEW g \in Goroutines, NEW t \in tasks, Start(g, t)
  PROVE  Goes
<1>0. /\ g \in Threads /\ t \in Task /\ t.ips \subseteq Wanted(t.s) /\ g \notin fresh
      /\ w[g].pc = "idle" /\ Clean(w[g])
  BY DEF Threads, IInv, TypeOK, FreshCopies, Start, At, Own, Meant
<1>1. up
  BY DEF Own, Running
<1>2. /\ t.kind \in Handled \cup {"create", "delete"} /\ w[g].got = {}
  BY <1>0 DEF Task, Clean
<1> DEFINE l == CASE t.kind = "create" -> "find"
                  [] t.kind = "error" -> "isProcessing"
                  [] OTHER -> "isLocked"
           i == IF t.kind = "create" THEN t.ips ELSE {}
           j == IF t.kind = "delete" THEN t.ips ELSE {}
           r == [Idle EXCEPT !.kind = t.kind, !.s = t.s, !.want = i, !.got = j, !.pc = l]
<1>3. /\ l \in {"find", "isProcessing", "isLocked"}
      /\ l = "find" <=> t.kind = "create"
      /\ t.kind = "delete" => l = "isLocked"
  BY <1>2 DEF Handled
<1>4. w' = [w EXCEPT ![g] = r]
  BY DEF Start, Started
<1>5. i \subseteq Wanted(t.s) /\ j \subseteq Wanted(t.s)
  BY <1>0
<1>j. (t.kind = "delete" => j = t.ips) /\ (t.kind # "delete" => j = {})
  OBVIOUS
<1> HIDE DEF l, i, j
<1>6. /\ r.want = i /\ r.got = j /\ r.ips = {} /\ r.todo = {} /\ r.s = t.s /\ r.kind = t.kind
      /\ r.pc = l
  BY DEF Idle
<1> HIDE DEF r
<1>7. Clean(r)
  BY <1>2, <1>3, <1>5, <1>6 DEF Clean, Handled
<1>8. /\ UNCHANGED <<alloc, avail, poolEvents, up>> /\ fresh' = fresh /\ tasks' = tasks \ {t}
      /\ svc' = svc
  BY DEF Start, environment
<1>9. Served' /\ \A u \in tasks' : u.ips \subseteq Wanted(u.s)
  BY <1>8 DEF Own, Served, Meant, Wanted
<1>10. CASE t.kind = "delete"
  <2>1. t \in Debts /\ Debts' = Debts \ {t}
    BY <1>8, <1>10 DEF Debts
  <2>2. Stage(r) = "owed"
    BY <1>3, <1>6, <1>10 DEF Stage, OwingLocations
  <2>3. r.got = t.ips /\ r.s = t.s
    BY <1>6, <1>j, <1>10
  <2> QED
    BY <1>0, <1>1, <1>2, <1>4, <1>7, <1>8, <1>9, <2>1, <2>2, <2>3, ThreadGoes
<1>11. CASE t.kind # "delete"
  <2>1. Debts' = Debts
    BY <1>8, <1>11 DEF Debts
  <2>2. r.got = {}
    BY <1>6, <1>j, <1>11
  <2> QED
    BY <1>0, <1>1, <1>4, <1>7, <1>8, <1>9, <2>1, <2>2, ThreadGoes
<1> QED
  BY <1>10, <1>11

(* What happens outside, without a step of a thread *)
LEMMA OutsideGoes ==
  ASSUME IInv, Own, Served', Meant', SameObjects, fresh' \subseteq fresh,
         \A g \in fresh' : alloc'[w[g].s].ips = alloc[w[g].s].ips,
         ~up => tasks' = tasks, UNCHANGED <<w, avail, poolEvents, up>>
  PROVE  Goes
<1>1. (\A g \in Threads : Clean(w[g]))' /\ Copies'
  BY DEF Own, Copies, Clean, Wanted, Admitted
<1>2. Running'
  BY DEF Own, Running
<1>3. Steadfast /\ Holds
  BY DEF Steadfast, Holds
<1> QED
  BY <1>1, <1>2, <1>3 DEF Goes, Own

(* The tasks of a service ask for what the service asks for. *)
LEMMA CreateTaskMeant ==
  ASSUME NEW s, NEW service, service.ips = Wanted(s)
  PROVE  \A t \in CreateTask(s, service) : t.ips \subseteq Wanted(t.s) /\ t.kind # "delete"
  BY DEF CreateTask

(* A service that is given its addresses *)
LEMMA FixedService ==
  ASSUME FixedIPs, NEW s \in Services, NEW x \in ExternalIPs[s]
  PROVE  x = Wanted(s)
  BY DEF FixedIPs, Wanted

(* Events of services *)
LEMMA ServiceGoes ==
  ASSUME IInv, Own, FixedIPs, NEW s \in Services,
         ServiceAdded(s) \/ ServiceDeleted(s) \/ ServiceChanged(s)
  PROVE  Goes
<1>0. /\ svc \in [Services -> Service \cup {NoObject}] /\ Informer \in Threads
      /\ w[Informer].pc = "idle" /\ Informer \notin fresh
      /\ w[Informer].got = {}
  BY DEF IInv, TypeOK, FreshCopies, Threads, ServiceAdded, ServiceDeleted, ServiceChanged, At,
         Own, Clean
<1>u. UNCHANGED <<alloc, fresh, avail, poolEvents, up>>
  BY DEF ServiceAdded, ServiceDeleted, ServiceChanged, api
<1>r. ASSUME NEW kind \in {"deleted", "changed"}, NEW l \in {"deleteAlloc", "lookup"}, NEW service,
             service.ips = Wanted(s)
      PROVE  Clean(InformerRecord(kind, l, s, service)) /\ InformerRecord(kind, l, s, service).got = {}
  <2> DEFINE q == InformerRecord(kind, l, s, service)
  <2>1. /\ q.want = service.ips /\ q.got = {} /\ q.ips = {} /\ q.todo = {} /\ q.s = s
        /\ q.kind = kind /\ q.pc = l
    BY DEF InformerRecord, Idle
  <2> HIDE DEF q
  <2>2. Clean(q)
    BY <1>r, <2>1 DEF Clean
  <2> QED
    BY <2>1, <2>2 DEF q
<1>k. ASSUME UNCHANGED tasks PROVE SameObjects /\ Meant'
  BY <1>k, <1>u DEF SameObjects, IpsOf, Debts, Own, Meant, Wanted
<1>w. ASSUME Served', UNCHANGED <<w, tasks>> PROVE Goes
  BY <1>k, <1>u, <1>w, OutsideGoes
<1>t. ASSUME Served', up, UNCHANGED tasks, NEW r, Clean(r), r.got = {},
             w' = [w EXCEPT ![Informer] = r]
      PROVE  Goes
  <2>1. Debts' = Debts /\ \A t \in tasks' : t.ips \subseteq Wanted(t.s)
    BY <1>t DEF Debts, Own, Meant
  <2> QED
    BY <1>0, <1>t, <1>u, <2>1, ThreadGoes
<1>1. CASE ServiceAdded(s)
  <2>1. PICK service \in [lb : {TRUE}, ips : ExternalIPs[s]] :
           /\ svc' = [svc EXCEPT ![s] = service]
           /\ tasks' = tasks \cup (IF up THEN CreateTask(s, service) ELSE {})
    BY <1>1 DEF ServiceAdded
  <2>2. service.ips = Wanted(s)
    BY FixedService
  <2>3. Served'
    BY <1>0, <2>1, <2>2 DEF Own, Served, Wanted
  <2>4. \A t \in CreateTask(s, service) : t.ips \subseteq Wanted(t.s) /\ t.kind # "delete"
    BY <2>2, CreateTaskMeant
  <2>5. Meant' /\ SameObjects
    BY <1>u, <2>1, <2>4 DEF Own, Meant, SameObjects, IpsOf, Debts, Wanted
  <2>6. w' = w /\ (~up => tasks' = tasks)
    BY <1>1, <2>1 DEF ServiceAdded
  <2> QED
    BY <1>u, <2>3, <2>5, <2>6, OutsideGoes
<1>2. CASE ServiceDeleted(s)
  <2> DEFINE q == InformerRecord("deleted", "deleteAlloc", s, svc[s])
  <2>1. svc[s] # NoObject /\ svc' = [svc EXCEPT ![s] = NoObject] /\ tasks' = tasks
        /\ (w' = w \/ (up /\ w' = [w EXCEPT ![Informer] = q]))
    BY <1>2 DEF ServiceDeleted, InformerStarts, InformerRecord, api
  <2>2. Clean(q) /\ q.got = {}
    BY <1>r, <2>1 DEF Own, Served
  <2> HIDE DEF q
  <2>3. Served'
    BY <1>0, <2>1 DEF Own, Served, Wanted
  <2> QED
    BY <1>t, <1>w, <2>1, <2>2, <2>3
<1>3. CASE ServiceChanged(s)
  <2>1. PICK service \in [lb : {TRUE} \cup (IF TypeChanges THEN {FALSE} ELSE {}),
                          ips : ExternalIPs[s]] :
           /\ svc' = [svc EXCEPT ![s] = service]
           /\ IF up THEN InformerStarts("changed", "lookup", s, service) ELSE UNCHANGED w
    BY <1>3 DEF ServiceChanged
  <2>2. service.ips = Wanted(s)
    BY FixedService
  <2> DEFINE q == InformerRecord("changed", "lookup", s, service)
  <2>3. Clean(q) /\ q.got = {}
    BY <1>r, <2>2
  <2>4. tasks' = tasks /\ (w' = w \/ (up /\ w' = [w EXCEPT ![Informer] = q]))
    BY <1>3, <2>1 DEF ServiceChanged, InformerStarts, InformerRecord, api
  <2> HIDE DEF q
  <2>5. Served'
    BY <1>0, <2>1, <2>2 DEF Own, Served, Wanted
  <2> QED
    BY <1>t, <1>w, <2>3, <2>4, <2>5
<1> QED
  BY <1>1, <1>2, <1>3

(* serviceChanged looks the allocation up. *)
LEMMA LookupGoes ==
  ASSUME IInv, Own, LookupAllocation
  PROVE  Goes
<1> DEFINE s == w[Informer].s
           q == [Copy(w[Informer]) EXCEPT !.pc = "isLocked"]
<1>0. /\ Informer \in Threads /\ w[Informer] \in Thread /\ s \in Services
      /\ Informer \notin fresh /\ w[Informer].kind = "changed" /\ svc[s] # NoObject
      /\ w[Informer].pc = "lookup" /\ Clean(w[Informer])
  BY DEF Threads, IInv, TypeOK, Thread, FreshCopies, Approach, Looking, LookupAllocation, At, Own
<1>1. up
  BY <1>0, AtWork
<1>2. svc' = svc /\ UNCHANGED <<alloc, avail, poolEvents, up>>
  BY DEF LookupAllocation, environment
<1>3. Served'
  BY <1>2 DEF Own, Served, Wanted
<1>4. tasks' = tasks \/ tasks' = tasks \cup CreateTask(s, svc[s])
  BY DEF LookupAllocation
<1>5. \A t \in CreateTask(s, svc[s]) : t.ips \subseteq Wanted(t.s) /\ t.kind # "delete"
  <2>1. svc[s].ips = Wanted(s)
    BY <1>0 DEF Own, Served
  <2> QED
    BY <2>1, CreateTaskMeant
<1>6. Debts' = Debts /\ \A t \in tasks' : t.ips \subseteq Wanted(t.s)
  BY <1>4, <1>5 DEF Debts, Own, Meant
<1>7. CASE w' = [w EXCEPT ![Informer] = Idle] /\ fresh' = fresh
  <2>1. Clean(Idle) /\ Idle.got = {}
    BY IdleType, IdleClean
  <2> QED
    BY <1>0, <1>1, <1>2, <1>3, <1>6, <1>7, <2>1, ThreadGoes
<1>8. CASE alloc[s] # NoObject /\ w' = [w EXCEPT ![Informer] = q] /\ fresh' = fresh \cup {Informer}
  <2>1. /\ alloc[s].ips \subseteq Wanted(s) /\ alloc[s].ips \subseteq Admitted(s)
    <3>1. IpsOf(s) = alloc[s].ips
      BY <1>8 DEF IpsOf
    <3> QED
      BY <1>0, <1>8, <3>1 DEF Own, Meant, IInv, Granted, OnlyAllowedPools
  <2>2. Clean(q) /\ q.s = s /\ q.ips = alloc[s].ips /\ q.got = w[Informer].got
        /\ Stage(q) = Stage(w[Informer])
    BY <1>0, <2>1 DEF Copy, Thread, Clean, Stage, OwingLocations
  <2> HIDE DEF q
  <2> QED
    BY <1>0, <1>1, <1>2, <1>3, <1>6, <1>8, <2>2, ThreadGoes
<1> QED
  BY <1>7, <1>8, Zenon DEF LookupAllocation

(* The goroutine of serviceChanged takes over the informer's copies. *)
LEMMA SpawnGoes ==
  ASSUME IInv, Own, NEW g \in Goroutines, SpawnReconcile(g)
  PROVE  Goes
<1> DEFINE q == [w[Informer] EXCEPT !.kind = "reconcile", !.pc = "reconcile", !.got = {}]
           r == [w[Informer] EXCEPT !.pc = "return"]
<1>0. /\ g \in Threads /\ Informer \in Threads /\ g # Informer /\ fresh \subseteq Threads
      /\ w \in [Threads -> Thread] /\ w[Informer] \in Thread
      /\ w[Informer].pc = "spawn" /\ w[g].pc = "idle" /\ g \notin fresh
      /\ Clean(w[Informer]) /\ Clean(w[g])
  BY ThreadAssumption DEF Threads, IInv, TypeOK, FreshCopies, SpawnReconcile, At, Own
<1>1. w[Informer].kind = "changed" /\ w[Informer].want = Wanted(w[Informer].s)
      /\ w[g].got = {}
  BY <1>0 DEF Clean
<1>2. Clean(q) /\ q.s = w[Informer].s /\ q.got = {} /\ q.ips = w[Informer].ips
  BY <1>0, <1>1 DEF Thread, Clean
<1>3. /\ Clean(r) /\ r.s = w[Informer].s /\ r.got = w[Informer].got /\ r.ips = w[Informer].ips
      /\ Stage(r) = Stage(w[Informer])
  BY <1>0 DEF Thread, Clean, Stage, OwingLocations
<1>4. w' = [w EXCEPT ![g] = q, ![Informer] = r]
  BY <1>0 DEF SpawnReconcile
<1> HIDE DEF q, r
<1>5. /\ w'[g] = q /\ w'[Informer] = r
      /\ \A h \in Threads : h # g /\ h # Informer => w'[h] = w[h]
  BY <1>0, <1>4
<1>6. /\ fresh' = IF Informer \in fresh THEN fresh \cup {g} ELSE fresh
      /\ UNCHANGED <<svc, alloc, tasks, avail, poolEvents, up>>
  BY DEF SpawnReconcile, environment
<1>7. (\A h \in Threads : Clean(w[h]))'
  <2> SUFFICES ASSUME NEW h \in Threads PROVE Clean(w'[h])
    BY DEF Clean, Wanted, Admitted
  <2> QED
    BY <1>2, <1>3, <1>5 DEF Own
<1>8. Meant' /\ Served' /\ SameObjects
  BY <1>6 DEF Own, Meant, Served, SameObjects, IpsOf, Debts, Wanted
<1>9. Copies'
  BY <1>0, <1>2, <1>3, <1>5, <1>6 DEF Own, Copies
<1>10. up
  BY <1>0, AtWork
<1>11. Running'
  BY <1>6, <1>10 DEF Own, Running
<1>12. Holds /\ Steadfast
  BY <1>1, <1>2, <1>3, <1>5, <1>6, <1>8 DEF Holds, Steadfast
<1> QED
  BY <1>6, <1>7, <1>8, <1>9, <1>11, <1>12 DEF Goes, Own

(* operatorNodeLost writes a status behind the back of every handler. *)
LEMMA NodeLostGoes ==
  ASSUME IInv, Own, NEW s \in Services, OperatorNodeLost(s)
  PROVE  Goes
<1>0. /\ alloc \in [Services -> IPAllocation \cup {NoObject}] /\ alloc[s] \in IPAllocation
      /\ \A h \in Threads : w[h].s \in Services
      /\ fresh \subseteq Threads
  BY DEF IInv, TypeOK, Thread, OperatorNodeLost
<1> DEFINE obj == [alloc[s] EXCEPT !.state = "node_error"]
<1>1. obj \in IPAllocation /\ obj.ips = alloc[s].ips
  BY <1>0 DEF IPAllocation, States
<1>2. alloc' = [alloc EXCEPT ![s] = obj]
  BY DEF OperatorNodeLost
<1> HIDE DEF obj
<1>3. /\ tasks' = tasks \cup EventTasks(s, "node_error") /\ fresh' = fresh \ OtherCopies(s)
      /\ UNCHANGED <<svc, w, avail, poolEvents, up>> /\ up
  BY DEF OperatorNodeLost
<1>4. \A t \in EventTasks(s, "node_error") : t.kind # "delete" /\ t.ips = {}
  BY DEF EventTasks
<1>5. obj # NoObject /\ alloc[s] # NoObject
  BY <1>0, <1>1, NoObjectAssumption
<1>6. \A t \in Services : IpsOf(t)' = IpsOf(t)
  BY <1>0, <1>1, <1>2, <1>5 DEF IpsOf
<1>7. SameObjects
  BY <1>3, <1>4, <1>6 DEF SameObjects, Debts
<1>8. Meant' /\ Served'
  BY <1>3, <1>4, <1>6 DEF Own, Meant, Served, Wanted
<1>9. \A g \in fresh' : alloc'[w[g].s].ips = alloc[w[g].s].ips
  BY <1>0, <1>2, <1>3 DEF OtherCopies
<1> QED
  BY <1>3, <1>7, <1>8, <1>9, OutsideGoes

(* Nothing but the objects survives the leader. *)
Halts ==
    /\ Own'
    /\ up /\ ~up'
    /\ \A p \in Pools : avail'[p] = {}
    /\ \A g \in Threads : w'[g].got = {}
    /\ Debts' = {}
    /\ \A s \in Services : IpsOf(s)' = IpsOf(s) \/ IpsOf(s)' = {}

(* The leader dies, in a crash or on a deletion. *)
LEMMA DieHalts ==
  ASSUME IInv, Own, up, Die, UNCHANGED svc,
         alloc' = alloc \/ \E s \in Services : alloc' = [alloc EXCEPT ![s] = NoObject]
  PROVE  Halts
<1>1. \A g \in Threads : w'[g] = Idle
  BY DEF Die
<1>2. Clean(Idle) /\ Idle.got = {}
  BY IdleType, IdleClean
<1>3. (\A g \in Threads : Clean(w[g]))'
  <2> SUFFICES ASSUME NEW h \in Threads PROVE Clean(w'[h])
    BY DEF Clean, Wanted, Admitted
  <2> QED
    BY <1>1, <1>2
<1>4. \A s \in Services : IpsOf(s)' = IpsOf(s) \/ IpsOf(s)' = {}
  BY DEF IpsOf, IInv, TypeOK
<1>5. Meant' /\ Copies' /\ Served'
  BY <1>4 DEF Die, Own, Meant, Copies, Served, Wanted
<1>6. Running'
  BY <1>1 DEF Die, Running
<1>7. Debts' = {} /\ ~up' /\ \A p \in Pools : avail'[p] = {}
  BY DEF Die, Debts
<1> QED
  BY <1>1, <1>2, <1>3, <1>4, <1>5, <1>6, <1>7 DEF Halts, Own

(* While the first leader runs and nobody touches a pool, there are no pool  *)
(* events.                                                                   *)
LEMMA NoPoolEvent ==
  ASSUME Own, ~PoolUpdates, NEW p \in Pools,
         AddPool(p) \/ PersistentPoolModified(p) \/ PoolUpdated(p)
  PROVE  FALSE
  BY DEF Own, Running, AddPool, PersistentPoolModified, PoolUpdated

(* A step of a thread *)
LEMMA StepGoes ==
  ASSUME IInv, Own, NEW g \in Threads, Step(g)
  PROVE  Goes \/ Halts
<1>1. CASE Lock(g)
  BY <1>1, LockGoes
<1>2. CASE Book(g) \/ Reconciler(g) \/ Allocator(g) \/ Deallocator(g)
  <2>1. Goes \/ (up /\ Dies(g))
    BY <1>2, HandlerGoes
  <2>2. ASSUME up, Dies(g) PROVE Halts
    <3>1. w[g].s \in Services
      BY DEF IInv, TypeOK, Thread
    <3> QED
      BY <2>2, <3>1, DieHalts DEF Dies
  <2> QED
    BY <2>1, <2>2
<1> QED
  BY <1>1, <1>2 DEF Step

(* Every step but that of a new leader *)
LEMMA NextGoes ==
  ASSUME IInv, Own, FixedIPs, ~PoolUpdates, [Next]_vars
  PROVE  Goes \/ Halts \/ Restart
<1>1. CASE UNCHANGED vars
  <2>1. /\ UNCHANGED <<svc, alloc, tasks, w, fresh, avail, poolEvents, up>>
    BY <1>1 DEF vars
  <2>2. Served' /\ Meant' /\ SameObjects
    BY <2>1 DEF Own, Served, Meant, SameObjects, IpsOf, Debts, Wanted
  <2> QED
    BY <2>1, <2>2, OutsideGoes
<1>2. ASSUME NEW g \in Threads, Step(g) PROVE Goes \/ Halts
  BY <1>2, StepGoes
<1>3. CASE Crash
  BY <1>3, DieHalts DEF Crash
<1>4. ASSUME NEW s \in Services, ServiceAdded(s) \/ ServiceDeleted(s) \/ ServiceChanged(s)
      PROVE  Goes
  BY <1>4, ServiceGoes
<1>5. ASSUME NEW s \in Services, OperatorNodeLost(s) PROVE Goes
  BY <1>5, NodeLostGoes
<1>6. ASSUME NEW g \in Goroutines, NEW t \in tasks, Start(g, t) PROVE Goes
  BY <1>6, StartGoes
<1>7. CASE LookupAllocation
  BY <1>7, LookupGoes
<1>8. ASSUME NEW g \in Goroutines, SpawnReconcile(g) PROVE Goes
  BY <1>8, SpawnGoes
<1>9. CASE Environment
  BY <1>3, <1>4, <1>5, <1>9, NoPoolEvent DEF Environment
<1>10. CASE Controller
  BY <1>2, <1>6, <1>7, <1>8, <1>10, NoPoolEvent DEF Controller
<1> QED
  BY <1>1, <1>9, <1>10 DEF Next

(* The owners stay apart in every step ... *)
LEMMA HaltsKeepsApart ==
  ASSUME Apart, Halts
  PROVE  Apart'
<1>1. Shrinks
  BY DEF Halts, Shrinks
<1> QED
  BY <1>1, ShrinksKeepsApart

(* ... of the system. *)
LEMMA GoesKeepsApart ==
  ASSUME IInv, Apart, Goes
  PROVE  Apart'
<1>1. Moves
  BY DEF Goes, Moves
<1>2. \A g \in Threads : w[g].s \in Services
  BY DEF IInv, TypeOK, Thread
<1> QED
  BY <1>1, <1>2, MovesKeepApart

(* The first leader starts with nothing allocated. *)
LEMMA InitOwn ==
  ASSUME Init
  PROVE  Own /\ Apart
<1>1. \A g \in Threads : w[g] = Idle
  BY DEF Init
<1>2. Clean(Idle) /\ Idle.got = {}
  BY IdleType, IdleClean
<1>3. (\A s \in Services : IpsOf(s) = {}) /\ Debts = {} /\ tasks = {}
  BY DEF Init, IpsOf, Debts
<1>4. Own
  BY <1>1, <1>2, <1>3 DEF Init, Own, Meant, Copies, Served, Running
<1>5. Apart
  BY <1>1, <1>2, <1>3 DEF Apart
<1> QED
  BY <1>4, <1>5

-----------------------------------------------------------------------------
(* Who has an address, for every value of the constants *)

(* Only a new leader counts as a restart. *)
LEMMA CountRestarts ==
  ASSUME IInv, [Next]_vars, ~Restart
  PROVE  UNCHANGED restarts
<1>1. ASSUME NEW g \in Threads, Step(g) PROVE UNCHANGED restarts
  <2>1. CASE Lock(g)
    BY <2>1 DEF Lock, IsErrorAllocationAlreadyProcessing, AddErrorAllocationToProcessingList,
                IsLocked, LockTimeout, AddToLock, Return, GiveUp, environment
  <2>2. CASE ~Lock(g)
    BY <1>1, <2>2, HandlerStep DEF Step, Effects, environment, Dies
  <2> QED
    BY <2>1, <2>2
<1>2. CASE Environment
  BY <1>2 DEF Environment, ServiceAdded, ServiceDeleted, ServiceChanged, OperatorNodeLost,
              PoolUpdated, Crash
<1>3. CASE Controller
  BY <1>1, <1>3 DEF Controller, Start, LookupAllocation, SpawnReconcile, AddPool,
                    PersistentPoolModified, environment
<1> QED
  BY <1>2, <1>3 DEF Next, vars

(* The reign of the first leader *)
FirstReign == restarts = 0 => Own /\ Apart

(* The invariant, for every value of the constants *)
LEMMA FirstReignHolds ==
  ASSUME FixedIPs, ~PoolUpdates
  PROVE  Spec => []FirstReign
<1>1. Init => FirstReign
  BY InitOwn DEF FirstReign
<1>2. IInv /\ FirstReign /\ [Next]_vars => FirstReign'
  <2> SUFFICES ASSUME IInv, FirstReign, [Next]_vars, restarts' = 0
               PROVE  Own' /\ Apart'
    BY DEF FirstReign
  <2>1. restarts \in Nat /\ (Restart => restarts' = restarts + 1)
    BY EnvironmentAssumption DEF IInv, TypeOK, Restart
  <2>2. CASE restarts # 0
    <3>1. CASE Restart
      BY <2>1, <2>2, <3>1
    <3>2. CASE ~Restart
      <4>1. UNCHANGED restarts
        BY <3>2, CountRestarts
      <4> QED
        BY <2>2, <4>1
    <3> QED
      BY <3>1, <3>2
  <2>3. CASE restarts = 0
    <3>1. Own /\ Apart
      BY <2>3 DEF FirstReign
    <3>2. ~Restart
      BY <2>1, <2>3
    <3>3. Goes \/ Halts
      BY <3>1, <3>2, NextGoes
    <3> QED
      BY <3>1, <3>3, GoesKeepsApart, HaltsKeepsApart DEF Goes, Halts
  <2> QED
    BY <2>2, <2>3
<1> QED
  BY <1>1, <1>2, InvariantHolds, PTL DEF Spec

(* As long as the first leader runs, and after it died, no address is in two *)
(* places: whatever the number of services that compete for it, the faults,  *)
(* the interleaving of their goroutines and the loss of locks.  The services *)
(* keep their externalIPs and the pools are not touched; the runs edit and   *)
(* warmup show that neither an edit nor a second leader can be allowed.      *)
THEOREM AddressHasOneOwner ==
  ASSUME FixedIPs, ~PoolUpdates
  PROVE  Spec => [](restarts = 0 => SingleOwner)
<1>1. FirstReign => (restarts = 0 => SingleOwner)
  BY ApartIsSingleOwner DEF FirstReign
<1> QED
  BY <1>1, FirstReignHolds, PTL

-----------------------------------------------------------------------------
(* The refinement *)

(* The places of an address, by who has it *)
LEMMA PlacesByOwner ==
  \A a, x : x \in PlacesOf(a) <=>
      \/ \E s \in Services : a \in IpsOf(s) /\ x = Ledger!With("bound", s)
      \/ \E t \in Debts : a \in t.ips /\ x = Ledger!With("owed", t.s)
      \/ \E g \in Threads : a \in w[g].got /\ x = Ledger!With(Stage(w[g]), w[g].s)
      \/ \E p \in Pools : a \in avail[p] /\ x = Ledger!Free
<1> SUFFICES ASSUME NEW a, NEW x
             PROVE  x \in PlacesOf(a) <=>
      \/ \E s \in Services : a \in IpsOf(s) /\ x = Ledger!With("bound", s)
      \/ \E t \in Debts : a \in t.ips /\ x = Ledger!With("owed", t.s)
      \/ \E g \in Threads : a \in w[g].got /\ x = Ledger!With(Stage(w[g]), w[g].s)
      \/ \E p \in Pools : a \in avail[p] /\ x = Ledger!Free
  OBVIOUS
<1>1. (\E s \in Services : a \in IpsOf(s) /\ x = Ledger!With("bound", s))
        <=> x \in {[stage |-> "bound", s |-> s] :
                      s \in {t \in Services : alloc[t] # NoObject /\ a \in alloc[t].ips}}
  BY DEF IpsOf, Ledger!With
<1>2. (\E t \in Debts : a \in t.ips /\ x = Ledger!With("owed", t.s))
        <=> x \in {[stage |-> "owed", s |-> t.s] : t \in {u \in tasks : a \in Owed(u)}}
  <2>1. \A t : t \in Debts /\ a \in t.ips <=> t \in {u \in tasks : a \in Owed(u)}
    BY DEF Debts, Owed
  <2> QED
    BY <2>1 DEF Ledger!With
<1>3. (\E g \in Threads : a \in w[g].got /\ x = Ledger!With(Stage(w[g]), w[g].s))
        <=> x \in {[stage |-> IF w[g].kind = "delete" /\ w[g].pc \in OwingLocations
                              THEN "owed" ELSE "booked", s |-> w[g].s] :
                      g \in {h \in Threads : a \in w[h].got}}
  BY DEF Stage, Ledger!With
<1>4. (\E p \in Pools : a \in avail[p] /\ x = Ledger!Free)
        <=> x \in {[stage |-> "free"] : p \in {q \in Pools : a \in avail[q]}}
  BY DEF Ledger!Free
<1> QED
  BY <1>1, <1>2, <1>3, <1>4 DEF PlacesOf

(* No address has two. *)
LEMMA OnePlace ==
  Apart => \A a : \A x, y \in PlacesOf(a) : x = y
<1> SUFFICES ASSUME Apart, NEW a, NEW x \in PlacesOf(a), NEW y \in PlacesOf(a)
             PROVE  x = y
  OBVIOUS
<1>1. CASE \E s \in Services : a \in IpsOf(s) /\ x = Ledger!With("bound", s)
  BY <1>1, PlacesByOwner DEF Apart
<1>2. CASE \E t \in Debts : a \in t.ips /\ x = Ledger!With("owed", t.s)
  BY <1>2, PlacesByOwner DEF Apart
<1>3. CASE \E g \in Threads : a \in w[g].got /\ x = Ledger!With(Stage(w[g]), w[g].s)
  BY <1>3, PlacesByOwner DEF Apart
<1>4. CASE \E p \in Pools : a \in avail[p] /\ x = Ledger!Free
  BY <1>4, PlacesByOwner DEF Apart
<1> QED
  BY <1>1, <1>2, <1>3, <1>4, PlacesByOwner

(* Who has an address decides where it is. *)
LEMMA PlaceByOwner ==
  Apart =>
      /\ \A a, x : x \in PlacesOf(a) => PlaceOf(a) = x
      /\ \A a : PlacesOf(a) = {} => PlaceOf(a) = Ledger!Lost
<1> SUFFICES ASSUME Apart
             PROVE  /\ \A a, x : x \in PlacesOf(a) => PlaceOf(a) = x
                    /\ \A a : PlacesOf(a) = {} => PlaceOf(a) = Ledger!Lost
  OBVIOUS
<1>1. ASSUME NEW a, NEW x \in PlacesOf(a) PROVE PlaceOf(a) = x
  <2>1. PlaceOf(a) = CHOOSE y \in PlacesOf(a) : TRUE
    BY DEF PlaceOf
  <2>2. (CHOOSE y \in PlacesOf(a) : TRUE) \in PlacesOf(a)
    OBVIOUS
  <2> QED
    BY <2>1, <2>2, OnePlace
<1>2. ASSUME NEW a, PlacesOf(a) = {} PROVE PlaceOf(a) = Ledger!Lost
  BY <1>2 DEF PlaceOf, Ledger!Lost
<1> QED
  BY <1>1, <1>2

(* The same after a step *)
LEMMA PlacesByOwnerNext ==
  \A a, x : x \in PlacesOf(a)' <=>
      \/ \E s \in Services : a \in IpsOf(s)' /\ x = Ledger!With("bound", s)
      \/ \E t \in Debts' : a \in t.ips /\ x = Ledger!With("owed", t.s)
      \/ \E g \in Threads : a \in w'[g].got /\ x = Ledger!With(Stage(w'[g]), w'[g].s)
      \/ \E p \in Pools : a \in avail'[p] /\ x = Ledger!Free
<1>1. (\A a, x : x \in PlacesOf(a) <=>
          \/ \E s \in Services : a \in IpsOf(s) /\ x = Ledger!With("bound", s)
          \/ \E t \in Debts : a \in t.ips /\ x = Ledger!With("owed", t.s)
          \/ \E g \in Threads : a \in w[g].got /\ x = Ledger!With(Stage(w[g]), w[g].s)
          \/ \E p \in Pools : a \in avail[p] /\ x = Ledger!Free)'
  BY PlacesByOwner, PTL
<1> QED
  BY <1>1 DEF Stage, Ledger!With, Ledger!Free

(* The same after a step *)
LEMMA PlaceByOwnerNext ==
  Apart' =>
      /\ \A a, x : x \in PlacesOf(a)' => PlaceOf(a)' = x
      /\ \A a : PlacesOf(a)' = {} => PlaceOf(a)' = Ledger!Lost
<1>1. (Apart => /\ \A a, x : x \in PlacesOf(a) => PlaceOf(a) = x
                /\ \A a : PlacesOf(a) = {} => PlaceOf(a) = Ledger!Lost)'
  BY PlaceByOwner, PTL
<1> QED
  BY <1>1 DEF Ledger!Lost

(* An address that nobody gains or loses stays where it is. *)
LEMMA StaysInPlace ==
  ASSUME Steadfast, NEW a,
         \A s \in Services : a \in IpsOf(s)' <=> a \in IpsOf(s),
         \A t : t \in Debts' /\ a \in t.ips <=> t \in Debts /\ a \in t.ips,
         \A g \in Threads : a \in w'[g].got <=> a \in w[g].got,
         \A p \in Pools : a \in avail'[p] <=> a \in avail[p]
  PROVE  PlaceOf(a)' = PlaceOf(a)
<1>1. ASSUME NEW g \in Threads, a \in w[g].got
      PROVE  w'[g].s = w[g].s /\ Stage(w'[g]) = Stage(w[g])
  BY <1>1 DEF Steadfast
<1>2. ASSUME NEW x PROVE x \in PlacesOf(a)' <=> x \in PlacesOf(a)
  BY <1>1, PlacesByOwner, PlacesByOwnerNext
<1>3. PlacesOf(a)' = PlacesOf(a)
  BY <1>2
<1> QED
  BY <1>3 DEF PlaceOf

(* A move of the ledger *)
LEMMA MovesInLedger ==
  ASSUME up, UNCHANGED up, NEW A \in SUBSET Addresses, NEW from, NEW to,
         \A a \in A : PlaceOf(a) = from /\ PlaceOf(a)' = to,
         \A a \in Addresses \ A : PlaceOf(a)' = PlaceOf(a)
  PROVE  Ledger!Move(A, from, to)
  BY DEF Ledger!Move

(* The ledger stays. *)
LEMMA LedgerStays ==
  ASSUME UNCHANGED up, \A a \in Addresses : PlaceOf(a)' = PlaceOf(a)
  PROVE  UNCHANGED Ledger!ledger
  BY DEF Ledger!ledger

-----------------------------------------------------------------------------
(* Every move is one of the ledger. *)

(* An address is where its owner is. *)
LEMMA OwnersPlace ==
  Apart =>
      /\ \A a, p : p \in Pools /\ a \in avail[p] => PlaceOf(a) = Ledger!Free
      /\ \A a, s : s \in Services /\ a \in IpsOf(s) => PlaceOf(a) = Ledger!With("bound", s)
      /\ \A a, t : t \in Debts /\ a \in t.ips => PlaceOf(a) = Ledger!With("owed", t.s)
      /\ \A a, g : g \in Threads /\ a \in w[g].got
                     => PlaceOf(a) = Ledger!With(Stage(w[g]), w[g].s)
  BY PlacesByOwner, PlaceByOwner

(* The same after a step *)
LEMMA OwnersPlaceNext ==
  Apart' =>
      /\ \A a, p : p \in Pools /\ a \in avail'[p] => PlaceOf(a)' = Ledger!Free
      /\ \A a, s : s \in Services /\ a \in IpsOf(s)' => PlaceOf(a)' = Ledger!With("bound", s)
      /\ \A a, t : t \in Debts' /\ a \in t.ips => PlaceOf(a)' = Ledger!With("owed", t.s)
      /\ \A a, g : g \in Threads /\ a \in w'[g].got
                     => PlaceOf(a)' = Ledger!With(Stage(w'[g]), w'[g].s)
      /\ \A a : /\ \A p \in Pools : a \notin avail'[p]
                /\ \A s \in Services : a \notin IpsOf(s)'
                /\ \A t \in Debts' : a \notin t.ips
                /\ \A g \in Threads : a \notin w'[g].got
                => PlaceOf(a)' = Ledger!Lost
  BY PlacesByOwnerNext, PlaceByOwnerNext

(* Nothing moves. *)
LEMMA HoldsInLedger ==
  ASSUME Steadfast, UNCHANGED up, Holds
  PROVE  UNCHANGED Ledger!ledger
<1>1. ASSUME NEW a \in Addresses PROVE PlaceOf(a)' = PlaceOf(a)
  BY StaysInPlace DEF Holds, SameObjects
<1> QED
  BY <1>1, LedgerStays

(* A withdrawn address is lost, if it was in a pool at all. *)
LEMMA WithdrawsInLedger ==
  ASSUME Apart, Apart', Steadfast, up, UNCHANGED up, NEW a \in Addresses, Withdraws(a)
  PROVE  [Ledger!LedgerNext]_(Ledger!ledger)
<1>1. ASSUME NEW b \in Addresses, b # a PROVE PlaceOf(b)' = PlaceOf(b)
  BY <1>1, StaysInPlace DEF Withdraws, SameObjects
<1>2. CASE \A p \in Pools : a \notin avail[p]
  <2>1. PlaceOf(a)' = PlaceOf(a)
    BY <1>2, StaysInPlace DEF Withdraws, SameObjects
  <2> QED
    BY <1>1, <2>1, LedgerStays
<1>3. CASE \E p \in Pools : a \in avail[p]
  <2>1. PlaceOf(a) = Ledger!Free
    BY <1>3, OwnersPlace
  <2>2. /\ \A s \in Services : a \notin IpsOf(s)
        /\ \A t \in Debts : a \notin t.ips
        /\ \A g \in Threads : a \notin w[g].got
    BY <1>3 DEF Apart
  <2>3. PlaceOf(a)' = Ledger!Lost
    BY <2>2, OwnersPlaceNext DEF Withdraws, SameObjects
  <2>4. Ledger!Move({a}, Ledger!Free, Ledger!Lost)
    BY <1>1, <2>1, <2>3, MovesInLedger
  <2>5. Ledger!Free \in Ledger!Places /\ Ledger!Free.stage # "bound"
    BY DEF Ledger!Places, Ledger!Free
  <2>6. Ledger!Lose({a})
    BY <2>4, <2>5 DEF Ledger!Lose
  <2> QED
    BY <2>6 DEF Ledger!LedgerNext
<1> QED
  BY <1>2, <1>3

(* What a thread forgets is lost. *)
LEMMA DropsInLedger ==
  ASSUME Apart, Apart', Steadfast, up, UNCHANGED up, NEW g \in Threads, Drops(g),
         w[g].s \in Services, w[g].got \subseteq Addresses
  PROVE  Ledger!LedgerNext
<1>1. ASSUME NEW b \in Addresses, b \notin w[g].got PROVE PlaceOf(b)' = PlaceOf(b)
  BY <1>1, StaysInPlace DEF Drops, SameObjects
<1>2. ASSUME NEW a \in w[g].got
      PROVE  PlaceOf(a) = Ledger!With(Stage(w[g]), w[g].s) /\ PlaceOf(a)' = Ledger!Lost
  <2>1. /\ \A s \in Services : a \notin IpsOf(s)
        /\ \A t \in Debts : a \notin t.ips
        /\ \A h \in Threads : h # g => a \notin w[h].got
        /\ \A p \in Pools : a \notin avail[p]
    BY DEF Apart
  <2>2. PlaceOf(a)' = Ledger!Lost
    BY <2>1, OwnersPlaceNext DEF Drops, SameObjects
  <2> QED
    BY <2>2, OwnersPlace
<1>3. Ledger!Move(w[g].got, Ledger!With(Stage(w[g]), w[g].s), Ledger!Lost)
  BY <1>1, <1>2, MovesInLedger
<1>4. /\ Ledger!With(Stage(w[g]), w[g].s) \in Ledger!Places
      /\ Ledger!With(Stage(w[g]), w[g].s).stage # "bound"
  BY DEF Ledger!Places, Ledger!Stages, Ledger!With, Stage
<1>5. Ledger!Lose(w[g].got)
  BY <1>3, <1>4 DEF Ledger!Lose
<1> QED
  BY <1>5 DEF Ledger!LedgerNext

(* A booking *)
LEMMA BooksInLedger ==
  ASSUME Apart, Apart', Steadfast, up, UNCHANGED up, NEW g \in Threads,
         NEW a \in Addresses, Books(g, a), w[g].s \in Services
  PROVE  Ledger!LedgerNext
<1>1. ASSUME NEW b \in Addresses, b # a PROVE PlaceOf(b)' = PlaceOf(b)
  BY <1>1, StaysInPlace DEF Books, SameObjects
<1>2. PlaceOf(a) = Ledger!Free
  BY OwnersPlace DEF Books
<1>3. PlaceOf(a)' = Ledger!With("booked", w[g].s)
  BY OwnersPlaceNext DEF Books
<1>4. Ledger!Book({a}, w[g].s)
  BY <1>1, <1>2, <1>3, MovesInLedger DEF Ledger!Book
<1> QED
  BY <1>4 DEF Ledger!LedgerNext

(* A release, of a booking or of a debt *)
LEMMA ReturnsInLedger ==
  ASSUME Apart, Apart', Steadfast, up, UNCHANGED up, NEW g \in Threads,
         NEW a \in Addresses, Returns(g, a), w[g].s \in Services
  PROVE  Ledger!LedgerNext
<1>1. ASSUME NEW b \in Addresses, b # a PROVE PlaceOf(b)' = PlaceOf(b)
  BY <1>1, StaysInPlace DEF Returns, SameObjects
<1>2. PlaceOf(a) = Ledger!With(Stage(w[g]), w[g].s)
  BY OwnersPlace DEF Returns
<1>3. PlaceOf(a)' = Ledger!Free
  BY OwnersPlaceNext DEF Returns
<1>4. Ledger!Move({a}, Ledger!With(Stage(w[g]), w[g].s), Ledger!Free)
  BY <1>1, <1>2, <1>3, MovesInLedger
<1>5. Ledger!GiveBack({a}, w[g].s)
  BY <1>4 DEF Ledger!GiveBack, Stage
<1> QED
  BY <1>5 DEF Ledger!LedgerNext

(* The write of an object binds what was booked. *)
LEMMA BindsInLedger ==
  ASSUME Apart, Apart', Steadfast, up, UNCHANGED up, NEW g \in Threads, Binds(g),
         w[g].s \in Services, w[g].got \subseteq Addresses
  PROVE  Ledger!LedgerNext
<1>1. ASSUME NEW b \in Addresses, b \notin w[g].got PROVE PlaceOf(b)' = PlaceOf(b)
  BY <1>1, StaysInPlace DEF Binds
<1>2. PICK s \in Services : s = w[g].s
  OBVIOUS
<1>3. w[g].got \subseteq IpsOf(s)' /\ Stage(w[g]) = "booked"
  BY <1>2 DEF Binds
<1>4. ASSUME NEW a \in w[g].got
      PROVE  PlaceOf(a) = Ledger!With("booked", s) /\ PlaceOf(a)' = Ledger!With("bound", s)
  BY <1>2, <1>3, OwnersPlace, OwnersPlaceNext
<1>5. Ledger!Bind(w[g].got, s)
  BY <1>1, <1>4, MovesInLedger DEF Ledger!Bind
<1> QED
  BY <1>5 DEF Ledger!LedgerNext

(* The deletion of an object owes what was bound. *)
LEMMA UnbindsInLedger ==
  ASSUME Apart, Apart', Steadfast, up, UNCHANGED up, NEW s \in Services, Unbinds(s),
         IpsOf(s) \subseteq Addresses
  PROVE  Ledger!LedgerNext
<1> DEFINE d == [kind |-> "delete", s |-> s, ips |-> IpsOf(s)]
<1>1. d.ips = IpsOf(s) /\ d.s = s /\ Debts' = Debts \cup {d}
  BY DEF Unbinds
<1> HIDE DEF d
<1>2. ASSUME NEW b \in Addresses, b \notin IpsOf(s) PROVE PlaceOf(b)' = PlaceOf(b)
  BY <1>1, <1>2, StaysInPlace DEF Unbinds
<1>3. ASSUME NEW a \in IpsOf(s)
      PROVE  PlaceOf(a) = Ledger!With("bound", s) /\ PlaceOf(a)' = Ledger!With("owed", s)
  BY <1>1, OwnersPlace, OwnersPlaceNext
<1>4. Ledger!Unbind(IpsOf(s), s)
  BY <1>2, <1>3, MovesInLedger DEF Ledger!Unbind
<1> QED
  BY <1>4 DEF Ledger!LedgerNext

(* The debt goes from the deletion to the thread that handles it. *)
LEMMA CollectsInLedger ==
  ASSUME Apart, Apart', Steadfast, UNCHANGED up, NEW g \in Threads, NEW t \in Debts,
         Collects(g, t)
  PROVE  UNCHANGED Ledger!ledger
<1>1. ASSUME NEW b \in Addresses, b \notin t.ips PROVE PlaceOf(b)' = PlaceOf(b)
  BY <1>1, StaysInPlace DEF Collects
<1>2. ASSUME NEW a \in t.ips PROVE PlaceOf(a)' = PlaceOf(a)
  <2>1. PlaceOf(a) = Ledger!With("owed", t.s)
    BY OwnersPlace
  <2>2. PlaceOf(a)' = Ledger!With("owed", t.s)
    BY OwnersPlaceNext DEF Collects
  <2> QED
    BY <2>1, <2>2
<1> QED
  BY <1>1, <1>2, LedgerStays

(* The leader stops, and only what is bound remains. *)
LEMMA HaltsInLedger ==
  ASSUME Apart, Apart', Halts
  PROVE  Ledger!LedgerNext
<1> DEFINE A == {a \in Addresses : \E s \in Services : a \in IpsOf(s) /\ a \in IpsOf(s)'}
<1>1. ASSUME NEW a \in A PROVE PlaceOf(a).stage = "bound" /\ PlaceOf(a)' = PlaceOf(a)
  BY OwnersPlace, OwnersPlaceNext DEF Ledger!With
<1>2. ASSUME NEW a \in Addresses \ A PROVE PlaceOf(a)' = Ledger!Lost
  <2>1. \A s \in Services : a \notin IpsOf(s)'
    BY DEF Halts
  <2> QED
    BY <2>1, OwnersPlaceNext DEF Halts
<1>3. A \in SUBSET Addresses
  OBVIOUS
<1> HIDE DEF A
<1>4. Ledger!Stop
  BY <1>1, <1>2, <1>3 DEF Ledger!Stop, Halts
<1> QED
  BY <1>4 DEF Ledger!LedgerNext

-----------------------------------------------------------------------------
(* The refinement, for every value of the constants *)

(* Every step that the leader survives is one of the ledger or a stutter. *)
LEMMA GoesInLedger ==
  ASSUME IInv, Apart, Goes
  PROVE  [Ledger!LedgerNext]_(Ledger!ledger)
<1>1. Apart'
  BY GoesKeepsApart
<1>2. \A g \in Threads : w[g].s \in Services /\ w[g].got \subseteq Addresses
  BY DEF IInv, TypeOK, Thread
<1>3. ASSUME NEW s \in Services PROVE IpsOf(s) \subseteq Addresses
  <2>1. alloc[s] = NoObject \/ alloc[s] \in IPAllocation
    BY DEF IInv, TypeOK
  <2> QED
    BY <2>1 DEF IPAllocation, IpsOf
<1>4. Steadfast /\ UNCHANGED up
  BY DEF Goes
<1>5. CASE Holds
  BY <1>4, <1>5, HoldsInLedger
<1>6. CASE up /\ Moves
  <2>1. ASSUME NEW a \in Addresses, Withdraws(a) PROVE [Ledger!LedgerNext]_(Ledger!ledger)
    BY <1>1, <1>4, <1>6, <2>1, WithdrawsInLedger
  <2>2. ASSUME NEW g \in Threads, Drops(g) \/ Binds(g) PROVE Ledger!LedgerNext
    BY <1>1, <1>2, <1>4, <1>6, <2>2, DropsInLedger, BindsInLedger
  <2>3. ASSUME NEW g \in Threads, NEW a \in Addresses, Books(g, a) \/ Returns(g, a)
        PROVE  Ledger!LedgerNext
    BY <1>1, <1>2, <1>4, <1>6, <2>3, BooksInLedger, ReturnsInLedger
  <2>4. ASSUME NEW g \in Threads, NEW t \in Debts, Collects(g, t)
        PROVE  UNCHANGED Ledger!ledger
    BY <1>1, <1>4, <2>4, CollectsInLedger
  <2>5. ASSUME NEW s \in Services, Unbinds(s) PROVE Ledger!LedgerNext
    BY <1>1, <1>3, <1>4, <1>6, <2>5, UnbindsInLedger
  <2> QED
    BY <1>5, <1>6, <2>1, <2>2, <2>3, <2>4, <2>5 DEF Moves
<1> QED
  BY <1>5, <1>6 DEF Goes

(* At the start an address is in its pool, or in none. *)
LEMMA InitInLedger ==
  ASSUME Init
  PROVE  Ledger!LedgerInit
<1>1. Apart /\ up = TRUE
  BY InitOwn DEF Init
<1>2. \A g \in Threads : w[g].got = {}
  BY IdleType DEF Init
<1>3. (\A s \in Services : IpsOf(s) = {}) /\ Debts = {}
  BY DEF Init, IpsOf, Debts
<1>4. ASSUME NEW a \in Addresses PROVE PlaceOf(a) \in {Ledger!Free, Ledger!Lost}
  <2>1. \A x \in PlacesOf(a) : x = Ledger!Free
    BY <1>2, <1>3, PlacesByOwner
  <2> QED
    BY <1>1, <2>1, PlaceByOwner
<1> QED
  BY <1>1, <1>4 DEF Ledger!LedgerInit

(* The controller keeps the ledger as long as one leader runs: the services  *)
(* have one set of externalIPs each and the pools are not touched.  Every    *)
(* step of its goroutines is one of the moves, and every move but Collects   *)
(* and Holds is a step of the ledger.                                        *)
THEOREM ControllerKeepsLedger ==
  ASSUME FixedIPs, ~PoolUpdates, MaxRestarts = 0
  PROVE  Spec => ImplementsLedger
<1>1. Init => Ledger!LedgerInit
  BY InitInLedger
<1>2. IInv /\ FirstReign /\ [Next]_vars => [Ledger!LedgerNext]_(Ledger!ledger)
  <2> SUFFICES ASSUME IInv, FirstReign, [Next]_vars
               PROVE  [Ledger!LedgerNext]_(Ledger!ledger)
    OBVIOUS
  <2>1. restarts = 0
    BY EnvironmentAssumption DEF IInv, TypeOK
  <2>2. Own /\ Apart /\ ~Restart
    BY <2>1, EnvironmentAssumption DEF FirstReign, Restart
  <2>3. Goes \/ Halts
    BY <2>2, NextGoes
  <2> QED
    BY <2>2, <2>3, GoesInLedger, HaltsInLedger, HaltsKeepsApart
<1> QED
  BY <1>1, <1>2, InvariantHolds, FirstReignHolds, PTL DEF Spec, ImplementsLedger, Ledger!LedgerSpec
=============================================================================
