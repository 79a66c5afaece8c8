---------------------------- MODULE AddressLedger ----------------------------
(***************************************************************************)
(* What the controller promises about persistent addresses while one       *)
(* leader runs: a ledger that says where each address is.                  *)
(*                                                                         *)
(* An address is free in its pool, booked for a service that has no object *)
(* for it yet, bound to a service by its IPAllocation, or owed to the pool *)
(* by a service whose allocation was deleted.  It moves along that cycle   *)
(* and nowhere else: it reaches another service by way of the pool, and it *)
(* is in the pool only after it was taken from whoever had it.             *)
(*                                                                         *)
(* The ledger may lose an address, when the write of a patched allocation  *)
(* fails after the booking, when a deletion gives up on the lock, or when  *)
(* a stale copy is ensured: the pool then does not offer the address until *)
(* the next leader computes its table.  It never loses a bound one.        *)
(***************************************************************************)
CONSTANTS Addresses, Services

VARIABLES
    place,      \* where each address is
    up          \* does the leader run?

ledger == <<place, up>>

Stages == {"booked", "bound", "owed"}

Free == [stage |-> "free"]
Lost == [stage |-> "lost"]
With(stage, s) == [stage |-> stage, s |-> s]

Places == {Free, Lost} \cup [stage : Stages, s : Services]

LedgerInit ==
    /\ place \in [Addresses -> {Free, Lost}]
    /\ up = TRUE

(* The addresses in A leave one place for another. *)
Move(A, from, to) ==
    /\ up
    /\ \A a \in A : place[a] = from
    /\ place' = [a \in Addresses |-> IF a \in A THEN to ELSE place[a]]
    /\ UNCHANGED up

Book(A, s) == Move(A, Free, With("booked", s))

Bind(A, s) == Move(A, With("booked", s), With("bound", s))

Unbind(A, s) == Move(A, With("bound", s), With("owed", s))

GiveBack(A, s) == \E stage \in {"booked", "owed"} : Move(A, With(stage, s), Free)

Lose(A) == \E from \in Places : from.stage # "bound" /\ Move(A, from, Lost)

(* The leader dies, with all that its memory held; a bound address stays in  *)
(* its object, unless the leader died on a deletion.                         *)
Stop ==
    /\ up
    /\ up' = FALSE
    /\ \E A \in SUBSET {a \in Addresses : place[a].stage = "bound"} :
          place' = [a \in Addresses |-> IF a \in A THEN place[a] ELSE Lost]

LedgerNext ==
    \/ \E A \in SUBSET Addresses :
          \/ \E s \in Services : Book(A, s) \/ Bind(A, s) \/ Unbind(A, s) \/ GiveBack(A, s)
          \/ Lose(A)
    \/ Stop

LedgerSpec == LedgerInit /\ [][LedgerNext]_ledger
=============================================================================
