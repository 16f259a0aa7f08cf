--------------------------- MODULE WorkerSessions ---------------------------
(***************************************************************************)
(* What the core promises the socket loops of the workers, as              *)
(* RequestLifecycle is what it promises the clients: which requests a      *)
(* loop is given and when they are taken from it again, that a loop        *)
(* hears of a cancellation and of a drain once, and that it is told to     *)
(* close when its worker is removed.                                       *)
(***************************************************************************)
EXTENDS Integers, FiniteSets

CONSTANTS Request, Worker

VARIABLES
  stage,    \* of each worker: "new", "serving", "draining", "removed" while its
            \* loop has yet to close, or "closed"
  room,     \* how many requests each worker takes at once
  at,       \* of each request: "new", "waiting", "pending" when assigned and not
            \* taken by the loop yet, "sent", or "done"
  holder,   \* the worker a pending or sent request is assigned to, 0 for others
  marked,   \* requests given to a worker and canceled since
  cancels,  \* those of them whose loop has not been told
  drains    \* draining workers whose loop has not been told

sessionVars == <<stage, room, at, holder, marked, cancels, drains>>

InRegistry == {"serving", "draining"}
Registered(w) == stage[w] \in InRegistry
Given(r) == at[r] \in {"pending", "sent"}
Holds(w) == {r \in Request : holder[r] = w}

(* Only registered workers hold requests, and no more than they take. *)
HoldersRegistered ==
  \A r \in Request : IF Given(r) THEN holder[r] \in Worker /\ Registered(holder[r])
                                 ELSE holder[r] = 0

RoomKept == \A w \in Worker : Registered(w) => Cardinality(Holds(w)) <= room[w]

(* What the loops are still to be told is true. *)
SignalsTrue ==
  /\ marked \subseteq {r \in Request : Given(r)} /\ cancels \subseteq marked
  /\ drains \subseteq {w \in Worker : stage[w] = "draining"}

Consistent == HoldersRegistered /\ RoomKept /\ SignalsTrue

SessionsInit ==
  /\ stage = [w \in Worker |-> "new"] /\ room \in [Worker -> Nat]
  /\ at \in [Request -> {"new", "waiting"}] /\ holder = [r \in Request |-> 0]
  /\ marked = {} /\ cancels = {} /\ drains = {}

-----------------------------------------------------------------------------
(* A worker. *)

Register(w) == stage[w] = "new" /\ stage'[w] = "serving"

BeginDrain(w) == stage[w] = "serving" /\ stage'[w] = "draining" /\ w \in drains'

Remove(w) == Registered(w) /\ stage'[w] = "removed"

Close(w) == stage[w] # "closed" /\ stage'[w] = "closed"

WorkerStep(w) ==
  /\ stage'[w] = stage[w] \/ Register(w) \/ BeginDrain(w) \/ Remove(w) \/ Close(w)
  /\ room'[w] = room[w] \/ Register(w)
  /\ w \in drains' => w \in drains \/ BeginDrain(w)

-----------------------------------------------------------------------------
(* A request. *)

Moves(r, from, to) == at[r] = from /\ at'[r] = to

Arrive(r) == Moves(r, "new", "waiting") \/ Moves(r, "new", "done")

(* A draining worker is given nothing. *)
Give(r) ==
  /\ Moves(r, "new", "pending") \/ Moves(r, "waiting", "pending")
  /\ stage[holder'[r]] = "serving" /\ stage'[holder'[r]] = "serving"

Send(r) == Moves(r, "pending", "sent") /\ holder'[r] = holder[r]

(* The worker answers, what it was sent. *)
Settle(r) == Moves(r, "sent", "done")

(* Nothing else takes a request from a worker that stays: the worker is       *)
(* removed, and no canceled request of it waits for another one.              *)
Lose(r) ==
  /\ Given(r) /\ stage'[holder[r]] \notin InRegistry
  /\ at'[r] = "done" \/ (at'[r] = "waiting" /\ r \notin marked)

GiveUp(r) == Moves(r, "waiting", "done")

Stays(r) == at'[r] = at[r] /\ holder'[r] = holder[r]

RequestStep(r) ==
  \/ Stays(r) \/ Arrive(r) \/ Give(r) \/ Send(r) \/ Settle(r) \/ Lose(r) \/ GiveUp(r)

(* A cancellation is noted once, and the loop is to be told of it then and    *)
(* never again; it is forgotten when the request is done.                     *)
MarkStep(r) ==
  /\ r \in marked' /\ r \notin marked => Given(r) /\ Stays(r) /\ r \in cancels'
  /\ r \in cancels' /\ r \notin cancels => r \notin marked
  /\ r \in marked /\ r \notin marked' => at'[r] = "done"

SessionsNext ==
  /\ \A w \in Worker : WorkerStep(w)
  /\ \A r \in Request : RequestStep(r) /\ MarkStep(r)
  /\ Consistent'

SessionsSpec == SessionsInit /\ [][SessionsNext]_sessionVars
=============================================================================
