-------------------------- MODULE RequestLifecycle --------------------------
(***************************************************************************)
(* What the proxy promises the client of each request, whatever workers,   *)
(* queues and timers do: the lifecycle of docs/architecture.md ("Request   *)
(* Lifecycle State Machine") as the code implements it.  Requests do not   *)
(* influence each other here; one step may move several of them, each      *)
(* along its own lifecycle.                                                *)
(***************************************************************************)
EXTENDS Integers, Sequences

CONSTANTS Request, Worker, MaxRequeues

VARIABLES
  phase,     \* "new", "waiting", "running" or "done"
  owner,     \* the worker a running request is assigned to, 0 for the others
  requeues,  \* how often the request went back to waiting
  heard,     \* the events its client received
  left       \* requests whose client gave up

lifecycleVars == <<phase, owner, requeues, heard, left>>

LifecycleInit ==
  /\ phase = [r \in Request |-> "new"]
  /\ owner = [r \in Request |-> 0]
  /\ requeues = [r \in Request |-> 0]
  /\ heard = [r \in Request |-> <<>>]
  /\ left = {}

Moves(r, from, to) == phase[r] = from /\ phase'[r] = to

Quiet(r) == heard'[r] = heard[r]

Hears(r, kind, by) ==
  /\ Len(heard'[r]) = Len(heard[r]) + 1
  /\ SubSeq(heard'[r], 1, Len(heard[r])) = heard[r]
  /\ heard'[r][Len(heard'[r])].kind = kind
  /\ heard'[r][Len(heard'[r])].by = by

Stays(r) == phase'[r] = phase[r] /\ owner'[r] = owner[r]

Accept(r) == Moves(r, "new", "waiting") /\ owner'[r] = 0 /\ Quiet(r)

AcceptAndStart(r) == Moves(r, "new", "running") /\ owner'[r] \in Worker /\ Quiet(r)

Refuse(r) == Moves(r, "new", "done") /\ owner'[r] = 0 /\ Hears(r, "failure", 0)

Start(r) == Moves(r, "waiting", "running") /\ owner'[r] \in Worker /\ Quiet(r)

(* The client hears only the worker that owns its request. *)
Stream(r) == phase[r] = "running" /\ Stays(r) /\ Hears(r, "chunk", owner[r])

Finish(r) == Moves(r, "running", "done") /\ owner'[r] = 0 /\ Hears(r, "complete", owner[r])

Fail(r) ==
  /\ Moves(r, "waiting", "done") \/ Moves(r, "running", "done")
  /\ owner'[r] = 0
  /\ Hears(r, "failure", 0)

(* The owner is lost: back to waiting, a bounded number of times. *)
Requeue(r) ==
  /\ Moves(r, "running", "waiting") /\ owner'[r] = 0 /\ Quiet(r)
  /\ requeues[r] < MaxRequeues /\ requeues'[r] = requeues[r] + 1

(* Only a request whose client gave up ends unanswered. *)
Drop(r) == Moves(r, "waiting", "done") /\ owner'[r] = 0 /\ Quiet(r) /\ r \in left'

Step(r) ==
  \/ /\ requeues'[r] = requeues[r]
     /\ \/ Stays(r) /\ Quiet(r)
        \/ Accept(r) \/ AcceptAndStart(r) \/ Refuse(r) \/ Start(r) \/ Stream(r)
        \/ Finish(r) \/ Fail(r) \/ Drop(r)
  \/ Requeue(r)

LifecycleNext ==
  /\ \A r \in Request : Step(r)
  /\ left \subseteq left'

LifecycleSpec == LifecycleInit /\ [][LifecycleNext]_lifecycleVars
=============================================================================
