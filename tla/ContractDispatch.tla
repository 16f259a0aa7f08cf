-------------------------- MODULE ContractDispatch --------------------------
(***************************************************************************)
(* DispatchHarness of the contract tests: the reference model of dispatch,   *)
(* queueing, retries, cancellation and departure that the repository's       *)
(* behaviour tests run against.  It is a plain struct, one operation at a     *)
(* time, with an explicit clock; unlike the server it knows neither response  *)
(* senders nor sockets, so what a client hears is what its operations return, *)
(* collected here in events.                                                 *)
(***************************************************************************)
EXTENDS SeqFilter, TLC

CONSTANTS
  Providers, Models,
  Registrations,        \* what a worker registers with: [provider, models, max_concurrent]
  Policy,               \* provider_policies: [max_queue_len, timeout], timeout 0 for none
  DrainTicks,           \* the timeout of a graceful shutdown
  MaxRequeueCount,      \* 3 in the code
  MaxWorkers, MaxRequests, MaxTime, MaxChunks   \* bounds

ASSUME ContractAssumption ==
  /\ \A reg \in Registrations :
       reg.provider \in Providers /\ reg.models \subseteq Models /\ reg.max_concurrent \in Nat
  /\ \A p \in Providers : Policy[p].max_queue_len \in Nat /\ Policy[p].timeout \in Nat
  /\ DrainTicks \in Nat /\ MaxRequeueCount \in Nat
  /\ MaxWorkers \in Nat /\ MaxRequests \in Nat /\ MaxTime \in Nat /\ MaxChunks \in Nat

WorkerId == 1..MaxWorkers
RequestId == 1..MaxRequests
NoWorker == 0
None == -1

VARIABLES
  now_tick,
  next_request_id,
  next_worker_id,
  worker_order,       \* registered workers in the order of registration
  workers,            \* models, slots, in-flight requests, deadline of each worker
  provider_queues,
  selection_cursors,  \* the position last chosen for a provider and model, 0 for none
  active,             \* active_requests: queued, in_flight, or done with
  canceled_requests,
  events              \* what the operations returned about each request

vars == <<now_tick, next_request_id, next_worker_id, worker_order, workers, provider_queues,
          selection_cursors, active, canceled_requests, events>>

Blank == [state |-> "none", provider |-> "none", model |-> "none", queued_at |-> 0,
          requeue_count |-> 0, worker |-> NoWorker]
NewWorker(reg) ==
  [provider |-> reg.provider, models |-> reg.models,
   max_concurrent |-> IF reg.max_concurrent = 0 THEN 1 ELSE reg.max_concurrent,
   in_flight |-> <<>>, is_draining |-> FALSE, deadline |-> None]
NoSuchWorker == [NewWorker([provider |-> "none", models |-> {}, max_concurrent |-> 1])
                 EXCEPT !.is_draining = TRUE]

Init ==
  /\ now_tick = 0 /\ next_request_id = 1 /\ next_worker_id = 1
  /\ worker_order = <<>> /\ workers = [w \in WorkerId |-> NoSuchWorker]
  /\ provider_queues = [p \in Providers |-> <<>>]
  /\ selection_cursors = [key \in Providers \X Models |-> 0]
  /\ active = [r \in RequestId |-> Blank]
  /\ canceled_requests = {}
  /\ events = [r \in RequestId |-> <<>>]

Event(kind, w) == [kind |-> kind, by |-> w]
Registered == Members(worker_order)
InFlight(w) == Members(workers[w].in_flight)

(* Removed from active_requests; how often it was retried is kept here.      *)
Done(S) == [r \in RequestId |->
              IF r \in S THEN [Blank EXCEPT !.state = "done", !.requeue_count = active[r].requeue_count]
              ELSE active[r]]
FailAll(S) ==
  /\ active' = Done(S)
  /\ events' = [r \in RequestId |-> IF r \in S THEN Append(events[r], Event("failure", NoWorker))
                                    ELSE events[r]]
RemoveWorkers(S) ==
  /\ worker_order' = Without(worker_order, S)
  /\ workers' = [w \in WorkerId |-> IF w \in S THEN NoSuchWorker ELSE workers[w]]

-----------------------------------------------------------------------------
(* Choosing a worker for a request, and requests for a worker.                *)

(* A variant: one more than there are slots.                                 *)
RoomAndOne(ws, w) ==
  IF ws[w].is_draining THEN 0 ELSE ws[w].max_concurrent + 1 - Len(ws[w].in_flight)

Room(ws, w) ==
  IF ws[w].is_draining THEN 0 ELSE ws[w].max_concurrent - Len(ws[w].in_flight)

Eligible(provider, model) ==
  {i \in DOMAIN worker_order :
     LET w == worker_order[i]
     IN workers[w].provider = provider /\ model \in workers[w].models /\ Room(workers, w) > 0}

LoadAt(i) == Len(workers[worker_order[i]].in_flight)

(* find_eligible_worker_id: the least loaded positions, and of those the      *)
(* first after the one last chosen, or the first.                            *)
Chosen(provider, model) ==
  LET tied == {i \in Eligible(provider, model) :
                 \A j \in Eligible(provider, model) : LoadAt(i) <= LoadAt(j)}
      after == {i \in tied : i > selection_cursors[<<provider, model>>]}
      first(S) == CHOOSE i \in S : \A j \in S : i <= j
  IN IF after # {} THEN first(after) ELSE first(tied)

(* A variant: the queue is searched from its end.                            *)
BatchFromTheEnd(ws, w, n) ==
  LET queue == provider_queues[ws[w].provider]
      compatible == {i \in DOMAIN queue : active[queue[i]].model \in ws[w].models}
      taken == {i \in compatible : Cardinality({j \in compatible : j >= i}) <= n}
  IN Without(queue, {queue[i] : i \in DOMAIN queue \ taken})

(* What up to n rounds of dispatch_next_compatible take from the queue for    *)
(* worker w, as ws describes it: its first compatible requests.              *)
Batch(ws, w, n) ==
  LET queue == provider_queues[ws[w].provider]
      compatible == {i \in DOMAIN queue : active[queue[i]].model \in ws[w].models}
      taken == {i \in compatible : Cardinality({j \in compatible : j <= i}) <= n}
  IN Without(queue, {queue[i] : i \in DOMAIN queue \ taken})

(* Up to n requests go to worker w, as ws and as describe workers and         *)
(* requests.                                                                 *)
Dispatch(ws, as, w, n) ==
  LET batch == Batch(ws, w, IF n <= Room(ws, w) THEN n ELSE Room(ws, w))
  IN /\ workers' = [ws EXCEPT ![w].in_flight = @ \o batch]
     /\ active' = [r \in RequestId |->
                     IF r \in Members(batch)
                     THEN [as[r] EXCEPT !.state = "in_flight", !.worker = w] ELSE as[r]]
     /\ provider_queues' = [provider_queues EXCEPT ![ws[w].provider] =
                              Without(@, Members(batch))]

-----------------------------------------------------------------------------
RegisterWorker(reg) ==
  /\ next_worker_id <= MaxWorkers
  /\ next_worker_id' = next_worker_id + 1
  /\ worker_order' = Append(worker_order, next_worker_id)
  /\ workers' = [workers EXCEPT ![next_worker_id] = NewWorker(reg)]
  /\ UNCHANGED <<now_tick, next_request_id, provider_queues, selection_cursors, active,
                 canceled_requests, events>>

(* update_worker_models: as many rounds as the worker has slots.             *)
UpdateWorkerModels(w, models) ==
  /\ w \in Registered
  /\ Dispatch([workers EXCEPT ![w].models = models], active, w, workers[w].max_concurrent)
  /\ UNCHANGED <<now_tick, next_request_id, next_worker_id, worker_order, selection_cursors,
                 canceled_requests, events>>

(* submit_request                                                            *)
SubmitRequest(provider, model) ==
  LET r == next_request_id
      record == [Blank EXCEPT !.provider = provider, !.model = model, !.queued_at = now_tick]
      position == Chosen(provider, model)
      w == worker_order[position]
  IN
  /\ r <= MaxRequests /\ next_request_id' = r + 1
  /\ \/ /\ Eligible(provider, model) # {}
        /\ workers' = [workers EXCEPT ![w].in_flight = Append(@, r)]
        /\ active' = [active EXCEPT ![r] = [record EXCEPT !.state = "in_flight", !.worker = w]]
        /\ selection_cursors' = [selection_cursors EXCEPT ![<<provider, model>>] = position]
        /\ UNCHANGED <<provider_queues, events>>
     \/ /\ Eligible(provider, model) = {}
        /\ Len(provider_queues[provider]) >= Policy[provider].max_queue_len
        /\ active' = [active EXCEPT ![r].state = "done"]
        /\ events' = [events EXCEPT ![r] = <<Event("failure", NoWorker)>>]
        /\ UNCHANGED <<workers, provider_queues, selection_cursors>>
     \/ /\ Eligible(provider, model) = {}
        /\ Len(provider_queues[provider]) < Policy[provider].max_queue_len
        /\ active' = [active EXCEPT ![r] = [record EXCEPT !.state = "queued"]]
        /\ provider_queues' = [provider_queues EXCEPT ![provider] = Append(@, r)]
        /\ UNCHANGED <<workers, selection_cursors, events>>
  /\ UNCHANGED <<now_tick, next_worker_id, worker_order, canceled_requests>>

(* dispatch_next_for_worker                                                  *)
DispatchNextForWorker(w) ==
  /\ w \in Registered
  /\ Dispatch(workers, active, w, 1)
  /\ UNCHANGED <<now_tick, next_request_id, next_worker_id, worker_order, selection_cursors,
                 canceled_requests, events>>

(* finish_request: a draining worker leaves with its last request.           *)
FinishRequest(w, r) ==
  LET finished == [workers EXCEPT ![w].in_flight = Without(@, {r})]
  IN
  /\ w \in Registered /\ r \in InFlight(w)
  /\ \/ /\ workers[w].is_draining /\ InFlight(w) = {r}
        /\ RemoveWorkers({w}) /\ active' = Done({r}) /\ UNCHANGED provider_queues
     \/ /\ ~(workers[w].is_draining /\ InFlight(w) = {r})
        /\ Dispatch(finished, Done({r}), w, 1) /\ UNCHANGED worker_order
  /\ events' = [events EXCEPT ![r] = Append(@, Event("complete", w))]
  /\ UNCHANGED <<now_tick, next_request_id, next_worker_id, selection_cursors,
                 canceled_requests>>

(* begin_graceful_shutdown: a second one moves the deadline.                 *)
BeginGracefulShutdown ==
  /\ worker_order # <<>>
  /\ workers' = [w \in WorkerId |->
                   IF w \in Registered
                   THEN [workers[w] EXCEPT !.is_draining = TRUE, !.deadline = now_tick + DrainTicks]
                   ELSE workers[w]]
  /\ UNCHANGED <<now_tick, next_request_id, next_worker_id, worker_order, provider_queues,
                 selection_cursors, active, canceled_requests, events>>

ExpireGracefulShutdown ==
  LET expiring == {w \in Registered : workers[w].is_draining /\ workers[w].deadline <= now_tick}
  IN
  /\ expiring # {}
  /\ FailAll(UNION {InFlight(w) : w \in expiring})
  /\ RemoveWorkers(expiring)
  /\ UNCHANGED <<now_tick, next_request_id, next_worker_id, provider_queues, selection_cursors,
                 canceled_requests>>

DeleteProvider(p) ==
  LET theirs == {w \in Registered : workers[w].provider = p}
  IN
  /\ theirs # {} \/ provider_queues[p] # <<>>
  /\ FailAll(Members(provider_queues[p]) \cup UNION {InFlight(w) : w \in theirs})
  /\ provider_queues' = [provider_queues EXCEPT ![p] = <<>>]
  /\ RemoveWorkers(theirs)
  /\ UNCHANGED <<now_tick, next_request_id, next_worker_id, selection_cursors, canceled_requests>>

(* A variant: one retry more than the bound.                                 *)
LostLate(w) ==
  {r \in InFlight(w) : r \in canceled_requests \/ active[r].requeue_count > MaxRequeueCount}

(* The requests of a departing worker that are not retried.                  *)
Lost(w) ==
  {r \in InFlight(w) : r \in canceled_requests \/ active[r].requeue_count >= MaxRequeueCount}

(* disconnect_worker: the others go to the front of the queue, in order.     *)
DisconnectWorker(w) ==
  LET requeued == Without(workers[w].in_flight, Lost(w))
      retry(record) == [record EXCEPT !.state = "queued", !.worker = NoWorker,
                                      !.requeue_count = @ + 1]
  IN
  /\ w \in Registered
  /\ active' = [r \in RequestId |-> IF r \in Members(requeued) THEN retry(active[r])
                                    ELSE Done(Lost(w))[r]]
  /\ events' = [r \in RequestId |-> IF r \in Lost(w) THEN Append(events[r], Event("failure", NoWorker))
                                    ELSE events[r]]
  /\ provider_queues' = [provider_queues EXCEPT ![workers[w].provider] = requeued \o @]
  /\ RemoveWorkers({w})
  /\ UNCHANGED <<now_tick, next_request_id, next_worker_id, selection_cursors, canceled_requests>>

(* cancel_request: removed from the queue, or marked, and the signal for the  *)
(* worker returned (the log of the signals is left out).                     *)
CancelRequest(r) ==
  /\ \/ /\ active[r].state = "queued"
        /\ active' = Done({r})
        /\ provider_queues' = [provider_queues EXCEPT ![active[r].provider] = Without(@, {r})]
     \/ /\ active[r].state = "in_flight"
        /\ UNCHANGED <<active, provider_queues>>
  /\ canceled_requests' = canceled_requests \cup {r}
  /\ UNCHANGED <<now_tick, next_request_id, next_worker_id, worker_order, workers,
                 selection_cursors, events>>

(* deliver_worker_chunk takes a chunk on trust: nobody asks which worker      *)
(* sends it, or whether any has the request.                                 *)
DeliverWorkerChunk(r) ==
  /\ active[r].state \in {"queued", "in_flight"} /\ r \notin canceled_requests
  /\ Len(events[r]) < MaxChunks
  /\ events' = [events EXCEPT ![r] = Append(@, Event("chunk", NoWorker))]
  /\ UNCHANGED <<now_tick, next_request_id, next_worker_id, worker_order, workers,
                 provider_queues, selection_cursors, active, canceled_requests>>

AdvanceTime ==
  /\ now_tick < MaxTime /\ now_tick' = now_tick + 1
  /\ UNCHANGED <<next_request_id, next_worker_id, worker_order, workers, provider_queues,
                 selection_cursors, active, canceled_requests, events>>

TimedOut(r) ==
  LET timeout == Policy[active[r].provider].timeout
  IN timeout > 0 /\ now_tick - active[r].queued_at >= timeout

ExpireQueueTimeouts ==
  LET expired == {r \in RequestId : active[r].state = "queued" /\ TimedOut(r)}
  IN
  /\ expired # {}
  /\ FailAll(expired)
  /\ provider_queues' = [p \in Providers |-> Without(provider_queues[p], expired)]
  /\ UNCHANGED <<now_tick, next_request_id, next_worker_id, worker_order, workers,
                 selection_cursors, canceled_requests>>

-----------------------------------------------------------------------------
Next ==
  \/ \E reg \in Registrations : RegisterWorker(reg)
  \/ \E w \in WorkerId, models \in {reg.models : reg \in Registrations} : UpdateWorkerModels(w, models)
  \/ \E p \in Providers, m \in Models : SubmitRequest(p, m)
  \/ \E w \in WorkerId : DispatchNextForWorker(w)
  \/ \E w \in WorkerId, r \in RequestId : FinishRequest(w, r)
  \/ BeginGracefulShutdown
  \/ ExpireGracefulShutdown
  \/ \E p \in Providers : DeleteProvider(p)
  \/ \E w \in WorkerId : DisconnectWorker(w)
  \/ \E r \in RequestId : CancelRequest(r)
  \/ \E r \in RequestId : DeliverWorkerChunk(r)
  \/ AdvanceTime
  \/ ExpireQueueTimeouts

Spec == Init /\ [][Next]_vars

-----------------------------------------------------------------------------
(* Properties.                                                               *)

(* Type correctness, and one place for every request: the queues hold exactly *)
(* the queued requests of their provider, once each, and the in-flight lists  *)
(* of the registered workers exactly the requests in flight there.           *)
ContractTypeOK ==
  /\ now_tick \in 0..MaxTime /\ Registered \subseteq WorkerId /\ NoRepeats(worker_order)
  /\ \A p \in Providers :
       /\ NoRepeats(provider_queues[p])
       /\ Members(provider_queues[p]) =
            {r \in RequestId : active[r].state = "queued" /\ active[r].provider = p}
  /\ \A w \in WorkerId :
       /\ NoRepeats(workers[w].in_flight)
       /\ InFlight(w) = {r \in RequestId : active[r].state = "in_flight" /\ active[r].worker = w}
       /\ InFlight(w) # {} => w \in Registered

(* No operation, and no sequence of them, puts more requests on a worker than *)
(* the slots it registered with.                                             *)
CapacityKept == \A w \in Registered : Len(workers[w].in_flight) <= workers[w].max_concurrent

(* A request is not taken from a queue while an earlier one for the same      *)
(* model stays behind.                                                       *)
QueueServedInOrder ==
  [][\A p \in Providers : \A i, j \in DOMAIN provider_queues[p] :
       LET early == provider_queues[p][i]
           late == provider_queues[p][j]
       IN i < j /\ active[early].model = active[late].model /\ active'[late].state = "in_flight"
            => active'[early].state # "queued"]_vars

(* The lifecycle of RequestLifecycle in the harness.                         *)
Phase(r) ==
  CASE active[r].state = "none" -> "new"
    [] active[r].state = "queued" -> "waiting"
    [] active[r].state = "in_flight" -> "running"
    [] OTHER -> "done"

Promised == INSTANCE RequestLifecycle WITH
  Request <- RequestId, Worker <- WorkerId, MaxRequeues <- MaxRequeueCount,
  phase <- [r \in RequestId |-> Phase(r)],
  owner <- [r \in RequestId |-> active[r].worker],
  requeues <- [r \in RequestId |-> active[r].requeue_count],
  heard <- events,
  left <- canceled_requests

(* The one step that is not the server's: a chunk heard from nobody known.    *)
HeardOnTrust(r) ==
  /\ Phase(r) \in {"waiting", "running"} /\ r \notin canceled_requests
  /\ Promised!Stays(r) /\ Promised!Hears(r, "chunk", NoWorker)
  /\ active'[r].requeue_count = active[r].requeue_count

LifecycleStep(r) == (Promised!Step(r) /\ ~Promised!Stream(r)) \/ HeardOnTrust(r)

LifecycleOnTrust ==
  /\ \A r \in RequestId : LifecycleStep(r)
  /\ canceled_requests \subseteq canceled_requests'

(* The harness promises each request what the server promises it - retried at *)
(* most the bounded number of times, answered by the worker that has it, and  *)
(* ended by one final event unless it was canceled while it waited - but for  *)
(* its chunks.  The server takes those only from the worker that has the      *)
(* request; the harness takes them from anybody, also while the request       *)
(* waits to be retried, and in turn forwards none once it is canceled.        *)
ImplementsLifecycleOnTrust ==
  Promised!LifecycleInit /\ [][LifecycleOnTrust]_(Promised!lifecycleVars)
=============================================================================
