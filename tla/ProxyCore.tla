----------------------------- MODULE ProxyCore -----------------------------
(***************************************************************************)
(* ProxyServerCore (crates/modelrelay-server/src/lib.rs): the registry of  *)
(* connected workers, the per-provider queues, the table of active         *)
(* requests and the signals waiting for each worker's socket.  The server  *)
(* keeps it behind one tokio Mutex, so one action here is one critical     *)
(* section of the HTTP handlers (http.rs), of a worker's socket loop       *)
(* (worker_socket.rs) or of the queue-timeout loop (main.rs), and the      *)
(* interleavings of Next are the orders in which those tasks get the lock. *)
(*                                                                         *)
(* Worker and request ids are the counters the core draws them from.  Ids  *)
(* are never reused, worker_order lists the registered workers in the      *)
(* order of their ids, and queued_at, read under the lock, orders requests *)
(* as their ids do: all three orders are the order of the integers.        *)
(*                                                                         *)
(* Workers follow the protocol: a worker answers requests it was sent,     *)
(* each with at most one ResponseComplete.                                 *)
(*                                                                         *)
(* Some definitions stand next to a variant with a plausible mistake       *)
(* (an off-by-one, a dropped check, a missing removal).  The variants are  *)
(* not used by the specification: substituting one for its original makes  *)
(* the property that guards against the mistake fail (see the README).     *)
(***************************************************************************)
EXTENDS SeqFilter

CONSTANTS
  Providers,      \* provider names
  Models,         \* model names a client may ask for
  RawNames,       \* model names as a worker spells them
  Trim,           \* what str::trim makes of each raw name ("" when blank)
  Paths,          \* endpoint paths of client requests
  Prefixes,       \* endpoint prefixes a worker may announce
  StartsWith,     \* the pairs <<path, prefix>> with path.starts_with(prefix)
  Registrations,  \* the RegisterMessages (with the socket's provider) considered
  Submissions,    \* the client requests considered
  Updates,        \* model lists of the ModelsUpdate messages considered
  Loads,          \* loads reported by Pong and ModelsUpdate messages
  Cancellable,    \* bound: requests whose client may give up
  CancelReason,   \* the reasons cancel_request is called with
  Policy,         \* provider_queue_policies, set by main before serving
  MaxWorkers,     \* bound: registrations in a behaviour
  MaxRequests,    \* bound: submissions in a behaviour
  MaxShutdowns,   \* bound: calls of begin_graceful_shutdown
  MaxChunks,      \* bound: chunks delivered per request
  Deletable,      \* providers that delete_provider may be called on
  Refreshable     \* workers request_worker_models_refresh may be called on

WorkerId  == 1..MaxWorkers
RequestId == 1..MaxRequests
AnyProvider == "_any"
MAX_REQUEUE_COUNT == 3

FailureReason == {"RequestAlreadyCanceled", "MaxRequeuesExceeded", "QueueTimedOut",
                  "QueueFull", "NoWorkersAvailable", "ProviderDeleted",
                  "GracefulShutdownTimedOut"}

(* RegisterMessage, with the provider of the socket it arrives on. *)
RegisterMessage == [provider : Providers, models : SUBSET RawNames,
                    prefixes : SUBSET Prefixes, max_concurrent : Nat, current_load : Nat]

(* ProviderRouting, with the provider names that matter and the default of     *)
(* allow_fallbacks filled in; no sorting strategy is read.                    *)
ProviderRouting(routing) ==
  /\ routing.given \in BOOLEAN
  /\ routing.only \subseteq Providers /\ routing.ignore \subseteq Providers
  /\ Members(routing.order) \subseteq Providers
  /\ routing.allow_fallbacks \in BOOLEAN

(* RequestRecord and RequestTransport, without the content. *)
RequestRecord(sub) ==
  /\ DOMAIN sub = {"provider", "model", "path", "streaming", "routing"}
  /\ sub.provider \in Providers /\ sub.model \in Models /\ sub.path \in Paths
  /\ sub.streaming \in BOOLEAN /\ ProviderRouting(sub.routing)

(* timed says whether there is a queue_timeout_ticks. *)
ProviderQueuePolicy == [max_queue_len : Nat, timed : BOOLEAN]

(* usize::MAX: more requests than there are. *)
Unlimited == MaxRequests + 1

DefaultPolicy == [max_queue_len |-> Unlimited, timed |-> FALSE]

(* The policies as main sets them, where 0 stands for no limit and no timeout: *)
(* one for the provider it is started for, the default for all others.        *)
Configured(provider, max_queue_len, queue_timeout) ==
  [p \in Providers |->
     IF p = provider
     THEN [max_queue_len |-> IF max_queue_len = 0 THEN Unlimited ELSE max_queue_len,
           timed |-> queue_timeout # 0]
     ELSE DefaultPolicy]

ASSUME BoundsAssumption ==
  /\ MaxWorkers \in Nat /\ MaxRequests \in Nat
  /\ MaxShutdowns \in Nat /\ MaxChunks \in Nat

ASSUME NamesAssumption ==
  /\ AnyProvider \notin Providers
  /\ "none" \notin CancelReason
  /\ Trim \in [RawNames -> Models \cup {"*", ""}]
  /\ StartsWith \subseteq Paths \X Prefixes
  /\ Deletable \subseteq Providers
  /\ Refreshable \subseteq Nat

ASSUME InputsAssumption ==
  /\ Registrations \subseteq RegisterMessage
  /\ Submissions # {} /\ \A sub \in Submissions : RequestRecord(sub)
  /\ Updates \subseteq SUBSET RawNames
  /\ Loads \subseteq Nat
  /\ Policy \in [Providers -> ProviderQueuePolicy]

VARIABLES
  next_request_id,
  next_worker_id,
  (* the registry *)
  workers,               \* ids of the registered workers
  profile,               \* provider, endpoint prefixes and max_concurrent
  models,                \* sanitized model names
  reported_load,
  in_flight_requests,    \* sequence of request ids, oldest assignment first
  deadline,              \* 0: not draining; k: draining since the k-th shutdown
  selection_cursors,     \* last position chosen, -1 before the first choice
  (* the requests *)
  request,               \* what was submitted under each id
  requeue_count,
  active_requests,
  provider_queues,
  senders,               \* keys of pending_http_response_senders
  (* what waits for the sockets *)
  pending_worker_requests,
  worker_cancel_signals,             \* pairs <<worker, request>>
  worker_graceful_shutdown_signals,  \* workers to be told
  worker_models_refresh_signals,     \* workers to be told
  disconnect_reasons,    \* graceful_shutdown_disconnect_reasons
  (* the surroundings *)
  sockets,               \* workers whose socket loop is still running
  handed,                \* requests sent over each socket and not yet answered
  events,                \* what the waiting HTTP handler of each request received
  abandoned,             \* requests cancel_request was called for
  aged,                  \* requests up to this id have waited the queue timeout
  shutdowns,             \* calls of begin_graceful_shutdown so far
  passed                 \* shutdowns whose drain deadline has passed

counterVars == <<next_request_id, next_worker_id>>
workerVars  == <<workers, profile, models, reported_load, in_flight_requests, deadline>>
requestVars == <<request, requeue_count, active_requests, provider_queues>>
signalVars  == <<pending_worker_requests, worker_cancel_signals,
                 worker_graceful_shutdown_signals, worker_models_refresh_signals,
                 disconnect_reasons>>
clientVars  == <<senders, events, abandoned>>
socketVars  == <<sockets, handed>>
timeVars    == <<aged, shutdowns, passed>>
vars == <<counterVars, workerVars, selection_cursors, requestVars, signalVars,
          clientVars, socketVars, timeVars>>

-----------------------------------------------------------------------------
(* ActiveRequestState, with a value for ids that are not in active_requests. *)

Absent      == [at |-> "absent", worker |-> 0, cancellation |-> "none"]
Queued      == [at |-> "queued", worker |-> 0, cancellation |-> "none"]
InFlight(w) == [at |-> "in_flight", worker |-> w, cancellation |-> "none"]

ActiveRequestState ==
  {Absent, Queued} \cup
  [at : {"in_flight"}, worker : WorkerId, cancellation : CancelReason \cup {"none"}]

QueuedRequests == {r \in RequestId : active_requests[r].at = "queued"}

(* HttpResponseEvent: a chunk or the completion sent by a worker, or a failure. *)
Chunk(w)    == [kind |-> "chunk", by |-> w, reason |-> "none"]
Complete(w) == [kind |-> "complete", by |-> w, reason |-> "none"]
Failure(why) == [kind |-> "failure", by |-> 0, reason |-> why]

HttpResponseEvent == [kind : {"chunk", "complete", "failure"}, by : 0..MaxWorkers,
                      reason : FailureReason \cup {"none"}]

(* Trimmed, without blanks and without duplicates. *)
sanitize_models(raw) == {Trim[x] : x \in raw} \ {""}

-----------------------------------------------------------------------------
(* Which worker may serve what. *)

supports_model(ms, model) == "*" \in ms \/ model \in ms

supports_endpoint(w, path) ==
  \/ profile[w].prefixes = {}
  \/ \E prefix \in profile[w].prefixes : <<path, prefix>> \in StartsWith

MaxOf(a, b) == IF a >= b THEN a ELSE b

saturating_sub(n, k) == MaxOf(n - k, 0)

selection_load(w) == MaxOf(reported_load[w], Len(in_flight_requests[w]))

is_draining(w) == deadline[w] # 0

worker_has_capacity(w) ==
  ~is_draining(w) /\ selection_load(w) < profile[w].max_concurrent

EligibleAnywhere(sub, provs) ==
  {w \in workers :
     /\ profile[w].provider \in provs
     /\ supports_model(models[w], sub.model)
     /\ worker_has_capacity(w)}

(* The filter of both find_eligible_worker_id_* functions. *)
Eligible(sub, provs) ==
  {w \in workers :
     /\ profile[w].provider \in provs
     /\ supports_model(models[w], sub.model)
     /\ supports_endpoint(w, sub.path)
     /\ worker_has_capacity(w)}

Position(w) == Cardinality({v \in workers : v < w})

First(S) == {x \in S : \A y \in S : x <= y}

LeastLoaded(ws) == {w \in ws : \A v \in ws : selection_load(w) <= selection_load(v)}

(* Lowest load, ties broken round-robin after the last position chosen. *)
RoundRobin(ws, key) ==
  LET tied  == LeastLoaded(ws)
      later == {w \in tied : Position(w) > selection_cursors[key]}
  IN  {[worker |-> w, key |-> key] : w \in First(IF later # {} THEN later ELSE tied)}

(* Exact provider first, then any provider; empty when no worker is eligible. *)
Unfiltered(sub) ==
  LET exact == Eligible(sub, {sub.provider})
      any   == Eligible(sub, Providers)
  IN  IF exact # {} THEN RoundRobin(exact, <<sub.provider, sub.model>>)
                    ELSE RoundRobin(any, <<AnyProvider, sub.model>>)

(* The first provider of the preference list that has eligible workers. *)
Preferred(order, ws) ==
  {p \in Providers : \E i \in DOMAIN order :
     /\ order[i] = p /\ \E w \in ws : profile[w].provider = p
     /\ \A j \in 1..(i - 1) : \A w \in ws : profile[w].provider # order[j]}

WithRouting(sub) ==
  LET ws == Eligible(sub, sub.routing.only \ sub.routing.ignore)
      preferred == Preferred(sub.routing.order, ws)
  IN  IF ws = {} THEN IF sub.routing.allow_fallbacks THEN Unfiltered(sub) ELSE {}
      ELSE IF preferred # {}
      THEN {[worker |-> w, key |-> <<profile[w].provider, sub.model>>] :
              w \in First(LeastLoaded({v \in ws : profile[v].provider \in preferred}))}
      ELSE RoundRobin(ws, <<sub.provider, sub.model>>)

(* At most one selection: the worker and the cursor its position is stored in. *)
find_eligible_worker_id(sub) ==
  IF sub.routing.given THEN WithRouting(sub) ELSE Unfiltered(sub)

provider_has_compatible_worker(model) ==
  \E w \in workers : ~is_draining(w) /\ supports_model(models[w], model)

-----------------------------------------------------------------------------
(* Dispatching from the queues. *)

Compatible(w, ms, r) ==
  supports_model(ms, request[r].model) /\ supports_endpoint(w, request[r].path)

(* The first compatible request of each queue, once those in gone have left. *)
Heads(w, ms, gone) ==
  {r \in QueuedRequests \ gone : \E p \in Providers : \E i \in DOMAIN provider_queues[p] :
     /\ provider_queues[p][i] = r
     /\ Compatible(w, ms, r)
     /\ \A j \in 1..(i - 1) :
          provider_queues[p][j] \in gone \/ ~Compatible(w, ms, provider_queues[p][j])}

(* dispatch_next_compatible takes the head that was queued first. *)
NextCompatible(w, ms, gone) == First(Heads(w, ms, gone))

(* The requests that up to n calls of dispatch_next_compatible take, in order. *)
Batches(w, ms, n) ==
  {batch \in UNION {[1..k -> QueuedRequests] : k \in 0..n} :
     /\ \A i \in DOMAIN batch :
          batch[i] \in NextCompatible(w, ms, {batch[j] : j \in 1..(i - 1)})
     /\ Len(batch) = n \/ NextCompatible(w, ms, Members(batch)) = {}}

(* Assignments a worker may still take, each of which raises both loads by one. *)
RoomByReport(w, load, flight) ==
  IF is_draining(w) \/ load >= profile[w].max_concurrent THEN 0
  ELSE profile[w].max_concurrent - load
Room(w, load, flight) ==
  LET used == MaxOf(load, Len(flight))
  IN  IF is_draining(w) \/ used >= profile[w].max_concurrent THEN 0
      ELSE profile[w].max_concurrent - used

(* assign_to_worker for each request of batch, after load and flight were set. *)
assign_to_worker(w, batch, load, flight) ==
  /\ in_flight_requests' = [in_flight_requests EXCEPT ![w] = flight \o batch]
  /\ reported_load' = [reported_load EXCEPT ![w] = load + Len(batch)]
  /\ pending_worker_requests' = [pending_worker_requests EXCEPT ![w] = @ \o batch]

StayInQueues(S) == provider_queues' = provider_queues
LeaveQueues(S) ==
  provider_queues' = [p \in Providers |-> Without(provider_queues[p], S)]

-----------------------------------------------------------------------------
(* Failing and forgetting. *)

fail_silently(S, reason) == events' = events /\ senders' = senders \ S

(* fail_pending_http_response for every request in S. *)
fail_pending_http_response(S, reason) ==
  /\ events' = [r \in RequestId |->
                  IF r \in S \cap senders THEN Append(events[r], Failure(reason[r]))
                  ELSE events[r]]
  /\ senders' = senders \ S

(* What remove_worker drops; the refresh signals are the ones it leaves. *)
remove_workers(gone) ==
  /\ workers' = workers \ gone
  /\ models' = [w \in WorkerId |-> IF w \in gone THEN {} ELSE models[w]]
  /\ deadline' = [w \in WorkerId |-> IF w \in gone THEN 0 ELSE deadline[w]]
  /\ worker_cancel_signals' = {s \in worker_cancel_signals : s[1] \notin gone}
  /\ worker_graceful_shutdown_signals' = worker_graceful_shutdown_signals \ gone

ClearAllButPending(gone) ==
  /\ in_flight_requests' =
       [w \in WorkerId |-> IF w \in gone THEN <<>> ELSE in_flight_requests[w]]
  /\ reported_load' = [w \in WorkerId |-> IF w \in gone THEN 0 ELSE reported_load[w]]
  /\ UNCHANGED pending_worker_requests

(* The lists and the load of workers that are gone. *)
ClearLists(gone) ==
  /\ in_flight_requests' =
       [w \in WorkerId |-> IF w \in gone THEN <<>> ELSE in_flight_requests[w]]
  /\ reported_load' = [w \in WorkerId |-> IF w \in gone THEN 0 ELSE reported_load[w]]
  /\ pending_worker_requests' =
       [w \in WorkerId |-> IF w \in gone THEN <<>> ELSE pending_worker_requests[w]]

InFlightOf(ws) == {r \in RequestId : \E w \in ws : r \in Members(in_flight_requests[w])}

Forget(S) ==
  active_requests' = [r \in RequestId |-> IF r \in S THEN Absent ELSE active_requests[r]]

-----------------------------------------------------------------------------
Init ==
  /\ next_request_id = 1
  /\ next_worker_id = 1
  /\ workers = {}
  /\ profile = [w \in WorkerId |->
                  [provider |-> AnyProvider, prefixes |-> {}, max_concurrent |-> 1]]
  /\ models = [w \in WorkerId |-> {}]
  /\ reported_load = [w \in WorkerId |-> 0]
  /\ in_flight_requests = [w \in WorkerId |-> <<>>]
  /\ deadline = [w \in WorkerId |-> 0]
  /\ selection_cursors = [key \in (Providers \cup {AnyProvider}) \X Models |-> -1]
  /\ request = [r \in RequestId |-> CHOOSE sub \in Submissions : TRUE]
  /\ requeue_count = [r \in RequestId |-> 0]
  /\ active_requests = [r \in RequestId |-> Absent]
  /\ provider_queues = [p \in Providers |-> <<>>]
  /\ senders = {}
  /\ pending_worker_requests = [w \in WorkerId |-> <<>>]
  /\ worker_cancel_signals = {}
  /\ worker_graceful_shutdown_signals = {}
  /\ worker_models_refresh_signals = {}
  /\ disconnect_reasons = [w \in WorkerId |-> "none"]
  /\ sockets = {}
  /\ handed = [w \in WorkerId |-> {}]
  /\ events = [r \in RequestId |-> <<>>]
  /\ abandoned = {}
  /\ aged = 0
  /\ shutdowns = 0
  /\ passed = {}

-----------------------------------------------------------------------------
(* The worker's socket: registration and the messages it receives. *)

RegisterWorker(reg) ==
  /\ next_worker_id <= MaxWorkers
  /\ LET w == next_worker_id IN
       /\ workers' = workers \cup {w}
       /\ sockets' = sockets \cup {w}
       /\ profile' = [profile EXCEPT ![w] =
                        [provider |-> reg.provider, prefixes |-> reg.prefixes,
                         max_concurrent |-> MaxOf(reg.max_concurrent, 1)]]
       /\ models' = [models EXCEPT ![w] = sanitize_models(reg.models)]
       /\ reported_load' = [reported_load EXCEPT ![w] = reg.current_load]
  /\ next_worker_id' = next_worker_id + 1
  /\ UNCHANGED <<next_request_id, in_flight_requests, deadline, selection_cursors,
                 requestVars, signalVars, clientVars, handed, timeVars>>

DrainOne(w, ms, load) ==
  \E batch \in Batches(w, ms, IF Room(w, load, in_flight_requests[w]) > 0 THEN 1 ELSE 0) :
    /\ assign_to_worker(w, batch, load, in_flight_requests[w])
    /\ LeaveQueues(Members(batch))
    /\ active_requests' = [r \in RequestId |->
                             IF r \in Members(batch) THEN InFlight(w) ELSE active_requests[r]]

(* The loop of update_worker_models and record_worker_pong: dispatch while    *)
(* the worker has capacity and a queued request is compatible.                *)
DrainQueues(w, ms, load) ==
  \E batch \in Batches(w, ms, Room(w, load, in_flight_requests[w])) :
    /\ assign_to_worker(w, batch, load, in_flight_requests[w])
    /\ LeaveQueues(Members(batch))
    /\ active_requests' = [r \in RequestId |->
                             IF r \in Members(batch) THEN InFlight(w) ELSE active_requests[r]]

UpdateWorkerModels(w, raw, load) ==
  /\ w \in sockets \cap workers
  /\ models' = [models EXCEPT ![w] = sanitize_models(raw)]
  /\ DrainQueues(w, sanitize_models(raw), load)
  /\ UNCHANGED <<counterVars, workers, profile, deadline, selection_cursors, request,
                 requeue_count, worker_cancel_signals, worker_graceful_shutdown_signals,
                 worker_models_refresh_signals, disconnect_reasons, clientVars,
                 socketVars, timeVars>>

RecordWorkerPong(w, load) ==
  /\ w \in sockets \cap workers
  /\ DrainQueues(w, models[w], load)
  /\ UNCHANGED <<counterVars, workers, profile, models, deadline, selection_cursors,
                 request, requeue_count, worker_cancel_signals,
                 worker_graceful_shutdown_signals, worker_models_refresh_signals,
                 disconnect_reasons, clientVars, socketVars, timeVars>>

(* stream_http_response_chunk; only a streaming sender passes the chunk on. *)
StreamHttpResponseChunk(w, r) ==
  /\ w \in sockets /\ r \in handed[w]
  /\ active_requests[r].at = "in_flight" /\ active_requests[r].worker = w
  /\ Len(events[r]) < MaxChunks
  /\ request[r].streaming /\ r \in senders
  /\ events' = [events EXCEPT ![r] = Append(@, Chunk(w))]
  /\ UNCHANGED <<counterVars, workerVars, selection_cursors, requestVars, signalVars,
                 senders, abandoned, socketVars, timeVars>>

RespondKeepingSender(w, r) ==
  /\ events' = IF r \in senders THEN [events EXCEPT ![r] = Append(@, Complete(w))] ELSE events
  /\ senders' = senders
  /\ handed' = [handed EXCEPT ![w] = @ \ {r}]

(* complete_http_response takes the sender and sends the response on it. *)
Respond(w, r) ==
  /\ events' = IF r \in senders THEN [events EXCEPT ![r] = Append(@, Complete(w))] ELSE events
  /\ senders' = senders \ {r}
  /\ handed' = [handed EXCEPT ![w] = @ \ {r}]

(* ResponseComplete for a request in flight at its sender, after which the    *)
(* worker serves the next compatible request ...                              *)
FinishRequest(w, r) ==
  /\ w \in sockets \cap workers /\ r \in handed[w]
  /\ r \in Members(in_flight_requests[w])
  /\ LET flight == Without(in_flight_requests[w], {r})
         load   == saturating_sub(reported_load[w], 1)
         room   == IF Room(w, load, flight) > 0 THEN 1 ELSE 0
     IN /\ ~(is_draining(w) /\ flight = <<>>)
        /\ \E batch \in Batches(w, models[w], room) :
             /\ assign_to_worker(w, batch, load, flight)
             /\ LeaveQueues(Members(batch))
             /\ active_requests' =
                  [q \in RequestId |-> IF q = r THEN Absent
                                       ELSE IF q \in Members(batch) THEN InFlight(w)
                                       ELSE active_requests[q]]
  /\ Respond(w, r)
  /\ UNCHANGED <<counterVars, workers, profile, models, deadline, selection_cursors,
                 request, requeue_count, worker_cancel_signals,
                 worker_graceful_shutdown_signals, worker_models_refresh_signals,
                 disconnect_reasons, abandoned, sockets, timeVars>>

(* ... or, if it was draining and this was its last request, is removed.      *)
FinishDrain(w, r) ==
  /\ w \in sockets \cap workers /\ r \in handed[w]
  /\ is_draining(w) /\ r \in Members(in_flight_requests[w])
  /\ Without(in_flight_requests[w], {r}) = <<>>
  /\ Forget({r})
  /\ disconnect_reasons' = [disconnect_reasons EXCEPT ![w] = "Completed"]
  /\ remove_workers({w})
  /\ ClearLists({w})
  /\ Respond(w, r)
  /\ UNCHANGED <<counterVars, profile, selection_cursors, request, requeue_count,
                 provider_queues, worker_models_refresh_signals, abandoned, sockets,
                 timeVars>>

(* ResponseComplete from a worker that was removed while it was answering.    *)
LateResponse(w, r) ==
  /\ w \in sockets \ workers /\ r \in handed[w]
  /\ Respond(w, r)
  /\ UNCHANGED <<counterVars, workerVars, selection_cursors, requestVars, signalVars,
                 abandoned, sockets, timeVars>>

-----------------------------------------------------------------------------
(* The HTTP handlers: submit_http_response_request and                        *)
(* submit_http_streaming_request around submit_transport_request, and the     *)
(* cancellation guard's cancel_request.                                       *)

SubmitDispatched(sub) ==
  /\ next_request_id <= MaxRequests
  /\ \E sel \in find_eligible_worker_id(sub) :
       /\ selection_cursors' = [selection_cursors EXCEPT ![sel.key] = Position(sel.worker)]
       /\ assign_to_worker(sel.worker, <<next_request_id>>, reported_load[sel.worker],
                           in_flight_requests[sel.worker])
       /\ active_requests' = [active_requests EXCEPT ![next_request_id] = InFlight(sel.worker)]
  /\ request' = [request EXCEPT ![next_request_id] = sub]
  /\ senders' = senders \cup {next_request_id}
  /\ next_request_id' = next_request_id + 1
  /\ UNCHANGED <<next_worker_id, workers, profile, models, deadline, requeue_count,
                 provider_queues, worker_cancel_signals,
                 worker_graceful_shutdown_signals, worker_models_refresh_signals,
                 disconnect_reasons, events, abandoned, socketVars, timeVars>>

QueueHasSpaceOffByOne(p) == Len(provider_queues[p]) <= Policy[p].max_queue_len
QueueHasSpace(p) == Len(provider_queues[p]) < Policy[p].max_queue_len

SubmitQueued(sub) ==
  /\ next_request_id <= MaxRequests
  /\ find_eligible_worker_id(sub) = {}
  /\ QueueHasSpace(sub.provider)
  /\ provider_queues' = [provider_queues EXCEPT ![sub.provider] = Append(@, next_request_id)]
  /\ active_requests' = [active_requests EXCEPT ![next_request_id] = Queued]
  /\ request' = [request EXCEPT ![next_request_id] = sub]
  /\ senders' = senders \cup {next_request_id}
  /\ next_request_id' = next_request_id + 1
  /\ UNCHANGED <<next_worker_id, workerVars, selection_cursors, requeue_count, signalVars,
                 events, abandoned, socketVars, timeVars>>

SubmitRejected(sub) ==
  /\ next_request_id <= MaxRequests
  /\ find_eligible_worker_id(sub) = {}
  /\ ~QueueHasSpace(sub.provider)
  /\ events' = [events EXCEPT ![next_request_id] =
                  <<Failure(IF provider_has_compatible_worker(sub.model)
                            THEN "QueueFull" ELSE "NoWorkersAvailable")>>]
  /\ request' = [request EXCEPT ![next_request_id] = sub]
  /\ next_request_id' = next_request_id + 1
  /\ UNCHANGED <<next_worker_id, workerVars, selection_cursors, requeue_count,
                 active_requests, provider_queues, signalVars, senders, abandoned,
                 socketVars, timeVars>>

(* A queued request is looked up in the queue of the provider it was          *)
(* submitted to, and nothing happens when it is not there.                    *)
CancelQueued(r) ==
  /\ active_requests[r].at = "queued"
  /\ abandoned' = abandoned \cup {r}
  /\ IF r \in Members(provider_queues[request[r].provider])
     THEN /\ provider_queues' = [provider_queues EXCEPT ![request[r].provider] = Without(@, {r})]
          /\ Forget({r})
          /\ senders' = senders \ {r}
     ELSE UNCHANGED <<provider_queues, active_requests, senders>>
  /\ UNCHANGED <<counterVars, workerVars, selection_cursors, request, requeue_count,
                 signalVars, events, socketVars, timeVars>>

CancelInFlightAgain(r, reason) ==
  /\ active_requests[r].at = "in_flight"
  /\ abandoned' = abandoned \cup {r}
  /\ active_requests' = [active_requests EXCEPT ![r].cancellation = reason]
  /\ worker_cancel_signals' = worker_cancel_signals \cup {<<active_requests[r].worker, r>>}
  /\ UNCHANGED <<counterVars, workerVars, selection_cursors, request, requeue_count,
                 provider_queues, pending_worker_requests,
                 worker_graceful_shutdown_signals, worker_models_refresh_signals,
                 disconnect_reasons, senders, events, socketVars, timeVars>>

(* A variant: the worker is told, but the cancellation is not noted. *)
CancelInFlightUnnoted(r, reason) ==
  /\ active_requests[r].at = "in_flight"
  /\ abandoned' = abandoned \cup {r}
  /\ worker_cancel_signals' = worker_cancel_signals \cup {<<active_requests[r].worker, r>>}
  /\ UNCHANGED <<counterVars, workerVars, selection_cursors, requestVars,
                 pending_worker_requests, worker_graceful_shutdown_signals,
                 worker_models_refresh_signals, disconnect_reasons, senders, events,
                 socketVars, timeVars>>

(* The first reason stands and is signalled once. *)
CancelInFlight(r, reason) ==
  /\ active_requests[r].at = "in_flight"
  /\ abandoned' = abandoned \cup {r}
  /\ IF active_requests[r].cancellation = "none"
     THEN /\ active_requests' = [active_requests EXCEPT ![r].cancellation = reason]
          /\ worker_cancel_signals' =
               worker_cancel_signals \cup {<<active_requests[r].worker, r>>}
     ELSE UNCHANGED <<active_requests, worker_cancel_signals>>
  /\ UNCHANGED <<counterVars, workerVars, selection_cursors, request, requeue_count,
                 provider_queues, pending_worker_requests,
                 worker_graceful_shutdown_signals, worker_models_refresh_signals,
                 disconnect_reasons, senders, events, socketVars, timeVars>>

-----------------------------------------------------------------------------
(* The worker's socket: what its loop takes from the core. *)

TakePendingWorkerRequests(w) ==
  /\ w \in sockets /\ pending_worker_requests[w] # <<>>
  /\ handed' = [handed EXCEPT ![w] = @ \cup Members(pending_worker_requests[w])]
  /\ pending_worker_requests' = [pending_worker_requests EXCEPT ![w] = <<>>]
  /\ UNCHANGED <<counterVars, workerVars, selection_cursors, requestVars,
                 worker_cancel_signals, worker_graceful_shutdown_signals,
                 worker_models_refresh_signals, disconnect_reasons, clientVars,
                 sockets, timeVars>>

(* Signals whose request is no longer in flight where it was are dropped for  *)
(* every worker.  The worker aborts what it is running and does not answer    *)
(* it, unless its answer is already on the way.                               *)
TakePendingWorkerCancelSignals(w) ==
  LET live == {s \in worker_cancel_signals :
                 /\ active_requests[s[2]].at = "in_flight"
                 /\ active_requests[s[2]].worker = s[1]
                 /\ active_requests[s[2]].cancellation # "none"}
      told == {r \in RequestId : <<w, r>> \in live}
  IN /\ w \in sockets /\ worker_cancel_signals # {}
     /\ worker_cancel_signals' = {s \in live : s[1] # w}
     /\ \E aborted \in SUBSET (told \cap handed[w]) :
          handed' = [handed EXCEPT ![w] = @ \ aborted]
     /\ UNCHANGED <<counterVars, workerVars, selection_cursors, requestVars,
                    pending_worker_requests, worker_graceful_shutdown_signals,
                    worker_models_refresh_signals, disconnect_reasons, clientVars,
                    sockets, timeVars>>

TakePendingWorkerGracefulShutdownSignals(w) ==
  /\ w \in sockets /\ w \in worker_graceful_shutdown_signals
  /\ worker_graceful_shutdown_signals' = (worker_graceful_shutdown_signals \cap workers) \ {w}
  /\ UNCHANGED <<counterVars, workerVars, selection_cursors, requestVars,
                 pending_worker_requests, worker_cancel_signals,
                 worker_models_refresh_signals, disconnect_reasons, clientVars,
                 socketVars, timeVars>>

RequestWorkerModelsRefresh(w) ==
  /\ w \in workers \cap Refreshable
  /\ worker_models_refresh_signals' = worker_models_refresh_signals \cup {w}
  /\ UNCHANGED <<counterVars, workerVars, selection_cursors, requestVars,
                 pending_worker_requests, worker_cancel_signals,
                 worker_graceful_shutdown_signals, disconnect_reasons, clientVars,
                 socketVars, timeVars>>

TakePendingWorkerModelsRefreshSignals(w) ==
  /\ w \in sockets /\ worker_models_refresh_signals # {}
  /\ worker_models_refresh_signals' = (worker_models_refresh_signals \cap workers) \ {w}
  /\ UNCHANGED <<counterVars, workerVars, selection_cursors, requestVars,
                 pending_worker_requests, worker_cancel_signals,
                 worker_graceful_shutdown_signals, disconnect_reasons, clientVars,
                 socketVars, timeVars>>

-----------------------------------------------------------------------------
(* Workers leave: a lost socket, a graceful shutdown, a deleted provider. *)

CloseSocket(w) ==
  /\ sockets' = sockets \ {w}
  /\ handed' = [handed EXCEPT ![w] = {}]

IgnoreCancellation(r) == FALSE
WasCanceled(r) == active_requests[r].cancellation # "none"

RequeuesExhausted(r) == requeue_count[r] >= MAX_REQUEUE_COUNT

(* disconnect_worker on a registered worker: its uncancelled requests go, in  *)
(* order, to the front of the queue of the WORKER's provider, unless they     *)
(* were requeued MAX_REQUEUE_COUNT times.                                     *)
DisconnectWorker(w) ==
  /\ w \in sockets \cap workers
  /\ LET lost     == Members(in_flight_requests[w])
         canceled == {r \in lost : WasCanceled(r)}
         worn     == {r \in lost \ canceled : RequeuesExhausted(r)}
         failed   == canceled \cup worn
         back     == Without(in_flight_requests[w], failed)
     IN /\ provider_queues' = [provider_queues EXCEPT ![profile[w].provider] = back \o @]
        /\ requeue_count' = [r \in RequestId |-> IF r \in lost \ failed
                                                 THEN requeue_count[r] + 1
                                                 ELSE requeue_count[r]]
        /\ active_requests' = [r \in RequestId |-> IF r \in failed THEN Absent
                                                   ELSE IF r \in lost THEN Queued
                                                   ELSE active_requests[r]]
        /\ fail_pending_http_response(failed,
             [r \in RequestId |-> IF r \in canceled THEN "RequestAlreadyCanceled"
                                  ELSE "MaxRequeuesExceeded"])
  /\ remove_workers({w})
  /\ ClearLists({w})
  /\ CloseSocket(w)
  /\ UNCHANGED <<counterVars, profile, selection_cursors, request,
                 worker_models_refresh_signals, disconnect_reasons, abandoned, timeVars>>

(* The socket of a worker the core removed ends before its loop looks for the *)
(* reason: disconnect_worker finds nothing to do.                             *)
LoseRemovedSocket(w) ==
  /\ w \in sockets \ workers
  /\ CloseSocket(w)
  /\ UNCHANGED <<counterVars, workerVars, selection_cursors, requestVars, signalVars,
                 clientVars, timeVars>>

BeginGracefulShutdown ==
  /\ shutdowns < MaxShutdowns
  /\ shutdowns' = shutdowns + 1
  /\ deadline' = [w \in WorkerId |-> IF w \in workers /\ ~is_draining(w)
                                     THEN shutdowns + 1 ELSE deadline[w]]
  /\ worker_graceful_shutdown_signals' =
       worker_graceful_shutdown_signals \cup {w \in workers : ~is_draining(w)}
  /\ UNCHANGED <<counterVars, workers, profile, models, reported_load, in_flight_requests,
                 selection_cursors, requestVars, pending_worker_requests,
                 worker_cancel_signals, worker_models_refresh_signals,
                 disconnect_reasons, clientVars, socketVars, aged, passed>>

IdleExpiringWorkers == {v \in workers : deadline[v] \in passed /\ in_flight_requests[v] = <<>>}
ExpiringWorkers == {v \in workers : deadline[v] \in passed}

(* graceful_shutdown_close_action of w's loop: expire_graceful_shutdown for   *)
(* all workers, then disconnect_drained_worker_if_idle and the reason, if     *)
(* any, for w itself.                                                         *)
GracefulShutdownCloseAction(w) ==
  LET expired == ExpiringWorkers
      idle    == /\ w \in workers \ expired
                 /\ is_draining(w) /\ in_flight_requests[w] = <<>>
      gone    == expired \cup {v \in {w} : idle}
      closing == w \in gone \/ disconnect_reasons[w] # "none"
  IN /\ w \in sockets
     /\ gone # {} \/ closing
     /\ Forget(InFlightOf(expired))
     /\ fail_pending_http_response(InFlightOf(expired),
                                   [r \in RequestId |-> "GracefulShutdownTimedOut"])
     /\ disconnect_reasons' = [v \in WorkerId |-> IF v = w THEN "none"
                                                  ELSE IF v \in expired THEN "TimedOut"
                                                  ELSE disconnect_reasons[v]]
     /\ remove_workers(gone)
     /\ ClearLists(gone)
     /\ IF closing THEN CloseSocket(w) ELSE UNCHANGED socketVars
     /\ UNCHANGED <<counterVars, profile, selection_cursors, request, requeue_count,
                    provider_queues, worker_models_refresh_signals, abandoned, timeVars>>

DeleteProvider(p) ==
  LET gone == {w \in workers : profile[w].provider = p}
      lost == Members(provider_queues[p]) \cup InFlightOf(gone)
  IN /\ p \in Deletable
     /\ gone # {} \/ lost # {}
     /\ provider_queues' = [provider_queues EXCEPT ![p] = <<>>]
     /\ Forget(lost)
     /\ fail_pending_http_response(lost, [r \in RequestId |-> "ProviderDeleted"])
     /\ disconnect_reasons' = [w \in WorkerId |-> IF w \in gone THEN "Completed"
                                                  ELSE disconnect_reasons[w]]
     /\ remove_workers(gone)
     /\ ClearLists(gone)
     /\ UNCHANGED <<counterVars, profile, selection_cursors, request, requeue_count,
                    worker_models_refresh_signals, abandoned, socketVars, timeVars>>

-----------------------------------------------------------------------------
(* Time, and the queue-timeout loop of main. *)

(* The oldest request that had not waited the queue timeout now has. *)
QueueTimeoutPasses ==
  /\ aged < next_request_id - 1
  /\ aged' = aged + 1
  /\ UNCHANGED <<counterVars, workerVars, selection_cursors, requestVars, signalVars,
                 clientVars, socketVars, shutdowns, passed>>

DrainDeadlinePasses(k) ==
  /\ k <= shutdowns /\ k \notin passed
  /\ passed' = passed \cup {k}
  /\ UNCHANGED <<counterVars, workerVars, selection_cursors, requestVars, signalVars,
                 clientVars, socketVars, aged, shutdowns>>

TimedOutLate(p, r) == Policy[p].timed /\ r < aged

(* Whether a request queued under provider p has waited p's queue timeout. *)
TimedOut(p, r) == Policy[p].timed /\ r <= aged

ExpireQueueTimeouts ==
  LET expired == {r \in RequestId : \E p \in Providers :
                    r \in Members(provider_queues[p]) /\ TimedOut(p, r)}
  IN /\ expired # {}
     /\ provider_queues' = [p \in Providers |->
          Without(provider_queues[p], {r \in Members(provider_queues[p]) : TimedOut(p, r)})]
     /\ Forget(expired)
     /\ fail_pending_http_response(expired, [r \in RequestId |-> "QueueTimedOut"])
     /\ UNCHANGED <<counterVars, workerVars, selection_cursors, request, requeue_count,
                    signalVars, abandoned, socketVars, timeVars>>

-----------------------------------------------------------------------------
Submit(sub) == SubmitDispatched(sub) \/ SubmitQueued(sub) \/ SubmitRejected(sub)

Cancel(r) ==
  /\ r \in Cancellable
  /\ CancelQueued(r) \/ \E reason \in CancelReason : CancelInFlight(r, reason)

Answer(w, r) == FinishRequest(w, r) \/ FinishDrain(w, r) \/ LateResponse(w, r)

Next ==
  \/ \E reg \in Registrations : RegisterWorker(reg)
  \/ \E sub \in Submissions : Submit(sub)
  \/ \E r \in RequestId : Cancel(r)
  \/ \E w \in WorkerId :
       \/ \E raw \in Updates, load \in Loads : UpdateWorkerModels(w, raw, load)
       \/ \E load \in Loads : RecordWorkerPong(w, load)
       \/ \E r \in RequestId : StreamHttpResponseChunk(w, r) \/ Answer(w, r)
       \/ TakePendingWorkerRequests(w)
       \/ TakePendingWorkerCancelSignals(w)
       \/ TakePendingWorkerGracefulShutdownSignals(w)
       \/ RequestWorkerModelsRefresh(w)
       \/ TakePendingWorkerModelsRefreshSignals(w)
       \/ DisconnectWorker(w)
       \/ LoseRemovedSocket(w)
       \/ GracefulShutdownCloseAction(w)
  \/ BeginGracefulShutdown
  \/ \E p \in Providers : DeleteProvider(p)
  \/ QueueTimeoutPasses
  \/ \E k \in 1..MaxShutdowns : DrainDeadlinePasses(k)
  \/ ExpireQueueTimeouts

Spec == Init /\ [][Next]_vars

-----------------------------------------------------------------------------
(* The fields and variables have the shapes the Rust types give them. *)
TypeOK ==
  /\ next_request_id \in 1..(MaxRequests + 1)
  /\ next_worker_id \in 1..(MaxWorkers + 1)
  /\ workers \subseteq WorkerId
  /\ profile \in [WorkerId -> [provider : Providers \cup {AnyProvider},
                               prefixes : SUBSET Prefixes, max_concurrent : Nat \ {0}]]
  /\ \A w \in workers : profile[w].provider \in Providers
  /\ models \in [WorkerId -> SUBSET (Models \cup {"*"})]
  /\ reported_load \in [WorkerId -> Nat]
  /\ in_flight_requests \in [WorkerId -> Seq(RequestId)]
  /\ deadline \in [WorkerId -> 0..MaxShutdowns]
  /\ selection_cursors \in [(Providers \cup {AnyProvider}) \X Models -> Nat \cup {-1}]
  /\ request \in [RequestId -> Submissions]
  /\ requeue_count \in [RequestId -> Nat]
  /\ active_requests \in [RequestId -> ActiveRequestState]
  /\ provider_queues \in [Providers -> Seq(RequestId)]
  /\ senders \subseteq RequestId
  /\ pending_worker_requests \in [WorkerId -> Seq(RequestId)]
  /\ worker_cancel_signals \subseteq WorkerId \X RequestId
  /\ worker_graceful_shutdown_signals \subseteq WorkerId
  /\ worker_models_refresh_signals \subseteq WorkerId
  /\ disconnect_reasons \in [WorkerId -> {"none", "Completed", "TimedOut"}]
  /\ sockets \subseteq WorkerId
  /\ handed \in [WorkerId -> SUBSET RequestId]
  /\ events \in [RequestId -> Seq(HttpResponseEvent)]
  /\ abandoned \subseteq RequestId
  /\ aged \in 0..MaxRequests
  /\ shutdowns \in 0..MaxShutdowns
  /\ passed \subseteq 1..MaxShutdowns

(* The three parts of OnePlace. *)
QueuesSound ==
  /\ \A p \in Providers :
       /\ NoRepeats(provider_queues[p])
       /\ \A r \in Members(provider_queues[p]) : active_requests[r].at = "queued"
  /\ \A p, q \in Providers :
       p # q => Members(provider_queues[p]) \cap Members(provider_queues[q]) = {}

InFlightSound ==
  \A w \in WorkerId :
    /\ NoRepeats(in_flight_requests[w])
    /\ \A r \in Members(in_flight_requests[w]) :
         active_requests[r].at = "in_flight" /\ active_requests[r].worker = w
    /\ w \notin workers => in_flight_requests[w] = <<>>

NothingLost ==
  \A r \in RequestId :
    /\ active_requests[r].at = "queued" =>
         \E p \in Providers : r \in Members(provider_queues[p])
    /\ active_requests[r].at = "in_flight" =>
         /\ active_requests[r].worker \in workers
         /\ r \in Members(in_flight_requests[active_requests[r].worker])

(* Every active request is in exactly one place: a queued request stands      *)
(* once in one provider's queue, a request in flight stands once in the list  *)
(* of the registered worker it is assigned to, and nothing else stands        *)
(* anywhere.  active_requests, provider_queues and in_flight_requests are     *)
(* updated separately by every function of the core.                          *)
OnePlace == QueuesSound /\ InFlightSound /\ NothingLost

(* A request is active exactly while its HTTP handler can still be answered:  *)
(* no path of the core forgets a request and leaves its handler waiting, or   *)
(* answers a handler and keeps the request queued or assigned.                *)
SenderWhileActive == senders = {r \in RequestId : active_requests[r].at # "absent"}

(* A worker never has more requests in flight than its max_concurrent, over   *)
(* direct dispatch, dispatch after a finish and the loops that drain queues   *)
(* on stale load reports.                                                     *)
CapacityRespected ==
  \A w \in workers : Len(in_flight_requests[w]) <= profile[w].max_concurrent

(* What waits for a socket, and what a connected worker is working on, is in  *)
(* flight at that worker, and no request is sent to the same worker twice:    *)
(* no worker runs a request that was requeued or settled meanwhile, unless    *)
(* the core removed the worker.                                               *)
SentOnlyToOwner ==
  \A w \in WorkerId :
    /\ NoRepeats(pending_worker_requests[w])
    /\ Members(pending_worker_requests[w]) \subseteq Members(in_flight_requests[w])
    /\ w \in workers => handed[w] \subseteq Members(in_flight_requests[w])
    /\ Members(pending_worker_requests[w]) \cap handed[w] = {}

(* A registered worker has a running socket loop to take its requests and no  *)
(* disconnect reason, and signals wait only for workers they can reach.       *)
RegistryMatchesSockets ==
  /\ workers \subseteq sockets
  /\ \A w \in workers : disconnect_reasons[w] = "none"
  /\ \A s \in worker_cancel_signals : s[1] \in workers
  /\ worker_graceful_shutdown_signals \subseteq {w \in workers : is_draining(w)}

(* A queue exceeds max_queue_len only by requests that were requeued. *)
FreshQueueBounded ==
  \A p \in Providers :
    Cardinality({i \in DOMAIN provider_queues[p] : requeue_count[provider_queues[p][i]] = 0})
      <= Policy[p].max_queue_len

(* Every path that assigns a request - direct dispatch with or without        *)
(* routing, the dispatch after a finish, the loops that drain the queues -    *)
(* picks a worker whose models and endpoint prefixes cover it.                *)
AssignedOnlyCompatible ==
  [][\A w \in workers :
       \A r \in Members(in_flight_requests'[w]) \ Members(in_flight_requests[w]) :
         Compatible(w, models[w], r)']_vars

(* Once cancel_request has marked a request in flight, it is never queued or  *)
(* assigned again: it stays where it is until it leaves the table.            *)
CancelledNeverRetried ==
  [][\A r \in RequestId : active_requests[r].cancellation # "none" =>
       active_requests'[r] \in {active_requests[r], Absent}]_vars

CouldServe(w, r) == worker_has_capacity(w) /\ Compatible(w, models[w], r)

(* A worker that reports its load or its models is left with a queued request *)
(* it could serve only when it has no capacity.                               *)
ReportDrainsQueues ==
  [][\A w \in workers :
       (\E load \in Loads : RecordWorkerPong(w, load) \/ \E raw \in Updates :
          UpdateWorkerModels(w, raw, load))
         => ~(\E r \in QueuedRequests : CouldServe(w, r))']_vars

-----------------------------------------------------------------------------
(* The core implements the request lifecycle. *)

Phase(r) ==
  CASE r >= next_request_id -> "new"
    [] r < next_request_id /\ active_requests[r].at = "queued" -> "waiting"
    [] r < next_request_id /\ active_requests[r].at = "in_flight" -> "running"
    [] OTHER -> "done"

Lifecycle == INSTANCE RequestLifecycle WITH
  Request     <- RequestId,
  Worker      <- WorkerId,
  MaxRequeues <- MAX_REQUEUE_COUNT,
  phase       <- [r \in RequestId |-> Phase(r)],
  owner       <- [r \in RequestId |-> active_requests[r].worker],
  requeues    <- requeue_count,
  heard       <- events,
  left        <- abandoned

(* Each request follows the abstract lifecycle: it is started, requeued at    *)
(* most three times, answered only by the worker that currently owns it, and  *)
(* ends with one final event unless its client gave up while it waited.       *)
ImplementsLifecycle == Lifecycle!LifecycleSpec

-----------------------------------------------------------------------------
(* The core keeps its promises to the socket loops. *)

(* "stranded" would be a worker whose socket loop nothing tells to close, or  *)
(* one in the registry whose loop is over or told to close.                   *)
Stage(w) ==
  CASE w >= next_worker_id -> "new"
    [] w < next_worker_id /\ w \in workers ->
         IF w \notin sockets \/ disconnect_reasons[w] # "none" THEN "stranded"
         ELSE IF is_draining(w) THEN "draining" ELSE "serving"
    [] w < next_worker_id /\ w \notin workers ->
         IF w \notin sockets THEN "closed"
         ELSE IF disconnect_reasons[w] # "none" THEN "removed" ELSE "stranded"

Station(r) ==
  CASE Phase(r) = "waiting" -> "waiting"
    [] Phase(r) = "running" ->
         IF r \in Members(pending_worker_requests[active_requests[r].worker])
         THEN "pending" ELSE "sent"
    [] Phase(r) \in {"new", "done"} -> Phase(r)

Marked == {r \in RequestId : active_requests[r].cancellation # "none"}

Sessions == INSTANCE WorkerSessions WITH
  Request <- RequestId,
  Worker  <- WorkerId,
  stage   <- [w \in WorkerId |-> Stage(w)],
  room    <- [w \in WorkerId |-> profile[w].max_concurrent],
  at      <- [r \in RequestId |-> Station(r)],
  holder  <- [r \in RequestId |-> active_requests[r].worker],
  marked  <- Marked,
  cancels <- {r \in Marked : <<active_requests[r].worker, r>> \in worker_cancel_signals},
  drains  <- worker_graceful_shutdown_signals

(* Each worker's loop is dealt with as WorkerSessions says: it is given       *)
(* requests only while it serves, never one it was given before, and keeps    *)
(* each until it answers or is removed; it is told of each cancellation and   *)
(* of the drain once; and it is told to close when its worker is removed.     *)
ImplementsSessions == Sessions!SessionsSpec

-----------------------------------------------------------------------------
(* Fairness: the socket loop of a connected worker turns every 25 ms          *)
(* (worker_socket.rs), the queue-timeout loop every second (main.rs), and     *)
(* time passes.  Nothing is assumed of workers and clients.                   *)
Fairness ==
  /\ \A w \in WorkerId : WF_vars(GracefulShutdownCloseAction(w))
  /\ WF_vars(QueueTimeoutPasses)
  /\ \A k \in 1..MaxShutdowns : WF_vars(DrainDeadlinePasses(k))
  /\ WF_vars(ExpireQueueTimeouts)

FairSpec == Spec /\ Fairness

(* A request does not stay in a queue that has a timeout policy, even when no *)
(* worker ever answers, reports or connects.                                  *)
TimedQueueResolves ==
  \A p \in Providers, r \in RequestId :
    Policy[p].timed =>
      (r \in Members(provider_queues[p]) ~> r \notin Members(provider_queues[p]))

(* A drain ends: a draining worker leaves the registry, even when it never    *)
(* answers, and its socket is told to close.                                  *)
DrainEnds ==
  \A w \in WorkerId : is_draining(w) ~> (w \notin workers /\ w \notin sockets)
=============================================================================
