-------------------------- MODULE ProxyCoreProofs --------------------------
(***************************************************************************)
(* Proofs about ProxyCore and the pages ServerPages makes of it, for every *)
(* value of their constants: any number of workers, requests, providers    *)
(* and shutdowns, any registrations and submissions.                       *)
(***************************************************************************)
EXTENDS ServerPages, SeqFilterProofs

USE DEF RegisterMessage, RequestRecord, ProviderQueuePolicy
USE DEF counterVars, workerVars, requestVars, signalVars, clientVars, socketVars, timeVars

-----------------------------------------------------------------------------
(* The operators the actions are built from. *)

(* A batch taken by the dispatch loops holds distinct queued requests and is  *)
(* no longer than the worker has room for.                                    *)
LEMMA BatchProperties ==
  ASSUME NEW w, NEW ms, NEW n \in Nat, NEW batch \in Batches(w, ms, n)
  PROVE  /\ batch \in Seq(RequestId)
         /\ Members(batch) \subseteq QueuedRequests
         /\ NoRepeats(batch)
         /\ Len(batch) <= n
<1>1. PICK k \in 0..n : batch \in [1..k -> QueuedRequests]
  BY DEF Batches
<1>2. QueuedRequests \subseteq RequestId
  BY DEF QueuedRequests
<1>3. batch \in Seq(RequestId) /\ DOMAIN batch = 1..k /\ Len(batch) = k
  BY <1>1, <1>2
<1>4. Members(batch) \subseteq QueuedRequests
  BY <1>1 DEF Members
<1>5. \A i \in 1..k : batch[i] \notin {batch[j] : j \in 1..(i - 1)}
  BY <1>1 DEF Batches, NextCompatible, First, Heads
<1>6. ASSUME NEW i \in 1..k, NEW j \in 1..k, i < j PROVE batch[i] # batch[j]
  <2>1. i \in 1..(j - 1)
    BY <1>6
  <2>. QED  BY <2>1, <1>5
<1>7. NoRepeats(batch)
  BY <1>3, <1>6 DEF NoRepeats
<1>. QED  BY <1>3, <1>4, <1>7

(* Room, the number of assignments a worker may still take, is a natural number. *)
LEMMA RoomIsNat ==
  ASSUME TypeOK, NEW w \in WorkerId, NEW load \in Nat, NEW flight \in Seq(RequestId)
  PROVE  /\ Room(w, load, flight) \in Nat
         /\ Room(w, load, flight) > 0 =>
              /\ ~is_draining(w)
              /\ Len(flight) + Room(w, load, flight) <= profile[w].max_concurrent
BY SMTT(30) DEF TypeOK, Room, MaxOf

(* Every selection of find_eligible_worker_id is a registered worker with     *)
(* capacity, recorded under a cursor of the requested model.                  *)
LEMMA SelectionProperties ==
  ASSUME TypeOK, NEW sub \in Submissions, NEW sel \in find_eligible_worker_id(sub)
  PROVE  /\ sel.worker \in workers
         /\ worker_has_capacity(sel.worker)
         /\ sel.key \in (Providers \cup {AnyProvider}) \X Models
<1>. DEFINE Keys == (Providers \cup {AnyProvider}) \X Models
            Good(s) == s.worker \in workers /\ worker_has_capacity(s.worker) /\ s.key \in Keys
<1>1. sub.provider \in Providers /\ sub.model \in Models
  BY InputsAssumption
<1>2. ASSUME NEW provs, NEW key \in Keys, NEW s \in RoundRobin(Eligible(sub, provs), key)
      PROVE  Good(s)
  BY DEF RoundRobin, LeastLoaded, First, Eligible
<1>3. ASSUME NEW s \in Unfiltered(sub) PROVE Good(s)
  BY <1>1, <1>2 DEF Unfiltered
<1>4. ASSUME NEW s \in WithRouting(sub) PROVE Good(s)
  <2>. DEFINE ws == Eligible(sub, sub.routing.only \ sub.routing.ignore)
              preferred == Preferred(sub.routing.order, ws)
  <2>1. CASE ws = {} /\ sub.routing.allow_fallbacks
    BY <2>1, <1>3, <1>4 DEF WithRouting
  <2>2. CASE ws = {} /\ ~sub.routing.allow_fallbacks
    BY <2>2, <1>4 DEF WithRouting
  <2>3. CASE ws # {} /\ preferred # {}
    <3>1. PICK v \in First(LeastLoaded({v \in ws : profile[v].provider \in preferred})) :
                 s = [worker |-> v, key |-> <<profile[v].provider, sub.model>>]
      BY <2>3, <1>4 DEF WithRouting
    <3>2. v \in ws /\ profile[v].provider \in Providers
      BY DEF First, LeastLoaded, Preferred
    <3>. QED  BY <3>1, <3>2, <1>1 DEF Eligible
  <2>4. CASE ws # {} /\ preferred = {}
    <3>1. s \in RoundRobin(ws, <<sub.provider, sub.model>>)
      BY <2>4, <1>4 DEF WithRouting
    <3>. QED  BY <3>1, <1>1, <1>2
  <2>. QED  BY <2>1, <2>2, <2>3, <2>4
<1>. QED  BY <1>3, <1>4 DEF find_eligible_worker_id

(* A worker's position in worker_order is a natural number, as the cursors need. *)
LEMMA PositionIsNat ==
  ASSUME TypeOK, NEW w PROVE Position(w) \in Nat
<1>1. IsFiniteSet(WorkerId)
  BY BoundsAssumption, FS_Interval DEF WorkerId
<1>2. {v \in workers : v < w} \in SUBSET WorkerId
  BY DEF TypeOK
<1>. QED  BY <1>1, <1>2, FS_Subset, FS_CardinalityType DEF Position

-----------------------------------------------------------------------------
(* Type correctness.  First what the shared parts of the actions do to the    *)
(* types of the variables they set.                                           *)

QueuesType(q)  == q \in [Providers -> Seq(RequestId)]
ActiveType(a)  == a \in [RequestId -> ActiveRequestState]
ListsType(fl, ld, pd) ==
  /\ fl \in [WorkerId -> Seq(RequestId)]
  /\ ld \in [WorkerId -> Nat]
  /\ pd \in [WorkerId -> Seq(RequestId)]
EventsType(e)  == e \in [RequestId -> Seq(HttpResponseEvent)]

(* The values written to active_requests are values of ActiveRequestState. *)
LEMMA StatesTyped ==
  /\ Absent \in ActiveRequestState /\ Queued \in ActiveRequestState
  /\ \A w \in WorkerId : InFlight(w) \in ActiveRequestState
  /\ \A w \in WorkerId : Chunk(w) \in HttpResponseEvent /\ Complete(w) \in HttpResponseEvent
  /\ \A why \in FailureReason : Failure(why) \in HttpResponseEvent
BY BoundsAssumption
   DEF Absent, Queued, InFlight, Chunk, Complete, Failure, ActiveRequestState,
       HttpResponseEvent, WorkerId

(* assign_to_worker keeps the types of the lists and loads it changes. *)
LEMMA AssignTyped ==
  ASSUME TypeOK, NEW w \in WorkerId, NEW batch \in Seq(RequestId), NEW load \in Nat,
         NEW flight \in Seq(RequestId), assign_to_worker(w, batch, load, flight)
  PROVE  ListsType(in_flight_requests', reported_load', pending_worker_requests')
<1>1. flight \o batch \in Seq(RequestId) /\ load + Len(batch) \in Nat
  OBVIOUS
<1>2. pending_worker_requests[w] \o batch \in Seq(RequestId)
  BY DEF TypeOK
<1>. QED  BY <1>1, <1>2 DEF TypeOK, assign_to_worker, ListsType

(* Removing requests from the queues leaves sequences of request ids. *)
LEMMA LeaveQueuesTyped ==
  ASSUME TypeOK, NEW S, LeaveQueues(S)
  PROVE  QueuesType(provider_queues')
<1>1. \A p \in Providers : Without(provider_queues[p], S) \in Seq(RequestId)
  BY WithoutProperties DEF TypeOK
<1>. QED  BY <1>1 DEF LeaveQueues, QueuesType

(* Forgetting requests keeps the type of active_requests. *)
LEMMA ForgetTyped ==
  ASSUME TypeOK, NEW S, Forget(S)
  PROVE  ActiveType(active_requests')
BY StatesTyped DEF TypeOK, Forget, ActiveType

(* Failing requests keeps the types of the events and of the senders. *)
LEMMA FailTyped ==
  ASSUME TypeOK, NEW S, NEW reason \in [RequestId -> FailureReason],
         fail_pending_http_response(S, reason)
  PROVE  EventsType(events') /\ senders' \subseteq RequestId
<1>1. \A r \in RequestId : Append(events[r], Failure(reason[r])) \in Seq(HttpResponseEvent)
  <2>. SUFFICES ASSUME NEW r \in RequestId
                PROVE  Append(events[r], Failure(reason[r])) \in Seq(HttpResponseEvent)
    OBVIOUS
  <2>1. events[r] \in Seq(HttpResponseEvent) /\ Failure(reason[r]) \in HttpResponseEvent
    BY StatesTyped DEF TypeOK
  <2>. HIDE DEF HttpResponseEvent
  <2>. QED  BY <2>1
<1>. QED  BY <1>1 DEF TypeOK, EventsType, fail_pending_http_response

(* Removing workers keeps the types of the registry and of the signals. *)
LEMMA RemoveTyped ==
  ASSUME TypeOK, NEW gone, remove_workers(gone)
  PROVE  /\ workers' \subseteq workers
         /\ models' \in [WorkerId -> SUBSET (Models \cup {"*"})]
         /\ deadline' \in [WorkerId -> 0..MaxShutdowns]
         /\ worker_cancel_signals' \subseteq WorkerId \X RequestId
         /\ worker_graceful_shutdown_signals' \subseteq WorkerId
BY BoundsAssumption DEF TypeOK, remove_workers

(* Clearing the lists of removed workers keeps their types. *)
LEMMA ClearTyped ==
  ASSUME TypeOK, NEW gone, ClearLists(gone)
  PROVE  ListsType(in_flight_requests', reported_load', pending_worker_requests')
BY DEF TypeOK, ClearLists, ListsType

(* Answering a request keeps the types of the events and of the senders. *)
LEMMA RespondTyped ==
  ASSUME TypeOK, NEW w \in WorkerId, NEW r \in RequestId, Respond(w, r)
  PROVE  /\ EventsType(events') /\ senders' \subseteq RequestId
         /\ handed' \in [WorkerId -> SUBSET RequestId]
<1>1. Append(events[r], Complete(w)) \in Seq(HttpResponseEvent)
  <2>1. events[r] \in Seq(HttpResponseEvent) /\ Complete(w) \in HttpResponseEvent
    BY StatesTyped DEF TypeOK
  <2>. HIDE DEF HttpResponseEvent
  <2>. QED  BY <2>1
<1>. QED  BY <1>1 DEF TypeOK, EventsType, Respond

(* sanitize_models leaves model names and the wildcard. *)
LEMMA SanitizeTyped ==
  ASSUME NEW raw \in SUBSET RawNames
  PROVE  sanitize_models(raw) \in SUBSET (Models \cup {"*"})
BY NamesAssumption DEF sanitize_models

(* The loop that drains the queues to a reporting worker keeps the types of what it changes. *)
LEMMA DrainTyped ==
  ASSUME TypeOK, NEW w \in WorkerId, NEW ms, NEW load \in Nat, DrainQueues(w, ms, load)
  PROVE  /\ ListsType(in_flight_requests', reported_load', pending_worker_requests')
         /\ QueuesType(provider_queues')
         /\ ActiveType(active_requests')
<1>. DEFINE flight == in_flight_requests[w]
            n == Room(w, load, flight)
<1>1. flight \in Seq(RequestId) /\ n \in Nat
  BY RoomIsNat DEF TypeOK
<1>2. PICK batch \in Batches(w, ms, n) :
        /\ assign_to_worker(w, batch, load, flight)
        /\ LeaveQueues(Members(batch))
        /\ active_requests' = [r \in RequestId |->
             IF r \in Members(batch) THEN InFlight(w) ELSE active_requests[r]]
  BY DEF DrainQueues
<1>3. batch \in Seq(RequestId)
  BY <1>1, BatchProperties
<1>4. ActiveType(active_requests')
  BY <1>2, StatesTyped DEF TypeOK, ActiveType
<1>. QED  BY <1>1, <1>2, <1>3, <1>4, AssignTyped, LeaveQueuesTyped

(* Init establishes the types. *)
LEMMA TypeInit == Init => TypeOK
<1>. SUFFICES ASSUME Init PROVE TypeOK
  OBVIOUS
<1>1. (CHOOSE sub \in Submissions : TRUE) \in Submissions
  BY InputsAssumption
<1>2. \A S : <<>> \in Seq(S)
  OBVIOUS
<1>3. 1 \in 1..(MaxRequests + 1) /\ 1 \in 1..(MaxWorkers + 1) /\ 0 \in 0..MaxRequests
      /\ 0 \in 0..MaxShutdowns
  BY BoundsAssumption
<1>. QED  BY <1>1, <1>2, <1>3, StatesTyped DEF Init, TypeOK

(* Every action keeps the types. *)
LEMMA TypeStep == TypeOK /\ [Next]_vars => TypeOK'
<1>. SUFFICES ASSUME TypeOK, [Next]_vars PROVE TypeOK'
  OBVIOUS
<1>1. ASSUME NEW reg \in Registrations, RegisterWorker(reg) PROVE TypeOK'
  <2>1. /\ reg.provider \in Providers /\ reg.prefixes \subseteq Prefixes
        /\ MaxOf(reg.max_concurrent, 1) \in Nat \ {0}
        /\ reg.models \subseteq RawNames /\ reg.current_load \in Nat
    BY InputsAssumption DEF MaxOf
  <2>2. next_worker_id \in WorkerId /\ next_worker_id' \in 1..(MaxWorkers + 1)
    BY <1>1, BoundsAssumption DEF RegisterWorker, TypeOK, WorkerId
  <2>3. sanitize_models(reg.models) \in SUBSET (Models \cup {"*"})
    BY <2>1, SanitizeTyped
  <2>4. /\ profile' \in [WorkerId -> [provider : Providers \cup {AnyProvider},
                                     prefixes : SUBSET Prefixes, max_concurrent : Nat \ {0}]]
        /\ \A w \in workers' : profile'[w].provider \in Providers
    BY <1>1, <2>1, <2>2 DEF TypeOK, RegisterWorker
  <2>5. /\ models' \in [WorkerId -> SUBSET (Models \cup {"*"})]
        /\ reported_load' \in [WorkerId -> Nat]
        /\ workers' \subseteq WorkerId /\ sockets' \subseteq WorkerId
    BY <1>1, <2>1, <2>2, <2>3 DEF TypeOK, RegisterWorker
  <2>. QED  BY <1>1, <2>2, <2>4, <2>5 DEF TypeOK, RegisterWorker
<1>2. ASSUME NEW sub \in Submissions, SubmitDispatched(sub) PROVE TypeOK'
  <2>1. next_request_id \in RequestId /\ next_request_id' \in 1..(MaxRequests + 1)
    <3>1. next_request_id <= MaxRequests /\ next_request_id' = next_request_id + 1
      BY <1>2 DEF SubmitDispatched
    <3>2. next_request_id \in 1..(MaxRequests + 1)
      BY DEF TypeOK
    <3>. QED  BY <3>1, <3>2, BoundsAssumption DEF RequestId
  <2>2. PICK sel \in find_eligible_worker_id(sub) :
          /\ selection_cursors' = [selection_cursors EXCEPT ![sel.key] = Position(sel.worker)]
          /\ assign_to_worker(sel.worker, <<next_request_id>>, reported_load[sel.worker],
                              in_flight_requests[sel.worker])
          /\ active_requests' = [active_requests EXCEPT ![next_request_id] = InFlight(sel.worker)]
    BY <1>2 DEF SubmitDispatched
  <2>3. sel.worker \in WorkerId /\ sel.key \in (Providers \cup {AnyProvider}) \X Models
    BY SelectionProperties DEF TypeOK
  <2>4. Position(sel.worker) \in Nat
    BY PositionIsNat
  <2>5. ListsType(in_flight_requests', reported_load', pending_worker_requests')
    <3>1. <<next_request_id>> \in Seq(RequestId)
      BY <2>1
    <3>. QED  BY <3>1, <2>2, <2>3, AssignTyped DEF TypeOK
  <2>6. active_requests' \in [RequestId -> ActiveRequestState]
    BY <2>2, <2>3, StatesTyped DEF TypeOK
  <2>7. selection_cursors' \in [(Providers \cup {AnyProvider}) \X Models -> Nat \cup {-1}]
    BY <2>2, <2>4 DEF TypeOK
  <2>8. request' \in [RequestId -> Submissions] /\ senders' \subseteq RequestId
    BY <1>2, <2>1 DEF SubmitDispatched, TypeOK
  <2>. QED  BY <1>2, <2>1, <2>5, <2>6, <2>7, <2>8 DEF TypeOK, SubmitDispatched, ListsType
<1>3. ASSUME NEW sub \in Submissions, SubmitQueued(sub) PROVE TypeOK'
  <2>1. next_request_id \in RequestId /\ next_request_id' \in 1..(MaxRequests + 1)
    <3>1. next_request_id <= MaxRequests /\ next_request_id' = next_request_id + 1
      BY <1>3 DEF SubmitQueued
    <3>2. next_request_id \in 1..(MaxRequests + 1)
      BY DEF TypeOK
    <3>. QED  BY <3>1, <3>2, BoundsAssumption DEF RequestId
  <2>2. sub.provider \in Providers
    BY InputsAssumption
  <2>3. Append(provider_queues[sub.provider], next_request_id) \in Seq(RequestId)
    BY <2>1, <2>2 DEF TypeOK
  <2>. QED  BY <1>3, <2>1, <2>2, <2>3, StatesTyped DEF TypeOK, SubmitQueued
<1>4. ASSUME NEW sub \in Submissions, SubmitRejected(sub) PROVE TypeOK'
  <2>1. next_request_id \in RequestId /\ next_request_id' \in 1..(MaxRequests + 1)
    <3>1. next_request_id <= MaxRequests /\ next_request_id' = next_request_id + 1
      BY <1>4 DEF SubmitRejected
    <3>2. next_request_id \in 1..(MaxRequests + 1)
      BY DEF TypeOK
    <3>. QED  BY <3>1, <3>2, BoundsAssumption DEF RequestId
  <2>2. \A why \in FailureReason : <<Failure(why)>> \in Seq(HttpResponseEvent)
    BY StatesTyped
  <2>3. events' \in [RequestId -> Seq(HttpResponseEvent)]
    BY <1>4, <2>1, <2>2 DEF SubmitRejected, TypeOK, FailureReason
  <2>. QED  BY <1>4, <2>1, <2>3 DEF TypeOK, SubmitRejected
<1>5. ASSUME NEW r \in RequestId, CancelQueued(r) PROVE TypeOK'
  <2>1. request[r].provider \in Providers
    BY InputsAssumption DEF TypeOK
  <2>2. Without(provider_queues[request[r].provider], {r}) \in Seq(RequestId)
    BY <2>1, WithoutProperties DEF TypeOK
  <2>3. QueuesType(provider_queues') /\ ActiveType(active_requests')
    BY <1>5, <2>1, <2>2, ForgetTyped DEF TypeOK, CancelQueued, QueuesType, ActiveType
  <2>. QED  BY <1>5, <2>3 DEF TypeOK, CancelQueued, QueuesType, ActiveType
<1>6. ASSUME NEW r \in RequestId, NEW reason \in CancelReason, CancelInFlight(r, reason)
      PROVE  TypeOK'
  <2>1. active_requests[r] \in [at : {"in_flight"}, worker : WorkerId,
                                cancellation : CancelReason \cup {"none"}]
    BY <1>6 DEF TypeOK, CancelInFlight, ActiveRequestState, Absent, Queued
  <2>2. [active_requests[r] EXCEPT !.cancellation = reason] \in ActiveRequestState
    BY <2>1 DEF ActiveRequestState
  <2>3. active_requests' \in [RequestId -> ActiveRequestState]
    BY <1>6, <2>2 DEF TypeOK, CancelInFlight
  <2>4. worker_cancel_signals' \subseteq WorkerId \X RequestId
    BY <1>6, <2>1 DEF TypeOK, CancelInFlight
  <2>. QED  BY <1>6, <2>3, <2>4 DEF TypeOK, CancelInFlight
<1>7. ASSUME NEW w \in WorkerId, NEW raw \in Updates, NEW load \in Loads,
             UpdateWorkerModels(w, raw, load)
      PROVE  TypeOK'
  <2>1. load \in Nat /\ sanitize_models(raw) \in SUBSET (Models \cup {"*"})
    BY InputsAssumption, SanitizeTyped
  <2>2. DrainQueues(w, sanitize_models(raw), load)
    BY <1>7 DEF UpdateWorkerModels
  <2>. QED  BY <1>7, <2>1, <2>2, DrainTyped
            DEF TypeOK, UpdateWorkerModels, ListsType, QueuesType, ActiveType
<1>8. ASSUME NEW w \in WorkerId, NEW load \in Loads, RecordWorkerPong(w, load)
      PROVE  TypeOK'
  <2>1. load \in Nat /\ DrainQueues(w, models[w], load)
    BY <1>8, InputsAssumption DEF RecordWorkerPong
  <2>. QED  BY <1>8, <2>1, DrainTyped
            DEF TypeOK, RecordWorkerPong, ListsType, QueuesType, ActiveType
<1>9. ASSUME NEW w \in WorkerId, NEW r \in RequestId, StreamHttpResponseChunk(w, r)
      PROVE  TypeOK'
  <2>1. Append(events[r], Chunk(w)) \in Seq(HttpResponseEvent)
    <3>1. events[r] \in Seq(HttpResponseEvent) /\ Chunk(w) \in HttpResponseEvent
      BY StatesTyped DEF TypeOK
    <3>. HIDE DEF HttpResponseEvent
    <3>. QED  BY <3>1
  <2>2. events' \in [RequestId -> Seq(HttpResponseEvent)]
    BY <1>9, <2>1 DEF TypeOK, StreamHttpResponseChunk
  <2>. QED  BY <1>9, <2>2 DEF TypeOK, StreamHttpResponseChunk
<1>10. ASSUME NEW w \in WorkerId, NEW r \in RequestId, FinishRequest(w, r) PROVE TypeOK'
  <2>. DEFINE flight == Without(in_flight_requests[w], {r})
              load   == saturating_sub(reported_load[w], 1)
              room   == IF Room(w, load, flight) > 0 THEN 1 ELSE 0
  <2>1. flight \in Seq(RequestId) /\ load \in Nat /\ room \in Nat
    BY WithoutProperties DEF TypeOK, MaxOf, saturating_sub
  <2>2. PICK batch \in Batches(w, models[w], room) :
          /\ assign_to_worker(w, batch, load, flight)
          /\ LeaveQueues(Members(batch))
          /\ active_requests' = [q \in RequestId |-> IF q = r THEN Absent
                                 ELSE IF q \in Members(batch) THEN InFlight(w)
                                 ELSE active_requests[q]]
    BY <1>10 DEF FinishRequest
  <2>3. batch \in Seq(RequestId)
    BY <2>1, BatchProperties
  <2>4. ActiveType(active_requests')
    BY <2>2, StatesTyped DEF TypeOK, ActiveType
  <2>5. Respond(w, r)
    BY <1>10 DEF FinishRequest
  <2>6. ListsType(in_flight_requests', reported_load', pending_worker_requests')
    <3>. HIDE DEF flight, load
    <3>. QED  BY <2>1, <2>2, <2>3, AssignTyped
  <2>. QED  BY <1>10, <2>2, <2>4, <2>5, <2>6, LeaveQueuesTyped, RespondTyped
            DEF TypeOK, FinishRequest, ListsType, QueuesType, ActiveType, EventsType
<1>11. ASSUME NEW w \in WorkerId, NEW r \in RequestId, FinishDrain(w, r) PROVE TypeOK'
  <2>1. /\ Forget({r}) /\ remove_workers({w}) /\ ClearLists({w}) /\ Respond(w, r)
        /\ disconnect_reasons' \in [WorkerId -> {"none", "Completed", "TimedOut"}]
    BY <1>11 DEF FinishDrain, TypeOK
  <2>. QED  BY <1>11, <2>1, ForgetTyped, RemoveTyped, ClearTyped, RespondTyped
            DEF TypeOK, FinishDrain, ListsType, ActiveType, EventsType
<1>12. ASSUME NEW w \in WorkerId, NEW r \in RequestId, LateResponse(w, r) PROVE TypeOK'
  BY <1>12, RespondTyped DEF TypeOK, LateResponse, EventsType
<1>13. ASSUME NEW w \in WorkerId, TakePendingWorkerRequests(w) PROVE TypeOK'
  <2>1. Members(pending_worker_requests[w]) \subseteq RequestId
    BY DEF TypeOK, Members
  <2>2. pending_worker_requests' \in [WorkerId -> Seq(RequestId)]
    BY <1>13 DEF TypeOK, TakePendingWorkerRequests
  <2>. QED  BY <1>13, <2>1, <2>2 DEF TypeOK, TakePendingWorkerRequests
<1>14. ASSUME NEW w \in WorkerId, TakePendingWorkerCancelSignals(w) PROVE TypeOK'
  <2>1. worker_cancel_signals' \subseteq worker_cancel_signals
    BY <1>14 DEF TakePendingWorkerCancelSignals
  <2>2. PICK aborted : handed' = [handed EXCEPT ![w] = @ \ aborted]
    BY <1>14 DEF TakePendingWorkerCancelSignals
  <2>3. handed' \in [WorkerId -> SUBSET RequestId]
    BY <2>2 DEF TypeOK
  <2>. QED  BY <1>14, <2>1, <2>3 DEF TypeOK, TakePendingWorkerCancelSignals
<1>15. ASSUME NEW w \in WorkerId, TakePendingWorkerGracefulShutdownSignals(w) PROVE TypeOK'
  BY <1>15 DEF TypeOK, TakePendingWorkerGracefulShutdownSignals
<1>16. ASSUME NEW w \in WorkerId, RequestWorkerModelsRefresh(w) PROVE TypeOK'
  BY <1>16 DEF TypeOK, RequestWorkerModelsRefresh
<1>17. ASSUME NEW w \in WorkerId, TakePendingWorkerModelsRefreshSignals(w) PROVE TypeOK'
  BY <1>17 DEF TypeOK, TakePendingWorkerModelsRefreshSignals
<1>18. ASSUME NEW w \in WorkerId, DisconnectWorker(w) PROVE TypeOK'
  <2>. DEFINE lost     == Members(in_flight_requests[w])
              canceled == {r \in lost : WasCanceled(r)}
              worn     == {r \in lost \ canceled : RequeuesExhausted(r)}
              failed   == canceled \cup worn
              back     == Without(in_flight_requests[w], failed)
              why      == [r \in RequestId |-> IF r \in canceled THEN "RequestAlreadyCanceled"
                                               ELSE "MaxRequeuesExceeded"]
  <2>1. back \in Seq(RequestId) /\ profile[w].provider \in Providers
    BY <1>18, WithoutProperties DEF TypeOK, DisconnectWorker
  <2>2. back \o provider_queues[profile[w].provider] \in Seq(RequestId)
    <3>. HIDE DEF back
    <3>. QED  BY <2>1 DEF TypeOK
  <2>3. QueuesType(provider_queues')
    <3>1. provider_queues' = [provider_queues EXCEPT ![profile[w].provider] = back \o @]
      BY <1>18 DEF DisconnectWorker
    <3>. HIDE DEF back
    <3>. QED  BY <3>1, <2>1, <2>2 DEF TypeOK, QueuesType
  <2>4. requeue_count' \in [RequestId -> Nat]
    <3>1. requeue_count' = [r \in RequestId |-> IF r \in lost \ failed
                                                THEN requeue_count[r] + 1
                                                ELSE requeue_count[r]]
      BY <1>18 DEF DisconnectWorker
    <3>. HIDE DEF lost, failed
    <3>. QED  BY <3>1 DEF TypeOK
  <2>5. ActiveType(active_requests')
    <3>1. active_requests' = [r \in RequestId |-> IF r \in failed THEN Absent
                                                  ELSE IF r \in lost THEN Queued
                                                  ELSE active_requests[r]]
      BY <1>18 DEF DisconnectWorker
    <3>. HIDE DEF lost, failed
    <3>. QED  BY <3>1, StatesTyped DEF TypeOK, ActiveType
  <2>6. EventsType(events') /\ senders' \subseteq RequestId
    <3>1. fail_pending_http_response(failed, why)
      BY <1>18 DEF DisconnectWorker
    <3>2. why \in [RequestId -> FailureReason]
      BY DEF FailureReason
    <3>. HIDE DEF failed, why
    <3>. QED  BY <3>1, <3>2, FailTyped
  <2>7. remove_workers({w}) /\ ClearLists({w}) /\ CloseSocket(w)
    BY <1>18 DEF DisconnectWorker
  <2>8. /\ ListsType(in_flight_requests', reported_load', pending_worker_requests')
        /\ sockets' \subseteq WorkerId /\ handed' \in [WorkerId -> SUBSET RequestId]
    BY <2>7, ClearTyped DEF TypeOK, CloseSocket
  <2>9. UNCHANGED <<counterVars, profile, selection_cursors, request,
                    worker_models_refresh_signals, disconnect_reasons, abandoned, timeVars>>
    BY <1>18 DEF DisconnectWorker
  <2>. QED  BY <2>3, <2>4, <2>5, <2>6, <2>7, <2>8, <2>9, RemoveTyped
            DEF TypeOK, ListsType, QueuesType, ActiveType, EventsType
<1>19. ASSUME NEW w \in WorkerId, LoseRemovedSocket(w) PROVE TypeOK'
  BY <1>19 DEF TypeOK, LoseRemovedSocket, CloseSocket
<1>20. ASSUME NEW w \in WorkerId, GracefulShutdownCloseAction(w) PROVE TypeOK'
  <2>. DEFINE expired == ExpiringWorkers
              late == [r \in RequestId |-> "GracefulShutdownTimedOut"]
  <2>1. PICK gone : remove_workers(gone) /\ ClearLists(gone)
    BY <1>20 DEF GracefulShutdownCloseAction
  <2>2. /\ Forget(InFlightOf(expired))
        /\ fail_pending_http_response(InFlightOf(expired), late)
        /\ disconnect_reasons' \in [WorkerId -> {"none", "Completed", "TimedOut"}]
    BY <1>20 DEF GracefulShutdownCloseAction, TypeOK
  <2>3. late \in [RequestId -> FailureReason]
    BY DEF FailureReason
  <2>4. sockets' \subseteq WorkerId /\ handed' \in [WorkerId -> SUBSET RequestId]
    BY <1>20 DEF GracefulShutdownCloseAction, TypeOK, CloseSocket
  <2>5. UNCHANGED <<counterVars, profile, selection_cursors, request, requeue_count,
                    provider_queues, worker_models_refresh_signals, abandoned, timeVars>>
    BY <1>20 DEF GracefulShutdownCloseAction
  <2>6. ActiveType(active_requests') /\ EventsType(events') /\ senders' \subseteq RequestId
    <3>. HIDE DEF expired, late
    <3>. QED  BY <2>2, <2>3, ForgetTyped, FailTyped
  <2>. QED  BY <2>1, <2>2, <2>4, <2>5, <2>6, RemoveTyped, ClearTyped
            DEF TypeOK, ListsType, ActiveType, EventsType
<1>21. ASSUME BeginGracefulShutdown PROVE TypeOK'
  BY <1>21, BoundsAssumption DEF TypeOK, BeginGracefulShutdown
<1>22. ASSUME NEW p \in Providers, DeleteProvider(p) PROVE TypeOK'
  <2>. DEFINE gone == {w \in workers : profile[w].provider = p}
              lost == Members(provider_queues[p]) \cup InFlightOf(gone)
              why  == [r \in RequestId |-> "ProviderDeleted"]
  <2>1. /\ remove_workers(gone) /\ ClearLists(gone) /\ Forget(lost)
        /\ fail_pending_http_response(lost, why)
        /\ disconnect_reasons' \in [WorkerId -> {"none", "Completed", "TimedOut"}]
        /\ provider_queues' \in [Providers -> Seq(RequestId)]
    BY <1>22 DEF DeleteProvider, TypeOK
  <2>2. why \in [RequestId -> FailureReason]
    BY DEF FailureReason
  <2>3. UNCHANGED <<counterVars, profile, selection_cursors, request, requeue_count,
                    worker_models_refresh_signals, abandoned, socketVars, timeVars>>
    BY <1>22 DEF DeleteProvider
  <2>4. ActiveType(active_requests') /\ EventsType(events') /\ senders' \subseteq RequestId
    <3>. HIDE DEF lost, why
    <3>. QED  BY <2>1, <2>2, ForgetTyped, FailTyped
  <2>. HIDE DEF gone, lost, why
  <2>. QED  BY <2>1, <2>3, <2>4, RemoveTyped, ClearTyped
            DEF TypeOK, ListsType, ActiveType, EventsType
<1>23. ASSUME QueueTimeoutPasses PROVE TypeOK'
  BY <1>23, BoundsAssumption DEF TypeOK, QueueTimeoutPasses
<1>24. ASSUME NEW k \in 1..MaxShutdowns, DrainDeadlinePasses(k) PROVE TypeOK'
  BY <1>24 DEF TypeOK, DrainDeadlinePasses
<1>25. ASSUME ExpireQueueTimeouts PROVE TypeOK'
  <2>. DEFINE expired == {r \in RequestId : \E p \in Providers :
                            r \in Members(provider_queues[p]) /\ TimedOut(p, r)}
              why == [r \in RequestId |-> "QueueTimedOut"]
  <2>1. \A p \in Providers : \A X : Without(provider_queues[p], X) \in Seq(RequestId)
    BY WithoutProperties DEF TypeOK
  <2>2. provider_queues' \in [Providers -> Seq(RequestId)]
    BY <1>25, <2>1 DEF ExpireQueueTimeouts
  <2>3. Forget(expired) /\ fail_pending_http_response(expired, why)
    BY <1>25 DEF ExpireQueueTimeouts
  <2>4. why \in [RequestId -> FailureReason]
    BY DEF FailureReason
  <2>5. ActiveType(active_requests') /\ EventsType(events') /\ senders' \subseteq RequestId
    <3>. HIDE DEF expired, why
    <3>. QED  BY <2>3, <2>4, ForgetTyped, FailTyped
  <2>. QED  BY <1>25, <2>2, <2>5 DEF TypeOK, ExpireQueueTimeouts, ActiveType, EventsType
<1>26. CASE UNCHANGED vars
  BY <1>26 DEF TypeOK, vars
<1>. QED
  BY <1>1, <1>2, <1>3, <1>4, <1>5, <1>6, <1>7, <1>8, <1>9, <1>10, <1>11, <1>12, <1>13,
     <1>14, <1>15, <1>16, <1>17, <1>18, <1>19, <1>20, <1>21, <1>22, <1>23, <1>24, <1>25,
     <1>26
  DEF Next, Submit, Cancel, Answer

(* The fields of the core have the types TypeOK gives them in every reachable *)
(* state, for any number of workers, requests, providers and shutdowns.       *)
THEOREM TypeCorrect == Spec => []TypeOK
  BY TypeInit, TypeStep, PTL DEF Spec

-----------------------------------------------------------------------------
(* Every active request is in exactly one place. *)

(* Request ids not drawn yet are not in use. *)
FreshIds == \A r \in RequestId : r >= next_request_id => active_requests[r].at = "absent"

PlaceInv == TypeOK /\ OnePlace /\ FreshIds

(* A step that touches none of the four variables keeps everything in place. *)
LEMMA UntouchedPlaces ==
  ASSUME OnePlace, UNCHANGED <<active_requests, provider_queues, in_flight_requests, workers>>
  PROVE  OnePlace'
BY DEF OnePlace, QueuesSound, InFlightSound, NothingLost

(* The requests of S leave the table and every list they are in, and the      *)
(* workers of gone, whose requests are all in S, leave the registry.          *)
LEMMA RemovalKeepsPlaces ==
  ASSUME TypeOK, OnePlace, NEW S, NEW gone,
         Forget(S),
         workers' = workers \ gone,
         \A p \in Providers : /\ Members(provider_queues'[p]) = Members(provider_queues[p]) \ S
                              /\ NoRepeats(provider_queues'[p]),
         \A w \in WorkerId : IF w \in gone
           THEN in_flight_requests'[w] = <<>> /\ Members(in_flight_requests[w]) \subseteq S
           ELSE in_flight_requests'[w] = in_flight_requests[w] /\ Members(in_flight_requests[w]) \cap S = {}
  PROVE  OnePlace'
<1>0. \A w \in WorkerId : Members(in_flight_requests'[w]) = Members(in_flight_requests[w]) \ S
  BY SmallSequences
<1>1. \A r \in RequestId : active_requests'[r] = IF r \in S THEN Absent ELSE active_requests[r]
  BY DEF Forget
<1>2. /\ \A p \in Providers : Members(provider_queues[p]) \subseteq RequestId
      /\ \A w \in WorkerId : Members(in_flight_requests[w]) \subseteq RequestId
  BY DEF TypeOK, Members
<1>3. QueuesSound'
  <2>1. ASSUME NEW p \in Providers, NEW r \in Members(provider_queues'[p])
        PROVE  active_requests'[r].at = "queued"
    <3>1. r \in RequestId /\ r \notin S /\ active_requests[r].at = "queued"
      BY <1>2, <2>1 DEF OnePlace, QueuesSound
    <3>. QED  BY <1>1, <3>1
  <2>2. ASSUME NEW p \in Providers, NEW q \in Providers, p # q
        PROVE  Members(provider_queues'[p]) \cap Members(provider_queues'[q]) = {}
    BY <2>2 DEF OnePlace, QueuesSound
  <2>3. \A p \in Providers : NoRepeats(provider_queues'[p])
    OBVIOUS
  <2>. QED  BY <2>1, <2>2, <2>3 DEF QueuesSound
<1>4. InFlightSound'
  BY <1>0, <1>1, <1>2, SmallSequences DEF OnePlace, InFlightSound
<1>5. NothingLost'
  <2>. SUFFICES ASSUME NEW r \in RequestId
       PROVE /\ active_requests'[r].at = "queued" =>
                  \E p \in Providers : r \in Members(provider_queues'[p])
             /\ active_requests'[r].at = "in_flight" =>
                  /\ active_requests'[r].worker \in workers'
                  /\ r \in Members(in_flight_requests'[active_requests'[r].worker])
    BY DEF NothingLost
  <2>1. CASE r \in S
    BY <2>1, <1>1 DEF Absent
  <2>2. CASE r \notin S
    <3>1. active_requests'[r] = active_requests[r]
      BY <2>2, <1>1
    <3>2. CASE active_requests[r].at = "queued"
      BY <3>1, <3>2, <2>2 DEF OnePlace, NothingLost
    <3>3. CASE active_requests[r].at = "in_flight"
      <4>1. /\ active_requests[r].worker \in workers
            /\ r \in Members(in_flight_requests[active_requests[r].worker])
        BY <3>3 DEF OnePlace, NothingLost
      <4>2. active_requests[r].worker \in WorkerId
        BY <4>1 DEF TypeOK
      <4>3. active_requests[r].worker \notin gone
        BY <4>1, <4>2, <2>2
      <4>. QED  BY <3>1, <3>3, <4>1, <4>2, <4>3, <2>2, <1>0
    <3>. QED  BY <3>1, <3>2, <3>3
  <2>. QED  BY <2>1, <2>2
<1>. QED  BY <1>3, <1>4, <1>5 DEF OnePlace

(* Worker w gets the requests of D, which were in no list of a worker, after  *)
(* those of F left its list.                                                  *)
LEMMA AssignmentKeepsPlaces ==
  ASSUME TypeOK, OnePlace, NEW w \in workers, NEW D \in SUBSET RequestId, NEW F,
         F \subseteq Members(in_flight_requests[w]),
         \A r \in D : active_requests[r].at # "in_flight",
         UNCHANGED workers,
         active_requests' = [r \in RequestId |-> IF r \in F THEN Absent
                             ELSE IF r \in D THEN InFlight(w) ELSE active_requests[r]],
         \A p \in Providers : /\ Members(provider_queues'[p]) = Members(provider_queues[p]) \ D
                              /\ NoRepeats(provider_queues'[p]),
         Members(in_flight_requests'[w]) = (Members(in_flight_requests[w]) \ F) \cup D,
         NoRepeats(in_flight_requests'[w]),
         \A v \in WorkerId : v # w => in_flight_requests'[v] = in_flight_requests[v]
  PROVE  OnePlace'
<1>1. /\ \A p \in Providers : Members(provider_queues[p]) \subseteq RequestId
      /\ \A v \in WorkerId : Members(in_flight_requests[v]) \subseteq RequestId
      /\ w \in WorkerId
  BY DEF TypeOK, Members
<1>2. \A r \in F : active_requests[r].at = "in_flight" /\ active_requests[r].worker = w
  BY <1>1 DEF OnePlace, InFlightSound
<1>3. QueuesSound'
  BY <1>1, <1>2 DEF OnePlace, QueuesSound
<1>4. InFlightSound'
  <2>. SUFFICES ASSUME NEW v \in WorkerId
       PROVE /\ NoRepeats(in_flight_requests'[v])
             /\ \A r \in Members(in_flight_requests'[v]) :
                  active_requests'[r].at = "in_flight" /\ active_requests'[r].worker = v
             /\ v \notin workers => in_flight_requests'[v] = <<>>
    BY DEF InFlightSound
  <2>1. CASE v = w
    <3>1. \A r \in D : r \notin F
      BY <1>2
    <3>. QED  BY <2>1, <3>1, <1>1 DEF OnePlace, InFlightSound, InFlight
  <2>2. CASE v # w
    <3>1. \A r \in Members(in_flight_requests[v]) : r \notin F /\ r \notin D
      BY <1>1, <1>2, <2>2 DEF OnePlace, InFlightSound
    <3>. QED  BY <2>2, <3>1, <1>1 DEF OnePlace, InFlightSound
  <2>. QED  BY <2>1, <2>2
<1>5. NothingLost'
  <2>. SUFFICES ASSUME NEW r \in RequestId
       PROVE /\ active_requests'[r].at = "queued" =>
                  \E p \in Providers : r \in Members(provider_queues'[p])
             /\ active_requests'[r].at = "in_flight" =>
                  /\ active_requests'[r].worker \in workers
                  /\ r \in Members(in_flight_requests'[active_requests'[r].worker])
    BY DEF NothingLost
  <2>1. CASE r \in F
    BY <2>1 DEF Absent
  <2>2. CASE r \in D /\ r \notin F
    BY <2>2 DEF InFlight
  <2>3. CASE r \notin D /\ r \notin F
    <3>1. active_requests'[r] = active_requests[r]
      BY <2>3
    <3>2. CASE active_requests[r].at = "in_flight"
      <4>1. /\ active_requests[r].worker \in workers
            /\ r \in Members(in_flight_requests[active_requests[r].worker])
        BY <3>2 DEF OnePlace, NothingLost
      <4>2. active_requests[r].worker \in WorkerId
        BY <4>1 DEF TypeOK
      <4>. QED  BY <3>1, <3>2, <4>1, <4>2, <2>3
    <3>3. CASE active_requests[r].at = "queued"
      BY <3>1, <3>3, <2>3 DEF OnePlace, NothingLost
    <3>. QED  BY <3>1, <3>2, <3>3
  <2>. QED  BY <2>1, <2>2, <2>3
<1>. QED  BY <1>3, <1>4, <1>5 DEF OnePlace

(* A step that draws no request id and activates none keeps ids fresh. *)
LEMMA FreshKept ==
  ASSUME FreshIds, UNCHANGED next_request_id,
         \A r \in RequestId : active_requests'[r].at = "absent" \/ active_requests[r].at # "absent"
  PROVE  FreshIds'
BY DEF FreshIds

(* Ids not drawn yet stay absent when requests are forgotten. *)
LEMMA FreshAfterForget ==
  ASSUME FreshIds, UNCHANGED next_request_id, NEW S, Forget(S)
  PROVE  FreshIds'
<1>1. \A r \in RequestId : active_requests'[r].at = "absent" \/ active_requests'[r] = active_requests[r]
  BY DEF Forget, Absent
<1>. QED  BY <1>1 DEF FreshIds

(* The loops that drain the queues move requests from the queues to w. *)
LEMMA DrainKeepsPlaces ==
  ASSUME TypeOK, OnePlace, FreshIds, NEW w \in workers, NEW ms, NEW load \in Nat,
         DrainQueues(w, ms, load), UNCHANGED <<workers, next_request_id>>
  PROVE  OnePlace' /\ FreshIds'
<1>. DEFINE flight == in_flight_requests[w]
            n == Room(w, load, flight)
<1>1. w \in WorkerId /\ flight \in Seq(RequestId)
  BY DEF TypeOK
<1>2. n \in Nat
  BY <1>1, RoomIsNat
<1>3. PICK batch \in Batches(w, ms, n) :
        /\ assign_to_worker(w, batch, load, flight)
        /\ LeaveQueues(Members(batch))
        /\ active_requests' = [r \in RequestId |->
             IF r \in Members(batch) THEN InFlight(w) ELSE active_requests[r]]
  BY DEF DrainQueues
<1>. DEFINE D == Members(batch)
<1>. HIDE DEF n
<1>4. batch \in Seq(RequestId) /\ D \subseteq QueuedRequests /\ NoRepeats(batch)
  BY <1>2, BatchProperties
<1>5. D \in SUBSET RequestId /\ \A r \in D : active_requests[r].at = "queued"
  BY <1>4 DEF QueuedRequests
<1>6. \A p \in Providers : /\ Members(provider_queues'[p]) = Members(provider_queues[p]) \ D
                           /\ NoRepeats(provider_queues'[p])
  BY <1>3, WithoutProperties DEF LeaveQueues, TypeOK, OnePlace, QueuesSound
<1>7. Members(flight) \cap D = {} /\ NoRepeats(flight)
  BY <1>1, <1>5 DEF OnePlace, InFlightSound
<1>8. /\ in_flight_requests'[w] = flight \o batch
      /\ \A v \in WorkerId : v # w => in_flight_requests'[v] = in_flight_requests[v]
  BY <1>1, <1>3 DEF assign_to_worker, TypeOK
<1>9. Members(flight \o batch) = (Members(flight) \ {}) \cup D /\ NoRepeats(flight \o batch)
  <2>. HIDE DEF flight
  <2>. QED  BY <1>1, <1>4, <1>7, JoinProperties
<1>10. active_requests' = [r \in RequestId |-> IF r \in {} THEN Absent
                           ELSE IF r \in D THEN InFlight(w) ELSE active_requests[r]]
  BY <1>3
<1>11. OnePlace'
  <2>1. /\ Members(in_flight_requests'[w]) = (Members(in_flight_requests[w]) \ {}) \cup D
        /\ NoRepeats(in_flight_requests'[w])
        /\ \A r \in D : active_requests[r].at # "in_flight"
        /\ {} \subseteq Members(in_flight_requests[w])
    BY <1>5, <1>8, <1>9
  <2>. DEFINE F == {}
  <2>. HIDE DEF D, F
  <2>. SUFFICES /\ F \subseteq Members(in_flight_requests[w])
                /\ Members(in_flight_requests'[w]) = (Members(in_flight_requests[w]) \ F) \cup D
                /\ active_requests' = [r \in RequestId |-> IF r \in F THEN Absent
                     ELSE IF r \in D THEN InFlight(w) ELSE active_requests[r]]
    BY <1>5, <1>6, <1>8, <2>1, AssignmentKeepsPlaces
  <2>. QED  BY <2>1, <1>10 DEF F
<1>12. FreshIds'
  BY <1>3, <1>5, FreshKept
<1>. QED  BY <1>11, <1>12

(* The requests of workers that are removed, and of no other worker. *)
LEMMA GoneInFlight ==
  ASSUME TypeOK, OnePlace, NEW gone \in SUBSET workers, NEW w \in WorkerId
  PROVE  /\ w \in gone => Members(in_flight_requests[w]) \subseteq InFlightOf(gone)
         /\ w \notin gone => Members(in_flight_requests[w]) \cap InFlightOf(gone) = {}
<1>1. \A v \in WorkerId : Members(in_flight_requests[v]) \subseteq RequestId
  BY DEF TypeOK, Members
<1>2. gone \subseteq WorkerId
  BY DEF TypeOK
<1>. QED  BY <1>1, <1>2 DEF InFlightOf, OnePlace, InFlightSound

(* At the start every list is empty and every request absent. *)
LEMMA PlaceInit == Init => PlaceInv
<1>. SUFFICES ASSUME Init PROVE PlaceInv
  OBVIOUS
<1>1. \A r \in RequestId : active_requests[r].at = "absent"
  BY DEF Init, Absent
<1>2. /\ \A p \in Providers : provider_queues[p] = <<>>
      /\ \A w \in WorkerId : in_flight_requests[w] = <<>>
  BY DEF Init
<1>3. QueuesSound
  BY <1>2, SmallSequences DEF QueuesSound
<1>4. InFlightSound
  BY <1>2, SmallSequences DEF InFlightSound
<1>5. NothingLost /\ FreshIds
  BY <1>1 DEF NothingLost, FreshIds
<1>. QED  BY <1>3, <1>4, <1>5, TypeInit DEF PlaceInv, OnePlace

(* Every action keeps the active requests in their places. *)
LEMMA PlaceStep == PlaceInv /\ [Next]_vars => OnePlace' /\ FreshIds'
<1>. SUFFICES ASSUME TypeOK, OnePlace, FreshIds, [Next]_vars PROVE OnePlace' /\ FreshIds'
  BY DEF PlaceInv
<1>. DEFINE Untouched == UNCHANGED <<active_requests, provider_queues, in_flight_requests,
                                     workers, next_request_id>>
<1>0. ASSUME Untouched PROVE OnePlace' /\ FreshIds'
  BY <1>0, UntouchedPlaces DEF FreshIds
<1>b. /\ \A q \in Providers : Members(provider_queues[q]) \subseteq RequestId
      /\ \A w \in WorkerId : Members(in_flight_requests[w]) \subseteq RequestId
  BY DEF TypeOK, Members
<1>1. ASSUME NEW reg \in Registrations, RegisterWorker(reg) PROVE OnePlace' /\ FreshIds'
  <2>1. /\ UNCHANGED <<active_requests, provider_queues, in_flight_requests, next_request_id>>
        /\ workers \subseteq workers'
    BY <1>1 DEF RegisterWorker
  <2>. QED  BY <2>1 DEF OnePlace, QueuesSound, InFlightSound, NothingLost, FreshIds
<1>2. ASSUME NEW sub \in Submissions, SubmitDispatched(sub) PROVE OnePlace' /\ FreshIds'
  <2>. DEFINE n == next_request_id
  <2>1. PICK sel \in find_eligible_worker_id(sub) :
          /\ assign_to_worker(sel.worker, <<n>>, reported_load[sel.worker],
                              in_flight_requests[sel.worker])
          /\ active_requests' = [active_requests EXCEPT ![n] = InFlight(sel.worker)]
    BY <1>2 DEF SubmitDispatched
  <2>. DEFINE w == sel.worker
              F == {}
              D == {n}
  <2>2. n \in RequestId /\ n' = n + 1
    BY <1>2 DEF SubmitDispatched, TypeOK, RequestId
  <2>3. w \in workers /\ w \in WorkerId
    BY SelectionProperties DEF TypeOK
  <2>4. active_requests[n].at = "absent"
    BY <2>2 DEF FreshIds, RequestId
  <2>5. n \notin Members(in_flight_requests[w]) /\ \A p \in Providers : n \notin Members(provider_queues[p])
    BY <2>3, <2>4 DEF OnePlace, InFlightSound, QueuesSound
  <2>6. /\ in_flight_requests'[w] = in_flight_requests[w] \o <<n>>
        /\ \A v \in WorkerId : v # w => in_flight_requests'[v] = in_flight_requests[v]
    BY <2>1, <2>3 DEF assign_to_worker, TypeOK
  <2>7. /\ Members(in_flight_requests'[w]) = Members(in_flight_requests[w]) \cup D
        /\ NoRepeats(in_flight_requests'[w])
    <3>1. in_flight_requests[w] \in Seq(RequestId) /\ NoRepeats(in_flight_requests[w])
      BY <2>3 DEF TypeOK, OnePlace, InFlightSound
    <3>. QED  BY <3>1, <2>2, <2>5, <2>6, AddedLast
  <2>8. active_requests' = [r \in RequestId |-> IF r \in F THEN Absent
                            ELSE IF r \in D THEN InFlight(w) ELSE active_requests[r]]
    BY <2>1, <2>2 DEF TypeOK
  <2>9. \A p \in Providers : /\ Members(provider_queues'[p]) = Members(provider_queues[p]) \ D
                             /\ NoRepeats(provider_queues'[p])
    BY <1>2, <2>5 DEF SubmitDispatched, OnePlace, QueuesSound
  <2>10. FreshIds'
    BY <2>1, <2>2 DEF FreshIds, TypeOK, RequestId
  <2>11. /\ UNCHANGED workers /\ D \in SUBSET RequestId /\ F \subseteq Members(in_flight_requests[w])
         /\ \A r \in D : active_requests[r].at # "in_flight"
         /\ Members(in_flight_requests'[w]) = (Members(in_flight_requests[w]) \ F) \cup D
    BY <1>2, <2>2, <2>4, <2>7 DEF SubmitDispatched
  <2>12. OnePlace'
    <3>. HIDE DEF D, F, w
    <3>. QED  BY <2>3, <2>6, <2>7, <2>8, <2>9, <2>11, AssignmentKeepsPlaces
  <2>. QED  BY <2>10, <2>12
<1>3. ASSUME NEW sub \in Submissions, SubmitQueued(sub) PROVE OnePlace' /\ FreshIds'
  <2>. DEFINE n == next_request_id
              p == sub.provider
  <2>1. n \in RequestId /\ n' = n + 1
    BY <1>3 DEF SubmitQueued, TypeOK, RequestId
  <2>2. p \in Providers /\ provider_queues[p] \in Seq(RequestId)
    BY InputsAssumption DEF TypeOK
  <2>3. active_requests[n].at = "absent"
    BY <2>1 DEF FreshIds, RequestId
  <2>4. \A q \in Providers : n \notin Members(provider_queues[q])
    BY <2>3 DEF OnePlace, QueuesSound
  <2>5. \A w \in WorkerId : n \notin Members(in_flight_requests[w])
    BY <2>3 DEF OnePlace, InFlightSound
  <2>6. /\ Members(Append(provider_queues[p], n)) = Members(provider_queues[p]) \cup {n}
        /\ NoRepeats(Append(provider_queues[p], n))
    <3>1. NoRepeats(provider_queues[p]) /\ n \notin Members(provider_queues[p])
      BY <2>2, <2>4 DEF OnePlace, QueuesSound
    <3>. DEFINE s == provider_queues[p]
    <3>2. n \in RequestId /\ s \in Seq(RequestId) /\ NoRepeats(s) /\ n \notin Members(s)
      BY <3>1, <2>1, <2>2
    <3>. HIDE DEF s, n
    <3>3. /\ Append(s, n) = s \o <<n>>
          /\ Members(s \o <<n>>) = Members(s) \cup {n}
          /\ NoRepeats(s \o <<n>>)
      BY <3>2, AddedLast
    <3>. QED  BY <3>3 DEF s
  <2>7. /\ provider_queues'[p] = Append(provider_queues[p], n)
        /\ \A q \in Providers : q # p => provider_queues'[q] = provider_queues[q]
        /\ active_requests' = [r \in RequestId |-> IF r = n THEN Queued ELSE active_requests[r]]
        /\ UNCHANGED <<in_flight_requests, workers>>
    BY <1>3, <2>1, <2>2 DEF SubmitQueued, TypeOK
  <2>. HIDE DEF p
  <2>9. QueuesSound'
    <3>1. \A q \in Providers : /\ NoRepeats(provider_queues'[q])
                               /\ Members(provider_queues'[q]) =
                                    Members(provider_queues[q]) \cup {r \in {n} : q = p}
      BY <2>6, <2>7 DEF OnePlace, QueuesSound
    <3>2. \A q \in Providers : \A r \in Members(provider_queues'[q]) :
            active_requests'[r].at = "queued"
      BY <3>1, <2>1, <2>7, <1>b DEF OnePlace, QueuesSound, Queued
    <3>3. \A q1, q2 \in Providers :
            q1 # q2 => Members(provider_queues'[q1]) \cap Members(provider_queues'[q2]) = {}
      BY <3>1, <2>4 DEF OnePlace, QueuesSound
    <3>. QED  BY <3>1, <3>2, <3>3 DEF QueuesSound
  <2>10. InFlightSound'
    BY <2>5, <2>7, <1>b DEF OnePlace, InFlightSound
  <2>11. NothingLost'
    BY <2>1, <2>2, <2>4, <2>6, <2>7 DEF OnePlace, NothingLost, Queued
  <2>12. FreshIds'
    BY <2>1, <2>7 DEF FreshIds, TypeOK, RequestId
  <2>. QED  BY <2>9, <2>10, <2>11, <2>12 DEF OnePlace
<1>4. ASSUME NEW sub \in Submissions, SubmitRejected(sub) PROVE OnePlace' /\ FreshIds'
  <2>1. UNCHANGED <<active_requests, provider_queues, in_flight_requests, workers>>
    BY <1>4 DEF SubmitRejected
  <2>2. next_request_id' = next_request_id + 1
    BY <1>4 DEF SubmitRejected
  <2>. QED  BY <2>1, <2>2, UntouchedPlaces DEF FreshIds, TypeOK, RequestId
<1>5. ASSUME NEW r \in RequestId, CancelQueued(r) PROVE OnePlace' /\ FreshIds'
  <2>. DEFINE p == request[r].provider
  <2>1. CASE r \notin Members(provider_queues[p])
    BY <1>0, <1>5, <2>1 DEF CancelQueued
  <2>2. CASE r \in Members(provider_queues[p])
    <3>1. /\ provider_queues' = [provider_queues EXCEPT ![p] = Without(@, {r})]
          /\ Forget({r}) /\ UNCHANGED <<in_flight_requests, workers, next_request_id>>
          /\ active_requests[r].at = "queued"
      BY <1>5, <2>2 DEF CancelQueued
    <3>2. p \in Providers
      BY InputsAssumption DEF TypeOK
    <3>3. /\ Members(Without(provider_queues[p], {r})) = Members(provider_queues[p]) \ {r}
          /\ NoRepeats(Without(provider_queues[p], {r}))
      BY <3>2, WithoutProperties DEF TypeOK, OnePlace, QueuesSound
    <3>4. \A q \in Providers : q # p => r \notin Members(provider_queues[q])
      BY <2>2, <3>2 DEF OnePlace, QueuesSound
    <3>5. \A q \in Providers : /\ Members(provider_queues'[q]) = Members(provider_queues[q]) \ {r}
                               /\ NoRepeats(provider_queues'[q])
      <4>. HIDE DEF p
      <4>. QED  BY <3>1, <3>2, <3>3, <3>4, ZenonT(30) DEF TypeOK, OnePlace, QueuesSound
    <3>6. \A w \in WorkerId : Members(in_flight_requests[w]) \cap {r} = {}
      BY <3>1 DEF OnePlace, InFlightSound
    <3>. DEFINE gone == {}
    <3>7. /\ workers' = workers \ gone
          /\ \A w \in WorkerId : IF w \in gone
               THEN in_flight_requests'[w] = <<>> /\ Members(in_flight_requests[w]) \subseteq {r}
               ELSE in_flight_requests'[w] = in_flight_requests[w] /\ Members(in_flight_requests[w]) \cap {r} = {}
      BY <3>1, <3>6
    <3>8. OnePlace'
      <4>. HIDE DEF gone
      <4>. QED  BY <3>1, <3>5, <3>7, RemovalKeepsPlaces
    <3>. QED  BY <3>1, <3>8, FreshAfterForget
  <2>. QED  BY <2>1, <2>2
<1>6. ASSUME NEW r \in RequestId, NEW reason \in CancelReason, CancelInFlight(r, reason)
      PROVE  OnePlace' /\ FreshIds'
  <2>1. CASE active_requests[r].cancellation # "none"
    BY <1>0, <1>6, <2>1 DEF CancelInFlight
  <2>2. CASE active_requests[r].cancellation = "none"
    <3>1. active_requests[r] \in [at : {"in_flight"}, worker : WorkerId,
                                  cancellation : CancelReason \cup {"none"}]
      BY <1>6 DEF TypeOK, CancelInFlight, ActiveRequestState, Absent, Queued
    <3>2. \A q \in RequestId : /\ active_requests'[q].at = active_requests[q].at
                               /\ active_requests'[q].worker = active_requests[q].worker
      <4>1. active_requests' = [active_requests EXCEPT ![r].cancellation = reason]
        BY <1>6, <2>2 DEF CancelInFlight
      <4>2. /\ active_requests'[r] = [active_requests[r] EXCEPT !.cancellation = reason]
            /\ \A q \in RequestId : q # r => active_requests'[q] = active_requests[q]
        BY <4>1 DEF TypeOK
      <4>3. active_requests'[r].at = active_requests[r].at /\ active_requests'[r].worker = active_requests[r].worker
        BY <4>2, <3>1
      <4>. QED  BY <4>2, <4>3
    <3>3. UNCHANGED <<provider_queues, in_flight_requests, workers, next_request_id>>
      BY <1>6 DEF CancelInFlight
    <3>5. QueuesSound'
      BY <3>2, <3>3, <1>b DEF OnePlace, QueuesSound
    <3>6. InFlightSound'
      BY <3>2, <3>3, <1>b DEF OnePlace, InFlightSound
    <3>7. NothingLost' /\ FreshIds'
      BY <3>2, <3>3 DEF OnePlace, NothingLost, FreshIds
    <3>. QED  BY <3>5, <3>6, <3>7 DEF OnePlace
  <2>. QED  BY <2>1, <2>2
<1>7. ASSUME NEW w \in WorkerId, NEW raw \in Updates, NEW load \in Loads,
             UpdateWorkerModels(w, raw, load)
      PROVE  OnePlace' /\ FreshIds'
  <2>1. /\ w \in workers /\ load \in Nat /\ DrainQueues(w, sanitize_models(raw), load)
        /\ UNCHANGED <<workers, next_request_id>>
    BY <1>7, InputsAssumption DEF UpdateWorkerModels
  <2>. QED  BY <2>1, DrainKeepsPlaces
<1>8. ASSUME NEW w \in WorkerId, NEW load \in Loads, RecordWorkerPong(w, load)
      PROVE  OnePlace' /\ FreshIds'
  <2>1. /\ w \in workers /\ load \in Nat /\ DrainQueues(w, models[w], load)
        /\ UNCHANGED <<workers, next_request_id>>
    BY <1>8, InputsAssumption DEF RecordWorkerPong
  <2>. QED  BY <2>1, DrainKeepsPlaces
<1>9. ASSUME NEW w \in WorkerId, NEW r \in RequestId, StreamHttpResponseChunk(w, r)
      PROVE  OnePlace' /\ FreshIds'
  BY <1>0, <1>9 DEF StreamHttpResponseChunk
<1>10. ASSUME NEW w \in WorkerId, NEW r \in RequestId, FinishRequest(w, r)
       PROVE  OnePlace' /\ FreshIds'
  <2>. DEFINE flight == Without(in_flight_requests[w], {r})
              load   == saturating_sub(reported_load[w], 1)
              room   == IF Room(w, load, flight) > 0 THEN 1 ELSE 0
              F      == {r}
  <2>1. /\ w \in workers /\ r \in Members(in_flight_requests[w])
        /\ UNCHANGED <<workers, next_request_id>>
    BY <1>10 DEF FinishRequest
  <2>2. PICK batch \in Batches(w, models[w], room) :
          /\ assign_to_worker(w, batch, load, flight)
          /\ LeaveQueues(Members(batch))
          /\ active_requests' = [q \in RequestId |-> IF q = r THEN Absent
                                 ELSE IF q \in Members(batch) THEN InFlight(w)
                                 ELSE active_requests[q]]
    BY <1>10 DEF FinishRequest
  <2>. DEFINE D == Members(batch)
  <2>3. room \in Nat
    OBVIOUS
  <2>. HIDE DEF room, load
  <2>4. batch \in Seq(RequestId) /\ D \subseteq QueuedRequests /\ NoRepeats(batch)
    BY <2>3, BatchProperties
  <2>5. D \in SUBSET RequestId /\ \A q \in D : active_requests[q].at = "queued"
    BY <2>4 DEF QueuedRequests
  <2>6. /\ flight \in Seq(RequestId) /\ NoRepeats(flight)
        /\ Members(flight) = Members(in_flight_requests[w]) \ F
    BY WithoutProperties DEF TypeOK, OnePlace, InFlightSound
  <2>7. Members(flight) \cap D = {}
    BY <2>5, <2>6 DEF OnePlace, InFlightSound
  <2>8. /\ in_flight_requests'[w] = flight \o batch
        /\ \A v \in WorkerId : v # w => in_flight_requests'[v] = in_flight_requests[v]
    BY <2>2 DEF assign_to_worker, TypeOK
  <2>9. Members(flight \o batch) = Members(flight) \cup D /\ NoRepeats(flight \o batch)
    <3>. HIDE DEF flight
    <3>. QED  BY <2>4, <2>6, <2>7, JoinProperties
  <2>10. \A p \in Providers : /\ Members(provider_queues'[p]) = Members(provider_queues[p]) \ D
                              /\ NoRepeats(provider_queues'[p])
    BY <2>2, WithoutProperties DEF LeaveQueues, TypeOK, OnePlace, QueuesSound
  <2>11. active_requests' = [q \in RequestId |-> IF q \in F THEN Absent
                             ELSE IF q \in D THEN InFlight(w) ELSE active_requests[q]]
    BY <2>2
  <2>12. /\ F \subseteq Members(in_flight_requests[w])
         /\ \A q \in D : active_requests[q].at # "in_flight"
         /\ Members(in_flight_requests'[w]) = (Members(in_flight_requests[w]) \ F) \cup D
         /\ NoRepeats(in_flight_requests'[w])
    BY <2>1, <2>5, <2>6, <2>8, <2>9
  <2>13. OnePlace'
    <3>. HIDE DEF D, F, flight
    <3>. QED  BY <2>1, <2>5, <2>8, <2>10, <2>11, <2>12, AssignmentKeepsPlaces
  <2>14. FreshIds'
    <3>1. \A q \in RequestId : active_requests'[q].at = "absent" \/ active_requests[q].at # "absent"
      BY <2>2, <2>5 DEF Absent
    <3>. QED  BY <3>1, <2>1, FreshKept
  <2>. QED  BY <2>13, <2>14
<1>11. ASSUME NEW w \in WorkerId, NEW r \in RequestId, FinishDrain(w, r)
       PROVE  OnePlace' /\ FreshIds'
  <2>. DEFINE gone == {w}
              S == {r}
  <2>1. /\ Forget(S) /\ remove_workers(gone) /\ ClearLists(gone)
        /\ UNCHANGED <<provider_queues, next_request_id>>
        /\ r \in Members(in_flight_requests[w]) /\ Without(in_flight_requests[w], {r}) = <<>>
    BY <1>11 DEF FinishDrain
  <2>2. Members(in_flight_requests[w]) \subseteq {r}
    <3>1. in_flight_requests[w] \in Seq(RequestId)
      BY DEF TypeOK
    <3>2. Members(Without(in_flight_requests[w], {r})) = Members(in_flight_requests[w]) \ {r}
      BY <3>1, WithoutProperties
    <3>3. Members(<<>>) = {}
      BY SmallSequences
    <3>. QED  BY <2>1, <3>2, <3>3
  <2>3. active_requests[r].at = "in_flight" /\ active_requests[r].worker = w
    BY <2>1 DEF OnePlace, InFlightSound
  <2>4. \A p \in Providers : /\ Members(provider_queues'[p]) = Members(provider_queues[p]) \ S
                             /\ NoRepeats(provider_queues'[p])
    BY <2>1, <2>3 DEF OnePlace, QueuesSound
  <2>5. \A v \in WorkerId : v # w => Members(in_flight_requests[v]) \cap S = {}
    BY <2>3 DEF OnePlace, InFlightSound
  <2>6. /\ workers' = workers \ gone
        /\ \A v \in WorkerId : IF v \in gone
             THEN in_flight_requests'[v] = <<>> /\ Members(in_flight_requests[v]) \subseteq S
             ELSE in_flight_requests'[v] = in_flight_requests[v] /\ Members(in_flight_requests[v]) \cap S = {}
    BY <2>1, <2>2, <2>5 DEF remove_workers, ClearLists
  <2>7. OnePlace'
    <3>. HIDE DEF gone, S
    <3>. QED  BY <2>1, <2>4, <2>6, RemovalKeepsPlaces
  <2>. QED  BY <2>1, <2>7, FreshAfterForget
<1>12. ASSUME NEW w \in WorkerId, NEW r \in RequestId, LateResponse(w, r)
       PROVE  OnePlace' /\ FreshIds'
  BY <1>0, <1>12 DEF LateResponse
<1>13. ASSUME NEW w \in WorkerId, TakePendingWorkerRequests(w) PROVE OnePlace' /\ FreshIds'
  BY <1>0, <1>13 DEF TakePendingWorkerRequests
<1>14. ASSUME NEW w \in WorkerId, TakePendingWorkerCancelSignals(w)
       PROVE  OnePlace' /\ FreshIds'
  BY <1>0, <1>14 DEF TakePendingWorkerCancelSignals
<1>15. ASSUME NEW w \in WorkerId, TakePendingWorkerGracefulShutdownSignals(w)
       PROVE  OnePlace' /\ FreshIds'
  BY <1>0, <1>15 DEF TakePendingWorkerGracefulShutdownSignals
<1>16. ASSUME NEW w \in WorkerId, RequestWorkerModelsRefresh(w) PROVE OnePlace' /\ FreshIds'
  BY <1>0, <1>16 DEF RequestWorkerModelsRefresh
<1>17. ASSUME NEW w \in WorkerId, TakePendingWorkerModelsRefreshSignals(w)
       PROVE  OnePlace' /\ FreshIds'
  BY <1>0, <1>17 DEF TakePendingWorkerModelsRefreshSignals
<1>18. ASSUME NEW w \in WorkerId, DisconnectWorker(w) PROVE OnePlace' /\ FreshIds'
  <2>. DEFINE lost     == Members(in_flight_requests[w])
              canceled == {r \in lost : WasCanceled(r)}
              worn     == {r \in lost \ canceled : RequeuesExhausted(r)}
              failed   == canceled \cup worn
              back     == Without(in_flight_requests[w], failed)
              p        == profile[w].provider
  <2>1. /\ w \in workers /\ UNCHANGED next_request_id
        /\ provider_queues' = [provider_queues EXCEPT ![p] = back \o @]
        /\ active_requests' = [r \in RequestId |-> IF r \in failed THEN Absent
                                                   ELSE IF r \in lost THEN Queued
                                                   ELSE active_requests[r]]
        /\ workers' = workers \ {w}
        /\ in_flight_requests' = [v \in WorkerId |-> IF v \in {w} THEN <<>>
                                                     ELSE in_flight_requests[v]]
    BY <1>18 DEF DisconnectWorker, remove_workers, ClearLists
  <2>2. p \in Providers /\ failed \subseteq lost
    BY <2>1 DEF TypeOK
  <2>. HIDE DEF failed, p
  <2>3. /\ back \in Seq(RequestId) /\ NoRepeats(back) /\ Members(back) = lost \ failed
    <3>1. in_flight_requests[w] \in Seq(RequestId) /\ NoRepeats(in_flight_requests[w])
      BY DEF TypeOK, OnePlace, InFlightSound
    <3>. QED  BY <3>1, WithoutProperties
  <2>4. \A r \in lost : active_requests[r].at = "in_flight" /\ active_requests[r].worker = w
    BY DEF OnePlace, InFlightSound
  <2>5. \A q \in Providers : Members(provider_queues[q]) \cap lost = {}
    BY <2>4 DEF OnePlace, QueuesSound
  <2>6. \A v \in WorkerId : v # w => Members(in_flight_requests[v]) \cap lost = {}
    BY <2>4 DEF OnePlace, InFlightSound
  <2>. HIDE DEF back, lost
  <2>7. /\ Members(back \o provider_queues[p]) = (lost \ failed) \cup Members(provider_queues[p])
        /\ NoRepeats(back \o provider_queues[p])
    <3>. DEFINE t == provider_queues[p]
    <3>1. t \in Seq(RequestId) /\ NoRepeats(t) /\ Members(back) \cap Members(t) = {}
      BY <2>2, <2>3, <2>5 DEF TypeOK, OnePlace, QueuesSound
    <3>. HIDE DEF t
    <3>2. Members(back \o t) = Members(back) \cup Members(t) /\ NoRepeats(back \o t)
      BY <2>3, <3>1, JoinProperties
    <3>. QED  BY <2>3, <3>2 DEF t
  <2>8. \A q \in Providers :
          /\ NoRepeats(provider_queues'[q])
          /\ Members(provider_queues'[q]) =
               Members(provider_queues[q]) \cup (IF q = p THEN lost \ failed ELSE {})
    BY <2>1, <2>2, <2>7 DEF TypeOK, OnePlace, QueuesSound
  <2>9. QueuesSound'
    <3>1. \A q \in Providers : \A r \in Members(provider_queues'[q]) :
            active_requests'[r].at = "queued"
      <4>. SUFFICES ASSUME NEW q \in Providers, NEW r \in Members(provider_queues'[q])
                    PROVE  active_requests'[r].at = "queued"
        OBVIOUS
      <4>1. CASE r \in Members(provider_queues[q])
        <5>1. r \in RequestId /\ active_requests[r].at = "queued" /\ r \notin lost
          BY <4>1, <2>5, <1>b DEF OnePlace, QueuesSound
        <5>. QED  BY <5>1, <2>1, <2>2
      <4>2. CASE r \in lost \ failed
        <5>1. r \in RequestId
          BY <4>2, <1>b DEF lost
        <5>. QED  BY <4>2, <5>1, <2>1 DEF Queued
      <4>. QED  BY <4>1, <4>2, <2>8
    <3>2. \A q1, q2 \in Providers :
            q1 # q2 => Members(provider_queues'[q1]) \cap Members(provider_queues'[q2]) = {}
      BY <2>5, <2>8 DEF OnePlace, QueuesSound
    <3>. QED  BY <3>1, <3>2, <2>8 DEF QueuesSound
  <2>10. InFlightSound'
    <3>1. ASSUME NEW v \in WorkerId, v # w
          PROVE  \A r \in Members(in_flight_requests[v]) : active_requests'[r] = active_requests[r]
      BY <3>1, <2>1, <2>2, <2>6, <1>b
    <3>2. in_flight_requests'[w] = <<>>
          /\ \A v \in WorkerId : v # w => in_flight_requests'[v] = in_flight_requests[v]
      BY <2>1
    <3>. SUFFICES ASSUME NEW v \in WorkerId
         PROVE /\ NoRepeats(in_flight_requests'[v])
               /\ \A r \in Members(in_flight_requests'[v]) :
                    active_requests'[r].at = "in_flight" /\ active_requests'[r].worker = v
               /\ v \notin workers' => in_flight_requests'[v] = <<>>
      BY DEF InFlightSound
    <3>3. CASE v = w
      BY <3>2, <3>3, SmallSequences
    <3>4. CASE v # w
      <4>1. in_flight_requests'[v] = in_flight_requests[v] /\ (v \notin workers' => v \notin workers)
        BY <3>2, <3>4, <2>1
      <4>. QED  BY <3>1, <3>4, <4>1 DEF OnePlace, InFlightSound
    <3>. QED  BY <3>3, <3>4
  <2>11. NothingLost'
    <3>. SUFFICES ASSUME NEW r \in RequestId
         PROVE /\ active_requests'[r].at = "queued" =>
                    \E q \in Providers : r \in Members(provider_queues'[q])
               /\ active_requests'[r].at = "in_flight" =>
                    /\ active_requests'[r].worker \in workers'
                    /\ r \in Members(in_flight_requests'[active_requests'[r].worker])
      BY DEF NothingLost
    <3>1. CASE r \in failed
      BY <3>1, <2>1 DEF Absent
    <3>2. CASE r \in lost \ failed
      BY <3>2, <2>1, <2>2, <2>8 DEF Queued
    <3>3. CASE r \notin lost
      <4>1. active_requests'[r] = active_requests[r]
        BY <3>3, <2>1, <2>2
      <4>2. CASE active_requests[r].at = "queued"
        BY <4>1, <4>2, <2>8 DEF OnePlace, NothingLost
      <4>3. CASE active_requests[r].at = "in_flight"
        <5>1. /\ active_requests[r].worker \in workers
              /\ r \in Members(in_flight_requests[active_requests[r].worker])
          BY <4>3 DEF OnePlace, NothingLost
        <5>2. active_requests[r].worker \in WorkerId /\ active_requests[r].worker # w
          BY <5>1, <3>3 DEF TypeOK, lost
        <5>. QED  BY <4>1, <4>3, <5>1, <5>2, <2>1
      <4>. QED  BY <4>1, <4>2, <4>3
    <3>. QED  BY <3>1, <3>2, <3>3
  <2>12. FreshIds'
    <3>1. \A r \in RequestId : active_requests'[r].at = "absent" \/ active_requests[r].at # "absent"
      BY <2>1, <2>4 DEF Absent
    <3>. QED  BY <3>1, <2>1, FreshKept
  <2>. QED  BY <2>9, <2>10, <2>11, <2>12 DEF OnePlace
<1>19. ASSUME NEW w \in WorkerId, LoseRemovedSocket(w) PROVE OnePlace' /\ FreshIds'
  BY <1>0, <1>19 DEF LoseRemovedSocket
<1>20. ASSUME NEW w \in WorkerId, GracefulShutdownCloseAction(w) PROVE OnePlace' /\ FreshIds'
  <2>. DEFINE expired == ExpiringWorkers
              idle    == /\ w \in workers \ expired
                         /\ is_draining(w) /\ in_flight_requests[w] = <<>>
              gone    == expired \cup {v \in {w} : idle}
              S       == InFlightOf(expired)
  <2>1. /\ Forget(S) /\ remove_workers(gone) /\ ClearLists(gone)
        /\ UNCHANGED <<provider_queues, next_request_id>>
    BY <1>20 DEF GracefulShutdownCloseAction
  <2>2. /\ expired \in SUBSET workers
        /\ \A v \in gone : v \in expired \/ in_flight_requests[v] = <<>>
        /\ expired \subseteq gone
    BY DEF ExpiringWorkers
  <2>. HIDE DEF expired, gone
  <2>3. \A v \in WorkerId :
          /\ v \in expired => Members(in_flight_requests[v]) \subseteq S
          /\ v \notin expired => Members(in_flight_requests[v]) \cap S = {}
    BY <2>2, GoneInFlight
  <2>4. \A r \in S : active_requests[r].at = "in_flight"
    BY <2>2 DEF InFlightOf, OnePlace, InFlightSound, TypeOK
  <2>5. \A q \in Providers : /\ Members(provider_queues'[q]) = Members(provider_queues[q]) \ S
                             /\ NoRepeats(provider_queues'[q])
    BY <2>1, <2>4 DEF OnePlace, QueuesSound
  <2>6. /\ workers' = workers \ gone
        /\ \A v \in WorkerId : IF v \in gone
             THEN in_flight_requests'[v] = <<>> /\ Members(in_flight_requests[v]) \subseteq S
             ELSE in_flight_requests'[v] = in_flight_requests[v] /\ Members(in_flight_requests[v]) \cap S = {}
    BY <2>1, <2>2, <2>3, SmallSequences DEF remove_workers, ClearLists
  <2>7. OnePlace'
    <3>. HIDE DEF S
    <3>. QED  BY <2>1, <2>5, <2>6, RemovalKeepsPlaces
  <2>. QED  BY <2>1, <2>7, FreshAfterForget
<1>21. ASSUME BeginGracefulShutdown PROVE OnePlace' /\ FreshIds'
  BY <1>0, <1>21 DEF BeginGracefulShutdown
<1>22. ASSUME NEW p \in Providers, DeleteProvider(p) PROVE OnePlace' /\ FreshIds'
  <2>. DEFINE gone == {w \in workers : profile[w].provider = p}
              S == Members(provider_queues[p]) \cup InFlightOf(gone)
  <2>1. /\ Forget(S) /\ remove_workers(gone) /\ ClearLists(gone)
        /\ provider_queues' = [provider_queues EXCEPT ![p] = <<>>]
        /\ UNCHANGED next_request_id
    BY <1>22 DEF DeleteProvider
  <2>2. gone \in SUBSET workers
    OBVIOUS
  <2>. HIDE DEF gone
  <2>3. \A v \in WorkerId :
          /\ v \in gone => Members(in_flight_requests[v]) \subseteq InFlightOf(gone)
          /\ v \notin gone => Members(in_flight_requests[v]) \cap InFlightOf(gone) = {}
    BY <2>2, GoneInFlight
  <2>4. \A r \in InFlightOf(gone) : active_requests[r].at = "in_flight"
    BY <2>2 DEF InFlightOf, OnePlace, InFlightSound, TypeOK
  <2>5. \A v \in WorkerId : Members(in_flight_requests[v]) \cap Members(provider_queues[p]) = {}
    BY DEF OnePlace, QueuesSound, InFlightSound
  <2>6. \A q \in Providers : /\ Members(provider_queues'[q]) = Members(provider_queues[q]) \ S
                             /\ NoRepeats(provider_queues'[q])
    <3>. SUFFICES ASSUME NEW q \in Providers
                  PROVE /\ Members(provider_queues'[q]) = Members(provider_queues[q]) \ S
                        /\ NoRepeats(provider_queues'[q])
      OBVIOUS
    <3>1. Members(provider_queues[q]) \cap InFlightOf(gone) = {}
      BY <2>4 DEF OnePlace, QueuesSound
    <3>2. CASE q = p
      BY <3>2, <2>1, SmallSequences DEF TypeOK
    <3>3. CASE q # p
      BY <3>1, <3>3, <2>1 DEF TypeOK, OnePlace, QueuesSound
    <3>. QED  BY <3>2, <3>3
  <2>7. /\ workers' = workers \ gone
        /\ \A v \in WorkerId : IF v \in gone
             THEN in_flight_requests'[v] = <<>> /\ Members(in_flight_requests[v]) \subseteq S
             ELSE in_flight_requests'[v] = in_flight_requests[v] /\ Members(in_flight_requests[v]) \cap S = {}
    BY <2>1, <2>3, <2>5 DEF remove_workers, ClearLists
  <2>8. OnePlace'
    <3>. HIDE DEF S
    <3>. QED  BY <2>1, <2>6, <2>7, RemovalKeepsPlaces
  <2>. QED  BY <2>1, <2>8, FreshAfterForget
<1>23. ASSUME QueueTimeoutPasses PROVE OnePlace' /\ FreshIds'
  BY <1>0, <1>23 DEF QueueTimeoutPasses
<1>24. ASSUME NEW k \in 1..MaxShutdowns, DrainDeadlinePasses(k) PROVE OnePlace' /\ FreshIds'
  BY <1>0, <1>24 DEF DrainDeadlinePasses
<1>25. ASSUME ExpireQueueTimeouts PROVE OnePlace' /\ FreshIds'
  <2>. DEFINE S == {r \in RequestId : \E p \in Providers :
                      r \in Members(provider_queues[p]) /\ TimedOut(p, r)}
              late(q) == {r \in Members(provider_queues[q]) : TimedOut(q, r)}
              gone == {}
  <2>1. /\ Forget(S) /\ UNCHANGED <<in_flight_requests, workers, next_request_id>>
        /\ \A q \in Providers : provider_queues'[q] = Without(provider_queues[q], late(q))
    BY <1>25 DEF ExpireQueueTimeouts
  <2>2. \A q \in Providers : Members(provider_queues[q]) \ late(q) = Members(provider_queues[q]) \ S
    BY <1>b DEF OnePlace, QueuesSound
  <2>3. \A r \in S : active_requests[r].at = "queued"
    BY DEF OnePlace, QueuesSound
  <2>. HIDE DEF S
  <2>4. \A q \in Providers : /\ Members(provider_queues'[q]) = Members(provider_queues[q]) \ S
                             /\ NoRepeats(provider_queues'[q])
    <3>. SUFFICES ASSUME NEW q \in Providers
                  PROVE /\ Members(provider_queues'[q]) = Members(provider_queues[q]) \ S
                        /\ NoRepeats(provider_queues'[q])
      OBVIOUS
    <3>1. provider_queues[q] \in Seq(RequestId) /\ NoRepeats(provider_queues[q])
      BY DEF TypeOK, OnePlace, QueuesSound
    <3>2. provider_queues'[q] = Without(provider_queues[q], late(q))
      BY <2>1
    <3>3. Members(provider_queues[q]) \ late(q) = Members(provider_queues[q]) \ S
      BY <2>2
    <3>. HIDE DEF late
    <3>. QED  BY <3>1, <3>2, <3>3, WithoutProperties
  <2>5. /\ workers' = workers \ gone
        /\ \A v \in WorkerId : IF v \in gone
             THEN in_flight_requests'[v] = <<>> /\ Members(in_flight_requests[v]) \subseteq S
             ELSE in_flight_requests'[v] = in_flight_requests[v] /\ Members(in_flight_requests[v]) \cap S = {}
    BY <2>1, <2>3 DEF OnePlace, InFlightSound
  <2>6. OnePlace'
    <3>. HIDE DEF gone
    <3>. QED  BY <2>1, <2>4, <2>5, RemovalKeepsPlaces
  <2>. QED  BY <2>1, <2>6, FreshAfterForget
<1>26. CASE UNCHANGED vars
  BY <1>0, <1>26 DEF vars
<1>. QED
  BY <1>1, <1>2, <1>3, <1>4, <1>5, <1>6, <1>7, <1>8, <1>9, <1>10, <1>11, <1>12, <1>13,
     <1>14, <1>15, <1>16, <1>17, <1>18, <1>19, <1>20, <1>21, <1>22, <1>23, <1>24, <1>25,
     <1>26
  DEF Next, Submit, Cancel, Answer

(* In every reachable state each active request stands in exactly one queue   *)
(* or one registered worker's list and nothing else stands anywhere, for any  *)
(* number of workers, requests and providers: no function of the core loses   *)
(* a request or leaves it in two of the three structures.                     *)
THEOREM EveryRequestInOnePlace == Spec => []OnePlace
<1>1. Init => PlaceInv
  BY PlaceInit
<1>2. PlaceInv /\ [Next]_vars => PlaceInv'
  BY PlaceStep, TypeStep DEF PlaceInv
<1>3. PlaceInv => OnePlace
  BY DEF PlaceInv
<1>. QED  BY <1>1, <1>2, <1>3, PTL DEF Spec
-----------------------------------------------------------------------------
(* The safety properties that relate the core to the workers' sockets and to  *)
(* the waiting HTTP handlers, and that the core implements RequestLifecycle.  *)
(*                                                                            *)
(* They hold only together: a worker's late answer is harmless because what   *)
(* it holds was forgotten when the worker was removed, which is known because *)
(* a registered worker holds only what is in flight at it, which is true of a *)
(* new worker because its id, and so its socket, is fresh.  CoreInv below is  *)
(* that conjunction.                                                          *)

-----------------------------------------------------------------------------
(* What the registry and the sockets know of each other. *)

(* Sockets and disconnect reasons belong to worker ids that were drawn. *)
SocketsDrawn ==
  /\ \A w \in sockets : w < next_worker_id
  /\ \A w \in WorkerId : disconnect_reasons[w] # "none" => w < next_worker_id

SocketInv == RegistryMatchesSockets /\ SocketsDrawn

(* Removing workers whose sockets are told why, or closed, leaves registry    *)
(* and sockets in agreement.                                                  *)
LEMMA RemovalKeepsSockets ==
  ASSUME TypeOK, SocketInv, NEW gone \in SUBSET workers, remove_workers(gone),
         UNCHANGED next_worker_id,
         sockets' \subseteq sockets, (workers \ gone) \subseteq sockets',
         \A v \in WorkerId : v \notin gone =>
           disconnect_reasons'[v] \in {"none", disconnect_reasons[v]}
  PROVE  SocketInv'
<1>1. /\ workers' = workers \ gone
      /\ \A w \in workers' : deadline'[w] = deadline[w]
      /\ worker_cancel_signals' = {s \in worker_cancel_signals : s[1] \notin gone}
      /\ worker_graceful_shutdown_signals' = worker_graceful_shutdown_signals \ gone
  BY DEF remove_workers, TypeOK
<1>2. workers \subseteq sockets /\ gone \subseteq sockets /\ workers \subseteq WorkerId
  BY DEF SocketInv, RegistryMatchesSockets, TypeOK
<1>3. RegistryMatchesSockets'
  BY <1>1, <1>2 DEF SocketInv, RegistryMatchesSockets, is_draining
<1>4. SocketsDrawn'
  BY <1>2 DEF SocketInv, SocketsDrawn
<1>. QED  BY <1>3, <1>4 DEF SocketInv

(* Every action keeps registry and sockets in agreement. *)
LEMMA SocketStep == PlaceInv /\ SocketInv /\ [Next]_vars => SocketInv'
<1>. SUFFICES ASSUME TypeOK, OnePlace, SocketInv, [Next]_vars PROVE SocketInv'
  BY DEF PlaceInv
<1>0. ASSUME UNCHANGED <<workers, sockets, disconnect_reasons, worker_cancel_signals,
                         worker_graceful_shutdown_signals, deadline, next_worker_id>>
      PROVE  SocketInv'
  BY <1>0 DEF SocketInv, RegistryMatchesSockets, SocketsDrawn, is_draining
<1>b. workers \subseteq sockets /\ workers \subseteq WorkerId
  BY DEF SocketInv, RegistryMatchesSockets, TypeOK
<1>1. ASSUME NEW reg \in Registrations, RegisterWorker(reg) PROVE SocketInv'
  <2>1. /\ next_worker_id \in WorkerId /\ next_worker_id' = next_worker_id + 1
        /\ workers' = workers \cup {next_worker_id}
        /\ sockets' = sockets \cup {next_worker_id}
        /\ UNCHANGED <<disconnect_reasons, worker_cancel_signals,
                       worker_graceful_shutdown_signals, deadline>>
    BY <1>1, BoundsAssumption DEF RegisterWorker, TypeOK, WorkerId
  <2>2. disconnect_reasons[next_worker_id] = "none"
    BY <2>1 DEF SocketInv, SocketsDrawn, WorkerId
  <2>3. RegistryMatchesSockets'
    BY <2>1, <2>2 DEF SocketInv, RegistryMatchesSockets, is_draining
  <2>4. SocketsDrawn'
    BY <2>1 DEF SocketInv, SocketsDrawn, TypeOK, WorkerId
  <2>. QED  BY <2>3, <2>4 DEF SocketInv
<1>2. ASSUME NEW sub \in Submissions, Submit(sub) PROVE SocketInv'
  BY <1>0, <1>2 DEF Submit, SubmitDispatched, SubmitQueued, SubmitRejected
<1>3. ASSUME NEW r \in RequestId, CancelQueued(r) PROVE SocketInv'
  BY <1>0, <1>3 DEF CancelQueued
<1>4. ASSUME NEW r \in RequestId, NEW reason \in CancelReason, CancelInFlight(r, reason)
      PROVE  SocketInv'
  <2>1. active_requests[r].worker \in workers
    BY <1>4 DEF CancelInFlight, OnePlace, NothingLost
  <2>2. /\ UNCHANGED <<workers, sockets, disconnect_reasons,
                       worker_graceful_shutdown_signals, deadline, next_worker_id>>
        /\ worker_cancel_signals' \subseteq
             worker_cancel_signals \cup {<<active_requests[r].worker, r>>}
    BY <1>4 DEF CancelInFlight
  <2>3. \A s \in worker_cancel_signals' : s[1] \in workers
    BY <2>1, <2>2 DEF SocketInv, RegistryMatchesSockets
  <2>. QED  BY <2>2, <2>3 DEF SocketInv, RegistryMatchesSockets, SocketsDrawn, is_draining
<1>5. ASSUME NEW w \in WorkerId, NEW raw \in Updates, NEW load \in Loads,
             UpdateWorkerModels(w, raw, load)
      PROVE  SocketInv'
  BY <1>0, <1>5 DEF UpdateWorkerModels
<1>6. ASSUME NEW w \in WorkerId, NEW load \in Loads, RecordWorkerPong(w, load)
      PROVE  SocketInv'
  BY <1>0, <1>6 DEF RecordWorkerPong
<1>7. ASSUME NEW w \in WorkerId, NEW r \in RequestId,
             \/ StreamHttpResponseChunk(w, r) \/ LateResponse(w, r) \/ FinishRequest(w, r)
      PROVE  SocketInv'
  BY <1>0, <1>7 DEF StreamHttpResponseChunk, LateResponse, FinishRequest
<1>8. ASSUME NEW w \in WorkerId, NEW r \in RequestId, FinishDrain(w, r) PROVE SocketInv'
  <2>. DEFINE gone == {w}
  <2>1. /\ gone \in SUBSET workers /\ remove_workers(gone)
        /\ UNCHANGED <<sockets, next_worker_id>>
        /\ \A v \in WorkerId : v \notin gone => disconnect_reasons'[v] = disconnect_reasons[v]
    BY <1>8 DEF FinishDrain, TypeOK
  <2>. HIDE DEF gone
  <2>. QED  BY <1>b, <2>1, RemovalKeepsSockets
<1>9. ASSUME NEW w \in WorkerId,
             \/ TakePendingWorkerRequests(w) \/ RequestWorkerModelsRefresh(w)
             \/ TakePendingWorkerModelsRefreshSignals(w)
      PROVE  SocketInv'
  BY <1>0, <1>9 DEF TakePendingWorkerRequests, RequestWorkerModelsRefresh,
                    TakePendingWorkerModelsRefreshSignals
<1>10. ASSUME NEW w \in WorkerId,
              \/ TakePendingWorkerCancelSignals(w)
              \/ TakePendingWorkerGracefulShutdownSignals(w)
       PROVE  SocketInv'
  <2>1. /\ UNCHANGED <<workers, sockets, disconnect_reasons, deadline, next_worker_id>>
        /\ worker_cancel_signals' \subseteq worker_cancel_signals
        /\ worker_graceful_shutdown_signals' \subseteq worker_graceful_shutdown_signals
    BY <1>10 DEF TakePendingWorkerCancelSignals, TakePendingWorkerGracefulShutdownSignals
  <2>. QED  BY <2>1 DEF SocketInv, RegistryMatchesSockets, SocketsDrawn, is_draining
<1>11. ASSUME NEW w \in WorkerId, DisconnectWorker(w) PROVE SocketInv'
  <2>. DEFINE gone == {w}
  <2>1. /\ gone \in SUBSET workers /\ remove_workers(gone)
        /\ UNCHANGED <<disconnect_reasons, next_worker_id>>
        /\ sockets' = sockets \ gone
    BY <1>11 DEF DisconnectWorker, CloseSocket
  <2>. HIDE DEF gone
  <2>. QED  BY <1>b, <2>1, RemovalKeepsSockets
<1>12. ASSUME NEW w \in WorkerId, LoseRemovedSocket(w) PROVE SocketInv'
  <2>1. /\ UNCHANGED <<workers, disconnect_reasons, deadline, next_worker_id,
                       worker_cancel_signals, worker_graceful_shutdown_signals>>
        /\ sockets' = sockets \ {w} /\ w \notin workers
    BY <1>12 DEF LoseRemovedSocket, CloseSocket
  <2>. QED  BY <2>1 DEF SocketInv, RegistryMatchesSockets, SocketsDrawn, is_draining
<1>13. ASSUME NEW w \in WorkerId, GracefulShutdownCloseAction(w) PROVE SocketInv'
  <2>. DEFINE expired == ExpiringWorkers
              idle    == /\ w \in workers \ expired
                         /\ is_draining(w) /\ in_flight_requests[w] = <<>>
              gone    == expired \cup {v \in {w} : idle}
              closing == w \in gone \/ disconnect_reasons[w] # "none"
  <2>1. /\ gone \in SUBSET workers /\ remove_workers(gone) /\ UNCHANGED next_worker_id
        /\ sockets' = IF closing THEN sockets \ {w} ELSE sockets
    BY <1>13 DEF GracefulShutdownCloseAction, CloseSocket, ExpiringWorkers
  <2>2. disconnect_reasons' = [v \in WorkerId |-> IF v = w THEN "none"
                                                  ELSE IF v \in expired THEN "TimedOut"
                                                  ELSE disconnect_reasons[v]]
    BY <1>13 DEF GracefulShutdownCloseAction
  <2>3. expired \subseteq gone
    OBVIOUS
  <2>. HIDE DEF gone, expired
  <2>4. closing => w \in gone \/ w \notin workers
    BY DEF SocketInv, RegistryMatchesSockets
  <2>5. (workers \ gone) \subseteq sockets' /\ sockets' \subseteq sockets
    BY <1>b, <2>1, <2>4
  <2>6. \A v \in WorkerId : v \notin gone =>
          disconnect_reasons'[v] \in {"none", disconnect_reasons[v]}
    BY <2>2, <2>3
  <2>. QED  BY <2>1, <2>5, <2>6, RemovalKeepsSockets
<1>14. ASSUME BeginGracefulShutdown PROVE SocketInv'
  <2>1. /\ UNCHANGED <<workers, sockets, disconnect_reasons, next_worker_id,
                       worker_cancel_signals>>
        /\ deadline' = [w \in WorkerId |-> IF w \in workers /\ ~is_draining(w)
                                           THEN shutdowns + 1 ELSE deadline[w]]
        /\ worker_graceful_shutdown_signals' =
             worker_graceful_shutdown_signals \cup {w \in workers : ~is_draining(w)}
        /\ shutdowns + 1 # 0
    BY <1>14 DEF BeginGracefulShutdown, TypeOK
  <2>2. \A w \in worker_graceful_shutdown_signals' : w \in workers /\ deadline'[w] # 0
    BY <1>b, <2>1 DEF SocketInv, RegistryMatchesSockets, is_draining
  <2>3. RegistryMatchesSockets'
    BY <2>1, <2>2 DEF SocketInv, RegistryMatchesSockets, is_draining
  <2>. QED  BY <2>1, <2>3 DEF SocketInv, SocketsDrawn
<1>15. ASSUME NEW p \in Providers, DeleteProvider(p) PROVE SocketInv'
  <2>. DEFINE gone == {w \in workers : profile[w].provider = p}
  <2>1. /\ gone \in SUBSET workers /\ remove_workers(gone)
        /\ UNCHANGED <<sockets, next_worker_id>>
        /\ \A v \in WorkerId : v \notin gone => disconnect_reasons'[v] = disconnect_reasons[v]
    BY <1>15 DEF DeleteProvider
  <2>. HIDE DEF gone
  <2>. QED  BY <1>b, <2>1, RemovalKeepsSockets
<1>16. ASSUME \/ QueueTimeoutPasses \/ ExpireQueueTimeouts
              \/ \E k \in 1..MaxShutdowns : DrainDeadlinePasses(k)
              \/ UNCHANGED vars
       PROVE  SocketInv'
  BY <1>0, <1>16 DEF QueueTimeoutPasses, ExpireQueueTimeouts, DrainDeadlinePasses, vars
<1>. QED
  BY <1>1, <1>2, <1>3, <1>4, <1>5, <1>6, <1>7, <1>8, <1>9, <1>10, <1>11, <1>12, <1>13,
     <1>14, <1>15, <1>16
  DEF Next, Cancel, Answer

-----------------------------------------------------------------------------
(* What was sent over the sockets. *)

(* A socket that still has requests to answer is running, and what it holds   *)
(* was drawn; what a worker the core removed holds was forgotten.             *)
HandedAt(w) ==
  /\ handed[w] # {} => w \in sockets
  /\ \A r \in handed[w] : r < next_request_id
  /\ w \notin workers => \A r \in handed[w] : active_requests[r].at = "absent"

SentAt(w) ==
  /\ NoRepeats(pending_worker_requests[w])
  /\ Members(pending_worker_requests[w]) \subseteq Members(in_flight_requests[w])
  /\ w \in workers => handed[w] \subseteq Members(in_flight_requests[w])
  /\ Members(pending_worker_requests[w]) \cap handed[w] = {}

SentInv == \A w \in WorkerId : SentAt(w) /\ HandedAt(w)

(* What is in flight was drawn. *)
LEMMA InFlightDrawn ==
  ASSUME TypeOK, OnePlace, FreshIds, NEW w \in WorkerId, NEW r \in Members(in_flight_requests[w])
  PROVE  r \in RequestId /\ r < next_request_id
<1>1. r \in RequestId /\ active_requests[r].at = "in_flight"
  BY DEF OnePlace, InFlightSound, TypeOK, Members
<1>. QED  BY <1>1 DEF FreshIds, TypeOK, RequestId

(* Worker w gets the requests of batch, none of which it had, after those of  *)
(* F were answered.                                                           *)
LEMMA AssignmentKeepsSent ==
  ASSUME TypeOK, SentInv, NEW w \in workers, NEW F, NEW batch \in Seq(RequestId),
         NEW flight \in Seq(RequestId), NoRepeats(batch),
         Members(flight) = Members(in_flight_requests[w]) \ F,
         Members(batch) \cap Members(in_flight_requests[w]) = {},
         Members(pending_worker_requests[w]) \cap F = {},
         in_flight_requests' = [in_flight_requests EXCEPT ![w] = flight \o batch],
         pending_worker_requests' = [pending_worker_requests EXCEPT ![w] = @ \o batch],
         handed' = [handed EXCEPT ![w] = @ \ F],
         UNCHANGED <<workers, sockets>>,
         next_request_id' \in {next_request_id, next_request_id + 1},
         \A v \in WorkerId \ workers : \A r \in handed[v] :
           active_requests'[r].at = "absent"
  PROVE  SentInv'
<1>1. w \in WorkerId /\ pending_worker_requests[w] \in Seq(RequestId)
  BY DEF TypeOK
<1>2. /\ in_flight_requests'[w] = flight \o batch
      /\ pending_worker_requests'[w] = pending_worker_requests[w] \o batch
      /\ handed'[w] = handed[w] \ F
      /\ \A v \in WorkerId : v # w =>
           /\ in_flight_requests'[v] = in_flight_requests[v]
           /\ pending_worker_requests'[v] = pending_worker_requests[v]
           /\ handed'[v] = handed[v]
  BY <1>1 DEF TypeOK
<1>3. Members(flight \o batch) = Members(flight) \cup Members(batch)
  BY JoinProperties
<1>4. SentAt(w) /\ HandedAt(w)
  BY <1>1 DEF SentInv
<1>5. /\ Members(pending_worker_requests[w] \o batch) =
           Members(pending_worker_requests[w]) \cup Members(batch)
      /\ NoRepeats(pending_worker_requests[w] \o batch)
  <2>. DEFINE t == pending_worker_requests[w]
  <2>1. NoRepeats(t) /\ Members(t) \cap Members(batch) = {} /\ t \in Seq(RequestId)
    BY <1>1, <1>4 DEF SentAt
  <2>. HIDE DEF t
  <2>2. Members(t \o batch) = Members(t) \cup Members(batch) /\ NoRepeats(t \o batch)
    BY <2>1, JoinProperties
  <2>. QED  BY <2>2 DEF t
<1>6. SentAt(w)'
  BY <1>2, <1>3, <1>4, <1>5 DEF SentAt
<1>7. \A v \in WorkerId : \A r \in handed'[v] : r < next_request_id'
  <2>1. \A v \in WorkerId : handed'[v] \subseteq handed[v] /\ handed[v] \subseteq RequestId
    BY <1>2 DEF TypeOK
  <2>2. next_request_id \in Nat
    BY DEF TypeOK
  <2>. QED  BY <2>1, <2>2 DEF SentInv, HandedAt, RequestId
<1>8. HandedAt(w)'
  BY <1>2, <1>4, <1>7, <1>1 DEF HandedAt
<1>9. ASSUME NEW v \in WorkerId, v # w PROVE SentAt(v)' /\ HandedAt(v)'
  BY <1>2, <1>7, <1>9 DEF SentInv, SentAt, HandedAt
<1>. QED  BY <1>6, <1>8, <1>9 DEF SentInv

(* Workers leave the registry and their requests are forgotten. *)
LEMMA RemovalKeepsSent ==
  ASSUME TypeOK, SentInv, NEW S, NEW gone \in SUBSET workers,
         Forget(S), ClearLists(gone), workers' = workers \ gone, UNCHANGED next_request_id,
         \A w \in gone : Members(in_flight_requests[w]) \subseteq S,
         \A w \in WorkerId : handed'[w] \subseteq handed[w] /\ (handed'[w] # {} => w \in sockets')
  PROVE  SentInv'
<1>1. /\ \A r \in RequestId : r \in S => active_requests'[r].at = "absent"
      /\ \A r \in RequestId : active_requests[r].at = "absent" => active_requests'[r].at = "absent"
      /\ \A w \in WorkerId : handed'[w] \subseteq RequestId
  BY DEF Forget, Absent, TypeOK
<1>2. \A w \in WorkerId :
        IF w \in gone THEN in_flight_requests'[w] = <<>> /\ pending_worker_requests'[w] = <<>>
        ELSE /\ in_flight_requests'[w] = in_flight_requests[w]
             /\ pending_worker_requests'[w] = pending_worker_requests[w]
  BY DEF ClearLists
<1>3. ASSUME NEW w \in WorkerId PROVE SentAt(w)'
  <2>1. CASE w \in gone
    BY <1>2, <2>1, SmallSequences DEF SentAt
  <2>2. CASE w \notin gone
    BY <1>2, <2>2 DEF SentAt, SentInv
  <2>. QED  BY <2>1, <2>2
<1>4. ASSUME NEW w \in WorkerId PROVE HandedAt(w)'
  <2>1. \A r \in handed'[w] : r < next_request_id'
    BY DEF SentInv, HandedAt
  <2>2. CASE w \in gone
    <3>1. \A r \in handed'[w] : r \in S
      BY <2>2 DEF SentInv, SentAt
    <3>. QED  BY <1>1, <2>1, <3>1 DEF HandedAt
  <2>3. CASE w \notin gone
    <3>1. w \notin workers' => w \notin workers
      BY <2>3
    <3>. QED  BY <1>1, <2>1, <3>1 DEF SentInv, HandedAt
  <2>. QED  BY <2>2, <2>3
<1>. QED  BY <1>3, <1>4 DEF SentInv

(* The lists stay as they are, the sockets hold no more than before, and no   *)
(* forgotten request comes back.                                              *)
LEMMA FewerHandedKeepsSent ==
  ASSUME TypeOK, SentInv,
         UNCHANGED <<workers, in_flight_requests, pending_worker_requests>>,
         next_request_id' \in {next_request_id, next_request_id + 1},
         \A w \in WorkerId : handed'[w] \subseteq handed[w] /\ (handed'[w] # {} => w \in sockets'),
         \A r \in RequestId : r < next_request_id /\ active_requests[r].at = "absent" =>
           active_requests'[r].at = "absent"
  PROVE  SentInv'
<1>1. /\ next_request_id \in Nat
      /\ \A w \in WorkerId : \A r \in handed[w] : r \in RequestId /\ r \in Nat /\ r < next_request_id
  BY DEF TypeOK, SentInv, HandedAt, RequestId
<1>2. ASSUME NEW w \in WorkerId PROVE SentAt(w)'
  BY DEF SentInv, SentAt
<1>3. ASSUME NEW w \in WorkerId PROVE HandedAt(w)'
  <2>1. \A r \in handed'[w] : r < next_request_id'
    BY <1>1
  <2>. QED  BY <1>1, <2>1 DEF SentInv, HandedAt
<1>. QED  BY <1>2, <1>3 DEF SentInv

(* Every action keeps what was sent in agreement with what is in flight. *)
LEMMA SentStep == PlaceInv /\ SocketInv /\ SentInv /\ [Next]_vars => SentInv'
<1>. SUFFICES ASSUME TypeOK, OnePlace, FreshIds, SocketInv, SentInv, [Next]_vars
              PROVE  SentInv'
  BY DEF PlaceInv
<1>a. \A w \in WorkerId : handed[w] # {} => w \in sockets
  BY DEF SentInv, HandedAt
<1>b. \A v \in WorkerId \ workers : \A r \in handed[v] :
        r \in RequestId /\ r < next_request_id /\ active_requests[r].at = "absent"
  BY DEF SentInv, HandedAt, TypeOK
<1>0. ASSUME UNCHANGED <<workers, sockets, handed, next_request_id, in_flight_requests,
                         pending_worker_requests>>,
             \A r \in RequestId : active_requests[r].at = "absent" =>
               active_requests'[r].at = "absent"
      PROVE  SentInv'
  BY <1>0, <1>a, FewerHandedKeepsSent
<1>1. ASSUME NEW reg \in Registrations, RegisterWorker(reg) PROVE SentInv'
  <2>1. /\ next_worker_id \in WorkerId
        /\ workers' = workers \cup {next_worker_id}
        /\ sockets' = sockets \cup {next_worker_id}
        /\ UNCHANGED <<handed, next_request_id, in_flight_requests, active_requests,
                       pending_worker_requests>>
    BY <1>1, BoundsAssumption DEF RegisterWorker, TypeOK, WorkerId
  <2>2. next_worker_id \notin sockets
    BY <2>1 DEF SocketInv, SocketsDrawn, WorkerId
  <2>3. handed[next_worker_id] = {}
    BY <1>a, <2>1, <2>2
  <2>. QED  BY <2>1, <2>3 DEF SentInv, SentAt, HandedAt
<1>2. ASSUME NEW sub \in Submissions, SubmitDispatched(sub) PROVE SentInv'
  <2>. DEFINE n == next_request_id
              F == {}
  <2>1. PICK sel \in find_eligible_worker_id(sub) :
          /\ assign_to_worker(sel.worker, <<n>>, reported_load[sel.worker],
                              in_flight_requests[sel.worker])
          /\ active_requests' = [active_requests EXCEPT ![n] = InFlight(sel.worker)]
    BY <1>2 DEF SubmitDispatched
  <2>. DEFINE w == sel.worker
              batch == <<n>>
              flight == in_flight_requests[w]
  <2>2. n \in RequestId /\ n' = n + 1
    BY <1>2 DEF SubmitDispatched, TypeOK, RequestId
  <2>3. w \in workers /\ w \in WorkerId
    BY SelectionProperties DEF TypeOK
  <2>4. active_requests[n].at = "absent"
    BY <2>2 DEF FreshIds, RequestId
  <2>5. n \notin Members(in_flight_requests[w])
    BY <2>3, <2>4 DEF OnePlace, InFlightSound
  <2>6. /\ batch \in Seq(RequestId) /\ NoRepeats(batch) /\ flight \in Seq(RequestId)
        /\ Members(flight) = Members(in_flight_requests[w]) \ F
        /\ Members(batch) \cap Members(in_flight_requests[w]) = {}
    BY <2>2, <2>3, <2>5, SmallSequences DEF TypeOK
  <2>7. \A v \in WorkerId \ workers : \A r \in handed[v] : active_requests'[r].at = "absent"
    BY <2>1, <2>2, <1>b DEF TypeOK, RequestId
  <2>8. /\ in_flight_requests' = [in_flight_requests EXCEPT ![w] = flight \o batch]
        /\ pending_worker_requests' = [pending_worker_requests EXCEPT ![w] = @ \o batch]
        /\ UNCHANGED <<workers, sockets, handed>>
    BY <1>2, <2>1 DEF SubmitDispatched, assign_to_worker
  <2>9. /\ Members(pending_worker_requests[w]) \cap F = {}
        /\ handed' = [handed EXCEPT ![w] = @ \ F]
    BY <2>3, <2>8 DEF TypeOK
  <2>. HIDE DEF w, batch, flight, F
  <2>. QED  BY <2>2, <2>3, <2>6, <2>7, <2>8, <2>9, AssignmentKeepsSent
<1>3. ASSUME NEW sub \in Submissions, SubmitQueued(sub) \/ SubmitRejected(sub) PROVE SentInv'
  <2>1. /\ next_request_id' = next_request_id + 1 /\ next_request_id \in RequestId
        /\ UNCHANGED <<workers, sockets, handed, in_flight_requests, pending_worker_requests>>
    BY <1>3 DEF SubmitQueued, SubmitRejected, TypeOK, RequestId
  <2>2. \A r \in RequestId : r # next_request_id => active_requests'[r] = active_requests[r]
    BY <1>3 DEF SubmitQueued, SubmitRejected, TypeOK
  <2>3. \A r \in RequestId : r < next_request_id => r # next_request_id
    BY <2>1 DEF RequestId
  <2>. QED  BY <2>1, <2>2, <2>3, <1>a, FewerHandedKeepsSent
<1>4. ASSUME NEW r \in RequestId, Cancel(r) PROVE SentInv'
  <2>1. UNCHANGED <<workers, sockets, handed, next_request_id, in_flight_requests,
                    pending_worker_requests>>
    BY <1>4 DEF Cancel, CancelQueued, CancelInFlight
  <2>2. ASSUME CancelQueued(r), NEW q \in RequestId, active_requests[q].at = "absent"
        PROVE  active_requests'[q].at = "absent"
    BY <2>2 DEF CancelQueued, Forget, Absent
  <2>3. ASSUME NEW reason, CancelInFlight(r, reason), NEW q \in RequestId,
               active_requests[q].at = "absent"
        PROVE  active_requests'[q].at = "absent"
    BY <2>3 DEF CancelInFlight, TypeOK
  <2>. QED  BY <1>4, <2>1, <2>2, <2>3, <1>0 DEF Cancel
<1>5. ASSUME NEW w \in WorkerId, NEW ms, NEW load \in Nat, w \in workers,
             DrainQueues(w, ms, load), UNCHANGED <<workers, socketVars, next_request_id>>
      PROVE  SentInv'
  <2>. DEFINE flight == in_flight_requests[w]
              n == Room(w, load, flight)
              F == {}
  <2>1. flight \in Seq(RequestId) /\ n \in Nat
    BY RoomIsNat DEF TypeOK
  <2>2. PICK batch \in Batches(w, ms, n) :
          /\ assign_to_worker(w, batch, load, flight)
          /\ active_requests' = [r \in RequestId |->
               IF r \in Members(batch) THEN InFlight(w) ELSE active_requests[r]]
    BY <1>5 DEF DrainQueues
  <2>. HIDE DEF n
  <2>3. batch \in Seq(RequestId) /\ Members(batch) \subseteq QueuedRequests /\ NoRepeats(batch)
    BY <2>1, BatchProperties
  <2>4. \A r \in Members(batch) : r \in RequestId /\ active_requests[r].at = "queued"
    BY <2>3 DEF QueuedRequests
  <2>5. Members(batch) \cap Members(in_flight_requests[w]) = {}
    BY <2>4 DEF OnePlace, InFlightSound
  <2>6. \A v \in WorkerId \ workers : \A r \in handed[v] : active_requests'[r].at = "absent"
    BY <2>2, <2>4, <1>b
  <2>7. /\ in_flight_requests' = [in_flight_requests EXCEPT ![w] = flight \o batch]
        /\ pending_worker_requests' = [pending_worker_requests EXCEPT ![w] = @ \o batch]
        /\ handed' = [handed EXCEPT ![w] = @ \ F]
        /\ Members(flight) = Members(in_flight_requests[w]) \ F
        /\ Members(pending_worker_requests[w]) \cap F = {}
    BY <1>5, <2>2 DEF assign_to_worker, TypeOK
  <2>. HIDE DEF flight, F
  <2>. QED  BY <1>5, <2>1, <2>3, <2>5, <2>6, <2>7, AssignmentKeepsSent
<1>6. ASSUME NEW w \in WorkerId, NEW raw \in Updates, NEW load \in Loads,
             UpdateWorkerModels(w, raw, load)
      PROVE  SentInv'
  BY <1>5, <1>6, InputsAssumption DEF UpdateWorkerModels
<1>7. ASSUME NEW w \in WorkerId, NEW load \in Loads, RecordWorkerPong(w, load)
      PROVE  SentInv'
  BY <1>5, <1>7, InputsAssumption DEF RecordWorkerPong
<1>8. ASSUME NEW w \in WorkerId, NEW r \in RequestId, StreamHttpResponseChunk(w, r)
      PROVE  SentInv'
  BY <1>8, <1>0 DEF StreamHttpResponseChunk
<1>9. ASSUME NEW w \in WorkerId, NEW r \in RequestId, FinishRequest(w, r) PROVE SentInv'
  <2>. DEFINE F == {r}
              flight == Without(in_flight_requests[w], F)
              load == saturating_sub(reported_load[w], 1)
              n == IF Room(w, load, flight) > 0 THEN 1 ELSE 0
  <2>1. n \in Nat
    OBVIOUS
  <2>2. PICK batch \in Batches(w, models[w], n) :
          /\ assign_to_worker(w, batch, load, flight)
          /\ active_requests' = [q \in RequestId |-> IF q = r THEN Absent
                                   ELSE IF q \in Members(batch) THEN InFlight(w)
                                   ELSE active_requests[q]]
    BY <1>9 DEF FinishRequest
  <2>. HIDE DEF n, load
  <2>3. batch \in Seq(RequestId) /\ Members(batch) \subseteq QueuedRequests /\ NoRepeats(batch)
    BY <2>1, BatchProperties
  <2>4. \A q \in Members(batch) : q \in RequestId /\ active_requests[q].at = "queued"
    BY <2>3 DEF QueuedRequests
  <2>5. Members(batch) \cap Members(in_flight_requests[w]) = {}
    BY <2>4 DEF OnePlace, InFlightSound
  <2>6. \A v \in WorkerId \ workers : \A q \in handed[v] : active_requests'[q].at = "absent"
    BY <2>2, <2>4, <1>b DEF Absent
  <2>7. flight \in Seq(RequestId) /\ Members(flight) = Members(in_flight_requests[w]) \ F
    BY WithoutProperties DEF TypeOK
  <2>8. w \in workers /\ r \in handed[w] /\ UNCHANGED <<workers, sockets, next_request_id>>
    BY <1>9 DEF FinishRequest
  <2>9. Members(pending_worker_requests[w]) \cap F = {}
    BY <2>8 DEF SentInv, SentAt
  <2>10. /\ in_flight_requests' = [in_flight_requests EXCEPT ![w] = flight \o batch]
         /\ pending_worker_requests' = [pending_worker_requests EXCEPT ![w] = @ \o batch]
         /\ handed' = [handed EXCEPT ![w] = @ \ F]
    BY <1>9, <2>2 DEF assign_to_worker, FinishRequest, Respond
  <2>. HIDE DEF flight, F
  <2>. QED  BY <2>3, <2>5, <2>6, <2>7, <2>8, <2>9, <2>10, AssignmentKeepsSent
<1>10. ASSUME NEW w \in WorkerId, NEW r \in RequestId, FinishDrain(w, r) PROVE SentInv'
  <2>. DEFINE gone == {w}
              S == {r}
  <2>1. /\ Forget(S) /\ ClearLists(gone) /\ workers' = workers \ gone
        /\ gone \in SUBSET workers
        /\ UNCHANGED <<next_request_id, sockets>>
        /\ handed' = [handed EXCEPT ![w] = @ \ S]
    BY <1>10 DEF FinishDrain, remove_workers, Respond
  <2>2. Members(in_flight_requests[w]) \subseteq S
    <3>1. Members(Without(in_flight_requests[w], S)) = Members(in_flight_requests[w]) \ S
      BY WithoutProperties DEF TypeOK
    <3>2. Without(in_flight_requests[w], S) = <<>>
      BY <1>10 DEF FinishDrain
    <3>. QED  BY <3>1, <3>2, SmallSequences
  <2>3. \A v \in WorkerId : handed'[v] \subseteq handed[v]
    BY <2>1 DEF TypeOK
  <2>. HIDE DEF S
  <2>. QED  BY <2>1, <2>2, <2>3, <1>a, RemovalKeepsSent
<1>11. ASSUME NEW w \in WorkerId, NEW r \in RequestId, LateResponse(w, r) PROVE SentInv'
  <2>1. /\ UNCHANGED <<workers, sockets, next_request_id, active_requests,
                       in_flight_requests, pending_worker_requests>>
        /\ handed' = [handed EXCEPT ![w] = @ \ {r}]
    BY <1>11 DEF LateResponse, Respond
  <2>2. \A v \in WorkerId : handed'[v] \subseteq handed[v]
    BY <2>1 DEF TypeOK
  <2>. QED  BY <2>1, <2>2, <1>a, FewerHandedKeepsSent
<1>12. ASSUME NEW w \in WorkerId, TakePendingWorkerRequests(w) PROVE SentInv'
  <2>. DEFINE taken == Members(pending_worker_requests[w])
  <2>1. /\ UNCHANGED <<workers, sockets, next_request_id, active_requests, in_flight_requests>>
        /\ w \in sockets
        /\ \A v \in WorkerId : handed'[v] = IF v = w THEN handed[w] \cup taken ELSE handed[v]
        /\ \A v \in WorkerId : pending_worker_requests'[v] =
                                 IF v = w THEN <<>> ELSE pending_worker_requests[v]
    BY <1>12 DEF TakePendingWorkerRequests, TypeOK
  <2>2. taken \subseteq Members(in_flight_requests[w])
    BY DEF SentInv, SentAt
  <2>3. \A r \in taken : r < next_request_id
    BY <2>2, InFlightDrawn
  <2>4. w \notin workers => taken = {}
    BY <2>2, SmallSequences DEF OnePlace, InFlightSound
  <2>. HIDE DEF taken
  <2>5. ASSUME NEW v \in WorkerId PROVE SentAt(v)'
    BY <2>1, <2>2, SmallSequences DEF SentInv, SentAt
  <2>6. ASSUME NEW v \in WorkerId PROVE HandedAt(v)'
    BY <2>1, <2>3, <2>4 DEF SentInv, HandedAt
  <2>. QED  BY <2>5, <2>6 DEF SentInv
<1>13. ASSUME NEW w \in WorkerId, TakePendingWorkerCancelSignals(w) PROVE SentInv'
  <2>1. /\ UNCHANGED <<workers, sockets, next_request_id, active_requests,
                       in_flight_requests, pending_worker_requests>>
        /\ \E aborted : handed' = [handed EXCEPT ![w] = @ \ aborted]
    BY <1>13 DEF TakePendingWorkerCancelSignals
  <2>2. \A v \in WorkerId : handed'[v] \subseteq handed[v]
    BY <2>1 DEF TypeOK
  <2>. QED  BY <2>1, <2>2, <1>a, FewerHandedKeepsSent
<1>14. ASSUME NEW w \in WorkerId,
              \/ TakePendingWorkerGracefulShutdownSignals(w)
              \/ RequestWorkerModelsRefresh(w)
              \/ TakePendingWorkerModelsRefreshSignals(w)
       PROVE  SentInv'
  BY <1>14, <1>0 DEF TakePendingWorkerGracefulShutdownSignals, RequestWorkerModelsRefresh,
                     TakePendingWorkerModelsRefreshSignals
<1>15. ASSUME NEW w \in WorkerId, DisconnectWorker(w) PROVE SentInv'
  <2>1. /\ \A v \in WorkerId :
             IF v = w THEN /\ in_flight_requests'[v] = <<>> /\ pending_worker_requests'[v] = <<>>
                           /\ handed'[v] = {}
             ELSE /\ in_flight_requests'[v] = in_flight_requests[v]
                  /\ pending_worker_requests'[v] = pending_worker_requests[v]
                  /\ handed'[v] = handed[v]
        /\ sockets' = sockets \ {w} /\ workers' = workers \ {w}
        /\ UNCHANGED next_request_id
    BY <1>15 DEF DisconnectWorker, ClearLists, CloseSocket, remove_workers, TypeOK
  <2>2. \A r \in Members(in_flight_requests[w]) : active_requests[r].at = "in_flight"
    BY DEF OnePlace, InFlightSound
  <2>3. \A r \in RequestId : active_requests[r].at = "absent" => active_requests'[r].at = "absent"
    BY <1>15, <2>2 DEF DisconnectWorker, Absent
  <2>4. ASSUME NEW v \in WorkerId PROVE SentAt(v)'
    BY <2>1, SmallSequences DEF SentInv, SentAt
  <2>5. ASSUME NEW v \in WorkerId PROVE HandedAt(v)'
    BY <2>1, <2>3, <1>b DEF SentInv, HandedAt
  <2>. QED  BY <2>4, <2>5 DEF SentInv
<1>16. ASSUME NEW w \in WorkerId, LoseRemovedSocket(w) PROVE SentInv'
  <2>1. /\ UNCHANGED <<workers, next_request_id, active_requests, in_flight_requests,
                       pending_worker_requests>>
        /\ \A v \in WorkerId : handed'[v] = IF v = w THEN {} ELSE handed[v]
        /\ sockets' = sockets \ {w}
    BY <1>16 DEF LoseRemovedSocket, CloseSocket, TypeOK
  <2>. QED  BY <2>1, <1>a, FewerHandedKeepsSent
<1>17. ASSUME NEW w \in WorkerId, GracefulShutdownCloseAction(w) PROVE SentInv'
  <2>. DEFINE expired == ExpiringWorkers
              idle    == /\ w \in workers \ expired
                         /\ is_draining(w) /\ in_flight_requests[w] = <<>>
              gone    == expired \cup {v \in {w} : idle}
              S       == InFlightOf(expired)
  <2>1. /\ Forget(S) /\ ClearLists(gone) /\ workers' = workers \ gone
        /\ UNCHANGED next_request_id
        /\ \/ UNCHANGED <<sockets, handed>>
           \/ sockets' = sockets \ {w} /\ handed' = [handed EXCEPT ![w] = {}]
    BY <1>17 DEF GracefulShutdownCloseAction, remove_workers, CloseSocket
  <2>2. /\ expired \in SUBSET workers
        /\ \A v \in gone : v \in expired \/ in_flight_requests[v] = <<>>
        /\ gone \in SUBSET workers
    BY DEF ExpiringWorkers
  <2>. HIDE DEF expired, gone
  <2>3. \A v \in gone : Members(in_flight_requests[v]) \subseteq S
    BY <2>2, GoneInFlight, SmallSequences DEF TypeOK
  <2>4. \A v \in WorkerId : handed'[v] \subseteq handed[v] /\ (handed'[v] # {} => v \in sockets')
    BY <2>1, <1>a DEF TypeOK
  <2>. HIDE DEF S
  <2>. QED  BY <2>1, <2>2, <2>3, <2>4, RemovalKeepsSent
<1>18. ASSUME BeginGracefulShutdown PROVE SentInv'
  BY <1>18, <1>0 DEF BeginGracefulShutdown
<1>19. ASSUME NEW p \in Providers, DeleteProvider(p) PROVE SentInv'
  <2>. DEFINE gone == {w \in workers : profile[w].provider = p}
              S == Members(provider_queues[p]) \cup InFlightOf(gone)
  <2>1. /\ Forget(S) /\ ClearLists(gone) /\ workers' = workers \ gone
        /\ UNCHANGED <<next_request_id, sockets, handed>>
    BY <1>19 DEF DeleteProvider, remove_workers
  <2>2. gone \in SUBSET workers
    OBVIOUS
  <2>. HIDE DEF gone
  <2>3. \A v \in gone : Members(in_flight_requests[v]) \subseteq S
    BY <2>2, GoneInFlight DEF TypeOK
  <2>. HIDE DEF S
  <2>. QED  BY <2>1, <2>2, <2>3, <1>a, RemovalKeepsSent
<1>20. ASSUME ExpireQueueTimeouts PROVE SentInv'
  <2>1. UNCHANGED <<workers, sockets, handed, next_request_id, in_flight_requests,
                    pending_worker_requests>>
    BY <1>20 DEF ExpireQueueTimeouts
  <2>2. \A r \in RequestId : active_requests[r].at = "absent" => active_requests'[r].at = "absent"
    BY <1>20 DEF ExpireQueueTimeouts, Forget, Absent
  <2>. QED  BY <2>1, <2>2, <1>0
<1>21. ASSUME \/ QueueTimeoutPasses
              \/ \E k \in 1..MaxShutdowns : DrainDeadlinePasses(k)
              \/ UNCHANGED vars
       PROVE  SentInv'
  BY <1>0, <1>21 DEF QueueTimeoutPasses, DrainDeadlinePasses, vars
<1>. QED
  BY <1>1, <1>2, <1>3, <1>4, <1>6, <1>7, <1>8, <1>9, <1>10, <1>11, <1>12, <1>13,
     <1>14, <1>15, <1>16, <1>17, <1>18, <1>19, <1>20, <1>21
  DEF Next, Submit, Answer

-----------------------------------------------------------------------------
(* A waiting handler for every active request, and for no other. *)

(* Requests that are forgotten lose their senders. *)
LEMMA ForgettingKeepsSenders ==
  ASSUME TypeOK, SenderWhileActive, NEW S, Forget(S), senders' = senders \ S
  PROVE  SenderWhileActive'
BY DEF SenderWhileActive, Forget, Absent

(* Requests that stay active, or stay out of the table, keep what they have. *)
LEMMA StayingKeepsSenders ==
  ASSUME SenderWhileActive, UNCHANGED senders,
         \A r \in RequestId :
           active_requests'[r].at = "absent" <=> active_requests[r].at = "absent"
  PROVE  SenderWhileActive'
BY DEF SenderWhileActive

(* cancel_request on a request in flight changes nothing but the mark. *)
LEMMA MarkingKeepsState ==
  ASSUME TypeOK, NEW r \in RequestId, NEW reason, CancelInFlight(r, reason), NEW q \in RequestId
  PROVE  /\ active_requests'[q].at = active_requests[q].at
         /\ active_requests'[q].worker = active_requests[q].worker
         /\ \/ active_requests'[q] = active_requests[q]
            \/ q = r /\ active_requests[q].cancellation = "none"
<1>1. active_requests[r] \in [at : {"in_flight"}, worker : WorkerId,
                              cancellation : CancelReason \cup {"none"}]
  BY DEF TypeOK, CancelInFlight, ActiveRequestState, Absent, Queued
<1>. DEFINE marked == [active_requests[r] EXCEPT !.cancellation = reason]
<1>2. marked.at = active_requests[r].at /\ marked.worker = active_requests[r].worker
  BY <1>1
<1>3. CASE UNCHANGED active_requests
  BY <1>3
<1>4. CASE /\ active_requests[r].cancellation = "none"
           /\ active_requests' = [active_requests EXCEPT ![r].cancellation = reason]
  <2>1. active_requests'[q] = IF q = r THEN marked ELSE active_requests[q]
    BY <1>4 DEF TypeOK
  <2>. HIDE DEF marked
  <2>. QED  BY <1>2, <1>4, <2>1
<1>. QED  BY <1>3, <1>4 DEF CancelInFlight

(* Every action answers the handler of each request it forgets, and of no other. *)
LEMMA SenderStep == PlaceInv /\ SentInv /\ SenderWhileActive /\ [Next]_vars => SenderWhileActive'
<1>. SUFFICES ASSUME TypeOK, OnePlace, FreshIds, SentInv, SenderWhileActive, [Next]_vars
              PROVE  SenderWhileActive'
  BY DEF PlaceInv
<1>0. ASSUME UNCHANGED <<senders, active_requests>> PROVE SenderWhileActive'
  BY <1>0 DEF SenderWhileActive
<1>1. ASSUME NEW reg \in Registrations, RegisterWorker(reg) PROVE SenderWhileActive'
  BY <1>0, <1>1 DEF RegisterWorker
<1>2. ASSUME NEW sub \in Submissions, SubmitDispatched(sub) \/ SubmitQueued(sub)
      PROVE  SenderWhileActive'
  <2>1. next_request_id \in RequestId /\ senders' = senders \cup {next_request_id}
    BY <1>2 DEF SubmitDispatched, SubmitQueued, TypeOK, RequestId
  <2>2. PICK state : /\ active_requests' = [active_requests EXCEPT ![next_request_id] = state]
                     /\ state.at # "absent"
    <3>1. Queued.at # "absent" /\ \A w : InFlight(w).at # "absent"
      BY DEF InFlight, Queued
    <3>. QED  BY <1>2, <3>1 DEF SubmitDispatched, SubmitQueued
  <2>3. \A r \in RequestId : active_requests'[r] =
                               IF r = next_request_id THEN state ELSE active_requests[r]
    BY <2>1, <2>2 DEF TypeOK
  <2>. QED  BY <2>1, <2>2, <2>3 DEF SenderWhileActive
<1>3. ASSUME NEW sub \in Submissions, SubmitRejected(sub) PROVE SenderWhileActive'
  BY <1>0, <1>3 DEF SubmitRejected
<1>4. ASSUME NEW r \in RequestId, CancelQueued(r) PROVE SenderWhileActive'
  <2>1. CASE Forget({r}) /\ senders' = senders \ {r}
    BY <2>1, ForgettingKeepsSenders
  <2>2. CASE UNCHANGED <<active_requests, senders>>
    BY <1>0, <2>2
  <2>. QED  BY <1>4, <2>1, <2>2 DEF CancelQueued
<1>5. ASSUME NEW r \in RequestId, NEW reason \in CancelReason, CancelInFlight(r, reason)
      PROVE  SenderWhileActive'
  <2>1. \A q \in RequestId : active_requests'[q].at = active_requests[q].at
    BY <1>5, MarkingKeepsState
  <2>2. UNCHANGED senders
    BY <1>5 DEF CancelInFlight
  <2>. QED  BY <2>1, <2>2, StayingKeepsSenders
<1>6. ASSUME NEW w \in WorkerId, NEW ms, NEW load \in Nat, DrainQueues(w, ms, load),
             UNCHANGED senders
      PROVE  SenderWhileActive'
  <2>. DEFINE n == Room(w, load, in_flight_requests[w])
  <2>1. n \in Nat
    BY RoomIsNat DEF TypeOK
  <2>2. PICK batch \in Batches(w, ms, n) :
          active_requests' = [r \in RequestId |->
            IF r \in Members(batch) THEN InFlight(w) ELSE active_requests[r]]
    BY <1>6 DEF DrainQueues
  <2>. HIDE DEF n
  <2>3. \A r \in Members(batch) : active_requests[r].at = "queued"
    BY <2>1, BatchProperties DEF QueuedRequests
  <2>. QED  BY <1>6, <2>2, <2>3, StayingKeepsSenders DEF InFlight
<1>7. ASSUME NEW w \in WorkerId, NEW raw \in Updates, NEW load \in Loads,
             UpdateWorkerModels(w, raw, load)
      PROVE  SenderWhileActive'
  BY <1>6, <1>7, InputsAssumption DEF UpdateWorkerModels
<1>8. ASSUME NEW w \in WorkerId, NEW load \in Loads, RecordWorkerPong(w, load)
      PROVE  SenderWhileActive'
  BY <1>6, <1>8, InputsAssumption DEF RecordWorkerPong
<1>9. ASSUME NEW w \in WorkerId, NEW r \in RequestId, StreamHttpResponseChunk(w, r)
      PROVE  SenderWhileActive'
  BY <1>0, <1>9 DEF StreamHttpResponseChunk
<1>10. ASSUME NEW w \in WorkerId, NEW r \in RequestId, FinishRequest(w, r)
       PROVE  SenderWhileActive'
  <2>. DEFINE flight == Without(in_flight_requests[w], {r})
              load == saturating_sub(reported_load[w], 1)
              n == IF Room(w, load, flight) > 0 THEN 1 ELSE 0
  <2>1. n \in Nat
    OBVIOUS
  <2>2. PICK batch \in Batches(w, models[w], n) :
          active_requests' = [q \in RequestId |-> IF q = r THEN Absent
                                ELSE IF q \in Members(batch) THEN InFlight(w)
                                ELSE active_requests[q]]
    BY <1>10 DEF FinishRequest
  <2>. HIDE DEF n
  <2>3. \A q \in Members(batch) : active_requests[q].at = "queued"
    BY <2>1, BatchProperties DEF QueuedRequests
  <2>4. senders' = senders \ {r}
    BY <1>10 DEF FinishRequest, Respond
  <2>. QED  BY <2>2, <2>3, <2>4 DEF SenderWhileActive, InFlight, Absent
<1>11. ASSUME NEW w \in WorkerId, NEW r \in RequestId, FinishDrain(w, r)
       PROVE  SenderWhileActive'
  BY <1>11, ForgettingKeepsSenders DEF FinishDrain, Respond
<1>12. ASSUME NEW w \in WorkerId, NEW r \in RequestId, LateResponse(w, r)
       PROVE  SenderWhileActive'
  <2>1. active_requests[r].at = "absent"
    BY <1>12 DEF LateResponse, SentInv, HandedAt
  <2>2. senders' = senders \ {r} /\ UNCHANGED active_requests
    BY <1>12 DEF LateResponse, Respond
  <2>. QED  BY <2>1, <2>2 DEF SenderWhileActive
<1>13. ASSUME NEW w \in WorkerId,
              \/ TakePendingWorkerRequests(w) \/ TakePendingWorkerCancelSignals(w)
              \/ TakePendingWorkerGracefulShutdownSignals(w)
              \/ RequestWorkerModelsRefresh(w) \/ TakePendingWorkerModelsRefreshSignals(w)
              \/ LoseRemovedSocket(w)
       PROVE  SenderWhileActive'
  BY <1>0, <1>13
  DEF TakePendingWorkerRequests, TakePendingWorkerCancelSignals,
      TakePendingWorkerGracefulShutdownSignals, RequestWorkerModelsRefresh,
      TakePendingWorkerModelsRefreshSignals, LoseRemovedSocket
<1>14. ASSUME NEW w \in WorkerId, DisconnectWorker(w) PROVE SenderWhileActive'
  <2>. DEFINE lost     == Members(in_flight_requests[w])
              canceled == {r \in lost : WasCanceled(r)}
              worn     == {r \in lost \ canceled : RequeuesExhausted(r)}
              failed   == canceled \cup worn
  <2>1. /\ active_requests' = [r \in RequestId |-> IF r \in failed THEN Absent
                                                   ELSE IF r \in lost THEN Queued
                                                   ELSE active_requests[r]]
        /\ senders' = senders \ failed
    BY <1>14 DEF DisconnectWorker, fail_pending_http_response
  <2>2. \A r \in lost : active_requests[r].at = "in_flight"
    BY DEF OnePlace, InFlightSound
  <2>. HIDE DEF lost, failed
  <2>. QED  BY <2>1, <2>2 DEF SenderWhileActive, Absent, Queued
<1>15. ASSUME NEW w \in WorkerId, GracefulShutdownCloseAction(w) PROVE SenderWhileActive'
  BY <1>15, ForgettingKeepsSenders
     DEF GracefulShutdownCloseAction, fail_pending_http_response
<1>16. ASSUME BeginGracefulShutdown PROVE SenderWhileActive'
  BY <1>0, <1>16 DEF BeginGracefulShutdown
<1>17. ASSUME NEW p \in Providers, DeleteProvider(p) PROVE SenderWhileActive'
  BY <1>17, ForgettingKeepsSenders DEF DeleteProvider, fail_pending_http_response
<1>18. ASSUME ExpireQueueTimeouts PROVE SenderWhileActive'
  BY <1>18, ForgettingKeepsSenders DEF ExpireQueueTimeouts, fail_pending_http_response
<1>19. ASSUME \/ QueueTimeoutPasses
              \/ \E k \in 1..MaxShutdowns : DrainDeadlinePasses(k)
              \/ UNCHANGED vars
       PROVE  SenderWhileActive'
  BY <1>0, <1>19 DEF QueueTimeoutPasses, DrainDeadlinePasses, vars
<1>. QED
  BY <1>1, <1>2, <1>3, <1>4, <1>5, <1>7, <1>8, <1>9, <1>10, <1>11, <1>12, <1>13,
     <1>14, <1>15, <1>16, <1>17, <1>18, <1>19
  DEF Next, Submit, Cancel, Answer

-----------------------------------------------------------------------------
(* No worker above its slots. *)

(* Dispatching to a worker fills at most its free slots. *)
LEMMA AssignmentKeepsCapacity ==
  ASSUME TypeOK, CapacityRespected, NEW w \in workers, NEW load \in Nat,
         NEW flight \in Seq(RequestId), Len(flight) <= profile[w].max_concurrent,
         NEW batch \in Seq(RequestId), Len(batch) <= Room(w, load, flight),
         in_flight_requests' = [in_flight_requests EXCEPT ![w] = flight \o batch],
         UNCHANGED <<workers, profile>>
  PROVE  CapacityRespected'
<1>1. w \in WorkerId /\ profile[w].max_concurrent \in Nat
  BY DEF TypeOK
<1>2. Len(flight \o batch) = Len(flight) + Len(batch)
  OBVIOUS
<1>3. Len(flight \o batch) <= profile[w].max_concurrent
  <2>1. Len(batch) = 0 \/ Room(w, load, flight) > 0
    BY <1>1, RoomIsNat
  <2>2. Room(w, load, flight) > 0 =>
          Len(flight) + Room(w, load, flight) <= profile[w].max_concurrent
    BY <1>1, RoomIsNat
  <2>3. Room(w, load, flight) \in Nat
    BY <1>1, RoomIsNat
  <2>. QED  BY <1>1, <1>2, <2>1, <2>2, <2>3
<1>4. in_flight_requests'[w] = flight \o batch
      /\ \A v \in WorkerId : v # w => in_flight_requests'[v] = in_flight_requests[v]
  BY <1>1 DEF TypeOK
<1>. QED  BY <1>3, <1>4 DEF CapacityRespected, TypeOK

(* Clearing the lists of workers that are removed lets no other grow. *)
LEMMA ClearingKeepsCapacity ==
  ASSUME TypeOK, CapacityRespected, NEW gone, ClearLists(gone), workers' = workers \ gone,
         UNCHANGED profile
  PROVE  CapacityRespected'
BY DEF CapacityRespected, ClearLists, TypeOK

(* Every action respects the slots of every worker. *)
LEMMA CapacityStep == PlaceInv /\ SocketInv /\ CapacityRespected /\ [Next]_vars => CapacityRespected'
<1>. SUFFICES ASSUME TypeOK, OnePlace, SocketInv, CapacityRespected, [Next]_vars
              PROVE  CapacityRespected'
  BY DEF PlaceInv
<1>0. ASSUME UNCHANGED <<workers, profile, in_flight_requests>> PROVE CapacityRespected'
  BY <1>0 DEF CapacityRespected
<1>1. ASSUME NEW reg \in Registrations, RegisterWorker(reg) PROVE CapacityRespected'
  <2>. DEFINE n == next_worker_id
  <2>1. /\ n \in WorkerId /\ workers' = workers \cup {n} /\ UNCHANGED in_flight_requests
        /\ \A w \in WorkerId : w # n => profile'[w] = profile[w]
        /\ profile'[n].max_concurrent = MaxOf(reg.max_concurrent, 1)
    BY <1>1, BoundsAssumption DEF RegisterWorker, TypeOK, WorkerId
  <2>2. n \notin workers /\ Len(in_flight_requests[n]) = 0
    <3>1. n \notin sockets
      BY <2>1 DEF SocketInv, SocketsDrawn, WorkerId
    <3>. QED  BY <2>1, <3>1 DEF SocketInv, RegistryMatchesSockets, OnePlace, InFlightSound
  <2>3. MaxOf(reg.max_concurrent, 1) >= 1
    BY InputsAssumption DEF MaxOf
  <2>4. profile'[n].max_concurrent \in Nat
    BY <2>1, InputsAssumption DEF MaxOf
  <2>5. \A w \in workers : w # n /\ w \in WorkerId
    BY <2>2 DEF TypeOK
  <2>. HIDE DEF n
  <2>. QED  BY <2>1, <2>2, <2>3, <2>4, <2>5 DEF CapacityRespected
<1>2. ASSUME NEW sub \in Submissions, SubmitDispatched(sub) PROVE CapacityRespected'
  <2>1. PICK sel \in find_eligible_worker_id(sub) :
          assign_to_worker(sel.worker, <<next_request_id>>, reported_load[sel.worker],
                           in_flight_requests[sel.worker])
    BY <1>2 DEF SubmitDispatched
  <2>. DEFINE w == sel.worker
              batch == <<next_request_id>>
              flight == in_flight_requests[w]
  <2>2. w \in workers /\ w \in WorkerId /\ worker_has_capacity(w)
    BY SelectionProperties DEF TypeOK
  <2>3. next_request_id \in RequestId
    BY <1>2 DEF SubmitDispatched, TypeOK, RequestId
  <2>4. batch \in Seq(RequestId) /\ Len(batch) = 1 /\ flight \in Seq(RequestId)
        /\ Len(flight) <= profile[w].max_concurrent /\ reported_load[w] \in Nat
    BY <2>2, <2>3 DEF CapacityRespected, TypeOK
  <2>5. 1 <= Room(w, reported_load[w], flight)
    BY <2>2 DEF worker_has_capacity, selection_load, Room, MaxOf, TypeOK
  <2>6. /\ in_flight_requests' = [in_flight_requests EXCEPT ![w] = flight \o batch]
        /\ UNCHANGED <<workers, profile>>
    BY <1>2, <2>1 DEF SubmitDispatched, assign_to_worker
  <2>. HIDE DEF w, batch, flight
  <2>. QED  BY <2>2, <2>4, <2>5, <2>6, AssignmentKeepsCapacity
<1>3. ASSUME NEW sub \in Submissions, SubmitQueued(sub) \/ SubmitRejected(sub)
      PROVE  CapacityRespected'
  BY <1>0, <1>3 DEF SubmitQueued, SubmitRejected
<1>4. ASSUME NEW r \in RequestId, Cancel(r) PROVE CapacityRespected'
  BY <1>0, <1>4 DEF Cancel, CancelQueued, CancelInFlight
<1>5. ASSUME NEW w \in workers, NEW ms, NEW load \in Nat, DrainQueues(w, ms, load),
             UNCHANGED <<workers, profile>>
      PROVE  CapacityRespected'
  <2>. DEFINE flight == in_flight_requests[w]
              n == Room(w, load, flight)
  <2>1. flight \in Seq(RequestId) /\ Len(flight) <= profile[w].max_concurrent
        /\ w \in WorkerId
    BY DEF CapacityRespected, TypeOK
  <2>2. n \in Nat
    BY <2>1, RoomIsNat
  <2>3. PICK batch \in Batches(w, ms, n) : assign_to_worker(w, batch, load, flight)
    BY <1>5 DEF DrainQueues
  <2>4. batch \in Seq(RequestId) /\ Len(batch) <= n
    <3>. HIDE DEF n
    <3>. QED  BY <2>2, BatchProperties
  <2>5. in_flight_requests' = [in_flight_requests EXCEPT ![w] = flight \o batch]
    BY <2>3 DEF assign_to_worker
  <2>. HIDE DEF flight
  <2>. QED  BY <1>5, <2>1, <2>4, <2>5, AssignmentKeepsCapacity
<1>6. ASSUME NEW w \in WorkerId, NEW raw \in Updates, NEW load \in Loads,
             UpdateWorkerModels(w, raw, load)
      PROVE  CapacityRespected'
  BY <1>5, <1>6, InputsAssumption DEF UpdateWorkerModels
<1>7. ASSUME NEW w \in WorkerId, NEW load \in Loads, RecordWorkerPong(w, load)
      PROVE  CapacityRespected'
  BY <1>5, <1>7, InputsAssumption DEF RecordWorkerPong
<1>8. ASSUME NEW w \in WorkerId, NEW r \in RequestId, FinishRequest(w, r)
      PROVE  CapacityRespected'
  <2>. DEFINE F == {r}
              flight == Without(in_flight_requests[w], F)
              load == saturating_sub(reported_load[w], 1)
              n == IF Room(w, load, flight) > 0 THEN 1 ELSE 0
  <2>1. w \in workers /\ load \in Nat /\ UNCHANGED <<workers, profile>>
    BY <1>8 DEF FinishRequest, saturating_sub, MaxOf, TypeOK
  <2>2. flight \in Seq(RequestId) /\ Len(flight) <= Len(in_flight_requests[w])
    BY WithoutProperties DEF TypeOK
  <2>3. PICK batch \in Batches(w, models[w], n) : assign_to_worker(w, batch, load, flight)
    BY <1>8 DEF FinishRequest
  <2>4. Len(flight) <= profile[w].max_concurrent
    <3>1. Len(in_flight_requests[w]) <= profile[w].max_concurrent
      BY <2>1 DEF CapacityRespected
    <3>2. Len(in_flight_requests[w]) \in Nat /\ profile[w].max_concurrent \in Nat
      BY DEF TypeOK
    <3>3. Len(flight) \in Nat
      BY <2>2
    <3>. HIDE DEF flight
    <3>. QED  BY <2>2, <3>1, <3>2, <3>3
  <2>. HIDE DEF flight, load
  <2>5. n \in Nat /\ n <= Room(w, load, flight)
    <3>1. Room(w, load, flight) \in Nat
      BY <2>1, <2>2, RoomIsNat
    <3>. QED  BY <3>1
  <2>. HIDE DEF n
  <2>6. batch \in Seq(RequestId) /\ Len(batch) <= n
    BY <2>5, BatchProperties
  <2>7. Len(batch) <= Room(w, load, flight)
    BY <2>1, <2>2, <2>5, <2>6, RoomIsNat
  <2>8. in_flight_requests' = [in_flight_requests EXCEPT ![w] = flight \o batch]
    BY <2>3 DEF assign_to_worker
  <2>. QED  BY <2>1, <2>2, <2>4, <2>6, <2>7, <2>8, AssignmentKeepsCapacity
<1>9. ASSUME NEW w \in WorkerId, NEW r \in RequestId, FinishDrain(w, r)
      PROVE  CapacityRespected'
  BY <1>9, ClearingKeepsCapacity DEF FinishDrain, remove_workers
<1>10. ASSUME NEW w \in WorkerId, NEW r \in RequestId,
              StreamHttpResponseChunk(w, r) \/ LateResponse(w, r)
       PROVE  CapacityRespected'
  BY <1>0, <1>10 DEF StreamHttpResponseChunk, LateResponse
<1>11. ASSUME NEW w \in WorkerId,
              \/ TakePendingWorkerRequests(w) \/ TakePendingWorkerCancelSignals(w)
              \/ TakePendingWorkerGracefulShutdownSignals(w)
              \/ RequestWorkerModelsRefresh(w) \/ TakePendingWorkerModelsRefreshSignals(w)
              \/ LoseRemovedSocket(w)
       PROVE  CapacityRespected'
  BY <1>0, <1>11
  DEF TakePendingWorkerRequests, TakePendingWorkerCancelSignals,
      TakePendingWorkerGracefulShutdownSignals, RequestWorkerModelsRefresh,
      TakePendingWorkerModelsRefreshSignals, LoseRemovedSocket
<1>12. ASSUME NEW w \in WorkerId, DisconnectWorker(w) PROVE CapacityRespected'
  BY <1>12, ClearingKeepsCapacity DEF DisconnectWorker, remove_workers
<1>13. ASSUME NEW w \in WorkerId, GracefulShutdownCloseAction(w) PROVE CapacityRespected'
  BY <1>13, ClearingKeepsCapacity DEF GracefulShutdownCloseAction, remove_workers
<1>14. ASSUME NEW p \in Providers, DeleteProvider(p) PROVE CapacityRespected'
  BY <1>14, ClearingKeepsCapacity DEF DeleteProvider, remove_workers
<1>15. ASSUME \/ BeginGracefulShutdown \/ QueueTimeoutPasses \/ ExpireQueueTimeouts
              \/ \E k \in 1..MaxShutdowns : DrainDeadlinePasses(k)
              \/ UNCHANGED vars
       PROVE  CapacityRespected'
  BY <1>0, <1>15 DEF BeginGracefulShutdown, QueueTimeoutPasses, ExpireQueueTimeouts,
                     DrainDeadlinePasses, vars
<1>. QED
  BY <1>1, <1>2, <1>3, <1>4, <1>6, <1>7, <1>8, <1>9, <1>10, <1>11, <1>12, <1>13,
     <1>14, <1>15
  DEF Next, Submit, Answer

-----------------------------------------------------------------------------
(* A queue exceeds its limit only by what was requeued. *)

FreshMembers(p) == {r \in Members(provider_queues[p]) : requeue_count[r] = 0}

(* In a sequence without repeats, positions and members are equally many. *)
LEMMA PositionsAreMembers ==
  ASSUME NEW S, NEW s \in Seq(S), NEW count, NoRepeats(s)
  PROVE  /\ IsFiniteSet({i \in DOMAIN s : count[s[i]] = 0})
         /\ IsFiniteSet({x \in Members(s) : count[x] = 0})
         /\ Cardinality({i \in DOMAIN s : count[s[i]] = 0}) =
              Cardinality({x \in Members(s) : count[x] = 0})
<1>. DEFINE I == {i \in DOMAIN s : count[s[i]] = 0}
            M == {x \in Members(s) : count[x] = 0}
            f == [i \in I |-> s[i]]
<1>1. IsFiniteSet(I)
  <2>1. Len(s) \in Nat /\ DOMAIN s = 1..Len(s) /\ I \in SUBSET (1..Len(s))
    OBVIOUS
  <2>2. IsFiniteSet(1..Len(s))
    BY <2>1, FS_Interval
  <2>. HIDE DEF I
  <2>. QED  BY <2>1, <2>2, FS_Subset
<1>2. f \in Bijection(I, M)
  <2>1. f \in [I -> M]
    BY DEF Members
  <2>2. \A i, j \in I : f[i] = f[j] => i = j
    BY DEF NoRepeats
  <2>3. \A x \in M : \E i \in I : f[i] = x
    BY DEF Members
  <2>. HIDE DEF I, M, f
  <2>. QED  BY <2>1, <2>2, <2>3 DEF Bijection, Injection, Surjection, IsInjective
<1>3. ExistsBijection(I, M)
  BY <1>2 DEF ExistsBijection
<1>. HIDE DEF I, M
<1>. QED  BY <1>1, <1>3, FS_Bijection DEF I, M

(* Without new members that were never requeued, no queue exceeds its limit. *)
LEMMA FewerFreshKeepsBound ==
  ASSUME TypeOK, TypeOK', OnePlace, OnePlace', FreshQueueBounded,
         NEW p \in Providers, FreshMembers(p)' \subseteq FreshMembers(p)
  PROVE  Cardinality({i \in DOMAIN provider_queues'[p] :
                        requeue_count'[provider_queues'[p][i]] = 0}) <= Policy[p].max_queue_len
<1>. DEFINE I == {i \in DOMAIN provider_queues[p] : requeue_count[provider_queues[p][i]] = 0}
            J == {i \in DOMAIN provider_queues'[p] : requeue_count'[provider_queues'[p][i]] = 0}
            M == FreshMembers(p)
            N == FreshMembers(p)'
<1>1. /\ provider_queues[p] \in Seq(RequestId) /\ NoRepeats(provider_queues[p])
      /\ provider_queues'[p] \in Seq(RequestId) /\ NoRepeats(provider_queues'[p])
  BY DEF TypeOK, OnePlace, QueuesSound
<1>2. /\ IsFiniteSet(M) /\ Cardinality(I) = Cardinality(M)
      /\ Cardinality(J) = Cardinality(N) /\ IsFiniteSet(N)
  <2>1. IsFiniteSet(M) /\ Cardinality(I) = Cardinality(M)
    BY <1>1, PositionsAreMembers DEF FreshMembers
  <2>2. Cardinality(J) = Cardinality(N) /\ IsFiniteSet(N)
    <3>. DEFINE s == provider_queues'[p]
                count == requeue_count'
    <3>1. s \in Seq(RequestId) /\ NoRepeats(s)
      BY <1>1
    <3>2. J = {i \in DOMAIN s : count[s[i]] = 0} /\ N = {x \in Members(s) : count[x] = 0}
      BY DEF FreshMembers
    <3>. HIDE DEF s, count, J, N
    <3>. QED  BY <3>1, <3>2, PositionsAreMembers, ZenonT(30)
  <2>. QED  BY <2>1, <2>2
<1>3. N \in SUBSET M
  OBVIOUS
<1>4. Cardinality(I) <= Policy[p].max_queue_len /\ Policy[p].max_queue_len \in Nat
  BY InputsAssumption DEF FreshQueueBounded
<1>. HIDE DEF I, J, M, N
<1>5. Cardinality(N) <= Cardinality(M)
  BY <1>2, <1>3, FS_Subset
<1>6. Cardinality(M) \in Nat /\ Cardinality(N) \in Nat
  BY <1>2, FS_CardinalityType
<1>. QED  BY <1>2, <1>4, <1>5, <1>6 DEF J

(* Only a submission adds to a queue what was never requeued. *)
NoFreshJoins == \A p \in Providers : FreshMembers(p)' \subseteq FreshMembers(p)

LEMMA OnlySubmissionsJoin ==
  PlaceInv /\ TypeOK' /\ [Next]_vars =>
    NoFreshJoins \/ \E sub \in Submissions : SubmitQueued(sub)
<1>. SUFFICES ASSUME TypeOK, TypeOK', OnePlace, [Next]_vars,
                     ~(\E sub \in Submissions : SubmitQueued(sub))
              PROVE  NoFreshJoins
  BY DEF PlaceInv
<1>0. ASSUME \A p \in Providers : FreshMembers(p)' \subseteq FreshMembers(p)
      PROVE  NoFreshJoins
  BY <1>0 DEF NoFreshJoins
<1>a. ASSUME UNCHANGED <<provider_queues, requeue_count>> PROVE NoFreshJoins
  BY <1>a DEF NoFreshJoins, FreshMembers
<1>b. ASSUME NEW S, LeaveQueues(S), UNCHANGED requeue_count PROVE NoFreshJoins
  <2>1. \A p \in Providers : Members(provider_queues'[p]) = Members(provider_queues[p]) \ S
    BY <1>b, WithoutProperties DEF LeaveQueues, TypeOK
  <2>. QED  BY <1>0, <1>b, <2>1 DEF FreshMembers
<1>1. ASSUME NEW reg \in Registrations, RegisterWorker(reg) PROVE NoFreshJoins
  BY <1>a, <1>1 DEF RegisterWorker
<1>2. ASSUME NEW sub \in Submissions, SubmitDispatched(sub) \/ SubmitRejected(sub)
      PROVE  NoFreshJoins
  BY <1>a, <1>2 DEF SubmitDispatched, SubmitRejected
<1>4. ASSUME NEW r \in RequestId, CancelQueued(r) PROVE NoFreshJoins
  <2>. DEFINE p == request[r].provider
  <2>1. p \in Providers
    BY InputsAssumption DEF TypeOK
  <2>2. Members(Without(provider_queues[p], {r})) = Members(provider_queues[p]) \ {r}
    BY <2>1, WithoutProperties, SMTT(30) DEF TypeOK
  <2>3. \/ UNCHANGED <<provider_queues, requeue_count>>
        \/ /\ provider_queues' = [provider_queues EXCEPT ![p] = Without(@, {r})]
           /\ UNCHANGED requeue_count
    BY <1>4 DEF CancelQueued
  <2>4. \A o \in Providers : Members(provider_queues'[o]) \subseteq Members(provider_queues[o])
    BY <2>1, <2>2, <2>3 DEF TypeOK
  <2>. QED  BY <1>0, <2>3, <2>4 DEF FreshMembers
<1>5. ASSUME NEW r \in RequestId, NEW reason \in CancelReason, CancelInFlight(r, reason)
      PROVE  NoFreshJoins
  BY <1>a, <1>5 DEF CancelInFlight
<1>6. ASSUME NEW w \in WorkerId, NEW raw \in Updates, NEW load \in Loads,
             UpdateWorkerModels(w, raw, load)
      PROVE  NoFreshJoins
  BY <1>b, <1>6 DEF UpdateWorkerModels, DrainQueues
<1>7. ASSUME NEW w \in WorkerId, NEW load \in Loads, RecordWorkerPong(w, load)
      PROVE  NoFreshJoins
  BY <1>b, <1>7 DEF RecordWorkerPong, DrainQueues
<1>8. ASSUME NEW w \in WorkerId, NEW r \in RequestId, FinishRequest(w, r)
      PROVE  NoFreshJoins
  BY <1>b, <1>8 DEF FinishRequest
<1>9. ASSUME NEW w \in WorkerId, NEW r \in RequestId,
             \/ StreamHttpResponseChunk(w, r) \/ FinishDrain(w, r) \/ LateResponse(w, r)
      PROVE  NoFreshJoins
  BY <1>a, <1>9 DEF StreamHttpResponseChunk, FinishDrain, LateResponse
<1>10. ASSUME NEW w \in WorkerId,
              \/ TakePendingWorkerRequests(w) \/ TakePendingWorkerCancelSignals(w)
              \/ TakePendingWorkerGracefulShutdownSignals(w)
              \/ RequestWorkerModelsRefresh(w) \/ TakePendingWorkerModelsRefreshSignals(w)
              \/ LoseRemovedSocket(w) \/ GracefulShutdownCloseAction(w)
       PROVE  NoFreshJoins
  BY <1>a, <1>10
  DEF TakePendingWorkerRequests, TakePendingWorkerCancelSignals,
      TakePendingWorkerGracefulShutdownSignals, RequestWorkerModelsRefresh,
      TakePendingWorkerModelsRefreshSignals, LoseRemovedSocket, GracefulShutdownCloseAction
<1>11. ASSUME NEW w \in WorkerId, DisconnectWorker(w) PROVE NoFreshJoins
  <2>. DEFINE lost     == Members(in_flight_requests[w])
              canceled == {r \in lost : WasCanceled(r)}
              worn     == {r \in lost \ canceled : RequeuesExhausted(r)}
              failed   == canceled \cup worn
              back     == Without(in_flight_requests[w], failed)
              p        == profile[w].provider
  <2>1. /\ w \in workers
        /\ provider_queues' = [provider_queues EXCEPT ![p] = back \o @]
        /\ requeue_count' = [r \in RequestId |-> IF r \in lost \ failed
                                                 THEN requeue_count[r] + 1
                                                 ELSE requeue_count[r]]
    BY <1>11 DEF DisconnectWorker
  <2>. HIDE DEF failed
  <2>2. p \in Providers
    BY <2>1 DEF TypeOK
  <2>3. back \in Seq(RequestId) /\ Members(back) = lost \ failed
    BY WithoutProperties, SMTT(30) DEF TypeOK
  <2>4. \A o \in Providers : Members(provider_queues[o]) \cap lost = {}
    BY DEF OnePlace, QueuesSound, InFlightSound
  <2>. HIDE DEF back, lost
  <2>5. \A r \in RequestId : r \in lost \ failed => requeue_count'[r] # 0
    <3>1. \A r \in RequestId : requeue_count[r] \in Nat
      BY DEF TypeOK
    <3>. QED  BY <2>1, <3>1
  <2>6. \A r \in RequestId : r \notin lost => requeue_count'[r] = requeue_count[r]
    BY <2>1
  <2>7. Members(back \o provider_queues[p]) = (lost \ failed) \cup Members(provider_queues[p])
    <3>1. provider_queues[p] \in Seq(RequestId)
      BY <2>2 DEF TypeOK
    <3>. HIDE DEF p
    <3>. QED  BY <2>3, <3>1, JoinProperties
  <2>8. \A o \in Providers : Members(provider_queues'[o]) =
          Members(provider_queues[o]) \cup (IF o = p THEN lost \ failed ELSE {})
    BY <2>1, <2>2, <2>7 DEF TypeOK
  <2>9. \A o \in Providers : Members(provider_queues'[o]) \subseteq RequestId
    BY SMTT(30) DEF TypeOK, Members
  <2>. HIDE DEF p
  <2>10. \A o \in Providers : FreshMembers(o)' \subseteq FreshMembers(o)
    BY <2>4, <2>5, <2>6, <2>8, <2>9 DEF FreshMembers
  <2>. QED  BY <1>0, <2>10
<1>12. ASSUME NEW p \in Providers, DeleteProvider(p) PROVE NoFreshJoins
  <2>1. /\ provider_queues' = [provider_queues EXCEPT ![p] = <<>>]
        /\ UNCHANGED requeue_count
    BY <1>12 DEF DeleteProvider
  <2>2. \A o \in Providers : Members(provider_queues'[o]) \subseteq Members(provider_queues[o])
    BY <2>1, SmallSequences DEF TypeOK
  <2>. QED  BY <1>0, <2>1, <2>2 DEF FreshMembers
<1>13. ASSUME ExpireQueueTimeouts PROVE NoFreshJoins
  <2>. DEFINE late(o) == {r \in Members(provider_queues[o]) : TimedOut(o, r)}
  <2>1. /\ \A o \in Providers : provider_queues'[o] = Without(provider_queues[o], late(o))
        /\ UNCHANGED requeue_count
    BY <1>13 DEF ExpireQueueTimeouts
  <2>2. \A o \in Providers : provider_queues[o] \in Seq(RequestId)
    BY DEF TypeOK
  <2>. HIDE DEF late
  <2>3. \A o \in Providers : Members(provider_queues'[o]) \subseteq Members(provider_queues[o])
    BY <2>1, <2>2, WithoutProperties
  <2>. QED  BY <1>0, <2>1, <2>3 DEF FreshMembers
<1>14. ASSUME \/ BeginGracefulShutdown \/ QueueTimeoutPasses
              \/ \E k \in 1..MaxShutdowns : DrainDeadlinePasses(k)
              \/ UNCHANGED vars
       PROVE  NoFreshJoins
  BY <1>a, <1>14 DEF BeginGracefulShutdown, QueueTimeoutPasses, DrainDeadlinePasses, vars
<1>. QED
  BY <1>1, <1>2, <1>4, <1>5, <1>6, <1>7, <1>8, <1>9, <1>10, <1>11, <1>12, <1>13, <1>14
  DEF Next, Submit, Cancel, Answer

(* Every action keeps what was never requeued within the limit of its queue. *)
LEMMA FreshStep ==
  PlaceInv /\ PlaceInv' /\ FreshQueueBounded /\ [Next]_vars => FreshQueueBounded'
<1>. SUFFICES ASSUME PlaceInv, PlaceInv', TypeOK, TypeOK', OnePlace, OnePlace',
                     FreshQueueBounded, [Next]_vars
              PROVE  FreshQueueBounded'
  BY DEF PlaceInv
<1>0. ASSUME NoFreshJoins PROVE FreshQueueBounded'
  BY <1>0, FewerFreshKeepsBound DEF FreshQueueBounded, NoFreshJoins
<1>3. ASSUME NEW sub \in Submissions, SubmitQueued(sub) PROVE FreshQueueBounded'
  <2>. DEFINE p == sub.provider
              q == provider_queues[p]
              J == {i \in DOMAIN provider_queues'[p] : requeue_count'[provider_queues'[p][i]] = 0}
  <2>1. p \in Providers /\ Policy[p].max_queue_len \in Nat
    BY InputsAssumption
  <2>2. /\ Len(q) < Policy[p].max_queue_len /\ q \in Seq(RequestId)
        /\ provider_queues' = [provider_queues EXCEPT ![p] = Append(q, next_request_id)]
        /\ UNCHANGED requeue_count
    BY <1>3, <2>1 DEF SubmitQueued, QueueHasSpace, TypeOK
  <2>3. DOMAIN provider_queues'[p] = 1..(Len(q) + 1) /\ Len(q) \in Nat
    BY <2>1, <2>2 DEF TypeOK
  <2>4. IsFiniteSet(1..(Len(q) + 1)) /\ Cardinality(1..(Len(q) + 1)) = Len(q) + 1
    <3>. DEFINE k == Len(q) + 1
    <3>1. k \in Nat /\ k >= 1
      BY <2>3
    <3>. HIDE DEF k
    <3>2. /\ IsFiniteSet(1..k)
          /\ Cardinality(1..k) = IF 1 > k THEN 0 ELSE k - 1 + 1
      BY <3>1, FS_Interval
    <3>3. IsFiniteSet(1..k) /\ Cardinality(1..k) = k
      BY <3>1, <3>2
    <3>. QED  BY <3>3 DEF k
  <2>5. J \in SUBSET (1..(Len(q) + 1))
    BY <2>3
  <2>. HIDE DEF J
  <2>6. Cardinality(J) <= Len(q) + 1 /\ IsFiniteSet(J)
    BY <2>4, <2>5, FS_Subset
  <2>7. Cardinality(J) \in Nat
    BY <2>6, FS_CardinalityType
  <2>8. Cardinality(J) <= Policy[p].max_queue_len
    BY <2>1, <2>2, <2>3, <2>6, <2>7
  <2>9. \A o \in Providers : o # p => provider_queues'[o] = provider_queues[o]
    BY <2>2 DEF TypeOK
  <2>. HIDE DEF p
  <2>. QED  BY <2>2, <2>8, <2>9 DEF FreshQueueBounded, J
<1>. QED  BY <1>0, <1>3, OnlySubmissionsJoin

-----------------------------------------------------------------------------
(* What a dispatch may assign, and what a report leaves in the queues. *)

(* Whatever path of the routing selects a worker, it serves the model and the path. *)
LEMMA SelectionCompatible ==
  ASSUME NEW sub, NEW sel \in find_eligible_worker_id(sub)
  PROVE  /\ supports_model(models[sel.worker], sub.model)
         /\ supports_endpoint(sel.worker, sub.path)
<1>. DEFINE Good(s) == /\ supports_model(models[s.worker], sub.model)
                       /\ supports_endpoint(s.worker, sub.path)
<1>1. ASSUME NEW provs, NEW key, NEW s \in RoundRobin(Eligible(sub, provs), key)
      PROVE  Good(s)
  BY DEF RoundRobin, LeastLoaded, First, Eligible
<1>2. ASSUME NEW s \in Unfiltered(sub) PROVE Good(s)
  BY <1>1 DEF Unfiltered
<1>3. ASSUME NEW s \in WithRouting(sub) PROVE Good(s)
  <2>. DEFINE provs == sub.routing.only \ sub.routing.ignore
              ws == Eligible(sub, provs)
              preferred == Preferred(sub.routing.order, ws)
  <2>1. CASE ws = {} /\ sub.routing.allow_fallbacks
    BY <2>1, <1>2, <1>3 DEF WithRouting
  <2>2. CASE ws = {} /\ ~sub.routing.allow_fallbacks
    BY <2>2, <1>3 DEF WithRouting
  <2>3. CASE ws # {} /\ preferred # {}
    <3>1. PICK v \in First(LeastLoaded({v \in ws : profile[v].provider \in preferred})) :
                 s = [worker |-> v, key |-> <<profile[v].provider, sub.model>>]
      BY <2>3, <1>3 DEF WithRouting
    <3>2. v \in ws /\ s.worker = v
      BY <3>1 DEF First, LeastLoaded
    <3>. QED  BY <3>2 DEF Eligible
  <2>4. CASE ws # {} /\ preferred = {}
    <3>1. s \in RoundRobin(ws, <<sub.provider, sub.model>>)
      BY <2>4, <1>3 DEF WithRouting
    <3>. QED  BY <3>1, <1>1
  <2>. QED  BY <2>1, <2>2, <2>3, <2>4
<1>. QED  BY <1>2, <1>3 DEF find_eligible_worker_id

(* A batch holds only requests that the worker serves with the models given. *)
LEMMA BatchCompatible ==
  ASSUME NEW w, NEW ms, NEW n \in Nat, NEW batch \in Batches(w, ms, n),
         NEW r \in Members(batch)
  PROVE  Compatible(w, ms, r)
<1>1. PICK k \in 0..n : batch \in [1..k -> QueuedRequests]
  BY DEF Batches
<1>2. PICK i \in DOMAIN batch : r = batch[i]
  BY DEF Members
<1>3. batch[i] \in NextCompatible(w, ms, {batch[j] : j \in 1..(i - 1)})
  BY <1>2 DEF Batches
<1>. QED  BY <1>2, <1>3 DEF NextCompatible, First, Heads

(* When dispatch_next_compatible finds nothing, no queue holds a request the  *)
(* worker could serve, at whatever position.                                  *)
LEMMA NothingCompatibleLeft ==
  ASSUME TypeOK, OnePlace, NEW w, NEW ms, NEW gone, NextCompatible(w, ms, gone) = {},
         NEW r \in QueuedRequests \ gone
  PROVE  ~Compatible(w, ms, r)
<1>. SUFFICES ASSUME Compatible(w, ms, r) PROVE FALSE
  OBVIOUS
<1>1. PICK p \in Providers : r \in Members(provider_queues[p])
  BY DEF QueuedRequests, OnePlace, NothingLost
<1>. DEFINE q == provider_queues[p]
            T == {k \in DOMAIN q : q[k] \notin gone /\ Compatible(w, ms, q[k])}
<1>2. q \in Seq(RequestId) /\ DOMAIN q \subseteq Nat
  BY DEF TypeOK
<1>3. T \in SUBSET Nat /\ T # {}
  BY <1>1, <1>2 DEF Members
<1>4. PICK m \in T : \A k \in T : m <= k
  <2>. HIDE DEF T
  <2>. QED  BY <1>3, LeastNatural
<1>5. q[m] \in QueuedRequests \ gone
  BY <1>2 DEF QueuedRequests, OnePlace, QueuesSound, Members
<1>6. \A j \in 1..(m - 1) : q[j] \in gone \/ ~Compatible(w, ms, q[j])
  <2>. SUFFICES ASSUME NEW j \in 1..(m - 1), j \in T PROVE FALSE
    BY <1>2
  <2>1. m <= j /\ m \in Nat
    BY <1>2, <1>4
  <2>. QED  BY <2>1
<1>7. q[m] \in Heads(w, ms, gone)
  BY <1>5, <1>6 DEF Heads
<1>8. Heads(w, ms, gone) \in SUBSET Nat
  BY DEF Heads, QueuedRequests, RequestId
<1>9. PICK h \in Heads(w, ms, gone) : \A k \in Heads(w, ms, gone) : h <= k
  <2>. HIDE DEF q, T
  <2>. QED  BY <1>7, <1>8, LeastNatural
<1>. QED  BY <1>9 DEF NextCompatible, First

(* What one drain of the queues assigns, and what it leaves. *)
LEMMA DrainAssigns ==
  ASSUME TypeOK, OnePlace, NEW w \in workers, NEW ms, NEW load \in Nat,
         DrainQueues(w, ms, load), models'[w] = ms,
         UNCHANGED <<profile, request, deadline>>
  PROVE  /\ \A v \in WorkerId : \A r \in Members(in_flight_requests'[v]) \ Members(in_flight_requests[v]) :
              Compatible(v, models[v], r)'
         /\ ~(\E r \in QueuedRequests : CouldServe(w, r))'
<1>. DEFINE flight == in_flight_requests[w]
            n == Room(w, load, flight)
<1>1. w \in WorkerId /\ flight \in Seq(RequestId) /\ n \in Nat
  BY RoomIsNat DEF TypeOK
<1>2. PICK batch \in Batches(w, ms, n) :
        /\ assign_to_worker(w, batch, load, flight)
        /\ active_requests' = [r \in RequestId |->
             IF r \in Members(batch) THEN InFlight(w) ELSE active_requests[r]]
  BY DEF DrainQueues
<1>3. batch \in Seq(RequestId)
  <2>. HIDE DEF n
  <2>. QED  BY <1>1, BatchProperties
<1>4. /\ in_flight_requests'[w] = flight \o batch
      /\ \A v \in WorkerId : v # w => in_flight_requests'[v] = in_flight_requests[v]
      /\ reported_load'[w] = load + Len(batch)
  BY <1>1, <1>2 DEF assign_to_worker, TypeOK
<1>5. \A r : Compatible(w, models[w], r)' <=> Compatible(w, ms, r)
  BY DEF Compatible, supports_model, supports_endpoint
<1>6. \A v \in WorkerId : \A r \in Members(in_flight_requests'[v]) \ Members(in_flight_requests[v]) :
        Compatible(v, models[v], r)'
  <2>1. Members(flight \o batch) = Members(flight) \cup Members(batch)
    <3>. HIDE DEF flight
    <3>. QED  BY <1>1, <1>3, JoinProperties
  <2>2. \A r \in Members(batch) : Compatible(w, ms, r)
    <3>. HIDE DEF n
    <3>. QED  BY <1>1, BatchCompatible
  <2>. QED  BY <1>4, <1>5, <2>1, <2>2
<1>7. CASE Len(batch) = n
  <2>1. Len(flight \o batch) = Len(flight) + Len(batch) /\ Len(flight) \in Nat /\ Len(batch) \in Nat
    BY <1>1, <1>3
  <2>2. is_draining(w)' = is_draining(w) /\ profile'[w].max_concurrent = profile[w].max_concurrent
        /\ profile[w].max_concurrent \in Nat
    BY <1>1 DEF is_draining, TypeOK
  <2>3. selection_load(w)' = MaxOf(load + Len(batch), Len(flight) + Len(batch))
    BY <1>4, <2>1 DEF selection_load
  <2>4. n = IF is_draining(w) \/ MaxOf(load, Len(flight)) >= profile[w].max_concurrent THEN 0
            ELSE profile[w].max_concurrent - MaxOf(load, Len(flight))
    BY DEF Room
  <2>. HIDE DEF n, flight
  <2>5. ~worker_has_capacity(w)'
    BY <1>7, <2>1, <2>2, <2>3, <2>4 DEF worker_has_capacity, MaxOf
  <2>. QED  BY <1>6, <2>5 DEF CouldServe
<1>8. CASE NextCompatible(w, ms, Members(batch)) = {}
  <2>. SUFFICES ASSUME NEW r \in QueuedRequests' PROVE ~Compatible(w, models[w], r)'
    BY <1>6 DEF CouldServe
  <2>1. r \in QueuedRequests \ Members(batch)
    BY <1>2 DEF QueuedRequests, InFlight
  <2>. QED  BY <1>5, <1>8, <2>1, NothingCompatibleLeft
<1>. QED  BY <1>2, <1>7, <1>8 DEF Batches

NewlyAssignedCompatible ==
  \A w \in workers :
    \A r \in Members(in_flight_requests'[w]) \ Members(in_flight_requests[w]) :
      Compatible(w, models[w], r)'

(* Every action that assigns a request assigns it to a worker that serves it. *)
LEMMA CompatibleStep == PlaceInv /\ [Next]_vars => NewlyAssignedCompatible
<1>. SUFFICES ASSUME TypeOK, OnePlace, FreshIds, [Next]_vars PROVE NewlyAssignedCompatible
  BY DEF PlaceInv
<1>a. workers \subseteq WorkerId
  BY DEF TypeOK
<1>0. ASSUME \A w \in WorkerId : in_flight_requests'[w] \in {in_flight_requests[w], <<>>}
      PROVE  NewlyAssignedCompatible
  BY <1>a, <1>0, SmallSequences DEF NewlyAssignedCompatible
<1>1. ASSUME UNCHANGED in_flight_requests PROVE NewlyAssignedCompatible
  BY <1>1 DEF NewlyAssignedCompatible
<1>2. ASSUME NEW gone, ClearLists(gone) PROVE NewlyAssignedCompatible
  BY <1>0, <1>2 DEF ClearLists
<1>3. ASSUME NEW sub \in Submissions, SubmitDispatched(sub) PROVE NewlyAssignedCompatible
  <2>1. PICK n \in RequestId : n = next_request_id
    BY <1>3 DEF SubmitDispatched, TypeOK, RequestId
  <2>2. PICK sel \in find_eligible_worker_id(sub) :
          assign_to_worker(sel.worker, <<n>>, reported_load[sel.worker],
                           in_flight_requests[sel.worker])
    BY <1>3, <2>1 DEF SubmitDispatched
  <2>. DEFINE w == sel.worker
              flight == in_flight_requests[w]
              t == <<n>>
  <2>3. w \in WorkerId
    BY SelectionProperties DEF TypeOK
  <2>4. /\ in_flight_requests'[w] = flight \o t /\ flight \in Seq(RequestId)
        /\ \A v \in WorkerId : v # w => in_flight_requests'[v] = in_flight_requests[v]
    BY <2>2, <2>3 DEF assign_to_worker, TypeOK
  <2>5. Members(flight \o t) = Members(flight) \cup {n}
    <3>1. t \in Seq(RequestId) /\ Members(t) = {n}
      BY SmallSequences
    <3>2. flight \in Seq(RequestId)
      BY <2>4
    <3>. HIDE DEF flight, t
    <3>. QED  BY <3>1, <3>2, JoinProperties
  <2>6. Compatible(w, models[w], n)'
    <3>1. UNCHANGED <<models, profile>> /\ request'[n] = sub
      BY <1>3, <2>1 DEF SubmitDispatched, TypeOK
    <3>2. supports_model(models[w], sub.model) /\ supports_endpoint(w, sub.path)
      BY SelectionCompatible
    <3>. HIDE DEF w
    <3>. QED  BY <3>1, <3>2 DEF Compatible, supports_model, supports_endpoint
  <2>. HIDE DEF t, w
  <2>. QED  BY <1>a, <2>4, <2>5, <2>6 DEF NewlyAssignedCompatible
<1>4. ASSUME NEW sub \in Submissions, SubmitQueued(sub) \/ SubmitRejected(sub)
      PROVE  NewlyAssignedCompatible
  BY <1>1, <1>4 DEF SubmitQueued, SubmitRejected
<1>5. ASSUME NEW w \in WorkerId, NEW raw \in Updates, NEW load \in Loads,
             UpdateWorkerModels(w, raw, load)
      PROVE  NewlyAssignedCompatible
  <2>. DEFINE ms == sanitize_models(raw)
  <2>1. /\ w \in workers /\ DrainQueues(w, ms, load) /\ load \in Nat
        /\ models'[w] = ms /\ UNCHANGED <<profile, request, deadline>>
    BY <1>5, InputsAssumption DEF UpdateWorkerModels, TypeOK
  <2>. HIDE DEF ms
  <2>. QED  BY <1>a, <2>1, DrainAssigns DEF NewlyAssignedCompatible
<1>6. ASSUME NEW w \in WorkerId, NEW load \in Loads, RecordWorkerPong(w, load)
      PROVE  NewlyAssignedCompatible
  <2>1. /\ w \in workers /\ DrainQueues(w, models[w], load) /\ load \in Nat
        /\ models'[w] = models[w] /\ UNCHANGED <<profile, request, deadline>>
    BY <1>6, InputsAssumption DEF RecordWorkerPong
  <2>. QED  BY <1>a, <2>1, DrainAssigns DEF NewlyAssignedCompatible
<1>7. ASSUME NEW w \in WorkerId, NEW r \in RequestId, FinishRequest(w, r)
      PROVE  NewlyAssignedCompatible
  <2>. DEFINE flight == Without(in_flight_requests[w], {r})
              load == saturating_sub(reported_load[w], 1)
              n == IF Room(w, load, flight) > 0 THEN 1 ELSE 0
  <2>1. n \in Nat
    OBVIOUS
  <2>2. PICK batch \in Batches(w, models[w], n) : assign_to_worker(w, batch, load, flight)
    BY <1>7 DEF FinishRequest
  <2>3. UNCHANGED <<models, profile, request>>
    BY <1>7 DEF FinishRequest
  <2>4. flight \in Seq(RequestId) /\ Members(flight) \subseteq Members(in_flight_requests[w])
    BY WithoutProperties DEF TypeOK
  <2>5. /\ in_flight_requests'[w] = flight \o batch
        /\ \A v \in WorkerId : v # w => in_flight_requests'[v] = in_flight_requests[v]
    BY <2>2 DEF assign_to_worker, TypeOK
  <2>. HIDE DEF n, flight, load
  <2>6. batch \in Seq(RequestId) /\ \A q \in Members(batch) : Compatible(w, models[w], q)
    BY <2>1, BatchProperties, BatchCompatible
  <2>7. Members(flight \o batch) = Members(flight) \cup Members(batch)
    BY <2>4, <2>6, JoinProperties
  <2>8. \A q : Compatible(w, models[w], q)' <=> Compatible(w, models[w], q)
    BY <2>3 DEF Compatible, supports_model, supports_endpoint
  <2>. QED  BY <1>a, <2>4, <2>5, <2>6, <2>7, <2>8 DEF NewlyAssignedCompatible
<1>8. ASSUME NEW w \in WorkerId, NEW r \in RequestId, FinishDrain(w, r)
      PROVE  NewlyAssignedCompatible
  BY <1>2, <1>8 DEF FinishDrain
<1>9. ASSUME NEW w \in WorkerId,
             DisconnectWorker(w) \/ GracefulShutdownCloseAction(w)
      PROVE  NewlyAssignedCompatible
  BY <1>2, <1>9 DEF DisconnectWorker, GracefulShutdownCloseAction
<1>10. ASSUME NEW p \in Providers, DeleteProvider(p) PROVE NewlyAssignedCompatible
  BY <1>2, <1>10 DEF DeleteProvider
<1>11. ASSUME NEW w \in WorkerId, NEW r \in RequestId,
              StreamHttpResponseChunk(w, r) \/ LateResponse(w, r)
       PROVE  NewlyAssignedCompatible
  BY <1>1, <1>11 DEF StreamHttpResponseChunk, LateResponse
<1>12. ASSUME NEW w \in WorkerId,
              \/ TakePendingWorkerRequests(w) \/ TakePendingWorkerCancelSignals(w)
              \/ TakePendingWorkerGracefulShutdownSignals(w)
              \/ RequestWorkerModelsRefresh(w) \/ TakePendingWorkerModelsRefreshSignals(w)
              \/ LoseRemovedSocket(w)
       PROVE  NewlyAssignedCompatible
  BY <1>1, <1>12
  DEF TakePendingWorkerRequests, TakePendingWorkerCancelSignals,
      TakePendingWorkerGracefulShutdownSignals, RequestWorkerModelsRefresh,
      TakePendingWorkerModelsRefreshSignals, LoseRemovedSocket
<1>13. ASSUME \/ \E reg \in Registrations : RegisterWorker(reg)
              \/ \E r \in RequestId : Cancel(r)
              \/ BeginGracefulShutdown \/ QueueTimeoutPasses \/ ExpireQueueTimeouts
              \/ \E k \in 1..MaxShutdowns : DrainDeadlinePasses(k)
              \/ UNCHANGED vars
       PROVE  NewlyAssignedCompatible
  BY <1>1, <1>13 DEF RegisterWorker, Cancel, CancelQueued, CancelInFlight,
                     BeginGracefulShutdown, QueueTimeoutPasses, ExpireQueueTimeouts,
                     DrainDeadlinePasses, vars
<1>. QED
  BY <1>3, <1>4, <1>5, <1>6, <1>7, <1>8, <1>9, <1>10, <1>11, <1>12, <1>13
  DEF Next, Submit, Answer

(* Every path that assigns a request - direct dispatch with any routing, the  *)
(* dispatch after a finish, the loops that drain the queues - picks a worker  *)
(* whose models and endpoint prefixes cover it.                               *)
THEOREM OnlyCompatibleAssigned == Spec => AssignedOnlyCompatible
<1>1. PlaceInv /\ [Next]_vars => NewlyAssignedCompatible
  BY CompatibleStep
<1>2. PlaceInv /\ [Next]_vars => PlaceInv'
  BY PlaceStep, TypeStep DEF PlaceInv
<1>. QED  BY <1>1, <1>2, PlaceInit, PTL DEF Spec, AssignedOnlyCompatible, NewlyAssignedCompatible

ReportLeavesNothing ==
  \A w \in workers :
    (\E load \in Loads : RecordWorkerPong(w, load) \/ \E raw \in Updates :
       UpdateWorkerModels(w, raw, load))
      => ~(\E r \in QueuedRequests : CouldServe(w, r))'

(* A report is followed by a drain that takes all the worker can take. *)
LEMMA ReportStep == PlaceInv => ReportLeavesNothing
<1>. SUFFICES ASSUME TypeOK, OnePlace, NEW w \in workers, NEW load \in Loads,
                     RecordWorkerPong(w, load) \/ \E raw \in Updates :
                       UpdateWorkerModels(w, raw, load)
              PROVE  ~(\E r \in QueuedRequests : CouldServe(w, r))'
  BY DEF PlaceInv, ReportLeavesNothing
<1>1. load \in Nat /\ w \in WorkerId
  BY InputsAssumption DEF TypeOK
<1>2. CASE RecordWorkerPong(w, load)
  <2>1. /\ DrainQueues(w, models[w], load) /\ models'[w] = models[w]
        /\ UNCHANGED <<profile, request, deadline>>
    BY <1>2 DEF RecordWorkerPong
  <2>. QED  BY <1>1, <2>1, DrainAssigns
<1>3. ASSUME NEW raw \in Updates, UpdateWorkerModels(w, raw, load)
      PROVE  ~(\E r \in QueuedRequests : CouldServe(w, r))'
  <2>. DEFINE ms == sanitize_models(raw)
  <2>1. /\ DrainQueues(w, ms, load) /\ models'[w] = ms
        /\ UNCHANGED <<profile, request, deadline>>
    BY <1>1, <1>3 DEF UpdateWorkerModels, TypeOK
  <2>. HIDE DEF ms
  <2>. QED  BY <1>1, <2>1, DrainAssigns
<1>. QED  BY <1>2, <1>3

(* A worker that reports its load or its models is left with a queued request *)
(* it could serve only when it has no capacity, wherever in whichever queue   *)
(* the request stands and however stale the load it reports.                  *)
THEOREM ReportsDrainQueues == Spec => ReportDrainsQueues
<1>1. PlaceInv => ReportLeavesNothing
  BY ReportStep
<1>2. PlaceInv /\ [Next]_vars => PlaceInv'
  BY PlaceStep, TypeStep DEF PlaceInv
<1>. QED  BY <1>1, <1>2, PlaceInit, PTL DEF Spec, ReportDrainsQueues, ReportLeavesNothing

-----------------------------------------------------------------------------
(* A cancelled request is never retried. *)

CancelledStays ==
  \A r \in RequestId : active_requests[r].cancellation # "none" =>
    active_requests'[r] \in {active_requests[r], Absent}

(* Only a request in flight is marked. *)
LEMMA OnlyInFlightMarked ==
  ASSUME TypeOK, NEW r \in RequestId, active_requests[r].cancellation # "none"
  PROVE  active_requests[r].at = "in_flight"
BY DEF TypeOK, ActiveRequestState, Absent, Queued

(* Every action leaves a marked request where it is or forgets it. *)
LEMMA CancelledStep == PlaceInv /\ [Next]_vars => CancelledStays
<1>. SUFFICES ASSUME TypeOK, OnePlace, FreshIds, [Next]_vars,
                     NEW c \in RequestId, active_requests[c].cancellation # "none"
              PROVE  active_requests'[c] \in {active_requests[c], Absent}
  BY DEF PlaceInv, CancelledStays
<1>. DEFINE Goal == active_requests'[c] \in {active_requests[c], Absent}
<1>a. active_requests[c].at = "in_flight"
  BY OnlyInFlightMarked
<1>0. ASSUME UNCHANGED active_requests PROVE Goal
  BY <1>0
<1>b. ASSUME NEW S, Forget(S) PROVE Goal
  BY <1>b DEF Forget
<1>1. ASSUME NEW sub \in Submissions, Submit(sub) PROVE Goal
  <2>1. next_request_id \in RequestId
    BY <1>1 DEF Submit, SubmitDispatched, SubmitQueued, SubmitRejected, TypeOK, RequestId
  <2>2. c # next_request_id
    BY <1>a, <2>1 DEF FreshIds, RequestId
  <2>3. active_requests'[c] = active_requests[c]
    BY <1>1, <2>2 DEF Submit, SubmitDispatched, SubmitQueued, SubmitRejected, TypeOK
  <2>. QED  BY <2>3
<1>2. ASSUME NEW r \in RequestId, Cancel(r) PROVE Goal
  <2>1. CASE CancelQueued(r)
    BY <1>0, <1>b, <2>1 DEF CancelQueued
  <2>2. ASSUME NEW reason \in CancelReason, CancelInFlight(r, reason) PROVE Goal
    BY <2>2, MarkingKeepsState
  <2>. QED  BY <1>2, <2>1, <2>2 DEF Cancel
<1>3. ASSUME NEW w \in WorkerId, NEW ms, NEW load \in Nat, DrainQueues(w, ms, load) PROVE Goal
  <2>. DEFINE n == Room(w, load, in_flight_requests[w])
  <2>1. n \in Nat
    BY RoomIsNat DEF TypeOK
  <2>2. PICK batch \in Batches(w, ms, n) :
          active_requests' = [r \in RequestId |->
            IF r \in Members(batch) THEN InFlight(w) ELSE active_requests[r]]
    BY <1>3 DEF DrainQueues
  <2>. HIDE DEF n
  <2>3. c \notin Members(batch)
    BY <1>a, <2>1, BatchProperties DEF QueuedRequests
  <2>. QED  BY <2>2, <2>3
<1>4. ASSUME NEW w \in WorkerId, NEW load \in Loads,
             \/ RecordWorkerPong(w, load)
             \/ \E raw \in Updates : UpdateWorkerModels(w, raw, load)
      PROVE  Goal
  BY <1>3, <1>4, InputsAssumption DEF RecordWorkerPong, UpdateWorkerModels
<1>5. ASSUME NEW w \in WorkerId, NEW r \in RequestId, FinishRequest(w, r) PROVE Goal
  <2>. DEFINE flight == Without(in_flight_requests[w], {r})
              load == saturating_sub(reported_load[w], 1)
              n == IF Room(w, load, flight) > 0 THEN 1 ELSE 0
  <2>1. n \in Nat
    OBVIOUS
  <2>2. PICK batch \in Batches(w, models[w], n) :
          active_requests' = [q \in RequestId |-> IF q = r THEN Absent
                                ELSE IF q \in Members(batch) THEN InFlight(w)
                                ELSE active_requests[q]]
    BY <1>5 DEF FinishRequest
  <2>. HIDE DEF n
  <2>3. c \notin Members(batch)
    BY <1>a, <2>1, BatchProperties DEF QueuedRequests
  <2>. QED  BY <2>2, <2>3
<1>6. ASSUME NEW w \in WorkerId, NEW r \in RequestId, FinishDrain(w, r) PROVE Goal
  BY <1>b, <1>6 DEF FinishDrain
<1>7. ASSUME NEW w \in WorkerId, NEW r \in RequestId,
             StreamHttpResponseChunk(w, r) \/ LateResponse(w, r)
      PROVE  Goal
  BY <1>0, <1>7 DEF StreamHttpResponseChunk, LateResponse
<1>8. ASSUME NEW w \in WorkerId,
             \/ TakePendingWorkerRequests(w) \/ TakePendingWorkerCancelSignals(w)
             \/ TakePendingWorkerGracefulShutdownSignals(w)
             \/ RequestWorkerModelsRefresh(w) \/ TakePendingWorkerModelsRefreshSignals(w)
             \/ LoseRemovedSocket(w)
      PROVE  Goal
  BY <1>0, <1>8
  DEF TakePendingWorkerRequests, TakePendingWorkerCancelSignals,
      TakePendingWorkerGracefulShutdownSignals, RequestWorkerModelsRefresh,
      TakePendingWorkerModelsRefreshSignals, LoseRemovedSocket
<1>9. ASSUME NEW w \in WorkerId, DisconnectWorker(w) PROVE Goal
  <2>. DEFINE lost     == Members(in_flight_requests[w])
              canceled == {r \in lost : WasCanceled(r)}
              worn     == {r \in lost \ canceled : RequeuesExhausted(r)}
              failed   == canceled \cup worn
  <2>1. active_requests' = [r \in RequestId |-> IF r \in failed THEN Absent
                                                ELSE IF r \in lost THEN Queued
                                                ELSE active_requests[r]]
    BY <1>9 DEF DisconnectWorker
  <2>2. c \in lost => c \in failed
    BY DEF WasCanceled
  <2>. HIDE DEF lost, failed
  <2>. QED  BY <2>1, <2>2
<1>10. ASSUME NEW w \in WorkerId, GracefulShutdownCloseAction(w) PROVE Goal
  BY <1>b, <1>10 DEF GracefulShutdownCloseAction
<1>11. ASSUME NEW p \in Providers, DeleteProvider(p) PROVE Goal
  BY <1>b, <1>11 DEF DeleteProvider
<1>12. ASSUME ExpireQueueTimeouts PROVE Goal
  BY <1>b, <1>12 DEF ExpireQueueTimeouts
<1>13. ASSUME \/ \E reg \in Registrations : RegisterWorker(reg)
              \/ BeginGracefulShutdown \/ QueueTimeoutPasses
              \/ \E k \in 1..MaxShutdowns : DrainDeadlinePasses(k)
              \/ UNCHANGED vars
       PROVE  Goal
  BY <1>0, <1>13 DEF RegisterWorker, BeginGracefulShutdown, QueueTimeoutPasses,
                     DrainDeadlinePasses, vars
<1>. HIDE DEF Goal
<1>14. Goal
  BY <1>1, <1>2, <1>4, <1>5, <1>6, <1>7, <1>8, <1>9, <1>10, <1>11, <1>12, <1>13
  DEF Next, Answer
<1>. QED  BY <1>14 DEF Goal

(* Once cancel_request has marked a request in flight, it is never queued or  *)
(* assigned again, and the mark is never overwritten, whatever workers are    *)
(* lost, drained or deleted meanwhile.                                        *)
THEOREM CancelledAreNeverRetried == Spec => CancelledNeverRetried
<1>1. PlaceInv /\ [Next]_vars => CancelledStays
  BY CancelledStep
<1>2. PlaceInv /\ [Next]_vars => PlaceInv'
  BY PlaceStep, TypeStep DEF PlaceInv
<1>. QED  BY <1>1, <1>2, PlaceInit, PTL DEF Spec, CancelledNeverRetried, CancelledStays

-----------------------------------------------------------------------------
(* The inductive invariant of the core. *)

CoreInv ==
  /\ PlaceInv
  /\ SocketInv
  /\ SentInv
  /\ SenderWhileActive
  /\ CapacityRespected
  /\ FreshQueueBounded

(* Nothing is registered, queued or sent at the start. *)
LEMMA CoreInit == Init => CoreInv
<1>. SUFFICES ASSUME Init PROVE CoreInv
  OBVIOUS
<1>1. PlaceInv
  BY PlaceInit
<1>2. SocketInv
  BY DEF Init, SocketInv, RegistryMatchesSockets, SocketsDrawn
<1>3. SentInv
  BY SmallSequences DEF Init, SentInv, SentAt, HandedAt
<1>4. SenderWhileActive /\ CapacityRespected
  BY DEF Init, SenderWhileActive, CapacityRespected, Absent
<1>5. FreshQueueBounded
  <2>. SUFFICES ASSUME NEW p \in Providers
                PROVE  Cardinality({i \in DOMAIN provider_queues[p] :
                                      requeue_count[provider_queues[p][i]] = 0})
                         <= Policy[p].max_queue_len
    BY DEF FreshQueueBounded
  <2>1. {i \in DOMAIN provider_queues[p] : requeue_count[provider_queues[p][i]] = 0} = {}
    BY DEF Init
  <2>2. Policy[p].max_queue_len \in Nat
    BY InputsAssumption
  <2>. QED  BY <2>1, <2>2, FS_EmptySet
<1>. QED  BY <1>1, <1>2, <1>3, <1>4, <1>5 DEF CoreInv

(* Every action keeps it. *)
LEMMA CoreStep == CoreInv /\ [Next]_vars => CoreInv'
<1>. SUFFICES ASSUME CoreInv, [Next]_vars PROVE CoreInv'
  OBVIOUS
<1>1. PlaceInv'
  BY PlaceStep, TypeStep DEF CoreInv, PlaceInv
<1>. QED  BY <1>1, SocketStep, SentStep, SenderStep, CapacityStep, FreshStep DEF CoreInv

(* A request is active exactly while its HTTP handler can still be answered:  *)
(* no path of the core forgets a request and leaves its handler waiting, or   *)
(* answers a handler and keeps the request queued or assigned.                *)
THEOREM HandlersAreNeverStranded == Spec => []SenderWhileActive
<1>1. CoreInv => SenderWhileActive
  BY DEF CoreInv
<1>. QED  BY <1>1, CoreInit, CoreStep, PTL DEF Spec

(* A worker never has more requests in flight than its max_concurrent, over   *)
(* direct dispatch, dispatch after a finish and the loops that drain queues   *)
(* on stale load reports.                                                     *)
THEOREM SlotsAreRespected == Spec => []CapacityRespected
<1>1. CoreInv => CapacityRespected
  BY DEF CoreInv
<1>. QED  BY <1>1, CoreInit, CoreStep, PTL DEF Spec

(* What waits for a socket, and what a connected worker is working on, is in  *)
(* flight at that worker, and nothing is sent to one worker twice.            *)
THEOREM OnlyOwnersHoldRequests == Spec => []SentOnlyToOwner
<1>1. CoreInv => SentOnlyToOwner
  BY DEF CoreInv, SentInv, SentAt, SentOnlyToOwner
<1>. QED  BY <1>1, CoreInit, CoreStep, PTL DEF Spec

(* A registered worker has a running socket loop and no disconnect reason,    *)
(* and signals wait only for workers they can reach.                          *)
THEOREM RegistryAndSocketsAgree == Spec => []RegistryMatchesSockets
<1>1. CoreInv => RegistryMatchesSockets
  BY DEF CoreInv, SocketInv
<1>. QED  BY <1>1, CoreInit, CoreStep, PTL DEF Spec

(* A queue exceeds max_queue_len only by requests that were requeued after    *)
(* their worker was lost.                                                     *)
THEOREM QueueLimitsHold == Spec => []FreshQueueBounded
<1>1. CoreInv => FreshQueueBounded
  BY DEF CoreInv
<1>. QED  BY <1>1, CoreInit, CoreStep, PTL DEF Spec

-----------------------------------------------------------------------------
(* What the pages of ServerPages say of a state the lock is released in.     *)

(* The queues hold the queued requests, each once: total_queue_depth and the  *)
(* sum of the depths /admin/stats gives are their number.                     *)
LEMMA QueuesCounted ==
  ASSUME TypeOK, OnePlace, NEW f, f = [p \in Providers |-> Len(provider_queues[p])]
  PROVE  /\ total_queue_depth = Cardinality({r \in RequestId : active_requests[r].at = "queued"})
         /\ (CHOOSE g : SumsUp(g, f, Providers))[Providers] =
              Cardinality({r \in RequestId : active_requests[r].at = "queued"})
<1>. DEFINE queued == {r \in RequestId : active_requests[r].at = "queued"}
            A == [p \in Providers |-> Members(provider_queues[p])]
<1>1. /\ IsFiniteSet(Providers) /\ IsFiniteSet(RequestId)
      /\ provider_queues \in [Providers -> Seq(RequestId)]
  BY PagesAssumption, BoundsAssumption, FS_Interval DEF RequestId, TypeOK
<1>2. A \in [Providers -> SUBSET RequestId]
  BY <1>1 DEF Members
<1>3. \A p, q \in Providers : p # q => A[p] \cap A[q] = {}
  BY DEF OnePlace, QueuesSound
<1>4. \A p \in Providers : f[p] = Cardinality(A[p])
  BY <1>1, LengthIsCardinality DEF OnePlace, QueuesSound
<1>5. UNION {A[p] : p \in Providers} = queued
  <2>1. ASSUME NEW p \in Providers, NEW r \in A[p] PROVE r \in queued
    BY <1>2, <2>1 DEF OnePlace, QueuesSound
  <2>2. ASSUME NEW r \in queued PROVE \E p \in Providers : r \in A[p]
    BY DEF OnePlace, NothingLost
  <2>. QED  BY <2>1, <2>2
<1>. HIDE DEF A, queued
<1>6. /\ \E g : SumsUp(g, f, Providers)
      /\ \A g : SumsUp(g, f, Providers) =>
                 g[Providers] = Cardinality(UNION {A[p] : p \in Providers})
  <2>1. Disjoint(A, Providers, RequestId) /\ SizesOf(f, A, Providers)
    BY <1>1, <1>2, <1>3, <1>4 DEF Disjoint, SizesOf
  <2>. QED  BY <2>1, SumOfDisjoint
<1>7. (CHOOSE g : SumsUp(g, f, Providers))[Providers] = Cardinality(queued)
  BY <1>5, <1>6
<1>8. total_queue_depth = Cardinality(queued)
  <2>. DEFINE Depths(g) ==
         g = [s \in SUBSET Providers |->
                IF s = {} THEN 0
                ELSE LET p == CHOOSE p \in s : TRUE IN Len(provider_queues[p]) + g[s \ {p}]]
              iter == CHOOSE g : Depths(g)
  <2>1. total_queue_depth = iter[Providers]
    BY DEF total_queue_depth, MapThenSumSet, MapThenFoldSet
  <2>2. ASSUME NEW g PROVE Depths(g) <=> SumsUp(g, f, Providers)
    <3>1. \A s \in SUBSET Providers : s # {} =>
             f[CHOOSE p \in s : TRUE] = Len(provider_queues[CHOOSE p \in s : TRUE])
      OBVIOUS
    <3>. QED  BY <3>1 DEF SumsUp
  <2>3. Depths(iter)
    <3>. HIDE DEF Depths
    <3>1. PICK g : SumsUp(g, f, Providers)
      BY <1>6
    <3>2. Depths(g)
      BY <3>1, <2>2
    <3>. QED  BY <3>2
  <2>. HIDE DEF Depths, iter
  <2>. QED  BY <2>1, <2>2, <2>3, <1>5, <1>6
<1>. QED  BY <1>7, <1>8 DEF queued

(* A table with one row for each worker has as many rows as there are workers. *)
LEMMA OneRowEach ==
  ASSUME TypeOK, NEW row, \A v, w \in workers : row[v] = row[w] => v = w
  PROVE  /\ IsFiniteSet({row[w] : w \in workers})
         /\ Cardinality({row[w] : w \in workers}) = Cardinality(workers)
<1>. DEFINE rows == {row[w] : w \in workers}
            f == [w \in workers |-> row[w]]
<1>1. IsFiniteSet(workers)
  <2>1. IsFiniteSet(WorkerId)
    BY BoundsAssumption, FS_Interval DEF WorkerId
  <2>. QED  BY <2>1, FS_Subset DEF TypeOK
<1>2. /\ f \in [workers -> rows]
      /\ \A v, w \in workers : f[v] = f[w] => v = w
      /\ \A x \in rows : \E w \in workers : f[w] = x
  OBVIOUS
<1>. HIDE DEF f, rows
<1>3. f \in Injection(workers, rows) /\ f \in Surjection(workers, rows)
  BY <1>2 DEF Injection, Surjection, IsInjective
<1>4. ExistsBijection(workers, rows)
  BY <1>3, Zenon DEF Bijection, ExistsBijection
<1>. QED  BY <1>1, <1>4, FS_Bijection DEF rows

(* The lists of /health hold the requests in flight, each once: the numbers   *)
(* in its rows add up to theirs.                                              *)
LEMMA FlightsCounted ==
  ASSUME TypeOK, OnePlace
  PROVE  CountedInFlight(health_handler) =
           Cardinality({r \in RequestId : active_requests[r].at = "in_flight"})
<1>. DEFINE flying == {r \in RequestId : active_requests[r].at = "in_flight"}
            infoOf(w) ==
              [id |-> w, provider |-> profile[w].provider, models |-> models[w],
               in_flight |-> Len(in_flight_requests[w]),
               max_concurrent |-> profile[w].max_concurrent, is_draining |-> is_draining(w)]
            W == worker_debug_info
            size == [info \in W |-> info.in_flight]
            A == [info \in W |-> Members(in_flight_requests[info.id])]
<1>1. W = {infoOf(w) : w \in workers}
  BY DEF worker_debug_info
<1>2. \A w : infoOf(w).id = w /\ infoOf(w).in_flight = Len(in_flight_requests[w])
  OBVIOUS
<1>3. /\ workers \subseteq WorkerId /\ IsFiniteSet(RequestId)
      /\ in_flight_requests \in [WorkerId -> Seq(RequestId)]
  BY BoundsAssumption, FS_Interval DEF RequestId, TypeOK
<1>4. health_handler.workers = W
  BY DEF health_handler
<1>. HIDE DEF infoOf, W
<1>5. IsFiniteSet(W)
  <2>. DEFINE row == [w \in workers |-> infoOf(w)]
  <2>1. /\ W = {row[w] : w \in workers}
        /\ \A v, w \in workers : row[v] = row[w] => v = w
    BY <1>1, <1>2
  <2>. HIDE DEF row
  <2>. QED  BY <2>1, OneRowEach
<1>6. ASSUME NEW info \in W
      PROVE  /\ info.id \in workers /\ info = infoOf(info.id)
             /\ info.in_flight = Len(in_flight_requests[info.id])
  BY <1>1, <1>2
<1>7. A \in [W -> SUBSET RequestId]
  BY <1>3, <1>6 DEF Members
<1>8. \A i, j \in W : i # j => A[i] \cap A[j] = {}
  <2>. SUFFICES ASSUME NEW i \in W, NEW j \in W, NEW r \in A[i] \cap A[j] PROVE i = j
    OBVIOUS
  <2>1. i.id \in WorkerId /\ j.id \in WorkerId
    BY <1>3, <1>6
  <2>2. active_requests[r].worker = i.id /\ active_requests[r].worker = j.id
    BY <2>1 DEF OnePlace, InFlightSound
  <2>. QED  BY <2>2, <1>6
<1>9. \A info \in W : size[info] = Cardinality(A[info])
  <2>. SUFFICES ASSUME NEW info \in W PROVE size[info] = Cardinality(A[info])
    OBVIOUS
  <2>1. info.id \in WorkerId /\ in_flight_requests[info.id] \in Seq(RequestId)
    BY <1>3, <1>6
  <2>2. NoRepeats(in_flight_requests[info.id])
    BY <2>1 DEF OnePlace, InFlightSound
  <2>. QED  BY <2>1, <2>2, <1>6, LengthIsCardinality
<1>10. UNION {A[info] : info \in W} = flying
  <2>1. ASSUME NEW info \in W, NEW r \in A[info] PROVE r \in flying
    <3>1. info.id \in WorkerId /\ r \in Members(in_flight_requests[info.id])
      BY <1>3, <1>6
    <3>. QED  BY <3>1, <1>7 DEF OnePlace, InFlightSound
  <2>2. ASSUME NEW r \in flying PROVE \E info \in W : r \in A[info]
    <3>1. PICK w \in workers : r \in Members(in_flight_requests[w])
      BY DEF OnePlace, NothingLost
    <3>2. infoOf(w) \in W /\ A[infoOf(w)] = Members(in_flight_requests[w])
      BY <1>1, <1>2
    <3>. QED  BY <3>1, <3>2
  <2>. QED  BY <2>1, <2>2
<1>11. Disjoint(A, W, RequestId) /\ SizesOf(size, A, W)
  BY <1>3, <1>5, <1>7, <1>8, <1>9 DEF Disjoint, SizesOf
<1>. HIDE DEF A
<1>12. /\ \E g : SumsUp(g, size, W)
       /\ \A g : SumsUp(g, size, W) => g[W] = Cardinality(UNION {A[info] : info \in W})
  <2>. HIDE DEF size
  <2>. QED  BY <1>11, SumOfDisjoint
<1>. DEFINE Rows(g) ==
       g = [s \in SUBSET W |->
              IF s = {} THEN 0
              ELSE LET w == CHOOSE w \in s : TRUE IN w.in_flight + g[s \ {w}]]
            iter == CHOOSE g : Rows(g)
<1>13. CountedInFlight(health_handler) = iter[W]
  <2>1. CountedInFlight(health_handler) =
          (CHOOSE g : g = [s \in SUBSET health_handler.workers |->
              IF s = {} THEN 0
              ELSE LET w == CHOOSE w \in s : TRUE IN w.in_flight + g[s \ {w}]])
            [health_handler.workers]
    BY DEF CountedInFlight, MapThenSumSet, MapThenFoldSet
  <2>. QED  BY <2>1, <1>4
<1>14. ASSUME NEW g PROVE Rows(g) <=> SumsUp(g, size, W)
  <2>1. \A s \in SUBSET W : s # {} =>
          size[CHOOSE w \in s : TRUE] = (CHOOSE w \in s : TRUE).in_flight
    OBVIOUS
  <2>. QED  BY <2>1 DEF SumsUp
<1>15. Rows(iter)
  <2>. HIDE DEF Rows, size
  <2>1. PICK g : SumsUp(g, size, W)
    BY <1>12
  <2>2. Rows(g)
    BY <2>1, <1>14
  <2>. QED  BY <2>2
<1>. HIDE DEF Rows, iter, size
<1>. QED  BY <1>10, <1>12, <1>13, <1>14, <1>15 DEF flying

(* The operator's pages, asked with the token, give the core's numbers. *)
LEMMA OperatorPages ==
  /\ (CHOOSE s \in admin_stats_handler(Token, Token) : TRUE) =
       [queue_depth |-> admin_queue_depth, active_workers |-> connected_worker_count]
  /\ admin_workers_handler(Token, Token) = admin_workers_snapshot
<1>1. check_admin_auth(Token, Token)
  BY DEF check_admin_auth, Token, NoToken
<1>. QED  BY <1>1 DEF admin_workers_handler, admin_stats_handler

(* /v1/models offers only models of registered workers: a worker that has one *)
(* is draining, or it makes the model served.                                 *)
LEMMA OfferedModels ==
  ASSUME NEW p \in Providers, NEW m \in models_handler(p)
  PROVE  \/ provider_has_compatible_worker(m)
         \/ \E info \in worker_debug_info : m \in info.models /\ info.is_draining
<1>1. PICK w \in workers : m \in models[w]
  BY DEF models_handler, provider_models, Advertised
<1>2. CASE ~is_draining(w)
  BY <1>1, <1>2 DEF provider_has_compatible_worker, supports_model
<1>3. CASE is_draining(w)
  <2>. DEFINE yes == is_draining(w)
              info == [id |-> w, provider |-> profile[w].provider, models |-> models[w],
                       in_flight |-> Len(in_flight_requests[w]),
                       max_concurrent |-> profile[w].max_concurrent, is_draining |-> yes]
  <2>1. info \in worker_debug_info
    BY DEF worker_debug_info
  <2>2. info.models = models[w] /\ info.is_draining = yes
    <3>. HIDE DEF yes
    <3>. QED  OBVIOUS
  <2>. HIDE DEF info
  <2>. QED  BY <1>1, <1>3, <2>1, <2>2
<1>. QED  BY <1>2, <1>3

-----------------------------------------------------------------------------
(* The core implements RequestLifecycle.  A step of the core is a step of     *)
(* every request's lifecycle at once, a stutter for most of them: first, what *)
(* must change in the core for each of the steps a lifecycle has.             *)

(* The client of an id that is not drawn yet has heard nothing. *)
UnheardIds == \A r \in RequestId : r >= next_request_id => events[r] = <<>>

Drawn(r) == r < next_request_id

(* The phase of a request is told by its id and by its entry in the table. *)
LEMMA Phases ==
  ASSUME NEW r \in RequestId, next_request_id \in Int, next_request_id' \in Int
  PROVE  /\ ~Drawn(r) => Phase(r) = "new"
         /\ Drawn(r) /\ active_requests[r].at = "queued" => Phase(r) = "waiting"
         /\ Drawn(r) /\ active_requests[r].at = "in_flight" => Phase(r) = "running"
         /\ Drawn(r)' /\ active_requests'[r].at = "queued" => Phase(r)' = "waiting"
         /\ Drawn(r)' /\ active_requests'[r].at = "in_flight" => Phase(r)' = "running"
         /\ Drawn(r)' /\ active_requests'[r].at = "absent" => Phase(r)' = "done"
BY DEF Phase, RequestId, Drawn

(* A request stays where it is when its table entry keeps place and owner. *)
LEMMA StayStep ==
  ASSUME NEW r \in RequestId, next_request_id \in Int, next_request_id' \in Int,
         Drawn(r)' <=> Drawn(r),
         active_requests'[r].at = active_requests[r].at,
         active_requests'[r].worker = active_requests[r].worker,
         requeue_count'[r] = requeue_count[r], events'[r] = events[r]
  PROVE  Lifecycle!Step(r)
<1>1. Phase(r)' = Phase(r)
  BY DEF Phase, Drawn, RequestId
<1>. QED  BY <1>1 DEF Lifecycle!Step, Lifecycle!Stays, Lifecycle!Quiet

(* A new request is queued. *)
LEMMA AcceptStep ==
  ASSUME NEW r \in RequestId, next_request_id \in Int, next_request_id' \in Int,
         ~Drawn(r), Drawn(r)', active_requests'[r] = Queued,
         requeue_count'[r] = requeue_count[r], events'[r] = events[r]
  PROVE  Lifecycle!Step(r)
<1>1. Phase(r) = "new" /\ Phase(r)' = "waiting" /\ active_requests'[r].worker = 0
  BY Phases DEF Queued
<1>. QED  BY <1>1 DEF Lifecycle!Step, Lifecycle!Accept, Lifecycle!Moves, Lifecycle!Quiet

(* A new or waiting request is assigned to a worker. *)
LEMMA StartStep ==
  ASSUME NEW r \in RequestId, next_request_id \in Int, next_request_id' \in Int,
         ~Drawn(r) \/ active_requests[r].at = "queued",
         Drawn(r)', NEW w \in WorkerId, active_requests'[r] = InFlight(w),
         requeue_count'[r] = requeue_count[r], events'[r] = events[r]
  PROVE  Lifecycle!Step(r)
<1>1. Phase(r) \in {"new", "waiting"} /\ Phase(r)' = "running"
      /\ active_requests'[r].worker = w
  BY Phases DEF InFlight
<1>. QED
  BY <1>1 DEF Lifecycle!Step, Lifecycle!AcceptAndStart, Lifecycle!Start, Lifecycle!Moves,
              Lifecycle!Quiet

(* A waiting request whose client gave up leaves the table. *)
LEMMA DropStep ==
  ASSUME NEW r \in RequestId, next_request_id \in Int, next_request_id' \in Int,
         Drawn(r), Drawn(r)', active_requests[r].at = "queued",
         active_requests'[r] = Absent, r \in abandoned',
         requeue_count'[r] = requeue_count[r], events'[r] = events[r]
  PROVE  Lifecycle!Step(r)
<1>1. Phase(r) = "waiting" /\ Phase(r)' = "done" /\ active_requests'[r].worker = 0
  BY Phases DEF Absent
<1>. QED  BY <1>1 DEF Lifecycle!Step, Lifecycle!Drop, Lifecycle!Moves, Lifecycle!Quiet

(* A running request goes back to a queue, not too often. *)
LEMMA RequeueStep ==
  ASSUME NEW r \in RequestId, next_request_id \in Int, next_request_id' \in Int,
         Drawn(r), Drawn(r)', active_requests[r].at = "in_flight",
         active_requests'[r] = Queued, ~RequeuesExhausted(r), requeue_count[r] \in Nat,
         requeue_count'[r] = requeue_count[r] + 1, events'[r] = events[r]
  PROVE  Lifecycle!Step(r)
<1>1. Phase(r) = "running" /\ Phase(r)' = "waiting" /\ active_requests'[r].worker = 0
  BY Phases DEF Queued
<1>. QED
  BY <1>1 DEF Lifecycle!Step, Lifecycle!Requeue, Lifecycle!Moves, Lifecycle!Quiet,
              RequeuesExhausted, MAX_REQUEUE_COUNT

(* One event more is what a client hears. *)
LEMMA OneEventMore ==
  ASSUME NEW r \in RequestId, NEW heard \in Seq(HttpResponseEvent),
         NEW event \in HttpResponseEvent, events[r] = heard,
         events'[r] = Append(heard, event)
  PROVE  Lifecycle!Hears(r, event.kind, event.by)
<1>. HIDE DEF HttpResponseEvent
<1>1. /\ Len(Append(heard, event)) = Len(heard) + 1
      /\ SubSeq(Append(heard, event), 1, Len(heard)) = heard
      /\ Append(heard, event)[Len(heard) + 1] = event
  OBVIOUS
<1>. QED  BY <1>1 DEF Lifecycle!Hears

(* The owner of a running request passes a chunk on. *)
LEMMA StreamStep ==
  ASSUME TypeOK, NEW r \in RequestId, next_request_id' \in Int,
         Drawn(r), Drawn(r)', active_requests[r].at = "in_flight",
         UNCHANGED active_requests, requeue_count'[r] = requeue_count[r],
         events'[r] = Append(events[r], Chunk(active_requests[r].worker)),
         active_requests[r].worker \in WorkerId
  PROVE  Lifecycle!Step(r)
<1>1. next_request_id \in Int /\ events[r] \in Seq(HttpResponseEvent)
  BY BoundsAssumption DEF TypeOK
<1>2. Lifecycle!Hears(r, "chunk", active_requests[r].worker)
  <2>1. PICK event \in HttpResponseEvent : event = Chunk(active_requests[r].worker)
    BY StatesTyped
  <2>2. event.kind = "chunk" /\ event.by = active_requests[r].worker
    BY <2>1 DEF Chunk
  <2>3. Lifecycle!Hears(r, event.kind, event.by)
    BY <1>1, <2>1, OneEventMore
  <2>. QED  BY <2>2, <2>3
<1>3. Phase(r) = "running" /\ Phase(r)' = "running"
  BY <1>1, Phases
<1>. QED  BY <1>2, <1>3 DEF Lifecycle!Step, Lifecycle!Stream, Lifecycle!Stays

(* The owner of a running request completes it. *)
LEMMA FinishStep ==
  ASSUME TypeOK, NEW r \in RequestId, next_request_id' \in Int,
         Drawn(r), Drawn(r)', active_requests[r].at = "in_flight",
         active_requests'[r] = Absent, requeue_count'[r] = requeue_count[r],
         events'[r] = Append(events[r], Complete(active_requests[r].worker)),
         active_requests[r].worker \in WorkerId
  PROVE  Lifecycle!Step(r)
<1>1. next_request_id \in Int /\ events[r] \in Seq(HttpResponseEvent)
  BY BoundsAssumption DEF TypeOK
<1>2. Lifecycle!Hears(r, "complete", active_requests[r].worker)
  <2>1. PICK event \in HttpResponseEvent : event = Complete(active_requests[r].worker)
    BY StatesTyped
  <2>2. event.kind = "complete" /\ event.by = active_requests[r].worker
    BY <2>1 DEF Complete
  <2>3. Lifecycle!Hears(r, event.kind, event.by)
    BY <1>1, <2>1, OneEventMore
  <2>. QED  BY <2>2, <2>3
<1>3. Phase(r) = "running" /\ Phase(r)' = "done" /\ active_requests'[r].worker = 0
  BY <1>1, Phases DEF Absent
<1>. QED  BY <1>2, <1>3 DEF Lifecycle!Step, Lifecycle!Finish, Lifecycle!Moves

(* An active request fails. *)
LEMMA FailStep ==
  ASSUME TypeOK, NEW r \in RequestId, next_request_id' \in Int,
         Drawn(r), Drawn(r)', active_requests[r].at # "absent",
         active_requests'[r] = Absent, requeue_count'[r] = requeue_count[r],
         NEW why \in FailureReason, events'[r] = Append(events[r], Failure(why))
  PROVE  Lifecycle!Step(r)
<1>1. next_request_id \in Int /\ events[r] \in Seq(HttpResponseEvent)
  BY BoundsAssumption DEF TypeOK
<1>2. Lifecycle!Hears(r, "failure", 0)
  <2>1. PICK event \in HttpResponseEvent : event = Failure(why)
    BY StatesTyped
  <2>2. event.kind = "failure" /\ event.by = 0
    BY <2>1 DEF Failure
  <2>3. Lifecycle!Hears(r, event.kind, event.by)
    BY <1>1, <2>1, OneEventMore
  <2>. QED  BY <2>2, <2>3
<1>3. active_requests[r].at \in {"queued", "in_flight"}
  BY DEF TypeOK, ActiveRequestState, Absent, Queued
<1>4. Phase(r) \in {"waiting", "running"} /\ Phase(r)' = "done"
      /\ active_requests'[r].worker = 0
  BY <1>1, <1>3, Phases DEF Absent
<1>. QED  BY <1>2, <1>4 DEF Lifecycle!Step, Lifecycle!Fail, Lifecycle!Moves

(* A new request is turned away with a failure. *)
LEMMA RefuseStep ==
  ASSUME TypeOK, NEW r \in RequestId, next_request_id' \in Int,
         ~Drawn(r), Drawn(r)', active_requests'[r] = Absent,
         requeue_count'[r] = requeue_count[r],
         NEW why \in FailureReason, events[r] = <<>>, events'[r] = <<Failure(why)>>
  PROVE  Lifecycle!Step(r)
<1>1. next_request_id \in Int
  BY BoundsAssumption DEF TypeOK
<1>2. Lifecycle!Hears(r, "failure", 0)
  <2>1. PICK event \in HttpResponseEvent : event = Failure(why)
    BY StatesTyped
  <2>2. event.kind = "failure" /\ event.by = 0
    BY <2>1 DEF Failure
  <2>3. <<>> \in Seq(HttpResponseEvent) /\ Append(<<>>, event) = <<event>>
    OBVIOUS
  <2>4. Lifecycle!Hears(r, event.kind, event.by)
    BY <2>1, <2>3, OneEventMore
  <2>. QED  BY <2>2, <2>4
<1>3. Phase(r) = "new" /\ Phase(r)' = "done" /\ active_requests'[r].worker = 0
  BY <1>1, Phases DEF Absent
<1>. QED  BY <1>2, <1>3 DEF Lifecycle!Step, Lifecycle!Refuse, Lifecycle!Moves

(* Forgetting and failing active requests is a failure of each of them and    *)
(* nothing for the others.                                                    *)
LEMMA FailingSteps ==
  ASSUME PlaceInv, SenderWhileActive, NEW S \in SUBSET RequestId, Forget(S),
         \A r \in S : active_requests[r].at # "absent",
         NEW reason \in [RequestId -> FailureReason], fail_pending_http_response(S, reason),
         UNCHANGED <<next_request_id, requeue_count>>
  PROVE  \A r \in RequestId : Lifecycle!Step(r)
<1>. SUFFICES ASSUME NEW r \in RequestId PROVE Lifecycle!Step(r)
  OBVIOUS
<1>1. TypeOK /\ next_request_id \in Int /\ next_request_id' \in Int /\ (Drawn(r)' <=> Drawn(r))
      /\ requeue_count'[r] = requeue_count[r]
  BY BoundsAssumption DEF PlaceInv, TypeOK, Drawn
<1>2. CASE r \in S
  <2>1. active_requests[r].at # "absent" /\ r \in senders /\ Drawn(r)
    BY <1>1, <1>2 DEF SenderWhileActive, PlaceInv, FreshIds, Drawn, RequestId
  <2>2. active_requests'[r] = Absent
    BY <1>2 DEF Forget
  <2>3. events'[r] = Append(events[r], Failure(reason[r])) /\ reason[r] \in FailureReason
    BY <1>2, <2>1 DEF fail_pending_http_response
  <2>. QED  BY <1>1, <2>1, <2>2, <2>3, FailStep
<1>3. CASE r \notin S
  <2>1. active_requests'[r] = active_requests[r]
    BY <1>3 DEF Forget
  <2>2. events'[r] = events[r]
    BY <1>3 DEF fail_pending_http_response
  <2>. QED  BY <1>1, <2>1, <2>2, StayStep
<1>. QED  BY <1>2, <1>3

(* A dispatch loop starts the requests of its batch. *)
LEMMA DrainingSteps ==
  ASSUME PlaceInv, NEW w \in WorkerId, NEW S \in SUBSET RequestId,
         \A r \in S : active_requests[r].at = "queued",
         UNCHANGED <<next_request_id, requeue_count, events>>,
         active_requests' = [r \in RequestId |->
           IF r \in S THEN InFlight(w) ELSE active_requests[r]]
  PROVE  \A r \in RequestId : Lifecycle!Step(r)
<1>. SUFFICES ASSUME NEW r \in RequestId PROVE Lifecycle!Step(r)
  OBVIOUS
<1>1. TypeOK /\ next_request_id \in Int /\ next_request_id' \in Int /\ (Drawn(r)' <=> Drawn(r))
      /\ requeue_count'[r] = requeue_count[r] /\ events'[r] = events[r]
  BY BoundsAssumption DEF PlaceInv, TypeOK, Drawn
<1>2. CASE r \in S
  <2>1. active_requests[r].at = "queued" /\ active_requests'[r] = InFlight(w)
    BY <1>2
  <2>2. Drawn(r)
    BY <1>1, <2>1 DEF PlaceInv, FreshIds, Drawn, RequestId
  <2>. QED  BY <1>1, <2>1, <2>2, StartStep
<1>3. CASE r \notin S
  <2>1. active_requests'[r] = active_requests[r]
    BY <1>3
  <2>. QED  BY <1>1, <2>1, StayStep
<1>. QED  BY <1>2, <1>3

(* A step that touches neither the table nor the events is a stutter. *)
LEMMA UntouchedSteps ==
  ASSUME PlaceInv,
         UNCHANGED <<next_request_id, requeue_count, events>>,
         \A r \in RequestId : /\ active_requests'[r].at = active_requests[r].at
                              /\ active_requests'[r].worker = active_requests[r].worker
  PROVE  \A r \in RequestId : Lifecycle!Step(r)
<1>1. next_request_id \in Int /\ next_request_id' \in Int
      /\ \A r \in RequestId : Drawn(r)' <=> Drawn(r)
  BY BoundsAssumption DEF PlaceInv, TypeOK, Drawn
<1>. QED  BY <1>1, StayStep

(* Every step of the core is a step of every request's lifecycle. *)
LEMMA LifecycleSteps == CoreInv /\ UnheardIds /\ [Next]_vars => \A r \in RequestId : Lifecycle!Step(r)
<1>. DEFINE Steps == \A r \in RequestId : Lifecycle!Step(r)
<1>. SUFFICES ASSUME PlaceInv, TypeOK, OnePlace, FreshIds, SentInv, SenderWhileActive,
                     UnheardIds, [Next]_vars
              PROVE  Steps
  BY DEF CoreInv, PlaceInv
<1>0. /\ next_request_id \in Int /\ \A r \in RequestId : r \in Int
      /\ \A r \in RequestId : active_requests[r].at # "absent" => Drawn(r)
      /\ \A r \in RequestId : active_requests[r].at = "absent" => active_requests[r] = Absent
      /\ Absent.at = "absent"
  BY BoundsAssumption DEF TypeOK, RequestId, FreshIds, Drawn, ActiveRequestState, Absent, Queued
<1>a. ASSUME UNCHANGED <<next_request_id, requeue_count, events, active_requests>> PROVE Steps
  BY <1>a, UntouchedSteps
<1>1. ASSUME NEW reg \in Registrations, RegisterWorker(reg) PROVE Steps
  BY <1>a, <1>1 DEF RegisterWorker
<1>b. ASSUME next_request_id <= MaxRequests, next_request_id' = next_request_id + 1,
             UNCHANGED requeue_count,
             \A r \in RequestId : r # next_request_id =>
               active_requests'[r] = active_requests[r] /\ events'[r] = events[r],
             \A r \in RequestId : r = next_request_id => Lifecycle!Step(r)
      PROVE  Steps
  <2>. SUFFICES ASSUME NEW r \in RequestId, r # next_request_id PROVE Lifecycle!Step(r)
    BY <1>b
  <2>1. Drawn(r)' <=> Drawn(r)
    BY <1>0, <1>b DEF Drawn
  <2>. QED  BY <1>0, <1>b, <2>1, StayStep
<1>2. ASSUME NEW sub \in Submissions, SubmitDispatched(sub) PROVE Steps
  <2>1. PICK w \in WorkerId :
          active_requests' = [active_requests EXCEPT ![next_request_id] = InFlight(w)]
    <3>1. PICK sel \in find_eligible_worker_id(sub) :
            active_requests' = [active_requests EXCEPT ![next_request_id] = InFlight(sel.worker)]
      BY <1>2 DEF SubmitDispatched
    <3>2. sel.worker \in WorkerId
      BY SelectionProperties DEF TypeOK
    <3>. QED  BY <3>1, <3>2
  <2>2. /\ next_request_id <= MaxRequests /\ next_request_id' = next_request_id + 1
        /\ UNCHANGED <<requeue_count, events>>
    BY <1>2 DEF SubmitDispatched
  <2>3. ASSUME NEW r \in RequestId, r = next_request_id PROVE Lifecycle!Step(r)
    <3>1. ~Drawn(r) /\ Drawn(r)' /\ active_requests'[r] = InFlight(w)
      BY <1>0, <2>1, <2>2, <2>3 DEF Drawn, TypeOK
    <3>. QED  BY <1>0, <2>2, <3>1, StartStep
  <2>4. \A r \in RequestId : r # next_request_id => active_requests'[r] = active_requests[r]
    BY <2>1 DEF TypeOK
  <2>. QED  BY <1>b, <2>2, <2>3, <2>4
<1>3. ASSUME NEW sub \in Submissions, SubmitQueued(sub) PROVE Steps
  <2>1. /\ next_request_id <= MaxRequests /\ next_request_id' = next_request_id + 1
        /\ UNCHANGED <<requeue_count, events>>
        /\ active_requests' = [active_requests EXCEPT ![next_request_id] = Queued]
    BY <1>3 DEF SubmitQueued
  <2>2. ASSUME NEW r \in RequestId, r = next_request_id PROVE Lifecycle!Step(r)
    <3>1. ~Drawn(r) /\ Drawn(r)' /\ active_requests'[r] = Queued
      BY <1>0, <2>1, <2>2 DEF Drawn, TypeOK
    <3>. QED  BY <1>0, <2>1, <3>1, AcceptStep
  <2>3. \A r \in RequestId : r # next_request_id => active_requests'[r] = active_requests[r]
    BY <2>1 DEF TypeOK
  <2>. QED  BY <1>b, <2>1, <2>2, <2>3
<1>4. ASSUME NEW sub \in Submissions, SubmitRejected(sub) PROVE Steps
  <2>1. PICK why \in FailureReason :
          events' = [events EXCEPT ![next_request_id] = <<Failure(why)>>]
    BY <1>4 DEF SubmitRejected, FailureReason
  <2>2. /\ next_request_id <= MaxRequests /\ next_request_id' = next_request_id + 1
        /\ UNCHANGED <<requeue_count, active_requests>>
    BY <1>4 DEF SubmitRejected
  <2>3. ASSUME NEW r \in RequestId, r = next_request_id PROVE Lifecycle!Step(r)
    <3>1. /\ ~Drawn(r) /\ Drawn(r)' /\ events[r] = <<>>
          /\ active_requests[r].at = "absent"
      BY <1>0, <2>2, <2>3 DEF Drawn, UnheardIds, FreshIds
    <3>2. events'[r] = <<Failure(why)>> /\ active_requests'[r] = Absent
      BY <1>0, <2>1, <2>2, <2>3, <3>1 DEF TypeOK
    <3>. QED  BY <1>0, <2>2, <3>1, <3>2, RefuseStep
  <2>4. \A r \in RequestId : r # next_request_id => events'[r] = events[r]
    BY <2>1 DEF TypeOK
  <2>. QED  BY <1>b, <2>2, <2>3, <2>4
<1>5. ASSUME NEW r \in RequestId, CancelQueued(r) PROVE Steps
  <2>1. CASE UNCHANGED active_requests
    BY <1>a, <1>5, <2>1 DEF CancelQueued
  <2>2. CASE Forget({r})
    <3>1. /\ UNCHANGED <<next_request_id, requeue_count, events>>
          /\ r \in abandoned' /\ active_requests[r].at = "queued"
      BY <1>5 DEF CancelQueued
    <3>2. Lifecycle!Step(r)
      <4>1. Drawn(r) /\ Drawn(r)' /\ active_requests'[r] = Absent
        BY <1>0, <2>2, <3>1 DEF Forget, Drawn
      <4>. QED  BY <1>0, <3>1, <4>1, DropStep
    <3>3. ASSUME NEW q \in RequestId, q # r PROVE Lifecycle!Step(q)
      <4>1. active_requests'[q] = active_requests[q] /\ (Drawn(q)' <=> Drawn(q))
        BY <2>2, <3>1, <3>3 DEF Forget, Drawn
      <4>. QED  BY <1>0, <3>1, <4>1, StayStep
    <3>. QED  BY <3>2, <3>3
  <2>. QED  BY <1>5, <2>1, <2>2 DEF CancelQueued
<1>6. ASSUME NEW r \in RequestId, NEW reason \in CancelReason, CancelInFlight(r, reason)
      PROVE  Steps
  <2>1. UNCHANGED <<next_request_id, requeue_count, events>>
    BY <1>6 DEF CancelInFlight
  <2>2. \A q \in RequestId : /\ active_requests'[q].at = active_requests[q].at
                             /\ active_requests'[q].worker = active_requests[q].worker
    BY <1>6, MarkingKeepsState
  <2>. QED  BY <2>1, <2>2, UntouchedSteps
<1>7. ASSUME NEW w \in WorkerId, NEW ms, NEW load \in Nat, DrainQueues(w, ms, load),
             UNCHANGED <<next_request_id, requeue_count, events>>
      PROVE  Steps
  <2>. DEFINE n == Room(w, load, in_flight_requests[w])
  <2>1. n \in Nat
    BY RoomIsNat DEF TypeOK
  <2>2. PICK batch \in Batches(w, ms, n) :
          active_requests' = [r \in RequestId |->
            IF r \in Members(batch) THEN InFlight(w) ELSE active_requests[r]]
    BY <1>7 DEF DrainQueues
  <2>. HIDE DEF n
  <2>3. /\ \A r \in Members(batch) : active_requests[r].at = "queued"
        /\ Members(batch) \in SUBSET RequestId
    BY <2>1, BatchProperties DEF QueuedRequests
  <2>. QED  BY <1>7, <2>2, <2>3, DrainingSteps
<1>8. ASSUME NEW w \in WorkerId, NEW load \in Loads,
             \/ \E raw \in Updates : UpdateWorkerModels(w, raw, load)
             \/ RecordWorkerPong(w, load)
      PROVE  Steps
  <2>1. UNCHANGED <<next_request_id, requeue_count, events>>
    BY <1>8 DEF UpdateWorkerModels, RecordWorkerPong
  <2>2. \E ms : DrainQueues(w, ms, load)
    BY <1>8 DEF UpdateWorkerModels, RecordWorkerPong
  <2>. QED  BY <1>7, <2>1, <2>2, InputsAssumption
<1>9. ASSUME NEW w \in WorkerId, NEW r \in RequestId, StreamHttpResponseChunk(w, r) PROVE Steps
  <2>1. /\ UNCHANGED <<next_request_id, requeue_count, active_requests>>
        /\ active_requests[r].at = "in_flight" /\ active_requests[r].worker = w
        /\ events'[r] = Append(events[r], Chunk(w))
        /\ \A q \in RequestId : q # r => events'[q] = events[q]
    BY <1>9 DEF StreamHttpResponseChunk, TypeOK
  <2>2. Lifecycle!Step(r)
    <3>1. Drawn(r) /\ Drawn(r)'
      BY <1>0, <2>1 DEF Drawn
    <3>. QED  BY <1>0, <2>1, <3>1, StreamStep
  <2>3. ASSUME NEW q \in RequestId, q # r PROVE Lifecycle!Step(q)
    <3>1. Drawn(q)' <=> Drawn(q)
      BY <2>1 DEF Drawn
    <3>. QED  BY <1>0, <2>1, <2>3, <3>1, StayStep
  <2>. QED  BY <2>2, <2>3
<1>c. ASSUME NEW w \in WorkerId, NEW r \in RequestId, r \in Members(in_flight_requests[w]),
             Respond(w, r), active_requests'[r] = Absent,
             UNCHANGED <<next_request_id, requeue_count>>
      PROVE  Lifecycle!Step(r)
  <2>1. active_requests[r].at = "in_flight" /\ active_requests[r].worker = w
    BY <1>c DEF OnePlace, InFlightSound
  <2>2. r \in senders /\ Drawn(r) /\ Drawn(r)'
    BY <1>0, <1>c, <2>1 DEF SenderWhileActive, Drawn
  <2>3. events'[r] = Append(events[r], Complete(w))
    BY <1>c, <2>2 DEF Respond, TypeOK
  <2>. QED  BY <1>0, <1>c, <2>1, <2>2, <2>3, FinishStep
<1>d. ASSUME NEW w \in WorkerId, NEW r \in RequestId, Respond(w, r)
      PROVE  \A q \in RequestId : q # r => events'[q] = events[q]
  BY <1>d DEF Respond, TypeOK
<1>10. ASSUME NEW w \in WorkerId, NEW r \in RequestId, FinishRequest(w, r) PROVE Steps
  <2>. DEFINE flight == Without(in_flight_requests[w], {r})
              load == saturating_sub(reported_load[w], 1)
              n == IF Room(w, load, flight) > 0 THEN 1 ELSE 0
  <2>1. n \in Nat
    OBVIOUS
  <2>2. PICK batch \in Batches(w, models[w], n) :
          active_requests' = [q \in RequestId |-> IF q = r THEN Absent
                                ELSE IF q \in Members(batch) THEN InFlight(w)
                                ELSE active_requests[q]]
    BY <1>10 DEF FinishRequest
  <2>. HIDE DEF n
  <2>3. \A q \in Members(batch) : active_requests[q].at = "queued"
    BY <2>1, BatchProperties DEF QueuedRequests
  <2>4. /\ Respond(w, r) /\ r \in Members(in_flight_requests[w])
        /\ UNCHANGED <<next_request_id, requeue_count>>
    BY <1>10 DEF FinishRequest
  <2>5. Lifecycle!Step(r)
    BY <1>c, <2>2, <2>4
  <2>6. ASSUME NEW q \in RequestId, q # r PROVE Lifecycle!Step(q)
    <3>1. events'[q] = events[q] /\ requeue_count'[q] = requeue_count[q]
          /\ (Drawn(q)' <=> Drawn(q)) /\ next_request_id' \in Int
      BY <1>0, <1>d, <2>4, <2>6 DEF Drawn
    <3>2. CASE q \in Members(batch)
      <4>1. active_requests[q].at = "queued" /\ active_requests'[q] = InFlight(w) /\ Drawn(q)
        BY <1>0, <2>2, <2>3, <2>6, <3>2
      <4>. QED  BY <1>0, <3>1, <4>1, StartStep
    <3>3. CASE q \notin Members(batch)
      <4>1. active_requests'[q] = active_requests[q]
        BY <2>2, <2>6, <3>3
      <4>. QED  BY <1>0, <3>1, <4>1, StayStep
    <3>. QED  BY <3>2, <3>3
  <2>. QED  BY <2>5, <2>6
<1>11. ASSUME NEW w \in WorkerId, NEW r \in RequestId, FinishDrain(w, r) PROVE Steps
  <2>1. /\ Respond(w, r) /\ r \in Members(in_flight_requests[w]) /\ Forget({r})
        /\ UNCHANGED <<next_request_id, requeue_count>>
    BY <1>11 DEF FinishDrain
  <2>2. Lifecycle!Step(r)
    BY <1>c, <2>1 DEF Forget
  <2>3. ASSUME NEW q \in RequestId, q # r PROVE Lifecycle!Step(q)
    <3>1. events'[q] = events[q] /\ requeue_count'[q] = requeue_count[q]
          /\ (Drawn(q)' <=> Drawn(q)) /\ next_request_id' \in Int
      BY <1>0, <1>d, <2>1, <2>3 DEF Drawn
    <3>2. active_requests'[q] = active_requests[q]
      BY <2>1, <2>3 DEF Forget
    <3>. QED  BY <1>0, <3>1, <3>2, StayStep
  <2>. QED  BY <2>2, <2>3
<1>12. ASSUME NEW w \in WorkerId, NEW r \in RequestId, LateResponse(w, r) PROVE Steps
  <2>1. active_requests[r].at = "absent"
    BY <1>12 DEF LateResponse, SentInv, HandedAt
  <2>2. events' = events
    BY <1>12, <2>1 DEF LateResponse, Respond, SenderWhileActive
  <2>. QED  BY <1>a, <1>12, <2>2 DEF LateResponse
<1>13. ASSUME NEW w \in WorkerId,
              \/ TakePendingWorkerRequests(w) \/ TakePendingWorkerCancelSignals(w)
              \/ TakePendingWorkerGracefulShutdownSignals(w)
              \/ RequestWorkerModelsRefresh(w) \/ TakePendingWorkerModelsRefreshSignals(w)
              \/ LoseRemovedSocket(w)
       PROVE  Steps
  BY <1>a, <1>13
  DEF TakePendingWorkerRequests, TakePendingWorkerCancelSignals,
      TakePendingWorkerGracefulShutdownSignals, RequestWorkerModelsRefresh,
      TakePendingWorkerModelsRefreshSignals, LoseRemovedSocket
<1>14. ASSUME NEW w \in WorkerId, DisconnectWorker(w) PROVE Steps
  <2>. DEFINE lost     == Members(in_flight_requests[w])
              canceled == {r \in lost : WasCanceled(r)}
              worn     == {r \in lost \ canceled : RequeuesExhausted(r)}
              failed   == canceled \cup worn
              why      == [r \in RequestId |-> IF r \in canceled THEN "RequestAlreadyCanceled"
                                               ELSE "MaxRequeuesExceeded"]
  <2>1. /\ active_requests' = [r \in RequestId |-> IF r \in failed THEN Absent
                                                   ELSE IF r \in lost THEN Queued
                                                   ELSE active_requests[r]]
        /\ requeue_count' = [r \in RequestId |-> IF r \in lost \ failed
                                                 THEN requeue_count[r] + 1
                                                 ELSE requeue_count[r]]
        /\ events' = [r \in RequestId |->
                        IF r \in failed \cap senders THEN Append(events[r], Failure(why[r]))
                        ELSE events[r]]
        /\ UNCHANGED next_request_id
    BY <1>14 DEF DisconnectWorker, fail_pending_http_response
  <2>2. \A r \in lost : active_requests[r].at = "in_flight"
    BY DEF OnePlace, InFlightSound
  <2>3. \A r \in RequestId : why[r] \in FailureReason
    BY DEF FailureReason
  <2>4. failed \subseteq lost /\ \A r \in lost \ failed : ~RequeuesExhausted(r)
    OBVIOUS
  <2>. HIDE DEF lost, failed, why
  <2>. SUFFICES ASSUME NEW r \in RequestId PROVE Lifecycle!Step(r)
    OBVIOUS
  <2>5. (Drawn(r)' <=> Drawn(r)) /\ next_request_id' \in Int /\ requeue_count[r] \in Nat
    BY <1>0, <2>1 DEF Drawn, TypeOK
  <2>6. CASE r \in failed
    <3>1. r \in senders /\ Drawn(r) /\ active_requests[r].at # "absent"
      BY <1>0, <2>2, <2>4, <2>6 DEF SenderWhileActive
    <3>2. /\ active_requests'[r] = Absent /\ requeue_count'[r] = requeue_count[r]
          /\ events'[r] = Append(events[r], Failure(why[r]))
      BY <2>1, <2>6, <3>1
    <3>. QED  BY <2>3, <2>5, <3>1, <3>2, FailStep
  <2>7. CASE r \in lost \ failed
    <3>1. Drawn(r) /\ active_requests[r].at = "in_flight" /\ ~RequeuesExhausted(r)
      BY <1>0, <2>2, <2>4, <2>7
    <3>2. /\ active_requests'[r] = Queued /\ requeue_count'[r] = requeue_count[r] + 1
          /\ events'[r] = events[r]
      BY <2>1, <2>7
    <3>. QED  BY <1>0, <2>5, <3>1, <3>2, RequeueStep
  <2>8. CASE r \notin lost
    <3>1. /\ active_requests'[r] = active_requests[r] /\ requeue_count'[r] = requeue_count[r]
          /\ events'[r] = events[r]
      BY <2>1, <2>4, <2>8
    <3>. QED  BY <1>0, <2>5, <3>1, StayStep
  <2>. QED  BY <2>6, <2>7, <2>8
<1>15. ASSUME NEW w \in WorkerId, GracefulShutdownCloseAction(w) PROVE Steps
  <2>. DEFINE S == InFlightOf(ExpiringWorkers)
              why == [r \in RequestId |-> "GracefulShutdownTimedOut"]
  <2>1. /\ Forget(S) /\ fail_pending_http_response(S, why)
        /\ UNCHANGED <<next_request_id, requeue_count>>
    BY <1>15 DEF GracefulShutdownCloseAction
  <2>2. S \in SUBSET RequestId /\ \A r \in S : active_requests[r].at # "absent"
    BY DEF InFlightOf, ExpiringWorkers, OnePlace, InFlightSound, TypeOK
  <2>3. why \in [RequestId -> FailureReason]
    BY DEF FailureReason
  <2>. HIDE DEF S, why
  <2>. QED  BY <2>1, <2>2, <2>3, FailingSteps
<1>16. ASSUME BeginGracefulShutdown PROVE Steps
  BY <1>a, <1>16 DEF BeginGracefulShutdown
<1>17. ASSUME NEW p \in Providers, DeleteProvider(p) PROVE Steps
  <2>. DEFINE gone == {w \in workers : profile[w].provider = p}
              S == Members(provider_queues[p]) \cup InFlightOf(gone)
              why == [r \in RequestId |-> "ProviderDeleted"]
  <2>1. /\ Forget(S) /\ fail_pending_http_response(S, why)
        /\ UNCHANGED <<next_request_id, requeue_count>>
    BY <1>17 DEF DeleteProvider
  <2>2. S \in SUBSET RequestId
    BY DEF InFlightOf, TypeOK, Members
  <2>3. \A r \in S : active_requests[r].at # "absent"
    BY DEF InFlightOf, OnePlace, InFlightSound, QueuesSound, TypeOK
  <2>4. why \in [RequestId -> FailureReason]
    BY DEF FailureReason
  <2>. HIDE DEF S, why
  <2>. QED  BY <2>1, <2>2, <2>3, <2>4, FailingSteps
<1>18. ASSUME ExpireQueueTimeouts PROVE Steps
  <2>. DEFINE S == {r \in RequestId : \E p \in Providers :
                      r \in Members(provider_queues[p]) /\ TimedOut(p, r)}
              why == [r \in RequestId |-> "QueueTimedOut"]
  <2>1. /\ Forget(S) /\ fail_pending_http_response(S, why)
        /\ UNCHANGED <<next_request_id, requeue_count>>
    BY <1>18 DEF ExpireQueueTimeouts
  <2>2. S \in SUBSET RequestId /\ \A r \in S : active_requests[r].at # "absent"
    BY DEF OnePlace, QueuesSound
  <2>3. why \in [RequestId -> FailureReason]
    BY DEF FailureReason
  <2>. HIDE DEF S, why
  <2>. QED  BY <2>1, <2>2, <2>3, FailingSteps
<1>19. ASSUME \/ QueueTimeoutPasses
              \/ \E k \in 1..MaxShutdowns : DrainDeadlinePasses(k)
              \/ UNCHANGED vars
       PROVE  Steps
  BY <1>a, <1>19 DEF QueueTimeoutPasses, DrainDeadlinePasses, vars
<1>. HIDE DEF Steps
<1>. QED
  BY <1>1, <1>2, <1>3, <1>4, <1>5, <1>6, <1>8, <1>9, <1>10, <1>11, <1>12, <1>13,
     <1>14, <1>15, <1>16, <1>17, <1>18, <1>19
  DEF Next, Submit, Cancel, Answer

(* Ids are drawn one at a time, and a client that gave up stays away. *)
LEMMA IdsAndLeavers ==
  [Next]_vars => /\ next_request_id' \in {next_request_id, next_request_id + 1}
                 /\ abandoned \subseteq abandoned'
<1>. DEFINE Goal == /\ next_request_id' \in {next_request_id, next_request_id + 1}
                    /\ abandoned \subseteq abandoned'
<1>. SUFFICES ASSUME [Next]_vars PROVE Goal
  OBVIOUS
<1>1. ASSUME NEW sub \in Submissions, Submit(sub) PROVE Goal
  BY <1>1 DEF Submit, SubmitDispatched, SubmitQueued, SubmitRejected
<1>2. ASSUME NEW r \in RequestId, Cancel(r) PROVE Goal
  BY <1>2 DEF Cancel, CancelQueued, CancelInFlight
<1>3. ASSUME \/ \E reg \in Registrations : RegisterWorker(reg)
             \/ \E w \in WorkerId :
                  \/ \E raw \in Updates, load \in Loads : UpdateWorkerModels(w, raw, load)
                  \/ \E load \in Loads : RecordWorkerPong(w, load)
                  \/ \E r \in RequestId : StreamHttpResponseChunk(w, r) \/ Answer(w, r)
      PROVE  UNCHANGED <<next_request_id, abandoned>>
  BY <1>3, ZenonT(30)
  DEF RegisterWorker, UpdateWorkerModels, RecordWorkerPong, StreamHttpResponseChunk,
      Answer, FinishRequest, FinishDrain, LateResponse
<1>4. ASSUME NEW w \in WorkerId,
             \/ TakePendingWorkerRequests(w) \/ TakePendingWorkerCancelSignals(w)
             \/ TakePendingWorkerGracefulShutdownSignals(w)
             \/ RequestWorkerModelsRefresh(w) \/ TakePendingWorkerModelsRefreshSignals(w)
             \/ LoseRemovedSocket(w) \/ DisconnectWorker(w) \/ GracefulShutdownCloseAction(w)
      PROVE  UNCHANGED <<next_request_id, abandoned>>
  BY <1>4
  DEF TakePendingWorkerRequests, TakePendingWorkerCancelSignals,
      TakePendingWorkerGracefulShutdownSignals, RequestWorkerModelsRefresh,
      TakePendingWorkerModelsRefreshSignals, LoseRemovedSocket, DisconnectWorker,
      GracefulShutdownCloseAction
<1>5. ASSUME \/ BeginGracefulShutdown \/ \E p \in Providers : DeleteProvider(p)
             \/ QueueTimeoutPasses \/ \E k \in 1..MaxShutdowns : DrainDeadlinePasses(k)
             \/ ExpireQueueTimeouts \/ UNCHANGED vars
      PROVE  UNCHANGED <<next_request_id, abandoned>>
  BY <1>5 DEF BeginGracefulShutdown, DeleteProvider, QueueTimeoutPasses,
              DrainDeadlinePasses, ExpireQueueTimeouts, vars
<1>. QED  BY <1>1, <1>2, <1>3, <1>4, <1>5 DEF Next

(* Nothing is said to a client before its request has an id. *)
LEMMA UnheardStep == CoreInv /\ UnheardIds /\ [Next]_vars => UnheardIds'
<1>. SUFFICES ASSUME CoreInv, TypeOK, UnheardIds, [Next]_vars,
                     NEW r \in RequestId, r >= next_request_id'
              PROVE  events'[r] = <<>>
  BY DEF UnheardIds, CoreInv, PlaceInv
<1>1. next_request_id \in Int /\ r \in Int
  BY BoundsAssumption DEF TypeOK, RequestId
<1>2. next_request_id' \in {next_request_id, next_request_id + 1}
  BY IdsAndLeavers
<1>3. Phase(r) = "new" /\ Phase(r)' = "new" /\ events[r] = <<>>
  BY <1>1, <1>2 DEF Phase, UnheardIds
<1>4. Lifecycle!Step(r)
  BY LifecycleSteps
<1>. QED
  BY <1>3, <1>4
  DEF Lifecycle!Step, Lifecycle!Requeue, Lifecycle!Accept, Lifecycle!AcceptAndStart,
      Lifecycle!Refuse, Lifecycle!Start, Lifecycle!Stream, Lifecycle!Finish, Lifecycle!Fail,
      Lifecycle!Drop, Lifecycle!Moves, Lifecycle!Quiet

(* Each request follows the abstract lifecycle: it is started, requeued at    *)
(* most three times, answered only by the worker that currently owns it, and  *)
(* ends with one final event unless its client gave up while it waited.       *)
THEOREM CoreImplementsLifecycle == Spec => ImplementsLifecycle
<1>1. Init => Lifecycle!LifecycleInit
  BY DEF Init, Lifecycle!LifecycleInit, Phase, RequestId, Absent
<1>2. Init => UnheardIds
  BY DEF Init, UnheardIds
<1>3. CoreInv /\ UnheardIds /\ [Next]_vars => [Lifecycle!LifecycleNext]_(Lifecycle!lifecycleVars)
  BY LifecycleSteps, IdsAndLeavers DEF Lifecycle!LifecycleNext
<1>. QED
  BY <1>1, <1>2, <1>3, CoreInit, CoreStep, UnheardStep, PTL
  DEF Spec, ImplementsLifecycle, Lifecycle!LifecycleSpec
-----------------------------------------------------------------------------
(* The pages of the server: who waits, and what is left of those who do not.  *)

(* What was never requeued stands in the queue of the provider it was         *)
(* submitted to.                                                             *)
FreshAtHome == \A p \in Providers : \A r \in FreshMembers(p) : request[r].provider = p

(* A client that is not known to have left waits exactly while its request is *)
(* in the core.                                                              *)
WaitingOrAnswered ==
  \A r \in RequestId :
    /\ r \in abandoned => Drawn(r)
    /\ active_requests[r].at # "absent" => ~Answered(r)
    /\ Drawn(r) /\ active_requests[r].at = "absent" => Answered(r) \/ r \in abandoned

LeftoversExplained ==
  \A r \in Leftovers : active_requests[r].cancellation = "none" => requeue_count[r] > 0

PagesInv == CoreInv /\ UnheardIds /\ FreshAtHome /\ WaitingOrAnswered /\ LeftoversExplained

(* A request is what was submitted under its id, and only cancel_request      *)
(* takes note of a client that left.                                         *)
LEMMA AskersAndLeavers ==
  [Next]_vars => /\ \/ request' = request
                    \/ \E sub \in Submissions :
                         request' = [request EXCEPT ![next_request_id] = sub]
                 /\ \/ abandoned' = abandoned
                    \/ \E r \in RequestId : Cancel(r) /\ abandoned' = abandoned \cup {r}
<1>. DEFINE Goal == /\ \/ request' = request
                       \/ \E sub \in Submissions :
                            request' = [request EXCEPT ![next_request_id] = sub]
                    /\ \/ abandoned' = abandoned
                       \/ \E r \in RequestId : Cancel(r) /\ abandoned' = abandoned \cup {r}
<1>. SUFFICES ASSUME [Next]_vars PROVE Goal
  OBVIOUS
<1>1. ASSUME NEW sub \in Submissions, Submit(sub) PROVE Goal
  BY <1>1 DEF Submit, SubmitDispatched, SubmitQueued, SubmitRejected
<1>2. ASSUME NEW r \in RequestId, Cancel(r) PROVE Goal
  <2>1. abandoned' = abandoned \cup {r} /\ request' = request
    BY <1>2 DEF Cancel, CancelQueued, CancelInFlight
  <2>. QED  BY <1>2, <2>1
<1>3. ASSUME \/ \E reg \in Registrations : RegisterWorker(reg)
             \/ \E w \in WorkerId :
                  \/ \E raw \in Updates, load \in Loads : UpdateWorkerModels(w, raw, load)
                  \/ \E load \in Loads : RecordWorkerPong(w, load)
                  \/ \E r \in RequestId : StreamHttpResponseChunk(w, r) \/ Answer(w, r)
      PROVE  UNCHANGED <<request, abandoned>>
  BY <1>3, ZenonT(30)
  DEF RegisterWorker, UpdateWorkerModels, RecordWorkerPong, StreamHttpResponseChunk,
      Answer, FinishRequest, FinishDrain, LateResponse
<1>4. ASSUME NEW w \in WorkerId,
             \/ TakePendingWorkerRequests(w) \/ TakePendingWorkerCancelSignals(w)
             \/ TakePendingWorkerGracefulShutdownSignals(w)
             \/ RequestWorkerModelsRefresh(w) \/ TakePendingWorkerModelsRefreshSignals(w)
             \/ LoseRemovedSocket(w) \/ DisconnectWorker(w) \/ GracefulShutdownCloseAction(w)
      PROVE  UNCHANGED <<request, abandoned>>
  BY <1>4
  DEF TakePendingWorkerRequests, TakePendingWorkerCancelSignals,
      TakePendingWorkerGracefulShutdownSignals, RequestWorkerModelsRefresh,
      TakePendingWorkerModelsRefreshSignals, LoseRemovedSocket, DisconnectWorker,
      GracefulShutdownCloseAction
<1>5. ASSUME \/ BeginGracefulShutdown \/ \E p \in Providers : DeleteProvider(p)
             \/ QueueTimeoutPasses \/ \E k \in 1..MaxShutdowns : DrainDeadlinePasses(k)
             \/ ExpireQueueTimeouts \/ UNCHANGED vars
      PROVE  UNCHANGED <<request, abandoned>>
  BY <1>5 DEF BeginGracefulShutdown, DeleteProvider, QueueTimeoutPasses,
              DrainDeadlinePasses, ExpireQueueTimeouts, vars
<1>. HIDE DEF Goal
<1>6. UNCHANGED <<request, abandoned>> => Goal
  BY DEF Goal
<1>. QED  BY <1>1, <1>2, <1>3, <1>4, <1>5, <1>6 DEF Next

(* What was never requeued has not left home. *)
LEMMA HomeStep ==
  CoreInv /\ CoreInv' /\ FreshAtHome /\ [Next]_vars => FreshAtHome'
<1>. SUFFICES ASSUME CoreInv, CoreInv', FreshAtHome, [Next]_vars, TypeOK, TypeOK', PlaceInv,
                     NEW p \in Providers, NEW r \in FreshMembers(p)'
              PROVE  request'[r].provider = p
  BY DEF FreshAtHome, CoreInv, PlaceInv
<1>1. CASE r \in FreshMembers(p)
  <2>1. r \in RequestId /\ request[r].provider = p /\ active_requests[r].at = "queued"
    BY <1>1, SMTT(30) DEF FreshAtHome, FreshMembers, PlaceInv, OnePlace, QueuesSound, TypeOK,
                          Members
  <2>2. r # next_request_id
    BY <2>1 DEF PlaceInv, FreshIds, RequestId
  <2>3. request'[r] = request[r]
    BY <2>1, <2>2, AskersAndLeavers DEF TypeOK
  <2>. QED  BY <2>1, <2>3
<1>2. CASE r \notin FreshMembers(p)
  <2>1. PICK sub \in Submissions : SubmitQueued(sub)
    BY <1>2, OnlySubmissionsJoin DEF NoFreshJoins
  <2>2. /\ provider_queues' =
             [provider_queues EXCEPT ![sub.provider] = Append(@, next_request_id)]
        /\ request' = [request EXCEPT ![next_request_id] = sub]
        /\ next_request_id \in RequestId /\ UNCHANGED requeue_count
        /\ sub.provider \in Providers
    BY <2>1, InputsAssumption DEF SubmitQueued, TypeOK, RequestId
  <2>3. p = sub.provider /\ r = next_request_id
    <3>. DEFINE q == provider_queues[sub.provider]
    <3>1. q \in Seq(RequestId) /\ provider_queues'[sub.provider] = Append(q, next_request_id)
          /\ (p # sub.provider => provider_queues'[p] = provider_queues[p])
      BY <2>2 DEF TypeOK
    <3>. HIDE DEF q
    <3>2. \A x \in Members(Append(q, next_request_id)) : x \in Members(q) \/ x = next_request_id
      BY <3>1, SMTT(30) DEF Members
    <3>. QED  BY <1>2, <2>2, <3>1, <3>2 DEF FreshMembers, q
  <2>. QED  BY <2>2, <2>3 DEF TypeOK
<1>. QED  BY <1>1, <1>2

(* An event more, and whether it answers. *)
LEMMA HeardAnswers ==
  ASSUME TypeOK, TypeOK', NEW r \in RequestId, NEW kind, NEW by, Lifecycle!Hears(r, kind, by)
  PROVE  Answered(r)' <=> Answered(r) \/ kind # "chunk"
<1>. DEFINE s == events[r]
            t == events'[r]
<1>1. s \in Seq(HttpResponseEvent) /\ t \in Seq(HttpResponseEvent)
  BY DEF TypeOK
<1>2. Len(t) = Len(s) + 1 /\ SubSeq(t, 1, Len(s)) = s /\ t[Len(t)].kind = kind
  BY DEF Lifecycle!Hears
<1>3. (Answered(r)' <=> \E i \in DOMAIN t : t[i].kind # "chunk")
      /\ (Answered(r) <=> \E i \in DOMAIN s : s[i].kind # "chunk")
  BY DEF Answered
<1>. HIDE DEF s, t, HttpResponseEvent
<1>4. Len(s) \in Nat /\ DOMAIN s = 1..Len(s) /\ DOMAIN t = 1..(Len(s) + 1)
  BY <1>1, <1>2
<1>5. \A i \in 1..Len(s) : t[i] = s[i]
  <2>1. \A i \in 1..Len(s) : SubSeq(t, 1, Len(s))[i] = t[i]
    BY <1>1, <1>2, <1>4
  <2>. QED  BY <1>2, <2>1
<1>6. Len(s) + 1 \in 1..(Len(s) + 1) /\ t[Len(s) + 1].kind = kind
  BY <1>2, <1>4
<1>7. \A i \in 1..(Len(s) + 1) : i \in 1..Len(s) \/ i = Len(s) + 1
  BY <1>4
<1>8. \A i \in 1..Len(s) : i \in 1..(Len(s) + 1)
  BY <1>4
<1>. QED  BY <1>3, <1>4, <1>5, <1>6, <1>7, <1>8

(* A request is answered in the step that ends it, unless its client left; and *)
(* what is done stays as it is.                                              *)
LEMMA LifecycleAnswers ==
  ASSUME TypeOK, TypeOK', NEW r \in RequestId, Lifecycle!Step(r)
  PROVE  /\ Phase(r)' # "done" /\ Answered(r)' => Answered(r)
         /\ Phase(r)' = "done" /\ Phase(r) # "done" => Answered(r)' \/ r \in abandoned'
         /\ Phase(r) = "done" => Phase(r)' = "done" /\ (Answered(r)' <=> Answered(r))
         /\ requeue_count'[r] >= requeue_count[r]
<1>. DEFINE Goal == /\ Phase(r)' # "done" /\ Answered(r)' => Answered(r)
                    /\ Phase(r)' = "done" /\ Phase(r) # "done" =>
                         Answered(r)' \/ r \in abandoned'
                    /\ Phase(r) = "done" => Phase(r)' = "done" /\ (Answered(r)' <=> Answered(r))
                    /\ requeue_count'[r] >= requeue_count[r]
<1>1. Lifecycle!Quiet(r) => (Answered(r)' <=> Answered(r))
  BY DEF Lifecycle!Quiet, Answered
<1>2. \A kind, by : Lifecycle!Hears(r, kind, by) => (Answered(r)' <=> Answered(r) \/ kind # "chunk")
  BY HeardAnswers
<1>3. requeue_count[r] \in Nat /\ requeue_count'[r] \in Nat
  BY DEF TypeOK
<1>4. CASE Lifecycle!Requeue(r)
  <2>1. Phase(r) = "running" /\ Phase(r)' = "waiting" /\ (Answered(r)' <=> Answered(r))
        /\ requeue_count'[r] = requeue_count[r] + 1
    BY <1>1, <1>4 DEF Lifecycle!Requeue, Lifecycle!Moves
  <2>. QED  BY <1>3, <2>1
<1>5. CASE ~Lifecycle!Requeue(r)
  <2>1. requeue_count'[r] >= requeue_count[r]
    BY <1>3, <1>5 DEF Lifecycle!Step
  <2>2. CASE Lifecycle!Accept(r) \/ Lifecycle!AcceptAndStart(r) \/ Lifecycle!Start(r)
    <3>1. Phase(r) \in {"new", "waiting"} /\ Phase(r)' \in {"waiting", "running"}
          /\ (Answered(r)' <=> Answered(r))
      BY <1>1, <2>2 DEF Lifecycle!Accept, Lifecycle!AcceptAndStart, Lifecycle!Start,
                        Lifecycle!Moves
    <3>. QED  BY <2>1, <3>1
  <2>3. CASE Lifecycle!Refuse(r) \/ Lifecycle!Fail(r) \/ Lifecycle!Finish(r)
    <3>1. Phase(r) \in {"new", "waiting", "running"} /\ Phase(r)' = "done" /\ Answered(r)'
      BY <1>2, <2>3 DEF Lifecycle!Refuse, Lifecycle!Fail, Lifecycle!Finish, Lifecycle!Moves
    <3>. QED  BY <2>1, <3>1
  <2>4. CASE Lifecycle!Stream(r)
    <3>1. Phase(r) = "running" /\ Phase(r)' = "running" /\ (Answered(r)' <=> Answered(r))
      BY <1>2, <2>4 DEF Lifecycle!Stream, Lifecycle!Stays
    <3>. QED  BY <2>1, <3>1
  <2>5. CASE Lifecycle!Drop(r)
    <3>1. Phase(r) = "waiting" /\ Phase(r)' = "done" /\ r \in abandoned'
      BY <2>5 DEF Lifecycle!Drop, Lifecycle!Moves
    <3>. QED  BY <2>1, <3>1
  <2>6. CASE Lifecycle!Stays(r) /\ Lifecycle!Quiet(r)
    <3>1. Phase(r)' = Phase(r) /\ (Answered(r)' <=> Answered(r))
      BY <1>1, <2>6 DEF Lifecycle!Stays
    <3>. QED  BY <2>1, <3>1
  <2>. QED  BY <1>5, <2>2, <2>3, <2>4, <2>5, <2>6 DEF Lifecycle!Step
<1>. QED  BY <1>4, <1>5

(* What a step does to one request and to what its client heard. *)
StepAnswers(r) ==
  /\ Drawn(r) => Drawn(r)'
  /\ ~Drawn(r) => ~Answered(r)
  /\ active_requests[r].at # "absent" => Drawn(r)
  /\ active_requests'[r].at # "absent" => Drawn(r)' /\ Phase(r)' # "done"
  /\ Drawn(r)' /\ active_requests'[r].at = "absent" => Phase(r)' = "done"
  /\ Phase(r) = "done" <=> Drawn(r) /\ active_requests[r].at = "absent"
  /\ Phase(r)' # "done" /\ Answered(r)' => Answered(r)
  /\ Phase(r)' = "done" /\ Phase(r) # "done" => Answered(r)' \/ r \in abandoned'
  /\ Phase(r) = "done" => Phase(r)' = "done" /\ (Answered(r)' <=> Answered(r))
  /\ requeue_count'[r] >= requeue_count[r]

(* Every step of the core does. *)
LEMMA AnsweredSteps ==
  CoreInv /\ UnheardIds /\ [Next]_vars => \A r \in RequestId : StepAnswers(r)
<1>. SUFFICES ASSUME CoreInv, UnheardIds, [Next]_vars, NEW r \in RequestId
              PROVE  StepAnswers(r)
  OBVIOUS
<1>1. TypeOK /\ TypeOK' /\ FreshIds /\ FreshIds' /\ CoreInv'
  BY CoreStep DEF CoreInv, PlaceInv
<1>2. /\ r \in Int /\ next_request_id \in Int /\ next_request_id' \in Int
      /\ active_requests[r].at \in {"absent", "queued", "in_flight"}
      /\ active_requests'[r].at \in {"absent", "queued", "in_flight"}
  BY <1>1, BoundsAssumption DEF TypeOK, RequestId, ActiveRequestState, Absent, Queued
<1>3. Drawn(r) => Drawn(r)'
  BY <1>2, IdsAndLeavers DEF Drawn
<1>4. ~Drawn(r) => ~Answered(r)
  BY <1>2 DEF Drawn, UnheardIds, Answered
<1>5. /\ active_requests[r].at # "absent" => Drawn(r)
      /\ active_requests'[r].at # "absent" => Drawn(r)'
  BY <1>1, <1>2 DEF FreshIds, Drawn
<1>6. /\ active_requests'[r].at # "absent" => Phase(r)' # "done"
      /\ Drawn(r)' /\ active_requests'[r].at = "absent" => Phase(r)' = "done"
  BY <1>2, <1>5, Phases
<1>7. Phase(r) = "done" <=> Drawn(r) /\ active_requests[r].at = "absent"
  BY <1>2 DEF Phase, Drawn
<1>8. Lifecycle!Step(r)
  BY LifecycleSteps
<1>9. /\ Phase(r)' # "done" /\ Answered(r)' => Answered(r)
      /\ Phase(r)' = "done" /\ Phase(r) # "done" => Answered(r)' \/ r \in abandoned'
      /\ Phase(r) = "done" => Phase(r)' = "done" /\ (Answered(r)' <=> Answered(r))
      /\ requeue_count'[r] >= requeue_count[r]
  BY <1>1, <1>8, LifecycleAnswers
<1>. QED  BY <1>3, <1>4, <1>5, <1>6, <1>7, <1>9 DEF StepAnswers

(* Every step keeps who waits and who is answered. *)
LEMMA AnswersStep == PagesInv /\ [Next]_vars => WaitingOrAnswered'
<1>. SUFFICES ASSUME PagesInv, [Next]_vars, NEW r \in RequestId
              PROVE  /\ r \in abandoned' => Drawn(r)'
                     /\ active_requests'[r].at # "absent" => ~Answered(r)'
                     /\ Drawn(r)' /\ active_requests'[r].at = "absent" =>
                          Answered(r)' \/ r \in abandoned'
  BY DEF WaitingOrAnswered
<1>1. StepAnswers(r)
  BY AnsweredSteps DEF PagesInv
<1>2. /\ r \in abandoned => Drawn(r)
      /\ active_requests[r].at # "absent" => ~Answered(r)
      /\ Drawn(r) /\ active_requests[r].at = "absent" => Answered(r) \/ r \in abandoned
  BY DEF PagesInv, WaitingOrAnswered
<1>3. r \in abandoned' => r \in abandoned \/ active_requests[r].at # "absent"
  BY AskersAndLeavers DEF Cancel, CancelQueued, CancelInFlight
<1>4. abandoned \subseteq abandoned'
  BY IdsAndLeavers
<1>. QED  BY <1>1, <1>2, <1>3, <1>4 DEF StepAnswers

(* A client leaves a request behind that is marked, or that has lost a worker *)
(* before and is queued elsewhere.                                           *)
LEMMA LeaverExplained ==
  ASSUME PagesInv, NEW r \in RequestId, Cancel(r), active_requests'[r].at # "absent"
  PROVE  active_requests'[r].cancellation # "none" \/ requeue_count'[r] > 0
<1>1. TypeOK /\ OnePlace /\ FreshAtHome
  BY DEF PagesInv, CoreInv, PlaceInv
<1>2. CASE \E reason \in CancelReason : CancelInFlight(r, reason)
  <2>1. PICK reason \in CancelReason : CancelInFlight(r, reason)
    BY <1>2
  <2>2. reason # "none"
    BY NamesAssumption
  <2>3. CASE active_requests[r].cancellation = "none"
    <3>1. active_requests' = [active_requests EXCEPT ![r].cancellation = reason]
          /\ active_requests[r].at = "in_flight"
      BY <2>1, <2>3 DEF CancelInFlight
    <3>2. active_requests[r] \in [at : {"in_flight"}, worker : WorkerId,
                                  cancellation : CancelReason \cup {"none"}]
      BY <1>1, <3>1 DEF TypeOK, ActiveRequestState, Absent, Queued
    <3>3. active_requests'[r].cancellation = reason
      BY <1>1, <3>1, <3>2 DEF TypeOK
    <3>. QED  BY <2>2, <3>3
  <2>4. CASE active_requests[r].cancellation # "none"
    BY <2>1, <2>4 DEF CancelInFlight
  <2>. QED  BY <2>3, <2>4
<1>3. CASE CancelQueued(r)
  <2>1. r \notin Members(provider_queues[request[r].provider])
    BY <1>3 DEF CancelQueued, Forget, Absent
  <2>2. PICK p \in Providers : r \in Members(provider_queues[p])
    BY <1>1, <1>3 DEF CancelQueued, OnePlace, NothingLost
  <2>3. requeue_count[r] # 0
    BY <1>1, <2>1, <2>2 DEF FreshAtHome, FreshMembers
  <2>4. requeue_count'[r] = requeue_count[r] /\ requeue_count[r] \in Nat
    BY <1>1, <1>3 DEF CancelQueued, TypeOK
  <2>. QED  BY <2>3, <2>4
<1>. QED  BY <1>2, <1>3 DEF Cancel

(* Every step explains the leftovers. *)
LEMMA LeftoversStep == PagesInv /\ [Next]_vars => LeftoversExplained'
<1>. SUFFICES ASSUME PagesInv, [Next]_vars, NEW r, r \in abandoned',
                     active_requests'[r].at # "absent",
                     active_requests'[r].cancellation = "none"
              PROVE  requeue_count'[r] > 0
  BY DEF LeftoversExplained, Leftovers
<1>1. TypeOK /\ TypeOK' /\ CoreInv /\ PlaceInv
  BY CoreStep DEF PagesInv, CoreInv, PlaceInv
<1>2. r \in RequestId
  BY <1>1 DEF TypeOK
<1>3. StepAnswers(r)
  BY <1>2, AnsweredSteps DEF PagesInv
<1>4. CASE r \in abandoned
  <2>1. Drawn(r)
    BY <1>2, <1>4 DEF PagesInv, WaitingOrAnswered
  <2>2. active_requests[r].at # "absent"
    BY <1>3, <2>1 DEF StepAnswers
  <2>3. active_requests[r].cancellation = "none"
    BY <1>1, <1>2, CancelledStep DEF CancelledStays, Absent
  <2>4. requeue_count[r] > 0
    BY <1>4, <2>2, <2>3 DEF PagesInv, LeftoversExplained, Leftovers
  <2>5. requeue_count'[r] >= requeue_count[r]
    BY <1>3 DEF StepAnswers
  <2>6. requeue_count[r] \in Nat /\ requeue_count'[r] \in Nat
    BY <1>1, <1>2 DEF TypeOK
  <2>. QED  BY <2>4, <2>5, <2>6
<1>5. CASE r \notin abandoned
  <2>1. Cancel(r)
    BY <1>5, AskersAndLeavers
  <2>. QED  BY <1>2, <2>1, LeaverExplained
<1>. QED  BY <1>4, <1>5

(* Nobody asks at the start, and every step keeps what the pages rest on. *)
LEMMA PagesInvariant == Spec => []PagesInv
<1>1. Init => PagesInv
  <2>. SUFFICES ASSUME Init PROVE PagesInv
    OBVIOUS
  <2>1. UnheardIds /\ WaitingOrAnswered /\ LeftoversExplained
    BY DEF Init, UnheardIds, WaitingOrAnswered, LeftoversExplained, Leftovers, Absent, Drawn,
           RequestId
  <2>2. FreshAtHome
    BY SmallSequences DEF Init, FreshAtHome, FreshMembers
  <2>. QED  BY <2>1, <2>2, CoreInit DEF PagesInv
<1>2. PagesInv /\ [Next]_vars => PagesInv'
  <2>. SUFFICES ASSUME PagesInv, [Next]_vars PROVE PagesInv'
    OBVIOUS
  <2>1. CoreInv /\ UnheardIds /\ FreshAtHome
    BY DEF PagesInv
  <2>2. CoreInv' /\ UnheardIds'
    BY <2>1, CoreStep, UnheardStep
  <2>3. FreshAtHome'
    BY <2>1, <2>2, HomeStep
  <2>. QED  BY <2>2, <2>3, AnswersStep, LeftoversStep DEF PagesInv
<1>. QED  BY <1>1, <1>2, PTL DEF Spec

(* Every active request is queued or in flight, and none is both. *)
LEMMA ActiveCounted ==
  ASSUME TypeOK, OnePlace
  PROVE  total_queue_depth + CountedInFlight(health_handler) =
           Cardinality({r \in RequestId : active_requests[r].at # "absent"})
<1>. DEFINE queued == {r \in RequestId : active_requests[r].at = "queued"}
            flying == {r \in RequestId : active_requests[r].at = "in_flight"}
            active == {r \in RequestId : active_requests[r].at # "absent"}
<1>1. active = queued \cup flying /\ queued \cap flying = {}
  BY DEF TypeOK, ActiveRequestState, Absent, Queued, InFlight
<1>2. IsFiniteSet(queued) /\ IsFiniteSet(flying)
  <2>1. IsFiniteSet(RequestId)
    BY BoundsAssumption, FS_Interval DEF RequestId
  <2>. QED  BY <2>1, FS_Subset
<1>3. total_queue_depth = Cardinality(queued)
  BY QueuesCounted
<1>4. CountedInFlight(health_handler) = Cardinality(flying)
  BY FlightsCounted
<1>. HIDE DEF queued, flying, active
<1>5. Cardinality(active) = Cardinality(queued) + Cardinality(flying) - Cardinality({})
  BY <1>1, <1>2, FS_Union
<1>6. Cardinality(queued) \in Nat /\ Cardinality(flying) \in Nat
  BY <1>2, FS_CardinalityType
<1>. QED  BY <1>3, <1>4, <1>5, <1>6, FS_EmptySet DEF active

(* The requests in the core are those of the clients that wait, and the       *)
(* leftovers.                                                                *)
LEMMA WaitingCounted ==
  ASSUME PagesInv
  PROVE  total_queue_depth + CountedInFlight(health_handler) =
           Cardinality(WaitingClients) + Cardinality(Leftovers)
<1>. DEFINE active == {r \in RequestId : active_requests[r].at # "absent"}
<1>1. TypeOK /\ OnePlace /\ FreshIds /\ WaitingOrAnswered
  BY DEF PagesInv, CoreInv, PlaceInv
<1>2. \A r \in RequestId : active_requests[r].at # "absent" => r < next_request_id
  BY <1>1, BoundsAssumption DEF FreshIds, TypeOK, RequestId
<1>3. active = WaitingClients \cup Leftovers /\ WaitingClients \cap Leftovers = {}
  BY <1>1, <1>2 DEF WaitingOrAnswered, WaitingClients, Leftovers, TypeOK, Drawn
<1>4. IsFiniteSet(WaitingClients) /\ IsFiniteSet(Leftovers)
  <2>1. IsFiniteSet(RequestId)
    BY BoundsAssumption, FS_Interval DEF RequestId
  <2>2. WaitingClients \subseteq RequestId /\ Leftovers \subseteq RequestId
    BY <1>1 DEF WaitingClients, Leftovers, TypeOK
  <2>. QED  BY <2>1, <2>2, FS_Subset
<1>5. total_queue_depth + CountedInFlight(health_handler) = Cardinality(active)
  BY <1>1, ActiveCounted
<1>. HIDE DEF active
<1>6. Cardinality(active) =
        Cardinality(WaitingClients) + Cardinality(Leftovers) - Cardinality({})
  BY <1>3, <1>4, FS_Union
<1>7. Cardinality(WaitingClients) \in Nat /\ Cardinality(Leftovers) \in Nat
  BY <1>4, FS_CardinalityType
<1>. QED  BY <1>5, <1>6, <1>7, FS_EmptySet

(* In every state that is so, the pages add up. *)
LEMMA PagesOfAState ==
  ASSUME PagesInv
  PROVE  PagesAgree
<1>. DEFINE health == health_handler
            stats == CHOOSE s \in admin_stats_handler(Token, Token) : TRUE
<1>0. TypeOK /\ OnePlace /\ LeftoversExplained
  BY DEF PagesInv, CoreInv, PlaceInv
<1>1. /\ health.queue_depth = total_queue_depth
      /\ health.workers_connected = Cardinality(workers)
      /\ health.workers = worker_debug_info
  BY DEF health_handler, connected_worker_count
<1>2. health.queue_depth + CountedInFlight(health) =
        Cardinality(WaitingClients) + Cardinality(Leftovers)
  BY <1>1, WaitingCounted
<1>3. stats.queue_depth = admin_queue_depth /\ stats.active_workers = Cardinality(workers)
  <2>1. stats = [queue_depth |-> admin_queue_depth, active_workers |-> connected_worker_count]
    BY OperatorPages
  <2>. HIDE DEF stats
  <2>. QED  BY <2>1 DEF connected_worker_count
<1>4. health.queue_depth = MapThenSumSet(LAMBDA p : stats.queue_depth[p], Providers)
  <2>. HIDE DEF stats
  <2>. DEFINE depths == stats.queue_depth
  <2>1. depths = [p \in Providers |-> Len(provider_queues[p])]
    BY <1>3 DEF admin_queue_depth
  <2>2. MapThenSumSet(LAMBDA p : stats.queue_depth[p], Providers) =
          (CHOOSE g : SumsUp(g, depths, Providers))[Providers]
    BY DEF MapThenSumSet, MapThenFoldSet, SumsUp
  <2>. HIDE DEF depths
  <2>3. total_queue_depth = (CHOOSE g : SumsUp(g, depths, Providers))[Providers]
    BY <1>0, <2>1, QueuesCounted
  <2>. QED  BY <1>1, <2>2, <2>3
<1>5. /\ stats.active_workers = health.workers_connected
      /\ health.workers_connected = Cardinality(admin_workers_handler(Token, Token))
  <2>. DEFINE row == [w \in workers |->
         [worker_id |-> w, provider |-> profile[w].provider, models |-> models[w],
          endpoint_prefixes |-> profile[w].prefixes,
          max_concurrent |-> profile[w].max_concurrent, reported_load |-> reported_load[w],
          in_flight_count |-> Len(in_flight_requests[w]), is_draining |-> is_draining(w)]]
  <2>1. admin_workers_snapshot = {row[w] : w \in workers}
    BY DEF admin_workers_snapshot
  <2>2. \A w \in workers : row[w].worker_id = w
    OBVIOUS
  <2>. HIDE DEF row
  <2>3. Cardinality({row[w] : w \in workers}) = Cardinality(workers)
    <3>1. \A v, w \in workers : row[v] = row[w] => v = w
      BY <2>2
    <3>. QED  BY <1>0, <3>1, OneRowEach
  <2>4. admin_workers_handler(Token, Token) = admin_workers_snapshot
    BY OperatorPages
  <2>. HIDE DEF health, stats
  <2>. QED  BY <1>1, <1>3, <2>1, <2>3, <2>4
<1>6. \A p \in Providers : \A m \in models_handler(p) :
        \/ provider_has_compatible_worker(m)
        \/ \E info \in health.workers : m \in info.models /\ info.is_draining
  BY <1>0, <1>1, OfferedModels
<1>. HIDE DEF health, stats
<1>. QED  BY <1>0, <1>2, <1>4, <1>5, <1>6 DEF PagesAgree, LeftoversExplained, health, stats

(* The pages of the server add up in every state the lock is released in:     *)
(* what /health counts in queues and at workers is every client that waits    *)
(* for an answer, and besides only requests whose client is known to have     *)
(* left, each marked as canceled or requeued before it was canceled.  The     *)
(* operator's pages say the same of the same state, and /v1/models offers a   *)
(* model only while a registered worker has it.                               *)
THEOREM PagesAlwaysAgree == Spec => []PagesAgree
<1>1. PagesInv => PagesAgree
  BY PagesOfAState
<1>. QED  BY <1>1, PagesInvariant, PTL

-----------------------------------------------------------------------------
(* The core implements WorkerSessions.  First what is to be told to the       *)
(* loops, and who may hold what, in one state.                                *)

(* Only registered workers have a drain deadline. *)
DeadlinesKnown == \A w \in WorkerId : w \notin workers => deadline[w] = 0

(* remove_worker takes the deadline with the worker, and only workers that are *)
(* registered are given one.                                                  *)
LEMMA DeadlineStep == TypeOK /\ DeadlinesKnown /\ [Next]_vars => DeadlinesKnown'
<1>. SUFFICES ASSUME TypeOK, DeadlinesKnown, [Next]_vars PROVE DeadlinesKnown'
  OBVIOUS
<1>0. ASSUME UNCHANGED <<workers, deadline>> PROVE DeadlinesKnown'
  BY <1>0 DEF DeadlinesKnown
<1>a. ASSUME NEW gone, remove_workers(gone) PROVE DeadlinesKnown'
  BY <1>a DEF remove_workers, DeadlinesKnown
<1>1. ASSUME NEW reg \in Registrations, RegisterWorker(reg) PROVE DeadlinesKnown'
  BY <1>1 DEF RegisterWorker, DeadlinesKnown
<1>2. ASSUME NEW sub \in Submissions, Submit(sub) PROVE DeadlinesKnown'
  BY <1>0, <1>2 DEF Submit, SubmitDispatched, SubmitQueued, SubmitRejected
<1>3. ASSUME NEW r \in RequestId, Cancel(r) PROVE DeadlinesKnown'
  BY <1>0, <1>3 DEF Cancel, CancelQueued, CancelInFlight
<1>4. ASSUME NEW w \in WorkerId, NEW load \in Loads,
             \/ RecordWorkerPong(w, load)
             \/ \E raw \in Updates : UpdateWorkerModels(w, raw, load)
      PROVE  DeadlinesKnown'
  BY <1>0, <1>4 DEF RecordWorkerPong, UpdateWorkerModels
<1>5. ASSUME NEW w \in WorkerId, NEW r \in RequestId,
             StreamHttpResponseChunk(w, r) \/ FinishRequest(w, r) \/ LateResponse(w, r)
      PROVE  DeadlinesKnown'
  BY <1>0, <1>5 DEF StreamHttpResponseChunk, FinishRequest, LateResponse
<1>6. ASSUME NEW w \in WorkerId, NEW r \in RequestId, FinishDrain(w, r) PROVE DeadlinesKnown'
  BY <1>a, <1>6 DEF FinishDrain
<1>7. ASSUME NEW w \in WorkerId,
             \/ TakePendingWorkerRequests(w) \/ TakePendingWorkerCancelSignals(w)
             \/ TakePendingWorkerGracefulShutdownSignals(w)
             \/ RequestWorkerModelsRefresh(w) \/ TakePendingWorkerModelsRefreshSignals(w)
             \/ LoseRemovedSocket(w)
      PROVE  DeadlinesKnown'
  BY <1>0, <1>7
  DEF TakePendingWorkerRequests, TakePendingWorkerCancelSignals,
      TakePendingWorkerGracefulShutdownSignals, RequestWorkerModelsRefresh,
      TakePendingWorkerModelsRefreshSignals, LoseRemovedSocket
<1>8. ASSUME NEW w \in WorkerId, DisconnectWorker(w) \/ GracefulShutdownCloseAction(w)
      PROVE  DeadlinesKnown'
  BY <1>a, <1>8 DEF DisconnectWorker, GracefulShutdownCloseAction
<1>9. ASSUME NEW p \in Providers, DeleteProvider(p) PROVE DeadlinesKnown'
  BY <1>a, <1>9 DEF DeleteProvider
<1>10. ASSUME BeginGracefulShutdown PROVE DeadlinesKnown'
  BY <1>10 DEF BeginGracefulShutdown, DeadlinesKnown
<1>11. ASSUME \/ QueueTimeoutPasses \/ ExpireQueueTimeouts
              \/ \E k \in 1..MaxShutdowns : DrainDeadlinePasses(k)
              \/ UNCHANGED vars
       PROVE  DeadlinesKnown'
  BY <1>0, <1>11 DEF QueueTimeoutPasses, ExpireQueueTimeouts, DrainDeadlinePasses, vars
<1>. QED
  BY <1>1, <1>2, <1>3, <1>4, <1>5, <1>6, <1>7, <1>8, <1>9, <1>10, <1>11 DEF Next, Answer

(* The stage of a worker is told by its id, the registry and its socket. *)
LEMMA StageOf ==
  ASSUME NEW w \in WorkerId, next_worker_id \in Int
  PROVE  /\ w >= next_worker_id => Stage(w) = "new"
         /\ w < next_worker_id /\ w \in workers /\ w \in sockets
              /\ disconnect_reasons[w] = "none" =>
              Stage(w) = IF is_draining(w) THEN "draining" ELSE "serving"
         /\ w < next_worker_id /\ w \notin workers /\ w \notin sockets => Stage(w) = "closed"
         /\ w < next_worker_id /\ w \notin workers /\ w \in sockets =>
              Stage(w) = IF disconnect_reasons[w] # "none" THEN "removed" ELSE "stranded"
BY DEF Stage, WorkerId

(* A registered worker is serving or draining. *)
LEMMA RegisteredStage ==
  TypeOK /\ SocketInv =>
    \A w \in workers : /\ w \in WorkerId
                       /\ Stage(w) = IF is_draining(w) THEN "draining" ELSE "serving"
<1>. SUFFICES ASSUME TypeOK, SocketInv, NEW w \in workers
              PROVE  /\ w \in WorkerId
                     /\ Stage(w) = IF is_draining(w) THEN "draining" ELSE "serving"
  OBVIOUS
<1>1. /\ w \in WorkerId /\ next_worker_id \in Int /\ w \in sockets
      /\ disconnect_reasons[w] = "none" /\ w < next_worker_id
  BY BoundsAssumption DEF TypeOK, SocketInv, RegistryMatchesSockets, SocketsDrawn
<1>. QED  BY <1>1, StageOf

(* What an active request's station is. *)
Untaken(r) == r \in Members(pending_worker_requests[active_requests[r].worker])

(* Where the core has a request, told from its record and its worker's list.  *)
LEMMA StationOf ==
  ASSUME NEW r \in RequestId, next_request_id \in Int
  PROVE  /\ ~Drawn(r) => Station(r) = "new"
         /\ Drawn(r) /\ active_requests[r].at = "queued" => Station(r) = "waiting"
         /\ Drawn(r) /\ active_requests[r].at = "in_flight" =>
              Station(r) = IF Untaken(r) THEN "pending" ELSE "sent"
         /\ Drawn(r) /\ active_requests[r].at = "absent" => Station(r) = "done"
BY DEF Station, Phase, Untaken, Drawn, RequestId

(* The requests a worker holds are those of its list. *)
LEMMA HeldAreListed ==
  ASSUME TypeOK, OnePlace, NEW w \in WorkerId
  PROVE  {r \in RequestId : active_requests[r].worker = w} = Members(in_flight_requests[w])
<1>1. 0 \notin WorkerId
  BY DEF WorkerId
<1>2. ASSUME NEW r \in RequestId, active_requests[r].worker = w
      PROVE  r \in Members(in_flight_requests[w])
  <2>1. active_requests[r] \in ActiveRequestState /\ active_requests[r].worker # 0
    BY <1>1, <1>2 DEF TypeOK
  <2>2. active_requests[r].at = "in_flight"
    BY <2>1 DEF ActiveRequestState, Absent, Queued
  <2>. QED  BY <1>2, <2>2 DEF OnePlace, NothingLost
<1>3. ASSUME NEW r \in Members(in_flight_requests[w])
      PROVE  r \in RequestId /\ active_requests[r].worker = w
  BY DEF TypeOK, OnePlace, InFlightSound, Members
<1>. QED  BY <1>2, <1>3

(* Size means in WorkerSessions what it means here. *)
LEMMA SameSize == ASSUME NEW S PROVE Sessions!Cardinality(S) = Cardinality(S)
BY DEF Sessions!Cardinality, Cardinality

(* In every reachable state of the core, what WorkerSessions says of one      *)
(* state is true.                                                            *)
LEMMA CoreIsConsistent == CoreInv => Sessions!Consistent
<1>. SUFFICES ASSUME CoreInv, TypeOK, OnePlace, FreshIds, SocketInv, CapacityRespected
              PROVE  Sessions!Consistent
  BY DEF CoreInv, PlaceInv
<1>0. /\ next_request_id \in Int /\ \A r \in RequestId : r \in Int
      /\ \A r \in RequestId : active_requests[r].at # "absent" => Drawn(r)
  BY BoundsAssumption DEF TypeOK, RequestId, FreshIds, Drawn
<1>1. ASSUME NEW r \in RequestId
      PROVE  IF Station(r) \in {"pending", "sent"}
             THEN /\ active_requests[r].worker \in WorkerId
                  /\ Stage(active_requests[r].worker) \in {"serving", "draining"}
             ELSE active_requests[r].worker = 0
  <2>1. CASE active_requests[r].at = "in_flight"
    <3>1. active_requests[r].worker \in workers
      BY <2>1 DEF OnePlace, NothingLost
    <3>2. Station(r) \in {"pending", "sent"}
      BY <1>0, <2>1, StationOf
    <3>. QED  BY <3>1, <3>2, RegisteredStage
  <2>2. CASE active_requests[r].at # "in_flight"
    <3>1. active_requests[r].worker = 0 /\ active_requests[r].at \in {"queued", "absent"}
      BY <2>2 DEF TypeOK, ActiveRequestState, Absent, Queued
    <3>2. Station(r) \notin {"pending", "sent"}
      BY <1>0, <3>1, StationOf
    <3>. QED  BY <3>1, <3>2
  <2>. QED  BY <2>1, <2>2
<1>2. ASSUME NEW w \in WorkerId, Stage(w) \in {"serving", "draining"}
      PROVE  Cardinality({r \in RequestId : active_requests[r].worker = w})
               <= profile[w].max_concurrent
  <2>1. w \in workers
    BY <1>2, BoundsAssumption DEF Stage, TypeOK, WorkerId
  <2>2. /\ in_flight_requests[w] \in Seq(RequestId) /\ NoRepeats(in_flight_requests[w])
        /\ Len(in_flight_requests[w]) <= profile[w].max_concurrent
    BY <2>1 DEF TypeOK, OnePlace, InFlightSound, CapacityRespected
  <2>3. Cardinality(Members(in_flight_requests[w])) = Len(in_flight_requests[w])
    BY <2>2, LengthIsCardinality
  <2>. QED  BY <2>2, <2>3, HeldAreListed
<1>3. ASSUME NEW r \in Marked PROVE r \in RequestId /\ Station(r) \in {"pending", "sent"}
  <2>1. r \in RequestId /\ active_requests[r].at = "in_flight"
    BY OnlyInFlightMarked DEF Marked
  <2>. QED  BY <1>0, <2>1, StationOf
<1>4. ASSUME NEW w \in worker_graceful_shutdown_signals
      PROVE  w \in WorkerId /\ Stage(w) = "draining"
  <2>1. w \in workers /\ is_draining(w)
    BY DEF SocketInv, RegistryMatchesSockets
  <2>. QED  BY <2>1, RegisteredStage
<1>5. Sessions!HoldersRegistered
  BY <1>1 DEF Sessions!HoldersRegistered, Sessions!Given, Sessions!Registered,
              Sessions!InRegistry
<1>6. Sessions!RoomKept
  <2>. SUFFICES ASSUME NEW w \in WorkerId, Sessions!Registered(w)
                PROVE  Cardinality(Sessions!Holds(w)) <= profile[w].max_concurrent
    BY SameSize DEF Sessions!RoomKept
  <2>1. Sessions!Holds(w) = {r \in RequestId : active_requests[r].worker = w}
    BY DEF Sessions!Holds
  <2>2. Stage(w) \in {"serving", "draining"}
    BY DEF Sessions!Registered, Sessions!InRegistry
  <2>. QED  BY <1>2, <2>1, <2>2
<1>7. Sessions!SignalsTrue
  <2>1. Marked \subseteq {r \in RequestId : Sessions!Given(r)}
    BY <1>3 DEF Sessions!Given
  <2>. QED  BY <1>4, <2>1 DEF Sessions!SignalsTrue
<1>. QED  BY <1>5, <1>6, <1>7 DEF Sessions!Consistent

(* The same of the next state. *)
LEMMA CoreStaysConsistent == CoreInv' => Sessions!Consistent'
BY CoreIsConsistent, PTL

(* After a step too a registered worker is serving or draining. *)
LEMMA RegisteredStageNext ==
  (TypeOK /\ SocketInv)' =>
    (\A w \in workers : /\ w \in WorkerId
                        /\ Stage(w) = IF is_draining(w) THEN "draining" ELSE "serving")'
BY RegisteredStage, PTL

(* A worker's loop is left alone when its place in the registry, its socket   *)
(* and its deadline are.                                                     *)
LEMMA WorkerStays ==
  ASSUME NEW w \in WorkerId, next_worker_id \in Int, next_worker_id' \in Int,
         w < next_worker_id' <=> w < next_worker_id,
         w \in workers' <=> w \in workers,
         w \in sockets' <=> w \in sockets,
         disconnect_reasons'[w] = disconnect_reasons[w],
         deadline'[w] = deadline[w], profile'[w] = profile[w],
         w \in worker_graceful_shutdown_signals' => w \in worker_graceful_shutdown_signals
  PROVE  Sessions!WorkerStep(w)
<1>1. Stage(w)' = Stage(w)
  BY DEF Stage, WorkerId, is_draining
<1>. QED  BY <1>1 DEF Sessions!WorkerStep

(* Removing workers is a removal, or the end, of their loops, if each is told *)
(* why it shall close; the loops of others may end when they were told.       *)
LEMMA WorkersRemoved ==
  ASSUME TypeOK, SocketInv, NEW gone \in SUBSET workers, remove_workers(gone),
         UNCHANGED <<next_worker_id, profile>>,
         NEW w \in WorkerId,
         \/ /\ w \in sockets /\ w \notin sockets' /\ (w \in workers => w \in gone)
         \/ /\ w \in sockets' <=> w \in sockets
            /\ IF w \in gone THEN disconnect_reasons'[w] # "none"
                             ELSE disconnect_reasons'[w] = disconnect_reasons[w]
  PROVE  Sessions!WorkerStep(w)
<1>1. /\ workers' = workers \ gone /\ (w \notin gone => deadline'[w] = deadline[w])
      /\ worker_graceful_shutdown_signals' = worker_graceful_shutdown_signals \ gone
      /\ next_worker_id \in Int /\ next_worker_id' = next_worker_id
      /\ profile'[w] = profile[w]
  BY BoundsAssumption DEF remove_workers, TypeOK
<1>2. w \in sockets => w < next_worker_id
  BY DEF SocketInv, SocketsDrawn
<1>3. CASE w \in sockets /\ w \notin sockets'
  <2>1. w \notin workers'
    BY <1>1, <1>3
  <2>2. Stage(w) # "closed" /\ Stage(w)' = "closed"
    BY <1>1, <1>2, <1>3, <2>1 DEF Stage, WorkerId
  <2>. QED  BY <1>1, <2>2 DEF Sessions!WorkerStep, Sessions!Close
<1>4. CASE (w \in sockets' <=> w \in sockets) /\ w \in gone
  <2>1. w \in workers /\ w \in sockets
    BY <1>4 DEF SocketInv, RegistryMatchesSockets
  <2>2. Stage(w) \in {"serving", "draining"}
    BY <2>1, RegisteredStage
  <2>3. Stage(w)' = "removed"
    BY <1>1, <1>2, <1>4, <2>1 DEF Stage, WorkerId
  <2>. QED
    BY <1>1, <2>2, <2>3
    DEF Sessions!WorkerStep, Sessions!Remove, Sessions!Registered, Sessions!InRegistry
<1>5. CASE (w \in sockets' <=> w \in sockets) /\ w \notin gone
  BY <1>1, <1>5, WorkerStays
<1>. QED  BY <1>3, <1>4, <1>5

(* Every action of the core is, for every worker's loop, one that             *)
(* WorkerSessions has, or none.                                               *)
LEMMA WorkerSteps ==
  CoreInv /\ DeadlinesKnown /\ [Next]_vars => \A w \in WorkerId : Sessions!WorkerStep(w)
<1>. DEFINE Steps == \A w \in WorkerId : Sessions!WorkerStep(w)
<1>. SUFFICES ASSUME TypeOK, TypeOK', SocketInv, DeadlinesKnown, [Next]_vars PROVE Steps
  BY TypeStep DEF CoreInv, PlaceInv
<1>b. /\ workers \subseteq sockets /\ workers \subseteq WorkerId
      /\ next_worker_id \in Int /\ next_worker_id' \in Int
      /\ \A w \in workers : disconnect_reasons[w] = "none"
  BY BoundsAssumption DEF SocketInv, RegistryMatchesSockets, TypeOK
<1>0. ASSUME UNCHANGED <<next_worker_id, workers, sockets, disconnect_reasons, deadline, profile>>,
             worker_graceful_shutdown_signals' \subseteq worker_graceful_shutdown_signals
      PROVE  Steps
  <2>. SUFFICES ASSUME NEW w \in WorkerId PROVE Sessions!WorkerStep(w)
    OBVIOUS
  <2>. QED  BY <1>b, <1>0, WorkerStays
<1>1. ASSUME NEW reg \in Registrations, RegisterWorker(reg) PROVE Steps
  <2>0. PICK n \in WorkerId : n = next_worker_id
    BY <1>1, BoundsAssumption DEF RegisterWorker, TypeOK, WorkerId
  <2>1. /\ n = next_worker_id /\ next_worker_id' = n + 1
        /\ workers' = workers \cup {n} /\ sockets' = sockets \cup {n}
        /\ UNCHANGED <<disconnect_reasons, worker_graceful_shutdown_signals, deadline>>
        /\ \A w \in WorkerId : w # n => profile'[w] = profile[w]
    BY <1>1, <2>0 DEF RegisterWorker, TypeOK
  <2>2. disconnect_reasons[n] = "none" /\ n \notin sockets /\ n \notin workers
    BY <1>b, <2>1 DEF SocketInv, SocketsDrawn, WorkerId
  <2>3. Sessions!WorkerStep(n)
    <3>1. Stage(n) = "new"
      BY <1>b, StageOf, <2>1
    <3>2. deadline'[n] = 0
      BY <2>1, <2>2 DEF DeadlinesKnown
    <3>3. Stage(n)' = "serving"
      BY <1>b, <2>1, <2>2, <3>2 DEF Stage, WorkerId, is_draining
    <3>4. n \notin worker_graceful_shutdown_signals'
      BY <2>1, <2>2 DEF SocketInv, RegistryMatchesSockets
    <3>. QED  BY <2>1, <3>1, <3>3, <3>4 DEF Sessions!WorkerStep, Sessions!Register
  <2>4. ASSUME NEW w \in WorkerId, w # n PROVE Sessions!WorkerStep(w)
    <3>1. w < next_worker_id' <=> w < next_worker_id
      BY <1>b, <2>1, <2>4 DEF WorkerId
    <3>. QED  BY <1>b, <2>1, <2>4, <3>1, WorkerStays
  <2>. QED  BY <2>3, <2>4
<1>2. ASSUME NEW sub \in Submissions, Submit(sub) PROVE Steps
  BY <1>0, <1>2 DEF Submit, SubmitDispatched, SubmitQueued, SubmitRejected
<1>3. ASSUME NEW r \in RequestId, Cancel(r) PROVE Steps
  BY <1>0, <1>3 DEF Cancel, CancelQueued, CancelInFlight
<1>4. ASSUME NEW w \in WorkerId, NEW load \in Loads,
             \/ RecordWorkerPong(w, load)
             \/ \E raw \in Updates : UpdateWorkerModels(w, raw, load)
      PROVE  Steps
  BY <1>0, <1>4 DEF RecordWorkerPong, UpdateWorkerModels
<1>5. ASSUME NEW w \in WorkerId, NEW r \in RequestId,
             StreamHttpResponseChunk(w, r) \/ FinishRequest(w, r) \/ LateResponse(w, r)
      PROVE  Steps
  BY <1>0, <1>5 DEF StreamHttpResponseChunk, FinishRequest, LateResponse
<1>6. ASSUME NEW w \in WorkerId, NEW r \in RequestId, FinishDrain(w, r) PROVE Steps
  <2>. DEFINE gone == {w}
  <2>1. /\ gone \in SUBSET workers /\ remove_workers(gone)
        /\ UNCHANGED <<sockets, next_worker_id, profile>>
        /\ disconnect_reasons'[w] # "none"
        /\ \A v \in WorkerId : v \notin gone => disconnect_reasons'[v] = disconnect_reasons[v]
    BY <1>6 DEF FinishDrain, TypeOK
  <2>2. \A v \in gone : disconnect_reasons'[v] # "none"
    BY <2>1
  <2>. HIDE DEF gone
  <2>. QED  BY <2>1, <2>2, WorkersRemoved
<1>7. ASSUME NEW w \in WorkerId,
             \/ TakePendingWorkerRequests(w) \/ TakePendingWorkerCancelSignals(w)
             \/ TakePendingWorkerGracefulShutdownSignals(w)
             \/ RequestWorkerModelsRefresh(w) \/ TakePendingWorkerModelsRefreshSignals(w)
      PROVE  Steps
  BY <1>0, <1>7
  DEF TakePendingWorkerRequests, TakePendingWorkerCancelSignals,
      TakePendingWorkerGracefulShutdownSignals, RequestWorkerModelsRefresh,
      TakePendingWorkerModelsRefreshSignals
<1>8. ASSUME NEW w \in WorkerId, LoseRemovedSocket(w) PROVE Steps
  <2>1. /\ UNCHANGED <<next_worker_id, workers, disconnect_reasons, deadline, profile,
                       worker_graceful_shutdown_signals>>
        /\ sockets' = sockets \ {w} /\ w \in sockets /\ w \notin workers
    BY <1>8 DEF LoseRemovedSocket, CloseSocket
  <2>2. Sessions!WorkerStep(w)
    <3>1. w < next_worker_id
      BY <2>1 DEF SocketInv, SocketsDrawn
    <3>2. Stage(w) # "closed" /\ Stage(w)' = "closed"
      BY <1>b, <2>1, <3>1 DEF Stage, WorkerId
    <3>. QED  BY <2>1, <3>2 DEF Sessions!WorkerStep, Sessions!Close
  <2>3. ASSUME NEW v \in WorkerId, v # w PROVE Sessions!WorkerStep(v)
    BY <1>b, <2>1, <2>3, WorkerStays
  <2>. QED  BY <2>2, <2>3
<1>9. ASSUME NEW w \in WorkerId, DisconnectWorker(w) PROVE Steps
  <2>. DEFINE gone == {w}
  <2>1. /\ gone \in SUBSET workers /\ remove_workers(gone)
        /\ UNCHANGED <<disconnect_reasons, next_worker_id, profile>>
        /\ sockets' = sockets \ gone
    BY <1>9 DEF DisconnectWorker, CloseSocket
  <2>. HIDE DEF gone
  <2>. QED  BY <1>b, <2>1, WorkersRemoved
<1>10. ASSUME NEW w \in WorkerId, GracefulShutdownCloseAction(w) PROVE Steps
  <2>. DEFINE expired == ExpiringWorkers
              idle    == /\ w \in workers \ expired
                         /\ is_draining(w) /\ in_flight_requests[w] = <<>>
              gone    == expired \cup {v \in {w} : idle}
              closing == w \in gone \/ disconnect_reasons[w] # "none"
  <2>1. /\ gone \in SUBSET workers /\ remove_workers(gone)
        /\ UNCHANGED <<next_worker_id, profile>> /\ w \in sockets
        /\ sockets' = IF closing THEN sockets \ {w} ELSE sockets
    BY <1>10 DEF GracefulShutdownCloseAction, CloseSocket, ExpiringWorkers
  <2>2. disconnect_reasons' = [v \in WorkerId |-> IF v = w THEN "none"
                                                  ELSE IF v \in expired THEN "TimedOut"
                                                  ELSE disconnect_reasons[v]]
    BY <1>10 DEF GracefulShutdownCloseAction
  <2>3. expired \subseteq gone /\ gone \subseteq expired \cup {w}
    OBVIOUS
  <2>. HIDE DEF gone, expired
  <2>4. ASSUME NEW v \in WorkerId PROVE Sessions!WorkerStep(v)
    <3>1. CASE v = w /\ closing
      <4>1. w \in sockets /\ w \notin sockets' /\ (w \in workers => w \in gone)
        BY <1>b, <2>1, <3>1
      <4>. QED  BY <2>1, <3>1, <4>1, WorkersRemoved
    <3>2. CASE ~(v = w /\ closing)
      <4>1. v \in sockets' <=> v \in sockets
        BY <2>1, <3>2
      <4>2. IF v \in gone THEN disconnect_reasons'[v] # "none"
                          ELSE disconnect_reasons'[v] = disconnect_reasons[v]
        BY <2>2, <2>3, <3>2
      <4>. QED  BY <2>1, <4>1, <4>2, WorkersRemoved
    <3>. QED  BY <3>1, <3>2
  <2>. QED  BY <2>4
<1>11. ASSUME NEW p \in Providers, DeleteProvider(p) PROVE Steps
  <2>. DEFINE gone == {w \in workers : profile[w].provider = p}
  <2>1. /\ gone \in SUBSET workers /\ remove_workers(gone)
        /\ UNCHANGED <<sockets, next_worker_id, profile>>
        /\ \A v \in WorkerId : IF v \in gone THEN disconnect_reasons'[v] = "Completed"
                               ELSE disconnect_reasons'[v] = disconnect_reasons[v]
    BY <1>11 DEF DeleteProvider
  <2>. HIDE DEF gone
  <2>. QED  BY <2>1, WorkersRemoved
<1>12. ASSUME BeginGracefulShutdown PROVE Steps
  <2>1. /\ UNCHANGED <<next_worker_id, workers, sockets, disconnect_reasons, profile>>
        /\ deadline' = [w \in WorkerId |-> IF w \in workers /\ ~is_draining(w)
                                           THEN shutdowns + 1 ELSE deadline[w]]
        /\ worker_graceful_shutdown_signals' =
             worker_graceful_shutdown_signals \cup {w \in workers : ~is_draining(w)}
        /\ shutdowns + 1 # 0
    BY <1>12 DEF BeginGracefulShutdown, TypeOK
  <2>2. ASSUME NEW w \in WorkerId, w \in workers, ~is_draining(w) PROVE Sessions!WorkerStep(w)
    <3>1. Stage(w) = "serving"
      BY <2>2, RegisteredStage
    <3>2. deadline'[w] # 0 /\ w \in sockets /\ disconnect_reasons[w] = "none"
          /\ w < next_worker_id
      BY <1>b, <2>1, <2>2 DEF SocketInv, SocketsDrawn
    <3>3. Stage(w)' = "draining"
      BY <1>b, <2>1, <2>2, <3>2 DEF Stage, WorkerId, is_draining
    <3>. QED  BY <2>1, <2>2, <3>1, <3>3 DEF Sessions!WorkerStep, Sessions!BeginDrain
  <2>3. ASSUME NEW w \in WorkerId, w \notin workers \/ is_draining(w)
        PROVE  Sessions!WorkerStep(w)
    BY <1>b, <2>1, <2>3, WorkerStays
  <2>. QED  BY <2>2, <2>3
<1>13. ASSUME \/ QueueTimeoutPasses \/ ExpireQueueTimeouts
              \/ \E k \in 1..MaxShutdowns : DrainDeadlinePasses(k)
              \/ UNCHANGED vars
       PROVE  Steps
  BY <1>0, <1>13 DEF QueueTimeoutPasses, ExpireQueueTimeouts, DrainDeadlinePasses, vars
<1>. HIDE DEF Steps
<1>. QED
  BY <1>1, <1>2, <1>3, <1>4, <1>5, <1>6, <1>7, <1>8, <1>9, <1>10, <1>11, <1>12, <1>13
  DEF Next, Answer

(* A request whose table entry keeps place and worker is left alone, or is    *)
(* taken by the worker's loop.                                               *)
LEMMA RestStep ==
  ASSUME NEW r \in RequestId, next_request_id \in Int, next_request_id' \in Int,
         Drawn(r)' <=> Drawn(r),
         active_requests'[r].at = active_requests[r].at,
         active_requests'[r].worker = active_requests[r].worker,
         active_requests[r].at = "in_flight" => (Untaken(r)' => Untaken(r)),
         active_requests[r] \in ActiveRequestState
  PROVE  Sessions!RequestStep(r)
<1>1. \/ Station(r)' = Station(r)
      \/ Station(r) = "pending" /\ Station(r)' = "sent"
  BY DEF Station, Phase, Untaken, Drawn, RequestId
<1>. QED
  BY <1>1 DEF Sessions!RequestStep, Sessions!Stays, Sessions!Send, Sessions!Moves

(* A request that is not assigned at once is queued or refused. *)
LEMMA ArriveStep ==
  ASSUME NEW r \in RequestId, next_request_id \in Int, next_request_id' \in Int,
         ~Drawn(r), Drawn(r)', active_requests'[r] \in {Queued, Absent}
  PROVE  Sessions!RequestStep(r)
<1>1. Station(r) = "new" /\ Station(r)' \in {"waiting", "done"}
  BY DEF Station, Phase, Drawn, RequestId, Queued, Absent
<1>. QED  BY <1>1 DEF Sessions!RequestStep, Sessions!Arrive, Sessions!Moves

(* A request is assigned to a worker that is not draining. *)
LEMMA GiveStep ==
  ASSUME NEW r \in RequestId, next_request_id \in Int, next_request_id' \in Int,
         ~Drawn(r) \/ active_requests[r].at = "queued", Drawn(r)',
         NEW w \in WorkerId, active_requests'[r] = InFlight(w),
         r \in Members(pending_worker_requests'[w]),
         Stage(w) = "serving", Stage(w)' = "serving"
  PROVE  Sessions!RequestStep(r)
<1>1. active_requests'[r].worker = w
  BY DEF InFlight
<1>2. Station(r) \in {"new", "waiting"} /\ Station(r)' = "pending"
  BY <1>1 DEF Station, Phase, Drawn, RequestId, InFlight
<1>. QED  BY <1>1, <1>2 DEF Sessions!RequestStep, Sessions!Give, Sessions!Moves

(* A worker answers what its loop has sent to it. *)
LEMMA SettleStep ==
  ASSUME NEW r \in RequestId, next_request_id \in Int, next_request_id' \in Int,
         Drawn(r), Drawn(r)', active_requests[r].at = "in_flight", ~Untaken(r),
         active_requests'[r] = Absent
  PROVE  Sessions!RequestStep(r)
<1>1. Station(r) = "sent" /\ Station(r)' = "done"
  BY DEF Station, Phase, Drawn, RequestId, Untaken, Absent
<1>. QED  BY <1>1 DEF Sessions!RequestStep, Sessions!Settle, Sessions!Moves

(* The worker of a request is removed. *)
LEMMA LoseStep ==
  ASSUME NEW r \in RequestId, next_request_id \in Int, next_request_id' \in Int,
         next_worker_id' \in Int,
         Drawn(r), Drawn(r)', active_requests[r].at = "in_flight",
         active_requests[r].worker \in WorkerId,
         active_requests[r].worker \notin workers',
         \/ active_requests'[r] = Absent
         \/ active_requests'[r] = Queued /\ active_requests[r].cancellation = "none"
  PROVE  Sessions!RequestStep(r)
<1>1. PICK w \in WorkerId : active_requests[r].worker = w
  OBVIOUS
<1>2. Stage(w)' \notin {"serving", "draining"}
  BY <1>1 DEF Stage, WorkerId
<1>3. Station(r) \in {"pending", "sent"} /\ r \notin Marked'
  BY DEF Station, Phase, Drawn, RequestId, Marked, Absent, Queued
<1>4. Station(r)' = "done" \/ (Station(r)' = "waiting" /\ r \notin Marked)
  BY DEF Station, Phase, Drawn, RequestId, Marked, Absent, Queued
<1>. QED
  BY <1>1, <1>2, <1>3, <1>4
  DEF Sessions!RequestStep, Sessions!Lose, Sessions!Given, Sessions!InRegistry

(* A waiting request is canceled, has waited too long, or its provider is     *)
(* deleted.                                                                  *)
LEMMA GiveUpStep ==
  ASSUME NEW r \in RequestId, next_request_id \in Int, next_request_id' \in Int,
         Drawn(r), Drawn(r)', active_requests[r].at = "queued", active_requests'[r] = Absent
  PROVE  Sessions!RequestStep(r)
<1>1. Station(r) = "waiting" /\ Station(r)' = "done"
  BY DEF Station, Phase, Drawn, RequestId, Absent
<1>. QED  BY <1>1 DEF Sessions!RequestStep, Sessions!GiveUp, Sessions!Moves

(* What the table says of a request, and that it says nothing before the id   *)
(* is drawn.                                                                 *)
LEMMA TableEntry ==
  ASSUME TypeOK, FreshIds, NEW r \in RequestId
  PROVE  /\ next_request_id \in Int
         /\ active_requests[r].at # "absent" => Drawn(r)
         /\ active_requests[r] \in ActiveRequestState
         /\ active_requests[r].at \in {"absent", "queued", "in_flight"}
         /\ active_requests[r].at = "in_flight" => active_requests[r].worker \in WorkerId
BY BoundsAssumption
DEF TypeOK, FreshIds, Drawn, RequestId, ActiveRequestState, Absent, Queued

(* The requests of S are forgotten: they wait, or their workers are those of  *)
(* gone, which leave the registry.                                           *)
LEMMA ForgetSteps ==
  ASSUME TypeOK, FreshIds, next_worker_id' \in Int, UNCHANGED next_request_id,
         NEW S, NEW gone, Forget(S),
         \A v \in WorkerId : v \notin gone =>
           pending_worker_requests'[v] = pending_worker_requests[v],
         \A w \in gone : w \notin workers',
         \A r \in S : active_requests[r].at # "absent",
         \A r \in RequestId : active_requests[r].at = "in_flight" =>
           (r \in S <=> active_requests[r].worker \in gone)
  PROVE  \A r \in RequestId : Sessions!RequestStep(r)
<1>. SUFFICES ASSUME NEW r \in RequestId PROVE Sessions!RequestStep(r)
  OBVIOUS
<1>1. /\ next_request_id \in Int /\ next_request_id' \in Int /\ (Drawn(r)' <=> Drawn(r))
      /\ active_requests[r].at # "absent" => Drawn(r)
      /\ active_requests[r] \in ActiveRequestState
      /\ active_requests[r].at \in {"absent", "queued", "in_flight"}
      /\ active_requests[r].at = "in_flight" => active_requests[r].worker \in WorkerId
  BY TableEntry DEF Drawn
<1>2. CASE r \in S
  <2>1. active_requests'[r] = Absent
    BY <1>2 DEF Forget
  <2>2. CASE active_requests[r].at = "queued"
    BY <1>1, <2>1, <2>2, GiveUpStep
  <2>3. CASE active_requests[r].at = "in_flight"
    <3>1. active_requests[r].worker \notin workers'
      BY <1>2, <2>3
    <3>. QED  BY <1>1, <2>1, <2>3, <3>1, LoseStep
  <2>. QED  BY <1>1, <1>2, <2>2, <2>3
<1>3. CASE r \notin S
  <2>1. active_requests'[r] = active_requests[r]
    BY <1>3 DEF Forget
  <2>2. active_requests[r].at = "in_flight" => (Untaken(r)' => Untaken(r))
    BY <1>1, <1>3, <2>1 DEF Untaken
  <2>. QED  BY <1>1, <2>1, <2>2, RestStep
<1>. QED  BY <1>2, <1>3

(* What worker w is given was waiting, and w is not draining then. *)
LEMMA BatchStep ==
  ASSUME TypeOK, OnePlace, FreshIds, SocketInv, (TypeOK /\ SocketInv)',
         UNCHANGED <<next_request_id, workers, deadline>>,
         NEW w \in workers, NEW batch \in Seq(RequestId),
         \A r \in Members(batch) : active_requests[r].at = "queued" /\ ~is_draining(w),
         pending_worker_requests' = [pending_worker_requests EXCEPT ![w] = @ \o batch],
         NEW q \in RequestId,
         active_requests'[q] = IF q \in Members(batch) THEN InFlight(w) ELSE active_requests[q]
  PROVE  Sessions!RequestStep(q)
<1>0. w \in WorkerId
  BY RegisteredStage
<1>1. /\ next_request_id \in Int /\ next_request_id' \in Int /\ (Drawn(q)' <=> Drawn(q))
      /\ active_requests[q].at # "absent" => Drawn(q)
      /\ active_requests[q] \in ActiveRequestState
      /\ active_requests[q].at = "in_flight" => active_requests[q].worker \in WorkerId
  BY TableEntry DEF Drawn
<1>2. /\ Members(pending_worker_requests'[w]) =
           Members(pending_worker_requests[w]) \cup Members(batch)
      /\ \A v \in WorkerId : v # w => pending_worker_requests'[v] = pending_worker_requests[v]
  <2>1. /\ pending_worker_requests[w] \in Seq(RequestId)
        /\ pending_worker_requests'[w] = pending_worker_requests[w] \o batch
        /\ \A v \in WorkerId : v # w => pending_worker_requests'[v] = pending_worker_requests[v]
    BY <1>0 DEF TypeOK
  <2>2. Members(pending_worker_requests[w] \o batch) =
          Members(pending_worker_requests[w]) \cup Members(batch)
    BY <2>1, JoinProperties
  <2>. QED  BY <2>1, <2>2
<1>3. CASE q \in Members(batch)
  <2>1. active_requests'[q] = InFlight(w) /\ ~is_draining(w) /\ active_requests[q].at = "queued"
    BY <1>3
  <2>2. Stage(w) = "serving"
    BY <2>1, RegisteredStage
  <2>3. Stage(w)' = "serving"
    BY <2>1, RegisteredStageNext DEF is_draining
  <2>4. Drawn(q) /\ Drawn(q)' /\ q \in Members(pending_worker_requests'[w])
    BY <1>1, <1>2, <1>3, <2>1
  <2>. QED  BY <1>0, <1>1, <2>1, <2>2, <2>3, <2>4, GiveStep
<1>4. CASE q \notin Members(batch)
  <2>1. active_requests'[q] = active_requests[q]
    BY <1>4
  <2>2. active_requests[q].at = "in_flight" => (Untaken(q)' => Untaken(q))
    BY <1>1, <1>2, <1>4, <2>1 DEF Untaken
  <2>. QED  BY <1>1, <2>1, <2>2, RestStep
<1>. QED  BY <1>3, <1>4

(* A batch without room is empty. *)
LEMMA BatchNeedsRoom ==
  ASSUME TypeOK, NEW w \in WorkerId, NEW ms, NEW load \in Nat, NEW flight \in Seq(RequestId),
         NEW n \in Nat, n <= Room(w, load, flight), NEW batch \in Batches(w, ms, n)
  PROVE  /\ batch \in Seq(RequestId)
         /\ \A r \in Members(batch) : active_requests[r].at = "queued" /\ ~is_draining(w)
<1>1. /\ batch \in Seq(RequestId) /\ Members(batch) \subseteq QueuedRequests
      /\ Len(batch) <= n
  BY BatchProperties
<1>2. Room(w, load, flight) \in Nat /\ (Room(w, load, flight) > 0 => ~is_draining(w))
  BY RoomIsNat
<1>3. ASSUME NEW r \in Members(batch) PROVE ~is_draining(w)
  <2>1. Len(batch) > 0
    BY <1>1, <1>3 DEF Members
  <2>. QED  BY <1>1, <1>2, <2>1
<1>. QED  BY <1>1, <1>3 DEF QueuedRequests

(* Every action of the core is, for every request, a step WorkerSessions has. *)
LEMMA RequestSteps == CoreInv /\ [Next]_vars => \A r \in RequestId : Sessions!RequestStep(r)
<1>. DEFINE Steps == \A r \in RequestId : Sessions!RequestStep(r)
<1>. SUFFICES ASSUME TypeOK, OnePlace, FreshIds, SocketInv, SentInv,
                     (TypeOK /\ SocketInv)', [Next]_vars
              PROVE  Steps
  BY CoreStep DEF CoreInv, PlaceInv
<1>b. /\ next_request_id \in Int /\ next_request_id' \in Int /\ next_worker_id' \in Int
      /\ workers \subseteq WorkerId
  BY BoundsAssumption DEF TypeOK
<1>0. ASSUME UNCHANGED <<next_request_id, active_requests>>,
             \A v \in WorkerId :
               Members(pending_worker_requests'[v]) \subseteq Members(pending_worker_requests[v])
      PROVE  Steps
  <2>. SUFFICES ASSUME NEW r \in RequestId PROVE Sessions!RequestStep(r)
    OBVIOUS
  <2>1. /\ Drawn(r)' <=> Drawn(r)
        /\ active_requests[r].at = "in_flight" => active_requests[r].worker \in WorkerId
        /\ active_requests[r] \in ActiveRequestState
    BY <1>0, TableEntry DEF Drawn
  <2>2. active_requests[r].at = "in_flight" => (Untaken(r)' => Untaken(r))
    BY <1>0, <2>1 DEF Untaken
  <2>. QED  BY <1>b, <1>0, <2>1, <2>2, RestStep
<1>a. ASSUME UNCHANGED <<next_request_id, active_requests, pending_worker_requests>> PROVE Steps
  BY <1>0, <1>a
<1>1. ASSUME NEW sub \in Submissions, Submit(sub) PROVE Steps
  <2>0. PICK n \in RequestId : n = next_request_id
    BY <1>1 DEF Submit, SubmitDispatched, SubmitQueued, SubmitRejected, TypeOK, RequestId
  <2>1. /\ next_request_id' = n + 1 /\ ~Drawn(n) /\ Drawn(n)'
        /\ \A q \in RequestId : q # n =>
             (Drawn(q)' <=> Drawn(q)) /\ active_requests'[q] = active_requests[q]
        /\ active_requests[n].at = "absent"
    <3>1. /\ next_request_id' = n + 1
          /\ \A q \in RequestId : q # n => active_requests'[q] = active_requests[q]
      BY <1>1, <2>0 DEF Submit, SubmitDispatched, SubmitQueued, SubmitRejected, TypeOK
    <3>. QED  BY <1>b, <2>0, <3>1 DEF Drawn, RequestId, FreshIds
  <2>2. CASE SubmitDispatched(sub)
    <3>1. PICK sel \in find_eligible_worker_id(sub) :
            /\ assign_to_worker(sel.worker, <<next_request_id>>, reported_load[sel.worker],
                                in_flight_requests[sel.worker])
            /\ active_requests' =
                 [active_requests EXCEPT ![next_request_id] = InFlight(sel.worker)]
      BY <2>2 DEF SubmitDispatched
    <3>2. PICK w \in workers : w = sel.worker /\ ~is_draining(w)
      BY SelectionProperties DEF worker_has_capacity
    <3>3. /\ pending_worker_requests' = [pending_worker_requests EXCEPT ![w] = @ \o <<n>>]
          /\ active_requests'[n] = InFlight(w) /\ w \in WorkerId
          /\ UNCHANGED <<workers, deadline>>
      <4>1. pending_worker_requests' = [pending_worker_requests EXCEPT ![w] = @ \o <<n>>]
        BY <2>0, <3>1, <3>2 DEF assign_to_worker
      <4>2. UNCHANGED <<workers, deadline>>
        BY <2>2 DEF SubmitDispatched
      <4>3. workers \subseteq WorkerId /\ n \in DOMAIN active_requests
        BY DEF TypeOK
      <4>4. active_requests' = [active_requests EXCEPT ![n] = InFlight(w)]
        BY <2>0, <3>1, <3>2
      <4>. QED  BY <4>1, <4>2, <4>3, <4>4
    <3>4. /\ Members(pending_worker_requests'[w]) = Members(pending_worker_requests[w]) \cup {n}
          /\ \A v \in WorkerId : v # w => pending_worker_requests'[v] = pending_worker_requests[v]
      <4>. DEFINE s == pending_worker_requests[w]
      <4>1. pending_worker_requests \in [WorkerId -> Seq(RequestId)]
        BY DEF TypeOK
      <4>2. /\ s \in Seq(RequestId) /\ pending_worker_requests'[w] = s \o <<n>>
            /\ \A v \in WorkerId : v # w =>
                 pending_worker_requests'[v] = pending_worker_requests[v]
        BY <3>3, <4>1
      <4>. DEFINE t == <<n>>
      <4>3. t \in Seq(RequestId) /\ Members(t) = {n}
        BY SmallSequences
      <4>. HIDE DEF s, t
      <4>4. Members(s \o t) = Members(s) \cup Members(t)
        BY <4>2, <4>3, JoinProperties
      <4>. QED  BY <4>2, <4>3, <4>4 DEF s, t
    <3>5. Stage(w) = "serving"
      BY <3>2, RegisteredStage
    <3>6. Stage(w)' = "serving"
      BY <3>2, <3>3, RegisteredStageNext DEF is_draining
    <3>7. Sessions!RequestStep(n)
      BY <1>b, <2>1, <3>3, <3>4, <3>5, <3>6, GiveStep
    <3>8. ASSUME NEW q \in RequestId, q # n PROVE Sessions!RequestStep(q)
      <4>1. /\ active_requests'[q] = active_requests[q] /\ (Drawn(q)' <=> Drawn(q))
            /\ active_requests[q].at = "in_flight" => active_requests[q].worker \in WorkerId
            /\ active_requests[q] \in ActiveRequestState
        BY <2>1, <3>8, TableEntry
      <4>2. active_requests[q].at = "in_flight" => (Untaken(q)' => Untaken(q))
        BY <3>4, <3>8, <4>1 DEF Untaken
      <4>. QED  BY <1>b, <4>1, <4>2, RestStep
    <3>. QED  BY <3>7, <3>8
  <2>3. CASE SubmitQueued(sub) \/ SubmitRejected(sub)
    <3>1. UNCHANGED pending_worker_requests /\ active_requests'[n] \in {Queued, Absent}
      <4>1. CASE SubmitQueued(sub)
        BY <2>0, <4>1 DEF SubmitQueued, TypeOK
      <4>2. CASE SubmitRejected(sub)
        <5>1. active_requests[n] = Absent
          BY <2>1, TableEntry DEF ActiveRequestState, Queued
        <5>. QED  BY <4>2, <5>1 DEF SubmitRejected
      <4>. QED  BY <2>3, <4>1, <4>2
    <3>2. Sessions!RequestStep(n)
      BY <1>b, <2>1, <3>1, ArriveStep
    <3>3. ASSUME NEW q \in RequestId, q # n PROVE Sessions!RequestStep(q)
      <4>1. /\ active_requests'[q] = active_requests[q] /\ (Drawn(q)' <=> Drawn(q))
            /\ active_requests[q] \in ActiveRequestState
        BY <2>1, <3>3, TableEntry
      <4>2. active_requests[q].at = "in_flight" => (Untaken(q)' => Untaken(q))
        BY <3>1, <4>1 DEF Untaken
      <4>. QED  BY <1>b, <4>1, <4>2, RestStep
    <3>. QED  BY <3>2, <3>3
  <2>. QED  BY <1>1, <2>2, <2>3 DEF Submit
<1>2. ASSUME NEW r \in RequestId, CancelQueued(r) PROVE Steps
  <2>1. CASE r \in Members(provider_queues[request[r].provider])
    <3>. DEFINE S == {r} gone == {}
    <3>1. /\ Forget(S) /\ UNCHANGED <<next_request_id, pending_worker_requests>>
          /\ active_requests[r].at = "queued"
      BY <1>2, <2>1 DEF CancelQueued
    <3>2. /\ \A q \in S : active_requests[q].at # "absent"
          /\ \A q \in RequestId : active_requests[q].at = "in_flight" =>
               (q \in S <=> active_requests[q].worker \in gone)
      BY <3>1
    <3>3. \A w \in gone : w \notin workers'
      OBVIOUS
    <3>. HIDE DEF S, gone
    <3>. QED  BY <1>b, <3>1, <3>2, <3>3, ForgetSteps
  <2>2. CASE r \notin Members(provider_queues[request[r].provider])
    BY <1>a, <1>2, <2>2 DEF CancelQueued
  <2>. QED  BY <2>1, <2>2
<1>3. ASSUME NEW r \in RequestId, NEW reason \in CancelReason, CancelInFlight(r, reason)
      PROVE  Steps
  <2>. SUFFICES ASSUME NEW q \in RequestId PROVE Sessions!RequestStep(q)
    OBVIOUS
  <2>1. /\ active_requests'[q].at = active_requests[q].at
        /\ active_requests'[q].worker = active_requests[q].worker
        /\ UNCHANGED <<next_request_id, pending_worker_requests>>
    BY <1>3, MarkingKeepsState DEF CancelInFlight
  <2>2. /\ Untaken(q)' => Untaken(q)
        /\ Drawn(q)' <=> Drawn(q)
    BY <2>1 DEF Untaken, Drawn
  <2>. QED  BY <1>b, <2>1, <2>2, TableEntry, RestStep
<1>4. ASSUME NEW w \in workers, NEW ms, NEW load \in Nat, DrainQueues(w, ms, load),
             UNCHANGED <<next_request_id, workers, deadline>>
      PROVE  Steps
  <2>. DEFINE n == Room(w, load, in_flight_requests[w])
  <2>0. in_flight_requests[w] \in Seq(RequestId) /\ w \in WorkerId
    BY <1>b DEF TypeOK
  <2>1. n \in Nat /\ n <= Room(w, load, in_flight_requests[w])
    <3>1. Room(w, load, in_flight_requests[w]) \in Nat
      BY <1>4, <2>0, RoomIsNat
    <3>. QED  BY <3>1
  <2>2. PICK batch \in Batches(w, ms, n) :
          /\ pending_worker_requests' = [pending_worker_requests EXCEPT ![w] = @ \o batch]
          /\ active_requests' = [r \in RequestId |->
               IF r \in Members(batch) THEN InFlight(w) ELSE active_requests[r]]
    BY <1>4 DEF DrainQueues, assign_to_worker
  <2>. HIDE DEF n
  <2>3. /\ batch \in Seq(RequestId)
        /\ \A r \in Members(batch) : active_requests[r].at = "queued" /\ ~is_draining(w)
    BY <1>4, <2>0, <2>1, BatchNeedsRoom
  <2>. SUFFICES ASSUME NEW q \in RequestId PROVE Sessions!RequestStep(q)
    OBVIOUS
  <2>. QED  BY <1>4, <2>2, <2>3, BatchStep
<1>5. ASSUME NEW w \in WorkerId, NEW load \in Loads,
             \/ \E raw \in Updates : UpdateWorkerModels(w, raw, load)
             \/ RecordWorkerPong(w, load)
      PROVE  Steps
  <2>1. UNCHANGED <<next_request_id, workers, deadline>> /\ w \in workers
    BY <1>5 DEF UpdateWorkerModels, RecordWorkerPong
  <2>2. \E ms : DrainQueues(w, ms, load)
    BY <1>5 DEF UpdateWorkerModels, RecordWorkerPong
  <2>. QED  BY <1>4, <2>1, <2>2, InputsAssumption
<1>6. ASSUME NEW w \in WorkerId, NEW r \in RequestId,
             StreamHttpResponseChunk(w, r) \/ LateResponse(w, r)
      PROVE  Steps
  BY <1>a, <1>6 DEF StreamHttpResponseChunk, LateResponse
<1>c. ASSUME NEW w \in WorkerId, NEW r \in RequestId, r \in handed[w],
             r \in Members(in_flight_requests[w]), active_requests'[r] = Absent,
             UNCHANGED next_request_id
      PROVE  Sessions!RequestStep(r)
  <2>1. active_requests[r].at = "in_flight" /\ active_requests[r].worker = w
    BY <1>c DEF OnePlace, InFlightSound
  <2>2. ~Untaken(r)
    BY <1>c, <2>1 DEF SentInv, SentAt, Untaken
  <2>3. Drawn(r) /\ Drawn(r)'
    BY <1>c, <2>1, TableEntry DEF Drawn
  <2>. QED  BY <1>b, <1>c, <2>1, <2>2, <2>3, SettleStep
<1>7. ASSUME NEW w \in WorkerId, NEW r \in RequestId, FinishRequest(w, r) PROVE Steps
  <2>. DEFINE flight == Without(in_flight_requests[w], {r})
              load == saturating_sub(reported_load[w], 1)
              n == IF Room(w, load, flight) > 0 THEN 1 ELSE 0
  <2>1. /\ in_flight_requests[w] \in Seq(RequestId) /\ reported_load[w] \in Nat
        /\ w \in workers
    BY <1>7 DEF TypeOK, FinishRequest
  <2>2. flight \in Seq(RequestId) /\ load \in Nat
    BY <2>1, WithoutProperties DEF saturating_sub, MaxOf
  <2>3. Room(w, load, flight) \in Nat
    <3>. HIDE DEF flight, load
    <3>. QED  BY <2>2, RoomIsNat
  <2>4. n \in Nat /\ n <= Room(w, load, flight)
    <3>. HIDE DEF flight, load
    <3>. QED  BY <2>3
  <2>5. PICK batch \in Batches(w, models[w], n) :
          /\ pending_worker_requests' = [pending_worker_requests EXCEPT ![w] = @ \o batch]
          /\ active_requests' = [q \in RequestId |-> IF q = r THEN Absent
                                ELSE IF q \in Members(batch) THEN InFlight(w)
                                ELSE active_requests[q]]
    BY <1>7 DEF FinishRequest, assign_to_worker
  <2>6. /\ r \in handed[w] /\ r \in Members(in_flight_requests[w])
        /\ UNCHANGED <<next_request_id, workers, deadline>>
    BY <1>7 DEF FinishRequest
  <2>. HIDE DEF n, flight, load
  <2>7. /\ batch \in Seq(RequestId)
        /\ \A q \in Members(batch) : active_requests[q].at = "queued" /\ ~is_draining(w)
    BY <2>2, <2>4, BatchNeedsRoom
  <2>8. Sessions!RequestStep(r)
    BY <1>c, <2>5, <2>6
  <2>9. ASSUME NEW q \in RequestId, q # r PROVE Sessions!RequestStep(q)
    <3>1. active_requests'[q] = IF q \in Members(batch) THEN InFlight(w) ELSE active_requests[q]
      BY <2>5, <2>9
    <3>. QED  BY <2>1, <2>5, <2>6, <2>7, <3>1, BatchStep
  <2>. QED  BY <2>8, <2>9
<1>8. ASSUME NEW w \in WorkerId, NEW r \in RequestId, FinishDrain(w, r) PROVE Steps
  <2>1. /\ r \in handed[w] /\ r \in Members(in_flight_requests[w])
        /\ Forget({r}) /\ UNCHANGED next_request_id
        /\ \A v \in WorkerId : v # w => pending_worker_requests'[v] = pending_worker_requests[v]
        /\ Without(in_flight_requests[w], {r}) = <<>>
    BY <1>8 DEF FinishDrain, ClearLists
  <2>2. Sessions!RequestStep(r)
    BY <1>c, <2>1 DEF Forget
  <2>3. Members(in_flight_requests[w]) = {r}
    <3>1. in_flight_requests[w] \in Seq(RequestId)
      BY DEF TypeOK
    <3>2. Members(<<>>) = Members(in_flight_requests[w]) \ {r}
      BY <2>1, <3>1, WithoutProperties
    <3>. QED  BY <2>1, <3>2, SmallSequences
  <2>4. ASSUME NEW q \in RequestId, q # r PROVE Sessions!RequestStep(q)
    <3>1. /\ active_requests'[q] = active_requests[q] /\ (Drawn(q)' <=> Drawn(q))
          /\ active_requests[q] \in ActiveRequestState
      BY <2>1, <2>4, TableEntry DEF Forget, Drawn
    <3>2. active_requests[q].at = "in_flight" =>
            active_requests[q].worker \in WorkerId /\ active_requests[q].worker # w
      BY <2>3, <2>4, TableEntry DEF OnePlace, NothingLost
    <3>3. active_requests[q].at = "in_flight" => (Untaken(q)' => Untaken(q))
      BY <2>1, <3>1, <3>2 DEF Untaken
    <3>. QED  BY <1>b, <3>1, <3>3, RestStep
  <2>. QED  BY <2>2, <2>4
<1>9. ASSUME NEW w \in WorkerId, TakePendingWorkerRequests(w) PROVE Steps
  <2>1. /\ UNCHANGED <<next_request_id, active_requests>>
        /\ pending_worker_requests' = [pending_worker_requests EXCEPT ![w] = <<>>]
    BY <1>9 DEF TakePendingWorkerRequests
  <2>2. \A v \in WorkerId :
          Members(pending_worker_requests'[v]) \subseteq Members(pending_worker_requests[v])
    BY <2>1, SmallSequences DEF TypeOK
  <2>. QED  BY <1>0, <2>1, <2>2
<1>10. ASSUME NEW w \in WorkerId,
              \/ TakePendingWorkerCancelSignals(w)
              \/ TakePendingWorkerGracefulShutdownSignals(w)
              \/ RequestWorkerModelsRefresh(w) \/ TakePendingWorkerModelsRefreshSignals(w)
              \/ LoseRemovedSocket(w)
       PROVE  Steps
  BY <1>a, <1>10
  DEF TakePendingWorkerCancelSignals, TakePendingWorkerGracefulShutdownSignals,
      RequestWorkerModelsRefresh, TakePendingWorkerModelsRefreshSignals, LoseRemovedSocket
<1>11. ASSUME NEW w \in WorkerId, DisconnectWorker(w) PROVE Steps
  <2>. DEFINE lost     == Members(in_flight_requests[w])
              canceled == {r \in lost : WasCanceled(r)}
              worn     == {r \in lost \ canceled : RequeuesExhausted(r)}
              failed   == canceled \cup worn
  <2>1. /\ active_requests' = [r \in RequestId |-> IF r \in failed THEN Absent
                                                   ELSE IF r \in lost THEN Queued
                                                   ELSE active_requests[r]]
        /\ UNCHANGED next_request_id /\ w \notin workers'
        /\ \A v \in WorkerId : v # w => pending_worker_requests'[v] = pending_worker_requests[v]
    BY <1>11 DEF DisconnectWorker, ClearLists, remove_workers
  <2>2. \A r \in lost : active_requests[r].at = "in_flight" /\ active_requests[r].worker = w
    BY DEF OnePlace, InFlightSound
  <2>3. failed \subseteq lost
        /\ \A r \in lost \ failed : active_requests[r].cancellation = "none"
    BY DEF WasCanceled
  <2>. HIDE DEF lost, failed
  <2>. SUFFICES ASSUME NEW r \in RequestId PROVE Sessions!RequestStep(r)
    OBVIOUS
  <2>4. CASE r \in lost
    <3>1. /\ active_requests[r].at = "in_flight" /\ active_requests[r].worker = w
          /\ Drawn(r) /\ Drawn(r)'
      BY <2>1, <2>2, <2>4, TableEntry DEF Drawn
    <3>2. \/ active_requests'[r] = Absent
          \/ active_requests'[r] = Queued /\ active_requests[r].cancellation = "none"
      BY <2>1, <2>3, <2>4
    <3>. QED  BY <1>b, <2>1, <3>1, <3>2, LoseStep
  <2>5. CASE r \notin lost
    <3>1. /\ active_requests'[r] = active_requests[r] /\ (Drawn(r)' <=> Drawn(r))
          /\ active_requests[r] \in ActiveRequestState
      BY <2>1, <2>3, <2>5, TableEntry DEF Drawn
    <3>2. active_requests[r].at = "in_flight" =>
            active_requests[r].worker \in WorkerId /\ active_requests[r].worker # w
      BY <2>5, TableEntry DEF OnePlace, NothingLost, lost
    <3>3. active_requests[r].at = "in_flight" => (Untaken(r)' => Untaken(r))
      BY <2>1, <3>1, <3>2 DEF Untaken
    <3>. QED  BY <1>b, <3>1, <3>3, RestStep
  <2>. QED  BY <2>4, <2>5
<1>d. ASSUME NEW gone \in SUBSET workers
      PROVE  /\ InFlightOf(gone) \subseteq RequestId
             /\ \A r \in InFlightOf(gone) : active_requests[r].at # "absent"
             /\ \A r \in RequestId : active_requests[r].at = "in_flight" =>
                  (r \in InFlightOf(gone) <=> active_requests[r].worker \in gone)
  BY <1>b DEF InFlightOf, OnePlace, InFlightSound, NothingLost
<1>12. ASSUME NEW w \in WorkerId, GracefulShutdownCloseAction(w) PROVE Steps
  <2>. DEFINE expired == ExpiringWorkers
              idle    == /\ w \in workers \ expired
                         /\ is_draining(w) /\ in_flight_requests[w] = <<>>
              gone    == expired \cup {v \in {w} : idle}
              S       == InFlightOf(expired)
  <2>1. /\ Forget(S) /\ UNCHANGED next_request_id
        /\ workers' = workers \ gone
        /\ \A v \in WorkerId : v \notin gone =>
             pending_worker_requests'[v] = pending_worker_requests[v]
    BY <1>12 DEF GracefulShutdownCloseAction, remove_workers, ClearLists
  <2>2. gone \in SUBSET workers /\ expired \in SUBSET workers
    BY DEF ExpiringWorkers
  <2>3. \A r \in RequestId : active_requests[r].at = "in_flight" =>
          (active_requests[r].worker \in expired <=> active_requests[r].worker \in gone)
    <3>. SUFFICES ASSUME NEW r \in RequestId, active_requests[r].at = "in_flight", idle,
                         active_requests[r].worker = w
                  PROVE  FALSE
      OBVIOUS
    <3>1. r \in Members(in_flight_requests[w])
      BY DEF OnePlace, NothingLost
    <3>. QED  BY <3>1, SmallSequences
  <2>. HIDE DEF gone, expired, idle
  <2>4. /\ \A w_1 \in gone : w_1 \notin workers'
        /\ \A r \in S : active_requests[r].at # "absent"
        /\ \A r \in RequestId : active_requests[r].at = "in_flight" =>
             (r \in S <=> active_requests[r].worker \in gone)
    BY <1>d, <2>1, <2>2, <2>3
  <2>. HIDE DEF S
  <2>. QED  BY <1>b, <2>1, <2>4, ForgetSteps
<1>13. ASSUME NEW p \in Providers, DeleteProvider(p) PROVE Steps
  <2>. DEFINE gone == {w \in workers : profile[w].provider = p}
              S == Members(provider_queues[p]) \cup InFlightOf(gone)
  <2>1. /\ Forget(S) /\ UNCHANGED next_request_id
        /\ workers' = workers \ gone
        /\ \A v \in WorkerId : v \notin gone =>
             pending_worker_requests'[v] = pending_worker_requests[v]
    BY <1>13 DEF DeleteProvider, remove_workers, ClearLists
  <2>2. gone \in SUBSET workers
    OBVIOUS
  <2>3. \A r \in Members(provider_queues[p]) : active_requests[r].at = "queued"
    BY DEF OnePlace, QueuesSound
  <2>. HIDE DEF gone
  <2>4. /\ \A w \in gone : w \notin workers'
        /\ \A r \in S : active_requests[r].at # "absent"
        /\ \A r \in RequestId : active_requests[r].at = "in_flight" =>
             (r \in S <=> active_requests[r].worker \in gone)
    BY <1>d, <2>1, <2>2, <2>3
  <2>. HIDE DEF S
  <2>. QED  BY <1>b, <2>1, <2>4, ForgetSteps
<1>14. ASSUME ExpireQueueTimeouts PROVE Steps
  <2>. DEFINE S == {r \in RequestId : \E p \in Providers :
                      r \in Members(provider_queues[p]) /\ TimedOut(p, r)}
              gone == {}
  <2>1. Forget(S) /\ UNCHANGED <<next_request_id, pending_worker_requests>>
    BY <1>14 DEF ExpireQueueTimeouts
  <2>2. \A r \in S : active_requests[r].at = "queued"
    BY DEF OnePlace, QueuesSound
  <2>3. /\ \A w \in gone : w \notin workers'
        /\ \A r \in S : active_requests[r].at # "absent"
        /\ \A r \in RequestId : active_requests[r].at = "in_flight" =>
             (r \in S <=> active_requests[r].worker \in gone)
    BY <2>2
  <2>. HIDE DEF S, gone
  <2>. QED  BY <1>b, <2>1, <2>3, ForgetSteps
<1>15. ASSUME \/ \E reg \in Registrations : RegisterWorker(reg)
              \/ BeginGracefulShutdown \/ QueueTimeoutPasses
              \/ \E k \in 1..MaxShutdowns : DrainDeadlinePasses(k)
              \/ UNCHANGED vars
       PROVE  Steps
  BY <1>a, <1>15 DEF RegisterWorker, BeginGracefulShutdown, QueueTimeoutPasses,
                     DrainDeadlinePasses, vars
<1>. HIDE DEF Steps
<1>. QED
  BY <1>1, <1>2, <1>3, <1>5, <1>6, <1>7, <1>8, <1>9, <1>10, <1>11, <1>12, <1>13, <1>14, <1>15
  DEF Next, Cancel, Answer

(* No action but the one of cancel_request marks a request or signals a       *)
(* cancellation.                                                             *)
MarksOnlyDropped ==
  /\ worker_cancel_signals' \subseteq worker_cancel_signals
  /\ \A r \in RequestId : active_requests'[r].cancellation # "none" =>
       active_requests'[r] = active_requests[r]

(* Only cancel_request notes a cancellation. *)
LEMMA MarkingActions ==
  CoreInv /\ [Next]_vars =>
    \/ MarksOnlyDropped
    \/ \E r \in RequestId, reason \in CancelReason : CancelInFlight(r, reason)
<1>. SUFFICES ASSUME TypeOK, [Next]_vars,
                     ~\E r \in RequestId, reason \in CancelReason : CancelInFlight(r, reason)
              PROVE  MarksOnlyDropped
  BY DEF CoreInv, PlaceInv
<1>0. ASSUME UNCHANGED active_requests, worker_cancel_signals' \subseteq worker_cancel_signals
      PROVE  MarksOnlyDropped
  BY <1>0 DEF MarksOnlyDropped
<1>a. ASSUME NEW S, Forget(S), worker_cancel_signals' \subseteq worker_cancel_signals
      PROVE  MarksOnlyDropped
  BY <1>a DEF MarksOnlyDropped, Forget, Absent
<1>1. ASSUME NEW sub \in Submissions, Submit(sub) PROVE MarksOnlyDropped
  <2>1. \A q \in RequestId :
          active_requests'[q] = active_requests[q] \/ active_requests'[q].cancellation = "none"
    BY <1>1 DEF Submit, SubmitDispatched, SubmitQueued, SubmitRejected, TypeOK, InFlight, Queued
  <2>2. UNCHANGED worker_cancel_signals
    BY <1>1 DEF Submit, SubmitDispatched, SubmitQueued, SubmitRejected
  <2>. QED  BY <2>1, <2>2 DEF MarksOnlyDropped
<1>2. ASSUME NEW r \in RequestId, Cancel(r) PROVE MarksOnlyDropped
  BY <1>0, <1>a, <1>2 DEF Cancel, CancelQueued
<1>3. ASSUME NEW w, NEW B, UNCHANGED worker_cancel_signals,
             active_requests' = [r \in RequestId |->
               IF r \in B THEN InFlight(w) ELSE active_requests[r]]
      PROVE  MarksOnlyDropped
  BY <1>3 DEF MarksOnlyDropped, InFlight
<1>4. ASSUME NEW w \in WorkerId, NEW load \in Loads,
             \/ RecordWorkerPong(w, load)
             \/ \E raw \in Updates : UpdateWorkerModels(w, raw, load)
      PROVE  MarksOnlyDropped
  <2>1. UNCHANGED worker_cancel_signals
    BY <1>4 DEF RecordWorkerPong, UpdateWorkerModels
  <2>2. \E B : active_requests' = [r \in RequestId |->
                 IF r \in B THEN InFlight(w) ELSE active_requests[r]]
    BY <1>4 DEF RecordWorkerPong, UpdateWorkerModels, DrainQueues
  <2>. QED  BY <1>3, <2>1, <2>2
<1>5. ASSUME NEW w \in WorkerId, NEW r \in RequestId, FinishRequest(w, r) PROVE MarksOnlyDropped
  <2>1. UNCHANGED worker_cancel_signals
    BY <1>5 DEF FinishRequest
  <2>2. PICK B : active_requests' = [q \in RequestId |->
                   IF q = r THEN Absent ELSE IF q \in B THEN InFlight(w)
                   ELSE active_requests[q]]
    BY <1>5 DEF FinishRequest
  <2>. QED  BY <2>1, <2>2 DEF MarksOnlyDropped, InFlight, Absent
<1>6. ASSUME NEW w \in WorkerId, NEW r \in RequestId, FinishDrain(w, r) PROVE MarksOnlyDropped
  BY <1>a, <1>6 DEF FinishDrain, remove_workers
<1>7. ASSUME NEW w \in WorkerId, NEW r \in RequestId,
             StreamHttpResponseChunk(w, r) \/ LateResponse(w, r)
      PROVE  MarksOnlyDropped
  BY <1>0, <1>7 DEF StreamHttpResponseChunk, LateResponse
<1>8. ASSUME NEW w \in WorkerId,
             \/ TakePendingWorkerRequests(w) \/ TakePendingWorkerCancelSignals(w)
             \/ TakePendingWorkerGracefulShutdownSignals(w)
             \/ RequestWorkerModelsRefresh(w) \/ TakePendingWorkerModelsRefreshSignals(w)
             \/ LoseRemovedSocket(w)
      PROVE  MarksOnlyDropped
  BY <1>0, <1>8
  DEF TakePendingWorkerRequests, TakePendingWorkerCancelSignals,
      TakePendingWorkerGracefulShutdownSignals, RequestWorkerModelsRefresh,
      TakePendingWorkerModelsRefreshSignals, LoseRemovedSocket
<1>9. ASSUME NEW w \in WorkerId, DisconnectWorker(w) PROVE MarksOnlyDropped
  <2>1. worker_cancel_signals' \subseteq worker_cancel_signals
    BY <1>9 DEF DisconnectWorker, remove_workers
  <2>2. PICK F, L : active_requests' = [r \in RequestId |->
                      IF r \in F THEN Absent ELSE IF r \in L THEN Queued
                      ELSE active_requests[r]]
    BY <1>9 DEF DisconnectWorker
  <2>. QED  BY <2>1, <2>2 DEF MarksOnlyDropped, Queued, Absent
<1>10. ASSUME NEW w \in WorkerId, GracefulShutdownCloseAction(w) PROVE MarksOnlyDropped
  <2>1. \E S : Forget(S)
    BY <1>10 DEF GracefulShutdownCloseAction
  <2>2. worker_cancel_signals' \subseteq worker_cancel_signals
    BY <1>10 DEF GracefulShutdownCloseAction, remove_workers
  <2>. QED  BY <1>a, <2>1, <2>2
<1>11. ASSUME NEW p \in Providers, DeleteProvider(p) PROVE MarksOnlyDropped
  <2>1. \E S : Forget(S)
    BY <1>11 DEF DeleteProvider
  <2>2. worker_cancel_signals' \subseteq worker_cancel_signals
    BY <1>11 DEF DeleteProvider, remove_workers
  <2>. QED  BY <1>a, <2>1, <2>2
<1>12. ASSUME ExpireQueueTimeouts PROVE MarksOnlyDropped
  BY <1>a, <1>12 DEF ExpireQueueTimeouts
<1>13. ASSUME \/ \E reg \in Registrations : RegisterWorker(reg)
              \/ BeginGracefulShutdown \/ QueueTimeoutPasses
              \/ \E k \in 1..MaxShutdowns : DrainDeadlinePasses(k)
              \/ UNCHANGED vars
       PROVE  MarksOnlyDropped
  BY <1>0, <1>13 DEF RegisterWorker, BeginGracefulShutdown, QueueTimeoutPasses,
                     DrainDeadlinePasses, vars
<1>. QED
  BY <1>1, <1>2, <1>4, <1>5, <1>6, <1>7, <1>8, <1>9, <1>10, <1>11, <1>12, <1>13
  DEF Next, Answer

(* A cancellation is noted and signalled once, and forgotten with the request. *)
LEMMA MarkSteps == CoreInv /\ [Next]_vars => \A r \in RequestId : Sessions!MarkStep(r)
<1>. DEFINE Signalled == {r \in Marked : <<active_requests[r].worker, r>> \in worker_cancel_signals}
<1>. SUFFICES ASSUME CoreInv, TypeOK, FreshIds, CancelledStays, [Next]_vars, NEW r \in RequestId
              PROVE  Sessions!MarkStep(r)
  BY CancelledStep DEF CoreInv, PlaceInv
<1>1. next_request_id \in Int /\ next_request_id' \in {next_request_id, next_request_id + 1}
  BY IdsAndLeavers, TableEntry
<1>2. r \in Marked \ Marked' => Station(r)' = "done"
  <2>. SUFFICES ASSUME r \in Marked, r \notin Marked' PROVE Station(r)' = "done"
    OBVIOUS
  <2>1. Drawn(r) /\ active_requests'[r] = Absent
    BY TableEntry, OnlyInFlightMarked DEF Marked, CancelledStays
  <2>2. Drawn(r)'
    BY <1>1, <2>1 DEF Drawn, RequestId
  <2>. QED  BY <1>1, <2>1, <2>2 DEF Station, Phase, Drawn, RequestId, Absent
<1>3. CASE MarksOnlyDropped
  <2>1. r \notin Marked' \ Marked /\ r \notin Signalled' \ Signalled
    BY <1>3 DEF MarksOnlyDropped, Marked
  <2>. QED  BY <1>2, <2>1 DEF Sessions!MarkStep
<1>4. ASSUME NEW q \in RequestId, NEW reason \in CancelReason, CancelInFlight(q, reason)
      PROVE  Sessions!MarkStep(r)
  <2>1. /\ active_requests'[r].at = active_requests[r].at
        /\ active_requests'[r].worker = active_requests[r].worker
        /\ UNCHANGED <<next_request_id, pending_worker_requests>>
    BY <1>4, MarkingKeepsState DEF CancelInFlight
  <2>2. Station(r)' = Station(r)
    BY <2>1 DEF Station, Phase
  <2>3. CASE active_requests[q].cancellation # "none" \/ r # q
    <3>1. /\ active_requests'[r] = active_requests[r]
          /\ <<active_requests[r].worker, r>> \in worker_cancel_signals' =>
               <<active_requests[r].worker, r>> \in worker_cancel_signals
      BY <1>4, <2>3 DEF CancelInFlight, TypeOK
    <3>2. r \notin Marked' \ Marked /\ r \notin Signalled' \ Signalled
      BY <3>1 DEF Marked
    <3>. QED  BY <1>2, <3>2 DEF Sessions!MarkStep
  <2>4. CASE active_requests[q].cancellation = "none" /\ r = q
    <3>1. /\ active_requests[r].at = "in_flight" /\ r \notin Marked
          /\ <<active_requests'[r].worker, r>> \in worker_cancel_signals'
      BY <1>4, <2>1, <2>4 DEF CancelInFlight, Marked
    <3>2. Station(r) \in {"pending", "sent"}
      BY <1>1, <3>1, TableEntry, StationOf
    <3>3. r \in Marked' => r \in Signalled'
      BY <3>1
    <3>4. Sessions!Given(r) /\ Sessions!Stays(r)
      BY <2>1, <2>2, <3>2 DEF Sessions!Given, Sessions!Stays
    <3>. QED  BY <3>1, <3>3, <3>4 DEF Sessions!MarkStep
  <2>. QED  BY <2>3, <2>4
<1>. QED  BY <1>3, <1>4, MarkingActions

(* Each worker's loop is dealt with as WorkerSessions says: it is given       *)
(* requests only while it serves, never one it was given before, and keeps    *)
(* each until it answers or is removed; it is told of each cancellation and   *)
(* of the drain once; and it is told to close when its worker is removed.     *)
THEOREM CoreImplementsSessions == Spec => ImplementsSessions
<1>1. Init => Sessions!SessionsInit
  BY DEF Init, Sessions!SessionsInit, Stage, Station, Phase, Marked, RequestId, WorkerId, Absent
<1>2. Init => DeadlinesKnown
  BY DEF Init, DeadlinesKnown
<1>3. CoreInv /\ DeadlinesKnown /\ CoreInv' /\ [Next]_vars =>
        [Sessions!SessionsNext]_(Sessions!sessionVars)
  BY WorkerSteps, RequestSteps, MarkSteps, CoreStaysConsistent DEF Sessions!SessionsNext
<1>4. CoreInv /\ DeadlinesKnown /\ [Next]_vars => DeadlinesKnown'
  BY DeadlineStep DEF CoreInv, PlaceInv
<1>. QED
  BY <1>1, <1>2, <1>3, <1>4, CoreInit, CoreStep, PTL
  DEF Spec, ImplementsSessions, Sessions!SessionsSpec
=============================================================================
