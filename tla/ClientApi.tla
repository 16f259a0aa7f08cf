------------------------------ MODULE ClientApi ------------------------------
(***************************************************************************)
(* The HTTP side of a client's request: wildcard_handler, the body stream it *)
(* returns for a streaming request, and HttpRequestCancellationGuard, whose  *)
(* Drop spawns a task that cancels the request in the core.                 *)
(*                                                                          *)
(* A handler is suspended at its awaits (the key check, the response        *)
(* channel), and at each of them the client may go away: hyper then drops   *)
(* the handler or the body, and with it the receiver and the guard.  The    *)
(* core is here only what a handler can tell of it, one step per critical   *)
(* section of its mutex; ProxyCore has the detail.  A request that lost its  *)
(* worker waits in the queue of that worker's provider (lib.rs:726), which   *)
(* need not be the provider it was submitted to: it is "queued" in the one    *)
(* case and "astray" in the other.  A chunk is one unit of the bytes the      *)
(* stream limit counts.                                                      *)
(***************************************************************************)
EXTENDS SeqFilter

CONSTANTS
  Requests,
  Streaming,      \* the requests with stream: true
  Slots,          \* requests the workers have room for
  QueueLimit,     \* max_queue_len
  Limit,          \* MAX_STREAM_RESPONSE_BYTES, in chunks
  MaxRequeues,    \* MAX_REQUEUE_COUNT
  MaxChunks       \* bound: chunks the workers send for a request

ASSUME ClientAssumption ==
  /\ Streaming \subseteq Requests
  /\ Slots \in Nat /\ QueueLimit \in Nat /\ Limit \in Nat
  /\ MaxRequeues \in Nat /\ MaxChunks \in Nat

VARIABLES
  pc,         \* where each handler, or the body it returned, is suspended
  next_chunk, \* streams that hold a chunk they have received and not yet passed on
  armed,      \* requests whose guard would cancel them
  answer,     \* what each client was told
  delivered,  \* chunks in the body (streamed_bytes)
  cut,        \* streams ended by the size limit
  tasks,      \* cancellations spawned by a guard that have not run yet
  place,      \* each request in the core: none, queued, astray, in_flight, gone
  queue,      \* the queue of the provider the requests are submitted to
  canceled,   \* in-flight requests with a cancellation, whose worker gets a Cancel
  senders,    \* pending_http_response_senders
  channel,    \* events the handler has not received yet
  requeues,   \* requeue_count
  sent,       \* chunks the workers sent for each request
  missed      \* history: requests whose cancellation did not find them

clientSide == <<pc, answer, next_chunk, armed, delivered, cut>>
coreSide == <<place, queue, canceled, senders, requeues, sent, missed>>
vars == <<clientSide, tasks, coreSide, channel>>

Final == {"complete", "failure"}
Events == {"chunk"} \cup Final

(* 401, 400 or 500 before the request is submitted, 503 with the reason, the   *)
(* worker's status and body, or 200 with a stream.                            *)
Answers == {"none", "refused", "unavailable", "response", "stream"}

Init ==
  /\ pc = [r \in Requests |-> "new"] /\ answer = [r \in Requests |-> "none"]
  /\ next_chunk = {} /\ armed = {} /\ cut = {} /\ tasks = {}
  /\ delivered = [r \in Requests |-> 0]
  /\ place = [r \in Requests |-> "none"] /\ queue = <<>>
  /\ canceled = {} /\ senders = {}
  /\ channel = [r \in Requests |-> <<>>]
  /\ requeues = [r \in Requests |-> 0]
  /\ sent = [r \in Requests |-> 0]
  /\ missed = {}

InFlight == {r \in Requests : place[r] = "in_flight"}
Listening(r) == pc[r] \in {"waiting", "streaming"}

(* A send to a handler that has gone is an error nobody looks at.            *)
Deliver(r, event) ==
  channel' = IF Listening(r) THEN [channel EXCEPT ![r] = Append(@, event)] ELSE channel

-----------------------------------------------------------------------------
(* The end of a handler.                                                     *)

Finish(r) == pc' = [pc EXCEPT ![r] = "answered"]

Tell(r, what) == answer' = [answer EXCEPT ![r] = what]

availability_failure_response(r) == Finish(r) /\ Tell(r, "unavailable")

response_complete_to_http_response(r) == Finish(r) /\ Tell(r, "response")

-----------------------------------------------------------------------------
(* wildcard_handler up to its first await on the response.                   *)

Arrive(r) ==
  /\ pc[r] = "new" /\ pc' = [pc EXCEPT ![r] = "checking"]
  /\ UNCHANGED <<answer, next_chunk, armed, delivered, cut, tasks, coreSide, channel>>

(* No valid key, a key store that fails, no model; or a disabled provider.     *)
Reject(r) ==
  /\ pc[r] = "checking"
  /\ \/ Finish(r) /\ Tell(r, "refused")
     \/ availability_failure_response(r)
  /\ UNCHANGED <<next_chunk, armed, delivered, cut, tasks, coreSide, channel>>

(* submit_http_response_request, submit_http_streaming_request; the guard is  *)
(* made before the next await.                                               *)
Accept(r, where, q) ==
  /\ place' = [place EXCEPT ![r] = where] /\ queue' = q
  /\ senders' = senders \cup {r} /\ armed' = armed \cup {r}
  /\ pc' = [pc EXCEPT ![r] = "waiting"] /\ UNCHANGED answer

Submit(r) ==
  /\ pc[r] = "checking"
  /\ \/ Cardinality(InFlight) < Slots /\ Accept(r, "in_flight", queue)
     \/ Cardinality(InFlight) >= Slots /\ Len(queue) < QueueLimit
        /\ Accept(r, "queued", Append(queue, r))
     \/ Cardinality(InFlight) >= Slots /\ Len(queue) >= QueueLimit
        /\ availability_failure_response(r)
        /\ UNCHANGED <<place, queue, senders, armed>>
  /\ UNCHANGED <<next_chunk, delivered, cut, tasks, canceled, requeues, sent, missed,
                 channel>>

-----------------------------------------------------------------------------
(* What the handler, or the body it returned, does with the next event.       *)

Receive(r, event) ==
  /\ channel[r] # <<>> /\ Head(channel[r]) = event
  /\ channel' = [channel EXCEPT ![r] = Tail(@)]

Disarm(r) == armed' = armed \ {r}

HearUnary(r) ==
  /\ pc[r] = "waiting" /\ r \notin Streaming
  /\ \/ Receive(r, "complete") /\ response_complete_to_http_response(r)
     \/ Receive(r, "failure") /\ availability_failure_response(r)
  /\ Disarm(r)
  /\ UNCHANGED <<next_chunk, delivered, cut, tasks, coreSide>>

(* A variant: the body starts with the next event.                           *)
HearFirstChunkOnly(r) ==
  /\ pc[r] = "waiting" /\ r \in Streaming /\ Receive(r, "chunk")
  /\ pc' = [pc EXCEPT ![r] = "streaming"] /\ Tell(r, "stream")
  /\ UNCHANGED <<next_chunk, armed, delivered, cut, tasks, coreSide>>

(* The first event of a streaming request decides between a stream, a plain   *)
(* response and an error.                                                    *)
HearFirstChunk(r) ==
  /\ pc[r] = "waiting" /\ r \in Streaming /\ Receive(r, "chunk")
  /\ pc' = [pc EXCEPT ![r] = "streaming"] /\ next_chunk' = next_chunk \cup {r}
  /\ Tell(r, "stream")
  /\ UNCHANGED <<armed, delivered, cut, tasks, coreSide>>

HearFirstComplete(r) ==
  /\ pc[r] = "waiting" /\ r \in Streaming /\ Receive(r, "complete")
  /\ Disarm(r) /\ response_complete_to_http_response(r)
  /\ UNCHANGED <<next_chunk, delivered, cut, tasks, coreSide>>

(* The guard is dropped armed; its task finds nothing to cancel.              *)
HearFirstFailure(r) ==
  /\ pc[r] = "waiting" /\ r \in Streaming /\ Receive(r, "failure")
  /\ armed' = armed \ {r} /\ tasks' = tasks \cup {r}
  /\ availability_failure_response(r)
  /\ UNCHANGED <<next_chunk, delivered, cut, coreSide>>

TooLong(r) == delivered[r] + 1 > Limit

(* A chunk is passed on, or the SSE error in its place ends the stream.       *)
Emit(r) ==
  IF TooLong(r)
  THEN /\ cut' = cut \cup {r} /\ Disarm(r)
       /\ pc' = [pc EXCEPT ![r] = "terminated"] /\ UNCHANGED delivered
  ELSE delivered' = [delivered EXCEPT ![r] = @ + 1] /\ UNCHANGED <<pc, cut, armed>>

EmitFirst(r) ==
  /\ pc[r] = "streaming" /\ r \in next_chunk
  /\ Emit(r) /\ next_chunk' = next_chunk \ {r}
  /\ UNCHANGED <<answer, tasks, coreSide, channel>>

HearChunk(r) ==
  /\ pc[r] = "streaming" /\ r \notin next_chunk /\ Receive(r, "chunk")
  /\ Emit(r)
  /\ UNCHANGED <<answer, next_chunk, tasks, coreSide>>

HearEnd(r) ==
  /\ pc[r] = "streaming" /\ r \notin next_chunk
  /\ \E event \in Final : Receive(r, event)
  /\ Disarm(r) /\ Finish(r)
  /\ UNCHANGED <<answer, next_chunk, delivered, cut, tasks, coreSide>>

EndCut(r) ==
  /\ pc[r] = "terminated" /\ Finish(r)
  /\ UNCHANGED <<answer, next_chunk, armed, delivered, cut, tasks, coreSide, channel>>

Hear(r) ==
  \/ HearUnary(r) \/ HearFirstChunk(r) \/ HearFirstComplete(r) \/ HearFirstFailure(r)
  \/ EmitFirst(r) \/ HearChunk(r) \/ HearEnd(r) \/ EndCut(r)

(* A variant: the task is not spawned from a body already streaming.          *)
DisconnectQuietly(r) ==
  /\ pc[r] \in {"checking", "waiting", "streaming", "terminated"}
  /\ pc' = [pc EXCEPT ![r] = "left"] /\ next_chunk' = next_chunk \ {r}
  /\ channel' = [channel EXCEPT ![r] = <<>>]
  /\ armed' = armed \ {r}
  /\ tasks' = IF r \in armed /\ pc[r] # "streaming" THEN tasks \cup {r} ELSE tasks
  /\ UNCHANGED <<answer, delivered, cut, coreSide>>

(* The client goes away: the handler or the body is dropped where it is.      *)
Disconnect(r) ==
  /\ pc[r] \in {"checking", "waiting", "streaming", "terminated"}
  /\ pc' = [pc EXCEPT ![r] = "left"] /\ next_chunk' = next_chunk \ {r}
  /\ channel' = [channel EXCEPT ![r] = <<>>]
  /\ armed' = armed \ {r}
  /\ tasks' = IF r \in armed THEN tasks \cup {r} ELSE tasks
  /\ UNCHANGED <<answer, delivered, cut, coreSide>>

-----------------------------------------------------------------------------
(* The core's critical sections.                                             *)

(* A variant: only a request that is being worked on is canceled.             *)
RunCancelOfWorker(r) ==
  /\ r \in tasks /\ tasks' = tasks \ {r}
  /\ canceled' = IF place[r] = "in_flight" THEN canceled \cup {r} ELSE canceled
  /\ missed' = IF place[r] = "astray" THEN missed \cup {r} ELSE missed
  /\ UNCHANGED <<clientSide, place, queue, senders, requeues, sent, channel>>

(* cancel_request, run by the guard's task.  A queued request is looked for   *)
(* only in the queue of the provider it was submitted to: one that waits in    *)
(* another is not found, and stays, with its sender, as if nobody had asked.   *)
RunCancel(r) ==
  /\ r \in tasks /\ tasks' = tasks \ {r}
  /\ \/ /\ place[r] = "queued"
        /\ queue' = Without(queue, {r}) /\ place' = [place EXCEPT ![r] = "gone"]
        /\ senders' = senders \ {r} /\ UNCHANGED <<canceled, missed>>
     \/ /\ place[r] = "in_flight"
        /\ canceled' = canceled \cup {r} /\ UNCHANGED <<queue, place, senders, missed>>
     \/ /\ place[r] \in {"none", "astray", "gone"}
        /\ missed' = IF place[r] = "astray" THEN missed \cup {r} ELSE missed
        /\ UNCHANGED <<canceled, queue, place, senders>>
  /\ UNCHANGED <<clientSide, requeues, sent, channel>>

(* stream_http_response_chunk                                                *)
WorkerSendsChunk(r) ==
  /\ r \in Streaming /\ place[r] = "in_flight" /\ sent[r] < MaxChunks
  /\ sent' = [sent EXCEPT ![r] = @ + 1]
  /\ IF r \in senders THEN Deliver(r, "chunk") ELSE UNCHANGED channel
  /\ UNCHANGED <<clientSide, tasks, place, queue, canceled, senders, requeues, missed>>

(* dispatch_next_compatible: a worker is given the head of a queue.           *)
LeavesQueue(q) ==
  \/ queue # <<>> /\ q = Head(queue) /\ queue' = Tail(queue)
  \/ place[q] = "astray" /\ UNCHANGED queue

(* complete_http_response: the sender is taken, the slot goes to the next     *)
(* queued request if there is one for this worker, the event is sent.        *)
WorkerCompletes(r) ==
  /\ place[r] = "in_flight" /\ r \in senders
  /\ senders' = senders \ {r}
  /\ \/ place' = [place EXCEPT ![r] = "gone"] /\ UNCHANGED queue
     \/ \E q \in Requests :
          /\ LeavesQueue(q)
          /\ place' = [place EXCEPT ![r] = "gone", ![q] = "in_flight"]
  /\ canceled' = canceled \ {r}
  /\ Deliver(r, "complete")
  /\ UNCHANGED <<clientSide, tasks, requeues, sent, missed>>

(* A variant: fail_pending_http_response is not called.                       *)
FailSilently(r) ==
  /\ place' = [place EXCEPT ![r] = "gone"]
  /\ queue' = Without(queue, {r}) /\ canceled' = canceled \ {r}
  /\ UNCHANGED <<clientSide, tasks, senders, requeues, sent, missed, channel>>

(* fail_pending_http_response: an expired queue wait, a deleted provider, a    *)
(* drain deadline, or a lost worker and a request that is not tried again.    *)
Fail(r) ==
  /\ place' = [place EXCEPT ![r] = "gone"]
  /\ queue' = Without(queue, {r})
  /\ senders' = senders \ {r} /\ canceled' = canceled \ {r}
  /\ IF r \in senders THEN Deliver(r, "failure") ELSE UNCHANGED channel
  /\ UNCHANGED <<clientSide, tasks, requeues, sent, missed>>

CoreHolds(r) == place[r] \in {"queued", "astray", "in_flight"}

CoreFails(r) == CoreHolds(r) /\ Fail(r)

(* disconnect_worker; the worker may be of any provider, having been chosen    *)
(* as a fallback or by routing, or having drained another provider's queue.   *)
WorkerLost(r) ==
  /\ place[r] = "in_flight"
  /\ \/ r \in canceled /\ Fail(r)
     \/ r \notin canceled /\ requeues[r] >= MaxRequeues /\ Fail(r)
     \/ /\ r \notin canceled /\ requeues[r] < MaxRequeues
        /\ requeues' = [requeues EXCEPT ![r] = @ + 1]
        /\ \/ place' = [place EXCEPT ![r] = "queued"] /\ queue' = <<r>> \o queue
           \/ place' = [place EXCEPT ![r] = "astray"] /\ UNCHANGED queue
        /\ UNCHANGED <<clientSide, tasks, canceled, senders, sent, missed, channel>>

(* A worker registers, or has room again, and takes the next request.         *)
WorkerTakes(q) ==
  /\ Cardinality(InFlight) < Slots
  /\ LeavesQueue(q) /\ place' = [place EXCEPT ![q] = "in_flight"]
  /\ UNCHANGED <<clientSide, tasks, canceled, senders, requeues, sent, missed, channel>>

CoreStep(r) ==
  \/ RunCancel(r) \/ WorkerSendsChunk(r) \/ WorkerCompletes(r)
  \/ CoreFails(r) \/ WorkerLost(r) \/ WorkerTakes(r)

Next ==
  \E r \in Requests :
    Arrive(r) \/ Reject(r) \/ Submit(r) \/ Hear(r) \/ Disconnect(r) \/ CoreStep(r)

Spec == Init /\ [][Next]_vars

(* A client that stays reads what it is sent, and a spawned task runs.        *)
(* Nothing is assumed of the workers.                                        *)
FairSpec ==
  /\ Spec
  /\ \A r \in Requests : WF_vars(Hear(r)) /\ WF_vars(RunCancel(r))

-----------------------------------------------------------------------------
HoldsTheQueued ==
  /\ queue \in Seq(Requests) /\ NoRepeats(queue)
  /\ Members(queue) = {r \in Requests : place[r] = "queued"}

(* Every variable keeps its shape: handlers, guards and the core's tables     *)
(* name only requests, and the queue holds each queued request once.         *)
ClientTypeOK ==
  /\ pc \in [Requests -> {"new", "checking", "waiting", "streaming", "terminated",
                          "answered", "left"}]
  /\ answer \in [Requests -> Answers]
  /\ next_chunk \subseteq Requests /\ armed \subseteq Requests
  /\ cut \subseteq Requests /\ tasks \subseteq Requests
  /\ delivered \in [Requests -> Nat]
  /\ place \in [Requests -> {"none", "queued", "astray", "in_flight", "gone"}]
  /\ HoldsTheQueued
  /\ canceled \subseteq Requests /\ senders \subseteq Requests /\ missed \subseteq Requests
  /\ channel \in [Requests -> Seq(Events)]
  /\ requeues \in [Requests -> Nat] /\ sent \in [Requests -> Nat]

(* A request the core still holds has a client that listens, or a task that   *)
(* will cancel it, or is canceled already, so that nobody works unheard for   *)
(* longer than that.  There are two exceptions, and no other: a stream over   *)
(* the size limit disarms its guard and its worker goes on (http.rs:566, 585), *)
(* and a request that had lost a worker can have been missed by its           *)
(* cancellation, waiting in another provider's queue at that moment            *)
(* (lib.rs:747): it is then queued, and later worked on, for nobody.           *)
NoUnheardWork ==
  \A r \in Requests \ cut :
    CoreHolds(r) => \/ Listening(r) \/ r \in tasks \/ r \in canceled
                    \/ r \in missed /\ requeues[r] > 0

(* The size limit cuts a stream exactly when its workers sent more than the   *)
(* limit, after all of the limit was passed on.                              *)
CutAtTheLimit ==
  \A r \in Requests :
    /\ delivered[r] <= Limit
    /\ r \in cut => delivered[r] = Limit /\ sent[r] > Limit

(* A client that was told 503, or that got a plain response, has no work left  *)
(* in the core, so one that tries again does not compete with itself; and a    *)
(* streaming request gets a plain response only when no chunk was ever sent.   *)
AnswerIsFinal ==
  \A r \in Requests :
    /\ answer[r] \in {"refused", "unavailable"} => place[r] \in {"none", "gone"}
    /\ answer[r] = "response" => place[r] = "gone" /\ sent[r] = 0

(* A stream that ends, with a completion or a failure, and was not cut has    *)
(* passed on every chunk a worker sent, in spite of a worker that was lost    *)
(* and another that began again: the client cannot tell.                     *)
EndedStreamIsWhole ==
  \A r \in Streaming : pc[r] = "answered" /\ r \notin cut => delivered[r] = sent[r]

(* A request whose client left is canceled at its worker or leaves the core,  *)
(* whatever the workers do, unless the size limit cut its stream or its        *)
(* cancellation missed it in another provider's queue.                        *)
AbandonedIsCanceled ==
  \A r \in Requests :
    (pc[r] = "left" /\ CoreHolds(r) /\ r \notin cut)
      ~> (r \in canceled \/ place[r] = "gone" \/ r \in missed)

(* A handler never waits for an answer the core has already given or will     *)
(* not give: once a request it waits for has left the core, it ends.          *)
GoneIsAnswered ==
  \A r \in Requests :
    (place[r] = "gone" /\ Listening(r)) ~> pc[r] \in {"answered", "left"}
=============================================================================
