--------------------------- MODULE ClientApiProofs ---------------------------
(***************************************************************************)
(* Proofs about ClientApi, for any number of requests, slots, retries and   *)
(* chunks, any queue limit and any size limit.                              *)
(***************************************************************************)
EXTENDS ClientApi, SeqFilterProofs

USE DEF clientSide, coreSide

Active(r) == place[r] \in {"queued", "astray", "in_flight"}

(* What a handler knows in each of its states.                               *)
HandlerSound(r) ==
  /\ pc[r] \in {"new", "checking"} =>
       place[r] = "none" /\ sent[r] = 0 /\ delivered[r] = 0 /\ channel[r] = <<>>
  /\ pc[r] \in {"new", "checking", "waiting"} =>
       answer[r] = "none" /\ r \notin cut /\ r \notin next_chunk /\ delivered[r] = 0
  /\ pc[r] \in {"new", "checking", "waiting", "streaming", "terminated"} => r \notin tasks
  /\ pc[r] \in {"streaming", "terminated"} => r \in Streaming /\ answer[r] = "stream"
  /\ Listening(r) => r \in armed /\ r \notin cut /\ place[r] # "none"
  /\ r \in next_chunk => pc[r] = "streaming"
  /\ pc[r] = "terminated" => r \in cut
  /\ pc[r] = "answered" /\ r \notin cut =>
       place[r] \in {"none", "gone"} /\ delivered[r] = sent[r]
  /\ r \notin Streaming => sent[r] = 0

(* The chunk a stream holds, and the final event, as numbers of events.       *)
Held(r) == IF r \in next_chunk THEN 1 ELSE 0
Closed(r) == IF Active(r) THEN 0 ELSE 1

(* While a handler listens, its channel holds the chunks it has not received, *)
(* and behind them, once the request has left the core, one final event.      *)
ChannelSound(r) ==
  Listening(r) =>
    /\ \A i \in 1..Len(channel[r]) :
         channel[r][i] = "chunk" <=> (Active(r) \/ i < Len(channel[r]))
    /\ ~Active(r) => Len(channel[r]) > 0
    /\ sent[r] = delivered[r] + Len(channel[r])
                 + Held(r) - Closed(r)

(* A request has a sender while the core holds it.                           *)
SenderSound(r) == r \in senders <=> Active(r)

(* What the core holds has somebody who listens or asks for its end, unless   *)
(* the limit cut it or its cancellation missed it.                           *)
HeardSound(r) ==
  r \notin cut /\ Active(r) =>
    Listening(r) \/ r \in tasks \/ r \in canceled \/ r \in missed

(* Only a request that lost a worker stands in another provider's queue.      *)
RetriedSound(r) == place[r] = "astray" \/ r \in missed => requeues[r] > 0

CutSound(r) ==
  /\ delivered[r] <= Limit
  /\ r \in cut => delivered[r] = Limit /\ sent[r] > Limit

AnswerSound(r) ==
  /\ answer[r] \in {"refused", "unavailable"} => place[r] \in {"none", "gone"}
  /\ answer[r] = "response" => place[r] = "gone" /\ sent[r] = 0

Sound(r) ==
  /\ HandlerSound(r) /\ ChannelSound(r) /\ SenderSound(r)
  /\ HeardSound(r) /\ RetriedSound(r) /\ CutSound(r) /\ AnswerSound(r)

ClientInv == ClientTypeOK /\ \A r \in Requests : Sound(r)

-----------------------------------------------------------------------------
(* The queue. *)

LEMMA AppendedQueue ==
  ASSUME NEW S, NEW s \in Seq(S), NoRepeats(s), NEW x \in S, x \notin Members(s)
  PROVE  /\ Append(s, x) \in Seq(S) /\ NoRepeats(Append(s, x))
         /\ Members(Append(s, x)) = Members(s) \cup {x}
<1>1. /\ Append(s, x) \in Seq(S) /\ DOMAIN Append(s, x) = 1..(Len(s) + 1)
      /\ Append(s, x)[Len(s) + 1] = x /\ DOMAIN s = 1..Len(s) /\ Len(s) \in Nat
      /\ \A i \in 1..Len(s) : Append(s, x)[i] = s[i]
  OBVIOUS
<1>2. NoRepeats(Append(s, x))
  BY <1>1 DEF NoRepeats, Members
<1>3. Members(Append(s, x)) = Members(s) \cup {x}
  BY <1>1 DEF Members
<1>. QED  BY <1>1, <1>2, <1>3

LEMMA PrependedQueue ==
  ASSUME NEW S, NEW s \in Seq(S), NoRepeats(s), NEW x \in S, x \notin Members(s)
  PROVE  /\ <<x>> \o s \in Seq(S) /\ NoRepeats(<<x>> \o s)
         /\ Members(<<x>> \o s) = Members(s) \cup {x}
<1>. DEFINE t == <<x>> \o s
<1>1. /\ t \in Seq(S) /\ DOMAIN t = 1..(Len(s) + 1) /\ DOMAIN s = 1..Len(s) /\ Len(s) \in Nat
      /\ t[1] = x /\ \A i \in 2..(Len(s) + 1) : t[i] = s[i - 1]
  OBVIOUS
<1>. HIDE DEF t
<1>2. NoRepeats(t)
  <2>1. ASSUME NEW i \in 1..(Len(s) + 1), NEW j \in 1..(Len(s) + 1), i < j PROVE t[i] # t[j]
    <3>1. j \in 2..(Len(s) + 1) /\ t[j] = s[j - 1] /\ j - 1 \in 1..Len(s)
      BY <1>1, <2>1
    <3>2. CASE i = 1
      BY <3>1, <3>2, <1>1 DEF Members
    <3>3. CASE i # 1
      <4>1. t[i] = s[i - 1] /\ i - 1 \in 1..Len(s) /\ i - 1 # j - 1
        BY <3>1, <3>3, <2>1, <1>1
      <4>. QED  BY <4>1, <3>1, <1>1 DEF NoRepeats
    <3>. QED  BY <3>2, <3>3
  <2>. QED  BY <2>1, <1>1 DEF NoRepeats
<1>3. Members(t) = Members(s) \cup {x}
  <2>1. ASSUME NEW y \in Members(t) PROVE y \in Members(s) \cup {x}
    BY <1>1, <2>1 DEF Members
  <2>2. ASSUME NEW i \in 1..Len(s) PROVE s[i] \in Members(t)
    <3>1. i + 1 \in 2..(Len(s) + 1) /\ t[i + 1] = s[i]
      BY <1>1
    <3>. QED  BY <3>1, <1>1, SMTT(30) DEF Members
  <2>3. x \in Members(t)
    BY <1>1 DEF Members
  <2>. QED  BY <2>1, <2>2, <2>3, <1>1 DEF Members
<1>. QED  BY <1>1, <1>2, <1>3 DEF t

LEMMA ShortenedQueue ==
  ASSUME NEW S, NEW s \in Seq(S), NoRepeats(s), s # <<>>
  PROVE  /\ Tail(s) \in Seq(S) /\ NoRepeats(Tail(s)) /\ Head(s) \in Members(s)
         /\ Members(Tail(s)) = Members(s) \ {Head(s)}
<1>1. /\ Tail(s) \in Seq(S) /\ DOMAIN Tail(s) = 1..(Len(s) - 1) /\ DOMAIN s = 1..Len(s)
      /\ Len(s) \in Nat /\ Len(s) >= 1 /\ Head(s) = s[1]
      /\ \A i \in 1..(Len(s) - 1) : Tail(s)[i] = s[i + 1]
  OBVIOUS
<1>2. NoRepeats(Tail(s))
  BY <1>1 DEF NoRepeats
<1>3. Members(Tail(s)) = Members(s) \ {Head(s)}
  <2>1. ASSUME NEW i \in 1..(Len(s) - 1)
        PROVE  Tail(s)[i] \in Members(s) \ {Head(s)}
    BY <1>1 DEF NoRepeats, Members
  <2>2. ASSUME NEW i \in 1..Len(s), s[i] # Head(s) PROVE s[i] \in Members(Tail(s))
    <3>1. i - 1 \in 1..(Len(s) - 1) /\ Tail(s)[i - 1] = s[i]
      BY <1>1, <2>2
    <3>. QED  BY <3>1, <1>1 DEF Members
  <2>. QED  BY <2>1, <2>2, <1>1 DEF Members
<1>4. Head(s) \in Members(s)
  <2>1. 1 \in DOMAIN s /\ s[1] = Head(s)
    BY <1>1
  <2>. QED  BY <2>1 DEF Members
<1>. QED  BY <1>1, <1>2, <1>3, <1>4

-----------------------------------------------------------------------------
(* Types. *)

LEMMA ClientTypeInit == Init => ClientTypeOK
BY DEF Init, ClientTypeOK, HoldsTheQueued, Members, NoRepeats, Answers

LEMMA QueueStays ==
  ASSUME HoldsTheQueued, queue' = queue,
         \A q \in Requests : place'[q] = "queued" <=> place[q] = "queued"
  PROVE  HoldsTheQueued'
BY DEF HoldsTheQueued

(* A request that leaves the queue, from wherever it stands.                  *)
LEMMA QueueLeft ==
  ASSUME ClientTypeOK, NEW r \in Requests, NEW where \in {"in_flight", "gone"},
         place' = [place EXCEPT ![r] = where], queue' = Without(queue, {r})
  PROVE  HoldsTheQueued'
<1>1. queue \in Seq(Requests) /\ NoRepeats(queue)
      /\ Members(queue) = {q \in Requests : place[q] = "queued"}
  BY DEF ClientTypeOK, HoldsTheQueued
<1>2. /\ queue' \in Seq(Requests) /\ NoRepeats(queue')
      /\ Members(queue') = Members(queue) \ {r}
  BY <1>1, WithoutProperties
<1>3. \A q \in Requests : place'[q] = IF q = r THEN where ELSE place[q]
  BY DEF ClientTypeOK
<1>. QED  BY <1>1, <1>2, <1>3 DEF HoldsTheQueued

LEMMA LeavesWaiting ==
  ASSUME ClientTypeOK, NEW q \in Requests, LeavesQueue(q)
  PROVE  place[q] \in {"queued", "astray"}
<1>1. queue \in Seq(Requests) /\ NoRepeats(queue)
      /\ Members(queue) = {x \in Requests : place[x] = "queued"}
  BY DEF ClientTypeOK, HoldsTheQueued
<1>2. queue # <<>> => Head(queue) \in Members(queue)
  BY <1>1, ShortenedQueue
<1>. QED  BY <1>1, <1>2 DEF LeavesQueue

(* A worker is given a request: it leaves the queue it stands in.             *)
LEMMA QueueServed ==
  ASSUME ClientTypeOK, NEW q \in Requests, LeavesQueue(q),
         \A x \in Requests : place'[x] = "queued" <=> place[x] = "queued" /\ x # q
  PROVE  HoldsTheQueued'
<1>1. queue \in Seq(Requests) /\ NoRepeats(queue)
      /\ Members(queue) = {x \in Requests : place[x] = "queued"}
  BY DEF ClientTypeOK, HoldsTheQueued
<1>2. CASE queue # <<>> /\ q = Head(queue) /\ queue' = Tail(queue)
  <2>1. /\ queue' \in Seq(Requests) /\ NoRepeats(queue')
        /\ Members(queue') = Members(queue) \ {q} /\ q \in Members(queue)
    BY <1>1, <1>2, ShortenedQueue
  <2>. QED  BY <1>1, <2>1 DEF HoldsTheQueued
<1>3. CASE place[q] = "astray" /\ UNCHANGED queue
  BY <1>1, <1>3 DEF HoldsTheQueued
<1>. QED  BY <1>2, <1>3 DEF LeavesQueue

(* A request joins at the end or, tried again, at the front.                 *)
LEMMA QueueJoined ==
  ASSUME ClientTypeOK, NEW r \in Requests, place[r] # "queued",
         place' = [place EXCEPT ![r] = "queued"],
         queue' \in {Append(queue, r), <<r>> \o queue}
  PROVE  HoldsTheQueued'
<1>1. queue \in Seq(Requests) /\ NoRepeats(queue) /\ r \notin Members(queue)
      /\ Members(queue) = {q \in Requests : place[q] = "queued"}
  BY DEF ClientTypeOK, HoldsTheQueued
<1>2. /\ queue' \in Seq(Requests) /\ NoRepeats(queue')
      /\ Members(queue') = Members(queue) \cup {r}
  <2>1. CASE queue' = Append(queue, r)
    BY <1>1, <2>1, AppendedQueue
  <2>2. CASE queue' = <<r>> \o queue
    BY <1>1, <2>2, PrependedQueue
  <2>. QED  BY <2>1, <2>2
<1>3. \A q \in Requests : place'[q] = IF q = r THEN "queued" ELSE place[q]
  BY DEF ClientTypeOK
<1>. QED  BY <1>1, <1>2, <1>3 DEF HoldsTheQueued

LEMMA DeliverTyped ==
  ASSUME ClientTypeOK, NEW r \in Requests, NEW event \in Events,
         Deliver(r, event) \/ UNCHANGED channel
  PROVE  channel' \in [Requests -> Seq(Events)]
<1>1. channel[r] \in Seq(Events)
  BY DEF ClientTypeOK
<1>2. Append(channel[r], event) \in Seq(Events)
  BY <1>1
<1>. QED  BY <1>2 DEF ClientTypeOK, Deliver

LEMMA ReceiveTyped ==
  ASSUME ClientTypeOK, NEW r \in Requests, NEW event, Receive(r, event)
  PROVE  channel' \in [Requests -> Seq(Events)]
<1>1. channel[r] \in Seq(Events) /\ channel[r] # <<>>
  BY DEF ClientTypeOK, Receive
<1>2. Tail(channel[r]) \in Seq(Events)
  BY <1>1
<1>. QED  BY <1>2 DEF ClientTypeOK, Receive

LEMMA FailTyped ==
  ASSUME ClientTypeOK, NEW r \in Requests, Fail(r)
  PROVE  ClientTypeOK'
<1>1. HoldsTheQueued'
  BY QueueLeft DEF Fail
<1>2. channel' \in [Requests -> Seq(Events)]
  BY DeliverTyped DEF Fail, Events, Final
<1>3. place' \in [Requests -> {"none", "queued", "astray", "in_flight", "gone"}]
      /\ senders' \subseteq Requests /\ canceled' \subseteq Requests
  BY DEF Fail, ClientTypeOK
<1>. QED  BY <1>1, <1>2, <1>3 DEF Fail, ClientTypeOK

LEMMA SubmitTyped ==
  ASSUME ClientInv, NEW r \in Requests, Submit(r)
  PROVE  ClientTypeOK'
<1>1. ClientTypeOK /\ place[r] = "none" /\ HoldsTheQueued
  BY DEF ClientInv, Sound, HandlerSound, Submit, ClientTypeOK
<1>2. CASE Accept(r, "in_flight", queue)
  <2>1. \A q \in Requests : place'[q] = IF q = r THEN "in_flight" ELSE place[q]
    BY <1>1, <1>2 DEF Accept, ClientTypeOK
  <2>2. HoldsTheQueued'
    BY <1>1, <1>2, <2>1, QueueStays DEF Accept
  <2>. QED  BY <1>1, <1>2, <2>2 DEF Submit, Accept, ClientTypeOK
<1>3. CASE Accept(r, "queued", Append(queue, r))
  <2>1. HoldsTheQueued'
    BY <1>1, <1>3, QueueJoined DEF Accept
  <2>. QED  BY <1>1, <1>3, <2>1 DEF Submit, Accept, ClientTypeOK
<1>4. CASE availability_failure_response(r) /\ UNCHANGED <<place, queue, senders, armed>>
  <2>1. HoldsTheQueued'
    BY <1>1, <1>4, QueueStays
  <2>. QED  BY <1>1, <1>4, <2>1
            DEF Submit, availability_failure_response, Finish, Tell, ClientTypeOK, Answers
<1>. QED  BY <1>2, <1>3, <1>4 DEF Submit

(* Steps of the handlers, which leave the core alone.                         *)
LEMMA HandlerTyped ==
  ASSUME ClientTypeOK, NEW r \in Requests,
         Arrive(r) \/ Reject(r) \/ Hear(r) \/ Disconnect(r)
  PROVE  ClientTypeOK'
<1>. USE DEF Finish, Tell, Disarm, availability_failure_response,
             response_complete_to_http_response, Answers
<1>1. UNCHANGED coreSide
  BY DEF Arrive, Reject, Disconnect, Hear, HearUnary, HearFirstChunk, HearFirstComplete,
         HearFirstFailure, EmitFirst, HearChunk, HearEnd, EndCut
<1>2. HoldsTheQueued' /\ HoldsTheQueued
  BY <1>1, QueueStays DEF ClientTypeOK
<1>3. channel' \in [Requests -> Seq(Events)]
  <2>1. \/ UNCHANGED channel \/ \E event \in Events : Receive(r, event)
        \/ channel' = [channel EXCEPT ![r] = <<>>]
    BY DEF Arrive, Reject, Disconnect, Hear, HearUnary, HearFirstChunk, HearFirstComplete,
           HearFirstFailure, EmitFirst, HearChunk, HearEnd, EndCut, Events, Final
  <2>2. <<>> \in Seq(Events)
    OBVIOUS
  <2>. QED  BY <2>1, <2>2, ReceiveTyped DEF ClientTypeOK
<1>4. /\ pc' \in [Requests -> {"new", "checking", "waiting", "streaming", "terminated",
                               "answered", "left"}]
      /\ answer' \in [Requests -> Answers]
  BY DEF Arrive, Reject, Disconnect, Hear, HearUnary, HearFirstChunk, HearFirstComplete,
         HearFirstFailure, EmitFirst, HearChunk, HearEnd, EndCut, Emit, ClientTypeOK
<1>5. /\ next_chunk' \subseteq Requests /\ armed' \subseteq Requests
      /\ cut' \subseteq Requests /\ tasks' \subseteq Requests
  BY DEF Arrive, Reject, Disconnect, Hear, HearUnary, HearFirstChunk, HearFirstComplete,
         HearFirstFailure, EmitFirst, HearChunk, HearEnd, EndCut, Emit, ClientTypeOK
<1>6. delivered' \in [Requests -> Nat]
  BY DEF Arrive, Reject, Disconnect, Hear, HearUnary, HearFirstChunk, HearFirstComplete,
         HearFirstFailure, EmitFirst, HearChunk, HearEnd, EndCut, Emit, ClientTypeOK
<1>. QED  BY <1>1, <1>2, <1>3, <1>4, <1>5, <1>6 DEF ClientTypeOK

LEMMA ClientTypeStep ==
  ASSUME ClientInv, [Next]_vars
  PROVE  ClientTypeOK'
<1>. ClientTypeOK /\ HoldsTheQueued
  BY DEF ClientInv, ClientTypeOK
<1>3. ASSUME NEW r \in Requests, RunCancel(r) PROVE ClientTypeOK'
  <2>1. CASE place[r] = "queued"
    <3>1. HoldsTheQueued'
      BY <1>3, <2>1, QueueLeft DEF RunCancel
    <3>. QED  BY <1>3, <2>1, <3>1 DEF RunCancel, ClientTypeOK
  <2>2. CASE place[r] # "queued"
    <3>1. HoldsTheQueued'
      BY <1>3, <2>2, QueueStays DEF RunCancel
    <3>. QED  BY <1>3, <2>2, <3>1 DEF RunCancel, ClientTypeOK
  <2>. QED  BY <2>1, <2>2
<1>4. ASSUME NEW r \in Requests, WorkerSendsChunk(r) PROVE ClientTypeOK'
  <2>1. channel' \in [Requests -> Seq(Events)]
    BY <1>4, DeliverTyped DEF WorkerSendsChunk, Events
  <2>2. HoldsTheQueued'
    BY <1>4, QueueStays DEF WorkerSendsChunk
  <2>3. sent' \in [Requests -> Nat]
    BY <1>4 DEF WorkerSendsChunk, ClientTypeOK
  <2>. QED  BY <1>4, <2>1, <2>2, <2>3 DEF WorkerSendsChunk, ClientTypeOK
<1>5. ASSUME NEW r \in Requests, WorkerCompletes(r) PROVE ClientTypeOK'
  <2>1. channel' \in [Requests -> Seq(Events)]
    BY <1>5, DeliverTyped DEF WorkerCompletes, Events, Final
  <2>2. CASE queue' = queue /\ place' = [place EXCEPT ![r] = "gone"]
    <3>1. \A q \in Requests : place'[q] = "queued" <=> place[q] = "queued"
      BY <1>5, <2>2 DEF WorkerCompletes, ClientTypeOK
    <3>2. HoldsTheQueued'
      BY <2>2, <3>1, QueueStays
    <3>. QED  BY <1>5, <2>1, <2>2, <3>2 DEF WorkerCompletes, ClientTypeOK
  <2>3. ASSUME NEW q \in Requests, LeavesQueue(q),
               place' = [place EXCEPT ![r] = "gone", ![q] = "in_flight"]
        PROVE  ClientTypeOK'
    <3>2. \A x \in Requests : place'[x] = "queued" <=> place[x] = "queued" /\ x # q
      BY <1>5, <2>3 DEF WorkerCompletes, ClientTypeOK
    <3>3. HoldsTheQueued'
      BY <2>3, <3>2, QueueServed
    <3>. QED  BY <1>5, <2>1, <2>3, <3>3 DEF WorkerCompletes, ClientTypeOK
  <2>. QED  BY <1>5, <2>2, <2>3 DEF WorkerCompletes
<1>7. ASSUME NEW r \in Requests, WorkerLost(r) PROVE ClientTypeOK'
  <2>1. CASE queue' = <<r>> \o queue /\ place' = [place EXCEPT ![r] = "queued"]
             /\ requeues' = [requeues EXCEPT ![r] = @ + 1]
             /\ UNCHANGED <<clientSide, tasks, canceled, senders, sent, missed, channel>>
    <3>1. HoldsTheQueued'
      BY <1>7, <2>1, QueueJoined DEF WorkerLost
    <3>. QED  BY <2>1, <3>1 DEF ClientTypeOK
  <2>2. CASE queue' = queue /\ place' = [place EXCEPT ![r] = "astray"]
             /\ requeues' = [requeues EXCEPT ![r] = @ + 1]
             /\ UNCHANGED <<clientSide, tasks, canceled, senders, sent, missed, channel>>
    <3>1. \A q \in Requests : place'[q] = "queued" <=> place[q] = "queued"
      BY <1>7, <2>2 DEF WorkerLost, ClientTypeOK
    <3>2. HoldsTheQueued'
      BY <2>2, <3>1, QueueStays
    <3>. QED  BY <2>2, <3>2 DEF ClientTypeOK
  <2>. QED  BY <1>7, <2>1, <2>2, FailTyped DEF WorkerLost
<1>8. ASSUME NEW q \in Requests, WorkerTakes(q) PROVE ClientTypeOK'
  <2>2. \A x \in Requests : place'[x] = "queued" <=> place[x] = "queued" /\ x # q
    BY <1>8 DEF WorkerTakes, ClientTypeOK
  <2>3. HoldsTheQueued'
    BY <1>8, <2>2, QueueServed DEF WorkerTakes
  <2>. QED  BY <1>8, <2>3 DEF WorkerTakes, ClientTypeOK
<1>9. CASE UNCHANGED vars
  <2>1. HoldsTheQueued'
    BY <1>9, QueueStays DEF vars
  <2>. QED  BY <1>9, <2>1 DEF vars, ClientTypeOK
<1>. QED  BY <1>3, <1>4, <1>5, <1>7, <1>8, <1>9, SubmitTyped, HandlerTyped, FailTyped
          DEF Next, CoreStep, CoreFails

-----------------------------------------------------------------------------
(* The invariant. *)

(* All that a step changes for a request it does not settle is that the core  *)
(* moved it between a queue and a worker, into another provider's queue only  *)
(* when it was tried again.                                                  *)
Untouched(q) ==
  /\ pc'[q] = pc[q] /\ answer'[q] = answer[q] /\ delivered'[q] = delivered[q]
  /\ sent'[q] = sent[q] /\ channel'[q] = channel[q]
  /\ q \in armed' <=> q \in armed
  /\ q \in next_chunk' <=> q \in next_chunk
  /\ q \in cut' <=> q \in cut
  /\ q \in tasks' <=> q \in tasks
  /\ q \in canceled' <=> q \in canceled
  /\ q \in senders' <=> q \in senders
  /\ q \in missed' <=> q \in missed
  /\ requeues'[q] = requeues[q] \/ requeues'[q] > 0
  /\ \/ place'[q] = place[q]
     \/ /\ {place[q], place'[q]} \subseteq {"queued", "astray", "in_flight"}
        /\ place'[q] = "astray" => requeues'[q] > 0

LEMMA UntouchedSound ==
  ASSUME NEW q \in Requests, Sound(q), Untouched(q)
  PROVE  Sound(q)'
<1>1. HandlerSound(q)'
  BY DEF Sound, HandlerSound, Untouched, Listening
<1>2. Active(q)' <=> Active(q)
  BY DEF Active, Untouched
<1>3. ChannelSound(q)'
  BY <1>2 DEF Sound, ChannelSound, Untouched, Listening, Held, Closed
<1>4. SenderSound(q)' /\ HeardSound(q)'
  BY <1>2 DEF Sound, SenderSound, HeardSound, Untouched, Listening
<1>6. RetriedSound(q)'
  BY DEF Sound, RetriedSound, Untouched
<1>5. CutSound(q)' /\ AnswerSound(q)'
  BY DEF Sound, CutSound, AnswerSound, Untouched
<1>. QED  BY <1>1, <1>3, <1>4, <1>5, <1>6 DEF Sound

LEMMA ReceivedShape ==
  ASSUME ClientTypeOK, NEW r \in Requests, NEW event, Receive(r, event)
  PROVE  /\ Len(channel[r]) \in Nat /\ Len(channel[r]) > 0 /\ channel[r][1] = event
         /\ Len(channel'[r]) \in Nat /\ Len(channel'[r]) = Len(channel[r]) - 1
         /\ \A i \in 1..(Len(channel[r]) - 1) : channel'[r][i] = channel[r][i + 1]
         /\ \A q \in Requests \ {r} : channel'[q] = channel[q]
<1>1. channel[r] \in Seq(Events) /\ channel[r] # <<>>
  BY DEF ClientTypeOK, Receive
<1>2. channel'[r] = Tail(channel[r]) /\ event = Head(channel[r])
  BY DEF ClientTypeOK, Receive
<1>3. \A q \in Requests \ {r} : channel'[q] = channel[q]
  BY DEF ClientTypeOK, Receive
<1>. QED  BY <1>1, <1>2, <1>3

LEMMA DeliveredShape ==
  ASSUME ClientTypeOK, NEW r \in Requests, NEW event \in Events,
         Deliver(r, event)
  PROVE  /\ Len(channel[r]) \in Nat
         /\ Listening(r) =>
              /\ Len(channel'[r]) \in Nat /\ Len(channel'[r]) = Len(channel[r]) + 1
              /\ channel'[r][Len(channel[r]) + 1] = event
              /\ \A i \in 1..Len(channel[r]) : channel'[r][i] = channel[r][i]
         /\ \A q \in Requests \ {r} : channel'[q] = channel[q]
<1>1. channel[r] \in Seq(Events)
  BY DEF ClientTypeOK
<1>2. Listening(r) => channel'[r] = Append(channel[r], event)
  BY DEF ClientTypeOK, Deliver
<1>3. \A q \in Requests \ {r} : channel'[q] = channel[q]
  BY DEF ClientTypeOK, Deliver
<1>. QED  BY <1>1, <1>2, <1>3

LEMMA EventKinds == Final \subseteq Events /\ "chunk" \in Events
BY DEF Events

LEMMA EventCounts ==
  ASSUME NEW r
  PROVE  /\ Held(r) \in {0, 1} /\ Closed(r) \in {0, 1}
         /\ r \in next_chunk => Held(r) = 1
         /\ r \notin next_chunk => Held(r) = 0
         /\ Active(r) => Closed(r) = 0
         /\ ~Active(r) => Closed(r) = 1
BY DEF Held, Closed

(* When the handler of r receives an event: a chunk leaves the request as it   *)
(* is, the final event comes last and after the core has let the request go.  *)
LEMMA ReceivedMeans ==
  ASSUME ClientTypeOK, NEW r \in Requests, Sound(r), Listening(r),
         NEW event \in Events, Receive(r, event)
  PROVE  /\ event = "chunk" =>
              /\ sent[r] = delivered[r] + 1 + Len(channel'[r])
                   + Held(r) - Closed(r)
              /\ \A i \in 1..Len(channel'[r]) :
                   channel'[r][i] = "chunk" <=> (Active(r) \/ i < Len(channel'[r]))
              /\ ~Active(r) => Len(channel'[r]) > 0
         /\ event \in Final =>
              /\ place[r] = "gone" /\ Len(channel[r]) = 1
              /\ sent[r] = delivered[r] + Held(r)
<1>1. /\ Len(channel[r]) \in Nat /\ Len(channel[r]) > 0
      /\ Len(channel'[r]) \in Nat /\ Len(channel'[r]) = Len(channel[r]) - 1
  BY ReceivedShape
<1>7. channel[r][1] = event
  BY ReceivedShape
<1>2. \A i \in 1..(Len(channel[r]) - 1) : channel'[r][i] = channel[r][i + 1]
  BY ReceivedShape
<1>3. \A i \in 1..Len(channel[r]) :
        channel[r][i] = "chunk" <=> (Active(r) \/ i < Len(channel[r]))
  BY DEF Sound, ChannelSound
<1>4. /\ sent[r] = delivered[r] + Len(channel[r]) + Held(r) - Closed(r)
      /\ sent[r] \in Nat /\ delivered[r] \in Nat
      /\ Held(r) \in {0, 1} /\ Closed(r) \in {0, 1}
  BY EventCounts DEF Sound, ChannelSound, ClientTypeOK
<1>5. ASSUME event = "chunk"
      PROVE  /\ sent[r] = delivered[r] + 1 + Len(channel'[r]) + Held(r) - Closed(r)
             /\ \A i \in 1..Len(channel'[r]) :
                  channel'[r][i] = "chunk" <=> (Active(r) \/ i < Len(channel'[r]))
             /\ ~Active(r) => Len(channel'[r]) > 0
  <2>1. sent[r] = delivered[r] + 1 + Len(channel'[r]) + Held(r) - Closed(r)
    BY <1>1, <1>4
  <2>2. ASSUME NEW i \in 1..Len(channel'[r])
        PROVE  channel'[r][i] = "chunk" <=> (Active(r) \/ i < Len(channel'[r]))
    <3>1. i + 1 \in 1..Len(channel[r]) /\ i \in 1..(Len(channel[r]) - 1)
          /\ (i + 1 < Len(channel[r]) <=> i < Len(channel'[r]))
      BY <1>1, <2>2
    <3>2. channel'[r][i] = channel[r][i + 1]
      BY <1>2, <3>1
    <3>. QED  BY <1>3, <3>1, <3>2
  <2>3. ~Active(r) => Len(channel'[r]) > 0
    <3>1. 1 \in 1..Len(channel[r]) /\ channel[r][1] = "chunk"
      BY <1>1, <1>5, <1>7
    <3>2. Active(r) \/ 1 < Len(channel[r])
      BY <1>3, <3>1
    <3>. QED  BY <1>1, <3>2
  <2>. QED  BY <2>1, <2>2, <2>3
<1>6. ASSUME event \in Final
      PROVE  /\ place[r] = "gone" /\ Len(channel[r]) = 1
             /\ sent[r] = delivered[r] + Held(r)
  <2>1. event # "chunk" /\ 1 \in 1..Len(channel[r])
    BY <1>1, <1>6 DEF Final
  <2>2. ~Active(r) /\ ~(1 < Len(channel[r]))
    BY <1>3, <1>7, <2>1
  <2>3. place[r] = "gone"
    BY <2>2 DEF Active, Sound, HandlerSound, ClientTypeOK
  <2>7. Len(channel[r]) \in Nat /\ Len(channel[r]) > 0
    BY <1>1
  <2>8. ASSUME NEW n \in Nat, n > 0, ~(1 < n) PROVE n = 1
    BY <2>8
  <2>4. Len(channel[r]) = 1
    BY <2>2, <2>7, <2>8
  <2>5. Closed(r) = 1
    BY <2>2, EventCounts
  <2>6. sent[r] = delivered[r] + Held(r)
    BY <1>4, <2>4, <2>5
  <2>. QED  BY <2>3, <2>4, <2>6
<1>. QED  BY <1>5, <1>6

LEMMA InvInit == Init => ClientInv
<1>. SUFFICES ASSUME Init, NEW r \in Requests PROVE Sound(r)
  BY ClientTypeInit DEF ClientInv
<1>. QED  BY ClientAssumption DEF Held, Closed, Init, Sound, HandlerSound, ChannelSound, SenderSound, HeardSound,
                 RetriedSound, CutSound, AnswerSound, Listening, Active

(* Arrivals, rejections, submissions.                                        *)
LEMMA EntrySound ==
  ASSUME ClientInv, NEW r \in Requests, Arrive(r) \/ Reject(r) \/ Submit(r)
  PROVE  \A q \in Requests : Sound(q)'
<1>. USE DEF Finish, Tell, availability_failure_response
<1>. ClientTypeOK /\ Sound(r)
  BY DEF ClientInv
<1>1. ASSUME NEW q \in Requests, q # r PROVE Untouched(q)
  <2>1. /\ pc'[q] = pc[q] /\ answer'[q] = answer[q] /\ place'[q] = place[q]
    BY <1>1 DEF Arrive, Reject, Submit, Accept, ClientTypeOK
  <2>2. delivered' = delivered /\ sent' = sent /\ channel' = channel /\ next_chunk' = next_chunk
        /\ cut' = cut /\ tasks' = tasks /\ canceled' = canceled
    BY DEF Arrive, Reject, Submit, Accept
  <2>3. (q \in armed' <=> q \in armed) /\ (q \in senders' <=> q \in senders)
    BY <1>1 DEF Arrive, Reject, Submit, Accept
  <2>4. requeues' = requeues /\ missed' = missed
    BY DEF Arrive, Reject, Submit, Accept
  <2>. QED  BY <2>1, <2>2, <2>3, <2>4 DEF Untouched
<1>2. ASSUME Arrive(r) PROVE Sound(r)'
  <2>1. /\ pc[r] = "new" /\ pc'[r] = "checking"
        /\ UNCHANGED <<answer, next_chunk, armed, delivered, cut, tasks, coreSide, channel>>
    BY <1>2 DEF Arrive, ClientTypeOK
  <2>. QED  BY <2>1 DEF Sound, HandlerSound, ChannelSound, SenderSound, HeardSound, RetriedSound, CutSound,
                        AnswerSound, Listening, Active
<1>3. ASSUME Reject(r) PROVE Sound(r)'
  <2>1. /\ pc[r] = "checking" /\ pc'[r] = "answered" /\ answer'[r] \in {"refused", "unavailable"}
        /\ UNCHANGED <<next_chunk, armed, delivered, cut, tasks, coreSide, channel>>
    BY <1>3 DEF Reject, ClientTypeOK
  <2>. QED  BY <2>1 DEF Sound, HandlerSound, ChannelSound, SenderSound, HeardSound, RetriedSound, CutSound,
                        AnswerSound, Listening, Active
<1>4. ASSUME Submit(r) PROVE Sound(r)'
  <2>1. /\ pc[r] = "checking"
        /\ UNCHANGED <<next_chunk, delivered, cut, tasks, canceled, requeues, sent, missed,
                       channel>>
    BY <1>4 DEF Submit
  <2>2. \/ /\ pc'[r] = "waiting" /\ answer'[r] = answer[r] /\ place'[r] \in {"queued", "in_flight"}
           /\ r \in senders' /\ r \in armed'
        \/ /\ pc'[r] = "answered" /\ answer'[r] = "unavailable" /\ place'[r] = place[r]
           /\ UNCHANGED <<senders, armed>>
    BY <1>4 DEF Submit, Accept, ClientTypeOK
  <2>3. channel[r] = <<>> /\ Len(channel[r]) = 0
    BY <2>1 DEF Sound, HandlerSound
  <2>7. sent[r] = 0 /\ delivered[r] = 0 /\ r \notin next_chunk
    BY <2>1 DEF Sound, HandlerSound
  <2>4. HandlerSound(r)' /\ SenderSound(r)' /\ HeardSound(r)' /\ RetriedSound(r)'
    BY <2>1, <2>2 DEF Sound, HandlerSound, SenderSound, HeardSound, RetriedSound, Listening, Active
  <2>5. ChannelSound(r)'
    BY <2>1, <2>2, <2>3, <2>7 DEF ChannelSound, Listening, Active, Held, Closed
  <2>6. CutSound(r)' /\ AnswerSound(r)'
    BY <2>1, <2>2 DEF Sound, HandlerSound, CutSound, AnswerSound
  <2>. QED  BY <2>4, <2>5, <2>6 DEF Sound
<1>. QED  BY <1>1, <1>2, <1>3, <1>4, UntouchedSound DEF ClientInv

(* A handler that receives, emits or is dropped touches no other request.     *)
LEMMA HandlerUntouched ==
  ASSUME ClientTypeOK, NEW r \in Requests, Hear(r) \/ Disconnect(r),
         NEW q \in Requests, q # r
  PROVE  Untouched(q)
<1>. USE DEF Finish, Tell, Disarm, availability_failure_response,
             response_complete_to_http_response
<1>1. /\ place' = place /\ sent' = sent /\ canceled' = canceled /\ senders' = senders
      /\ requeues' = requeues /\ missed' = missed
  BY DEF Disconnect, Hear, HearUnary, HearFirstChunk, HearFirstComplete,
         HearFirstFailure, EmitFirst, HearChunk, HearEnd, EndCut
<1>2. channel'[q] = channel[q]
  <2>1. \/ UNCHANGED channel \/ \E event : Receive(r, event)
        \/ channel' = [channel EXCEPT ![r] = <<>>]
    BY DEF Disconnect, Hear, HearUnary, HearFirstChunk, HearFirstComplete,
           HearFirstFailure, EmitFirst, HearChunk, HearEnd, EndCut
  <2>. QED  BY <2>1 DEF Receive, ClientTypeOK
<1>3. pc'[q] = pc[q] /\ answer'[q] = answer[q]
  BY DEF Disconnect, Hear, HearUnary, HearFirstChunk, HearFirstComplete,
         HearFirstFailure, EmitFirst, HearChunk, HearEnd, EndCut, Emit, ClientTypeOK
<1>4. delivered'[q] = delivered[q]
  BY DEF Disconnect, Hear, HearUnary, HearFirstChunk, HearFirstComplete,
         HearFirstFailure, EmitFirst, HearChunk, HearEnd, EndCut, Emit, ClientTypeOK
<1>5. (q \in armed' <=> q \in armed) /\ (q \in next_chunk' <=> q \in next_chunk)
  BY DEF Disconnect, Hear, HearUnary, HearFirstChunk, HearFirstComplete,
         HearFirstFailure, EmitFirst, HearChunk, HearEnd, EndCut, Emit
<1>6. (q \in cut' <=> q \in cut) /\ (q \in tasks' <=> q \in tasks)
  BY DEF Disconnect, Hear, HearUnary, HearFirstChunk, HearFirstComplete,
         HearFirstFailure, EmitFirst, HearChunk, HearEnd, EndCut, Emit
<1>. QED  BY <1>1, <1>2, <1>3, <1>4, <1>5, <1>6 DEF Untouched

(* The first event of a request: a response, an error, or a stream's first    *)
(* chunk.                                                                    *)
LEMMA FirstHeardSound ==
  ASSUME ClientInv, NEW r \in Requests,
         HearUnary(r) \/ HearFirstChunk(r) \/ HearFirstComplete(r) \/ HearFirstFailure(r)
  PROVE  Sound(r)'
<1>. USE DEF Finish, Tell, Disarm, availability_failure_response,
             response_complete_to_http_response
<1>. ClientTypeOK /\ Sound(r)
  BY DEF ClientInv
<1>1. /\ pc[r] = "waiting" /\ Listening(r) /\ delivered[r] = 0 /\ r \notin next_chunk
      /\ r \notin cut /\ r \notin tasks /\ r \in armed /\ answer[r] = "none"
      /\ UNCHANGED <<delivered, cut, coreSide>>
  BY DEF HearUnary, HearFirstChunk, HearFirstComplete, HearFirstFailure, Sound,
         HandlerSound, Listening
<1>2. ASSUME NEW event \in Final, Receive(r, event), pc'[r] = "answered",
             answer'[r] \in {"unavailable", "response"}, UNCHANGED next_chunk
      PROVE  Sound(r)'
  <2>1. place[r] = "gone" /\ sent[r] = delivered[r] + Held(r)
    BY <1>1, <1>2, ReceivedMeans, EventKinds
  <2>2. sent[r] = 0
    BY <1>1, <2>1, EventCounts
  <2>. QED  BY <1>1, <1>2, <2>1, <2>2 DEF Sound, HandlerSound, ChannelSound, SenderSound,
            HeardSound, RetriedSound, CutSound, AnswerSound, Listening, Active
<1>3. ASSUME HearFirstChunk(r) PROVE Sound(r)'
  <2>1. /\ r \in Streaming /\ pc'[r] = "streaming" /\ answer'[r] = "stream" /\ r \in next_chunk'
        /\ UNCHANGED <<armed, tasks>> /\ Receive(r, "chunk")
    BY <1>3 DEF HearFirstChunk, ClientTypeOK
  <2>2. /\ sent[r] = delivered[r] + 1 + Len(channel'[r]) + Held(r) - Closed(r)
        /\ \A i \in 1..Len(channel'[r]) :
             channel'[r][i] = "chunk" <=> (Active(r) \/ i < Len(channel'[r]))
        /\ ~Active(r) => Len(channel'[r]) > 0
    BY <1>1, <2>1, ReceivedMeans, EventKinds
  <2>3. Len(channel'[r]) \in Nat /\ sent[r] \in Nat /\ delivered[r] \in Nat
    BY ReceivedShape, <2>1 DEF ClientTypeOK
  <2>4. Active(r)' <=> Active(r)
    BY <1>1 DEF Active
  <2>5. Held(r) = 0 /\ Held(r)' = 1 /\ Closed(r)' = Closed(r) /\ Closed(r) \in {0, 1}
    BY <1>1, <2>1, <2>4 DEF Held, Closed
  <2>8. sent[r] = delivered[r] + Len(channel'[r]) + Held(r)' - Closed(r)'
    BY <2>2, <2>3, <2>5
  <2>9. ChannelSound(r)'
    BY <1>1, <2>2, <2>4, <2>8 DEF ChannelSound
  <2>6. HandlerSound(r)'
    BY <1>1, <2>1 DEF Sound, HandlerSound, Listening
  <2>7. SenderSound(r)' /\ HeardSound(r)' /\ RetriedSound(r)' /\ CutSound(r)' /\ AnswerSound(r)'
    BY <1>1, <2>1, <2>4
    DEF Sound, SenderSound, HeardSound, RetriedSound, CutSound, AnswerSound, Listening
  <2>. QED  BY <2>6, <2>7, <2>9 DEF Sound
<1>4. ASSUME HearUnary(r) \/ HearFirstComplete(r) \/ HearFirstFailure(r)
      PROVE  \E event \in Final :
               /\ Receive(r, event) /\ pc'[r] = "answered"
               /\ answer'[r] \in {"unavailable", "response"} /\ UNCHANGED next_chunk
  BY <1>4 DEF HearUnary, HearFirstComplete, HearFirstFailure, ClientTypeOK, Final
<1>. QED  BY <1>2, <1>3, <1>4

(* A body that passes a chunk on, or puts the error in its place: on was the  *)
(* chunk's place, next_chunk or the head of the channel.                      *)
LEMMA EmittedSound ==
  ASSUME ClientInv, NEW r \in Requests, EmitFirst(r) \/ HearChunk(r)
  PROVE  Sound(r)'
<1>. USE DEF Disarm, Finish
<1>. ClientTypeOK /\ Sound(r)
  BY DEF ClientInv
<1>1. /\ pc[r] = "streaming" /\ Listening(r) /\ r \notin cut /\ r \notin tasks /\ r \in armed
      /\ r \in Streaming /\ answer[r] = "stream" /\ place[r] # "none"
      /\ Emit(r) /\ UNCHANGED <<answer, tasks, coreSide>>
  BY DEF EmitFirst, HearChunk, Sound, HandlerSound, Listening
<1>2. sent[r] \in Nat /\ delivered[r] \in Nat /\ delivered[r] <= Limit /\ Limit \in Nat
  BY ClientAssumption DEF ClientTypeOK, Sound, CutSound
<1>3. /\ Len(channel'[r]) \in Nat /\ r \notin next_chunk'
      /\ sent[r] = delivered[r] + 1 + Len(channel'[r]) - Closed(r)
      /\ \A i \in 1..Len(channel'[r]) :
           channel'[r][i] = "chunk" <=> (Active(r) \/ i < Len(channel'[r]))
      /\ ~Active(r) => Len(channel'[r]) > 0
  <2>1. CASE EmitFirst(r)
    <3>1. r \in next_chunk /\ r \notin next_chunk' /\ channel' = channel
          /\ Len(channel[r]) \in Nat
      BY <2>1 DEF EmitFirst, ClientTypeOK
    <3>2. /\ \A i \in 1..Len(channel[r]) :
               channel[r][i] = "chunk" <=> (Active(r) \/ i < Len(channel[r]))
          /\ ~Active(r) => Len(channel[r]) > 0
          /\ sent[r] = delivered[r] + Len(channel[r]) + Held(r) - Closed(r)
      BY <1>1 DEF Sound, ChannelSound
    <3>3. Held(r) = 1 /\ Closed(r) \in {0, 1}
      BY <3>1, EventCounts
    <3>4. sent[r] = delivered[r] + 1 + Len(channel[r]) - Closed(r)
      BY <1>2, <3>1, <3>2, <3>3
    <3>. QED  BY <3>1, <3>2, <3>4
  <2>2. CASE HearChunk(r)
    <3>1. r \notin next_chunk /\ r \notin next_chunk' /\ Receive(r, "chunk")
      BY <2>2 DEF HearChunk
    <3>2. Len(channel'[r]) \in Nat
      BY <3>1, ReceivedShape
    <3>3. /\ sent[r] = delivered[r] + 1 + Len(channel'[r]) + Held(r) - Closed(r)
          /\ \A i \in 1..Len(channel'[r]) :
               channel'[r][i] = "chunk" <=> (Active(r) \/ i < Len(channel'[r]))
          /\ ~Active(r) => Len(channel'[r]) > 0
      BY <1>1, <3>1, ReceivedMeans, EventKinds
    <3>4. Held(r) = 0 /\ Closed(r) \in {0, 1}
      BY <3>1, EventCounts
    <3>5. sent[r] = delivered[r] + 1 + Len(channel'[r]) - Closed(r)
      BY <1>2, <3>2, <3>3, <3>4
    <3>. QED  BY <3>1, <3>2, <3>3, <3>5
  <2>. QED  BY <2>1, <2>2
<1>4. Active(r)' <=> Active(r)
  BY <1>1 DEF Active
<1>5. CASE TooLong(r)
  <2>1. /\ pc'[r] = "terminated" /\ r \in cut' /\ UNCHANGED delivered
    BY <1>1, <1>5 DEF Emit, ClientTypeOK
  <2>2. delivered[r] = Limit
    BY <1>2, <1>5 DEF TooLong
  <2>3. Len(channel'[r]) >= Closed(r)
    BY <1>3, EventCounts
  <2>4. sent[r] > Limit
    BY <1>2, <1>3, <2>2, <2>3, EventCounts
  <2>. QED  BY <1>1, <1>3, <1>4, <2>1, <2>2, <2>4 DEF Sound, HandlerSound, ChannelSound, SenderSound,
            HeardSound, RetriedSound, CutSound, AnswerSound, Listening
<1>6. CASE ~TooLong(r)
  <2>1. /\ delivered'[r] = delivered[r] + 1 /\ UNCHANGED <<pc, cut, armed>>
    BY <1>1, <1>6 DEF Emit, ClientTypeOK
  <2>2. delivered[r] + 1 <= Limit
    BY <1>2, <1>6 DEF TooLong
  <2>6. Held(r)' = 0 /\ Closed(r)' = Closed(r) /\ Closed(r) \in {0, 1}
    BY <1>3, <1>4 DEF Held, Closed
  <2>7. sent[r] = delivered'[r] + Len(channel'[r]) + Held(r)' - Closed(r)'
    BY <1>2, <1>3, <2>1, <2>6
  <2>3. ChannelSound(r)'
    BY <1>1, <1>3, <1>4, <2>7 DEF ChannelSound
  <2>4. HandlerSound(r)'
    BY <1>1, <1>3, <2>1 DEF Sound, HandlerSound, Listening
  <2>5. SenderSound(r)' /\ HeardSound(r)' /\ RetriedSound(r)' /\ CutSound(r)' /\ AnswerSound(r)'
    BY <1>1, <1>4, <2>1, <2>2
    DEF Sound, SenderSound, HeardSound, RetriedSound, CutSound, AnswerSound, Listening
  <2>. QED  BY <2>3, <2>4, <2>5 DEF Sound
<1>. QED  BY <1>5, <1>6

(* The end of a body, and a client that goes away.                            *)
LEMMA LeaveSound ==
  ASSUME ClientInv, NEW r \in Requests, HearEnd(r) \/ EndCut(r) \/ Disconnect(r)
  PROVE  Sound(r)'
<1>. USE DEF Finish, Disarm
<1>. ClientTypeOK /\ Sound(r)
  BY DEF ClientInv
<1>1. ASSUME HearEnd(r) PROVE Sound(r)'
  <2>1. /\ pc[r] = "streaming" /\ pc'[r] = "answered" /\ r \notin next_chunk
        /\ UNCHANGED <<answer, next_chunk, delivered, cut, tasks, coreSide>>
    BY <1>1 DEF HearEnd, ClientTypeOK
  <2>2. PICK event \in Final : Receive(r, event)
    BY <1>1 DEF HearEnd
  <2>3. Listening(r)
    BY <2>1 DEF Listening
  <2>4. place[r] = "gone" /\ sent[r] = delivered[r]
    <3>1. place[r] = "gone" /\ sent[r] = delivered[r] + Held(r)
      BY <2>2, <2>3, ReceivedMeans, EventKinds
    <3>2. delivered[r] \in Nat /\ Held(r) = 0
      BY <2>1, EventCounts DEF ClientTypeOK
    <3>3. sent[r] = delivered[r]
      BY <3>1, <3>2
    <3>. QED  BY <3>1, <3>3
  <2>. QED  BY <2>1, <2>4 DEF Sound, HandlerSound, ChannelSound, SenderSound, HeardSound, RetriedSound,
            CutSound, AnswerSound, Listening, Active
<1>2. ASSUME EndCut(r) PROVE Sound(r)'
  <2>1. /\ pc[r] = "terminated" /\ pc'[r] = "answered"
        /\ UNCHANGED <<answer, next_chunk, armed, delivered, cut, tasks, coreSide, channel>>
    BY <1>2 DEF EndCut, ClientTypeOK
  <2>. QED  BY <2>1 DEF Sound, HandlerSound, ChannelSound, SenderSound, HeardSound, RetriedSound,
            CutSound, AnswerSound, Listening, Active
<1>3. ASSUME Disconnect(r) PROVE Sound(r)'
  <2>1. /\ pc[r] \in {"checking", "waiting", "streaming", "terminated"} /\ pc'[r] = "left"
        /\ r \notin next_chunk' /\ (r \in armed \/ r \in tasks => r \in tasks')
        /\ UNCHANGED <<answer, delivered, cut, coreSide>>
    BY <1>3 DEF Disconnect, ClientTypeOK
  <2>2. HandlerSound(r)' /\ ChannelSound(r)' /\ SenderSound(r)' /\ CutSound(r)' /\ AnswerSound(r)'
    BY <2>1 DEF Sound, HandlerSound, ChannelSound, SenderSound, CutSound, AnswerSound,
                Listening, Active
  <2>3. HeardSound(r)' /\ RetriedSound(r)'
    BY <2>1 DEF Sound, HandlerSound, HeardSound, RetriedSound, Listening, Active
  <2>. QED  BY <2>2, <2>3 DEF Sound
<1>. QED  BY <1>1, <1>2, <1>3

(* The core lets a request go: its final event is sent.                       *)
LEMMA LetGoSound ==
  ASSUME ClientInv, NEW r \in Requests, Active(r), NEW event \in Final, Deliver(r, event),
         place'[r] = "gone", r \notin senders',
         UNCHANGED <<clientSide, tasks, requeues, sent, missed>>
  PROVE  Sound(r)'
<1>. ClientTypeOK /\ Sound(r)
  BY DEF ClientInv
<1>1. ~Active(r)' /\ event # "chunk" /\ event \in Events
  BY DEF Active, Events, Final
<1>2. /\ Len(channel[r]) \in Nat /\ sent[r] \in Nat /\ delivered[r] \in Nat
      /\ Held(r) \in {0, 1}
  BY <1>1, DeliveredShape, EventCounts DEF ClientTypeOK
<1>3. UNCHANGED <<Held(r), sent[r], delivered[r]>> /\ Closed(r)' = 1 /\ Closed(r) = 0
      /\ (Listening(r)' <=> Listening(r))
  BY <1>1 DEF Held, Closed, Listening
<1>4. HandlerSound(r)'
  BY DEF Sound, HandlerSound, Listening, Active
<1>5. ASSUME Listening(r)
      PROVE  /\ \A i \in 1..Len(channel'[r]) :
                  channel'[r][i] = "chunk" <=> i < Len(channel'[r])
             /\ Len(channel'[r]) > 0
             /\ sent[r] = delivered[r] + Len(channel'[r]) + Held(r) - 1
  <2>1. Len(channel'[r]) \in Nat /\ Len(channel'[r]) = Len(channel[r]) + 1
    BY <1>1, <1>5, DeliveredShape
  <2>2. /\ channel'[r][Len(channel[r]) + 1] = event
        /\ \A i \in 1..Len(channel[r]) : channel'[r][i] = channel[r][i]
    BY <1>1, <1>5, DeliveredShape
  <2>3. \A i \in 1..Len(channel[r]) : channel[r][i] = "chunk"
    BY <1>5 DEF Sound, ChannelSound
  <2>4. sent[r] = delivered[r] + Len(channel[r]) + Held(r) - Closed(r)
    BY <1>5 DEF Sound, ChannelSound
  <2>5. sent[r] = delivered[r] + Len(channel'[r]) + Held(r) - 1
    BY <1>2, <1>3, <2>1, <2>4
  <2>6. ASSUME NEW i \in 1..Len(channel'[r])
        PROVE  channel'[r][i] = "chunk" <=> i < Len(channel'[r])
    <3>1. CASE i < Len(channel'[r])
      <4>1. i \in 1..Len(channel[r])
        BY <1>2, <2>1, <3>1
      <4>. QED  BY <2>2, <2>3, <3>1, <4>1
    <3>2. CASE ~(i < Len(channel'[r]))
      <4>1. i = Len(channel[r]) + 1
        BY <1>2, <2>1, <3>2
      <4>. QED  BY <1>1, <2>2, <3>2, <4>1
    <3>. QED  BY <3>1, <3>2
  <2>7. Len(channel'[r]) > 0
    BY <1>2, <2>1
  <2>. QED  BY <2>5, <2>6, <2>7
<1>7. ChannelSound(r)'
  BY <1>1, <1>3, <1>5 DEF ChannelSound
<1>6. SenderSound(r)' /\ HeardSound(r)' /\ RetriedSound(r)' /\ CutSound(r)' /\ AnswerSound(r)'
  BY <1>1 DEF Sound, SenderSound, HeardSound, RetriedSound, CutSound, AnswerSound, Active
<1>. QED  BY <1>4, <1>6, <1>7 DEF Sound

LEMMA FailSound ==
  ASSUME ClientInv, NEW r \in Requests, Active(r), Fail(r)
  PROVE  \A q \in Requests : Sound(q)'
<1>. ClientTypeOK /\ Sound(r)
  BY DEF ClientInv
<1>1. Sound(r)'
  <2>1. r \in senders
    BY DEF Sound, SenderSound
  <2>2. /\ Deliver(r, "failure") /\ place'[r] = "gone" /\ r \notin senders'
        /\ UNCHANGED <<clientSide, tasks, requeues, sent, missed>>
    BY <2>1 DEF Fail, ClientTypeOK
  <2>. QED  BY <2>2, LetGoSound DEF Final
<1>2. ASSUME NEW q \in Requests, q # r PROVE Untouched(q)
  <2>1. channel'[q] = channel[q]
    BY <1>2 DEF Fail, Deliver, ClientTypeOK
  <2>2. place'[q] = place[q] /\ (q \in senders' <=> q \in senders)
        /\ (q \in canceled' <=> q \in canceled)
    BY <1>2 DEF Fail, ClientTypeOK
  <2>. QED  BY <2>1, <2>2 DEF Fail, Untouched
<1>. QED  BY <1>1, <1>2, UntouchedSound DEF ClientInv

LEMMA CompletesSound ==
  ASSUME ClientInv, NEW r \in Requests, WorkerCompletes(r)
  PROVE  \A q \in Requests : Sound(q)'
<1>. ClientTypeOK /\ Sound(r)
  BY DEF ClientInv
<1>1. Active(r) /\ place[r] = "in_flight"
  BY DEF WorkerCompletes, Active
<1>2. \/ place' = [place EXCEPT ![r] = "gone"]
      \/ \E q \in Requests :
           /\ place[q] \in {"queued", "astray"}
           /\ place' = [place EXCEPT ![r] = "gone", ![q] = "in_flight"]
  BY LeavesWaiting DEF WorkerCompletes
<1>4. place'[r] = "gone"
  BY <1>1, <1>2 DEF ClientTypeOK
<1>5. \A q \in Requests \ {r} :
        \/ place'[q] = place[q]
        \/ place[q] \in {"queued", "astray"} /\ place'[q] = "in_flight"
  BY <1>2 DEF ClientTypeOK
<1>6. Sound(r)'
  BY <1>1, <1>4, LetGoSound DEF WorkerCompletes, Final
<1>7. ASSUME NEW q \in Requests, q # r PROVE Untouched(q)
  <2>1. channel'[q] = channel[q]
    BY <1>7 DEF WorkerCompletes, Deliver, ClientTypeOK
  <2>2. (q \in senders' <=> q \in senders) /\ (q \in canceled' <=> q \in canceled)
    BY <1>7 DEF WorkerCompletes
  <2>. QED  BY <1>5, <1>7, <2>1, <2>2 DEF WorkerCompletes, Untouched
<1>. QED  BY <1>6, <1>7, UntouchedSound DEF ClientInv

LEMMA ChunkSound ==
  ASSUME ClientInv, NEW r \in Requests, WorkerSendsChunk(r)
  PROVE  \A q \in Requests : Sound(q)'
<1>. ClientTypeOK /\ Sound(r)
  BY DEF ClientInv
<1>1. Active(r) /\ place[r] = "in_flight" /\ r \in Streaming /\ r \in senders
  BY DEF WorkerSendsChunk, Active, Sound, SenderSound
<1>2. /\ Deliver(r, "chunk") /\ sent'[r] = sent[r] + 1
      /\ UNCHANGED <<clientSide, tasks, place, queue, canceled, senders, requeues, missed>>
  BY <1>1 DEF WorkerSendsChunk, ClientTypeOK
<1>3. /\ Len(channel[r]) \in Nat /\ sent[r] \in Nat /\ delivered[r] \in Nat
      /\ Held(r) \in {0, 1} /\ Limit \in Nat
  BY <1>2, DeliveredShape, EventCounts, EventKinds, ClientAssumption DEF ClientTypeOK
<1>4. /\ (Active(r)' <=> Active(r)) /\ Closed(r)' = 0 /\ Closed(r) = 0 /\ Held(r)' = Held(r)
      /\ (Listening(r)' <=> Listening(r))
  BY <1>1, <1>2 DEF Active, Held, Closed, Listening
<1>5. HandlerSound(r)'
  BY <1>1, <1>2 DEF Sound, HandlerSound, Listening
<1>6. ASSUME Listening(r)
      PROVE  /\ \A i \in 1..Len(channel'[r]) : channel'[r][i] = "chunk"
             /\ sent'[r] = delivered[r] + Len(channel'[r]) + Held(r)
  <2>1. Len(channel'[r]) \in Nat /\ Len(channel'[r]) = Len(channel[r]) + 1
    BY <1>2, <1>6, DeliveredShape, EventKinds
  <2>2. /\ channel'[r][Len(channel[r]) + 1] = "chunk"
        /\ \A i \in 1..Len(channel[r]) : channel'[r][i] = channel[r][i]
    BY <1>2, <1>6, DeliveredShape, EventKinds
  <2>3. \A i \in 1..Len(channel[r]) : channel[r][i] = "chunk"
    BY <1>1, <1>6 DEF Sound, ChannelSound
  <2>4. sent[r] = delivered[r] + Len(channel[r]) + Held(r) - Closed(r)
    BY <1>6 DEF Sound, ChannelSound
  <2>5. sent'[r] = delivered[r] + Len(channel'[r]) + Held(r)
    BY <1>2, <1>3, <1>4, <2>1, <2>4
  <2>6. ASSUME NEW i \in 1..Len(channel'[r]) PROVE channel'[r][i] = "chunk"
    <3>1. i \in 1..Len(channel[r]) \/ i = Len(channel[r]) + 1
      BY <1>3, <2>1
    <3>. QED  BY <2>2, <2>3, <3>1
  <2>. QED  BY <2>5, <2>6
<1>7. ChannelSound(r)'
  <2>. SUFFICES ASSUME Listening(r)
                PROVE  /\ \A i \in 1..Len(channel'[r]) : channel'[r][i] = "chunk"
                       /\ sent'[r] = delivered[r] + Len(channel'[r]) + Held(r) - 0
    BY <1>1, <1>2, <1>4 DEF ChannelSound
  <2>1. sent'[r] = delivered[r] + Len(channel'[r]) + Held(r)
    BY <1>6
  <2>2. Len(channel'[r]) \in Nat
    BY <1>2, DeliveredShape, EventKinds
  <2>3. sent'[r] = delivered[r] + Len(channel'[r]) + Held(r) - 0
    BY <1>3, <2>1, <2>2
  <2>. QED  BY <1>6, <2>3
<1>8. SenderSound(r)' /\ HeardSound(r)' /\ RetriedSound(r)' /\ AnswerSound(r)'
  BY <1>1, <1>2, <1>4 DEF Sound, SenderSound, HeardSound, RetriedSound, AnswerSound
<1>9. CutSound(r)'
  <2>1. delivered'[r] = delivered[r] /\ (r \in cut' <=> r \in cut)
    BY <1>2
  <2>2. delivered[r] <= Limit /\ (r \in cut => delivered[r] = Limit /\ sent[r] > Limit)
    BY DEF Sound, CutSound
  <2>. QED  BY <1>2, <1>3, <2>1, <2>2 DEF CutSound
<1>10. ASSUME NEW q \in Requests, q # r PROVE Untouched(q)
  <2>1. channel'[q] = channel[q] /\ sent'[q] = sent[q]
    BY <1>2, <1>10 DEF WorkerSendsChunk, Deliver, ClientTypeOK
  <2>. QED  BY <1>2, <2>1 DEF Untouched
<1>. QED  BY <1>5, <1>7, <1>8, <1>9, <1>10, UntouchedSound DEF ClientInv, Sound

(* The cancellation a guard spawned.  Its handler is gone, so nobody listens. *)
LEMMA CancelSound ==
  ASSUME ClientInv, NEW r \in Requests, RunCancel(r)
  PROVE  \A q \in Requests : Sound(q)'
<1>. ClientTypeOK /\ Sound(r)
  BY DEF ClientInv
<1>1. r \in tasks /\ pc[r] \in {"answered", "left"} /\ ~Listening(r)
  BY DEF RunCancel, Sound, HandlerSound, Listening, ClientTypeOK
<1>2. UNCHANGED <<clientSide, requeues, sent, channel>>
  BY DEF RunCancel
<1>3. \/ /\ place[r] = "queued" /\ place'[r] = "gone" /\ r \notin senders'
         /\ UNCHANGED missed
      \/ /\ place[r] = "in_flight" /\ place' = place /\ senders' = senders /\ r \in canceled'
         /\ UNCHANGED missed
      \/ place[r] \in {"none", "gone"} /\ UNCHANGED <<place, senders, canceled, missed>>
      \/ place[r] = "astray" /\ UNCHANGED <<place, senders, canceled>> /\ r \in missed'
  BY DEF RunCancel, ClientTypeOK
<1>4. HandlerSound(r)'
  BY <1>1, <1>2, <1>3 DEF Sound, HandlerSound, Listening
<1>5. ChannelSound(r)'
  BY <1>1, <1>2 DEF ChannelSound, Listening
<1>6. SenderSound(r)' /\ HeardSound(r)' /\ RetriedSound(r)'
  BY <1>2, <1>3 DEF Sound, SenderSound, HeardSound, RetriedSound, Active
<1>7. CutSound(r)' /\ AnswerSound(r)'
  BY <1>2, <1>3 DEF Sound, CutSound, AnswerSound
<1>8. ASSUME NEW q \in Requests, q # r PROVE Untouched(q)
  <2>1. place'[q] = place[q] /\ (q \in tasks' <=> q \in tasks)
        /\ (q \in canceled' <=> q \in canceled) /\ (q \in senders' <=> q \in senders)
        /\ (q \in missed' <=> q \in missed)
    BY <1>8 DEF RunCancel, ClientTypeOK
  <2>. QED  BY <1>2, <2>1 DEF Untouched
<1>. QED  BY <1>4, <1>5, <1>6, <1>7, <1>8, UntouchedSound DEF ClientInv, Sound

LEMMA InvStep ==
  ASSUME ClientInv, [Next]_vars
  PROVE  ClientInv'
<1>. SUFFICES \A q \in Requests : Sound(q)'
  BY ClientTypeStep DEF ClientInv
<1>. ClientTypeOK
  BY DEF ClientInv
<1>1. ASSUME NEW r \in Requests, Hear(r) \/ Disconnect(r) PROVE \A q \in Requests : Sound(q)'
  <2>1. Sound(r)'
    BY <1>1, FirstHeardSound, EmittedSound, LeaveSound DEF Hear
  <2>. QED  BY <1>1, <2>1, HandlerUntouched, UntouchedSound DEF ClientInv
<1>2. ASSUME NEW r \in Requests, CoreStep(r) PROVE \A q \in Requests : Sound(q)'
  <2>1. CASE RunCancel(r)
    BY <2>1, CancelSound
  <2>2. CASE WorkerSendsChunk(r)
    BY <2>2, ChunkSound
  <2>3. CASE WorkerCompletes(r)
    BY <2>3, CompletesSound
  <2>4. CASE CoreFails(r)
    BY <2>4, FailSound DEF CoreFails, CoreHolds, Active
  <2>5. CASE WorkerLost(r)
    <3>1. CASE Fail(r)
      BY <2>5, <3>1, FailSound DEF WorkerLost, Active
    <3>2. ASSUME NEW where \in {"queued", "astray"}, place' = [place EXCEPT ![r] = where],
                 requeues' = [requeues EXCEPT ![r] = @ + 1],
                 UNCHANGED <<clientSide, tasks, canceled, senders, sent, missed, channel>>
          PROVE  \A q \in Requests : Sound(q)'
      <4>1. ASSUME NEW q \in Requests PROVE Untouched(q)
        <5>1. place'[q] = IF q = r THEN where ELSE place[q]
          BY <3>2 DEF ClientTypeOK
        <5>2. requeues'[q] = IF q = r THEN requeues[q] + 1 ELSE requeues[q]
          BY <3>2 DEF ClientTypeOK
        <5>3. requeues[q] \in Nat /\ place[r] = "in_flight"
          BY <2>5 DEF WorkerLost, ClientTypeOK
        <5>4. requeues'[q] = requeues[q] \/ requeues'[q] > 0
          BY <5>2, <5>3
        <5>5. q = r => requeues'[q] > 0
          BY <5>2, <5>3
        <5>. QED  BY <3>2, <5>1, <5>3, <5>4, <5>5 DEF Untouched
      <4>. QED  BY <4>1, UntouchedSound DEF ClientInv
    <3>. QED  BY <2>5, <3>1, <3>2 DEF WorkerLost
  <2>6. CASE WorkerTakes(r)
    <3>1. ASSUME NEW q \in Requests PROVE Untouched(q)
      <4>1. place[r] \in {"queued", "astray"}
        BY <2>6, LeavesWaiting DEF WorkerTakes
      <4>2. place'[q] = IF q = r THEN "in_flight" ELSE place[q]
        BY <2>6 DEF WorkerTakes, ClientTypeOK
      <4>. QED  BY <2>6, <4>1, <4>2 DEF WorkerTakes, Untouched
    <3>. QED  BY <3>1, UntouchedSound DEF ClientInv
  <2>. QED  BY <1>2, <2>1, <2>2, <2>3, <2>4, <2>5, <2>6 DEF CoreStep
<1>4. CASE UNCHANGED vars
  <2>1. ASSUME NEW q \in Requests PROVE Untouched(q)
    BY <1>4 DEF vars, Untouched
  <2>. QED  BY <2>1, UntouchedSound DEF ClientInv
<1>. QED  BY <1>1, <1>2, <1>4, EntrySound DEF Next

LEMMA Invariance == Spec => []ClientInv
<1>1. ClientInv /\ [Next]_vars => ClientInv'
  BY InvStep
<1>. QED  BY <1>1, InvInit, PTL DEF Spec

-----------------------------------------------------------------------------
(* The handlers, the guards and the core's tables keep their shape, and the   *)
(* queue holds each queued request once (http.rs and lib.rs).                *)
THEOREM ClientTypeCorrect == Spec => []ClientTypeOK
<1>1. ClientInv => ClientTypeOK
  BY DEF ClientInv
<1>. QED  BY <1>1, Invariance, PTL

(* Whatever a client does at any await of its handler or its body, what the   *)
(* core holds for it has a listener, a cancellation on its way or one that    *)
(* was issued, but for a stream the size limit cut and for a request that     *)
(* lost a worker and whose cancellation looked for it in the wrong queue.     *)
THEOREM NobodyWorksUnheard == Spec => []NoUnheardWork
<1>1. ClientInv => NoUnheardWork
  BY DEF ClientInv, Sound, HeardSound, RetriedSound, NoUnheardWork, Active, CoreHolds
<1>. QED  BY <1>1, Invariance, PTL

(* A stream is cut only when its workers sent more than the limit, and only   *)
(* after the whole of the limit was passed on.                               *)
THEOREM CutOnlyAtTheLimit == Spec => []CutAtTheLimit
<1>1. ClientInv => CutAtTheLimit
  BY DEF ClientInv, Sound, CutSound, CutAtTheLimit
<1>. QED  BY <1>1, Invariance, PTL

(* A stream that ends uncut has passed on every chunk any of its workers sent, *)
(* for any number of lost workers and retries.                               *)
THEOREM StreamsEndWhole == Spec => []EndedStreamIsWhole
<1>1. ClientInv => EndedStreamIsWhole
  <2>. SUFFICES ASSUME ClientInv, NEW r \in Streaming, pc[r] = "answered", r \notin cut
                PROVE  delivered[r] = sent[r]
    BY DEF EndedStreamIsWhole
  <2>1. r \in Requests
    BY ClientAssumption
  <2>. QED  BY <2>1 DEF ClientInv, Sound, HandlerSound
<1>. QED  BY <1>1, Invariance, PTL

(* A client that got a 503 or a plain response has no work left in the core.  *)
THEOREM AnswersAreFinal == Spec => []AnswerIsFinal
<1>1. ClientInv => AnswerIsFinal
  BY DEF ClientInv, Sound, AnswerSound, AnswerIsFinal
<1>. QED  BY <1>1, Invariance, PTL
=============================================================================
