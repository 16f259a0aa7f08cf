--------------------------- MODULE RelayLinkProofs ---------------------------
(***************************************************************************)
(* Proofs about RelayLink, for any number of sessions, requests, slots,    *)
(* pings and refreshes.                                                    *)
(*                                                                         *)
(* What one end may conclude from a message depends on what is still on    *)
(* its way: the proxy counts a task against max_concurrent because the     *)
(* request was written once, is either unread, at work, or answered, and   *)
(* the answer is the last thing said about it.  PipelineInv below follows  *)
(* each request through the connection, the daemon's tasks and its event   *)
(* channel.                                                                *)
(***************************************************************************)
EXTENDS RelayLink, SeqFilterProofs

USE DEF daemonVars, linkVars, coreVars, signalVars, callVars, loopVars

-----------------------------------------------------------------------------
(* Channels. *)

(* After the member last of the sequence s, no member of about follows. *)
LastOf(s, last, about) ==
  \A i, j \in DOMAIN s : i < j /\ s[i] = last => s[j] \notin about

(* What reading the first message of a channel leaves in it. *)
LEMMA TailProperties ==
  ASSUME NEW S, NEW s \in Seq(S), s # <<>>
  PROVE  /\ Tail(s) \in Seq(S) /\ Head(s) \in S
         /\ Head(s) \in Members(s) /\ Members(Tail(s)) \subseteq Members(s)
         /\ \A last, about : LastOf(s, last, about) =>
              /\ LastOf(Tail(s), last, about)
              /\ Head(s) = last => Members(Tail(s)) \cap about = {}
<1>. DEFINE t == Tail(s)
<1>1. /\ t \in Seq(S) /\ Len(s) \in Nat /\ Len(s) > 0 /\ Len(t) = Len(s) - 1
      /\ DOMAIN s = 1..Len(s) /\ DOMAIN t = 1..Len(t)
      /\ \A i \in 1..Len(t) : t[i] = s[i + 1]
      /\ Head(s) = s[1] /\ s[1] \in S
  OBVIOUS
<1>. HIDE DEF t
<1>2. \A i \in DOMAIN t : i + 1 \in DOMAIN s /\ i + 1 > 1
  BY <1>1
<1>3. 1 \in DOMAIN s
  BY <1>1
<1>4. Head(s) \in Members(s) /\ Members(t) \subseteq Members(s)
  BY <1>1, <1>2, <1>3 DEF Members
<1>5. ASSUME NEW last, NEW about, LastOf(s, last, about)
      PROVE  LastOf(t, last, about) /\ (Head(s) = last => Members(t) \cap about = {})
  <2>1. LastOf(t, last, about)
    <3>. SUFFICES ASSUME NEW i \in DOMAIN t, NEW j \in DOMAIN t, i < j, t[i] = last
                  PROVE  t[j] \notin about
      BY DEF LastOf
    <3>1. i + 1 < j + 1
      BY <1>1
    <3>. QED  BY <1>1, <1>2, <1>5, <3>1 DEF LastOf
  <2>2. ASSUME Head(s) = last, NEW j \in DOMAIN t PROVE t[j] \notin about
    BY <1>1, <1>2, <1>3, <1>5, <2>2 DEF LastOf
  <2>. QED  BY <2>1, <2>2 DEF Members
<1>. QED  BY <1>1, <1>4, <1>5 DEF t

(* What is written behind a channel's messages. *)
LEMMA WriteProperties ==
  ASSUME NEW S, NEW s \in Seq(S), NEW t \in Seq(S), NEW last, NEW about,
         LastOf(s, last, about), LastOf(t, last, about),
         last \notin Members(s) \/ Members(t) \cap about = {}
  PROVE  LastOf(s \o t, last, about)
<1>. DEFINE u == s \o t
<1>1. /\ DOMAIN u = 1..(Len(s) + Len(t)) /\ Len(s) \in Nat /\ Len(t) \in Nat
      /\ DOMAIN s = 1..Len(s) /\ DOMAIN t = 1..Len(t)
      /\ \A i \in 1..Len(s) : u[i] = s[i]
      /\ \A i \in DOMAIN u : i \in 1..Len(s) \/ (i - Len(s) \in 1..Len(t) /\ u[i] = t[i - Len(s)])
  OBVIOUS
<1>. HIDE DEF u
<1>. SUFFICES ASSUME NEW i \in DOMAIN u, NEW j \in DOMAIN u, i < j, u[i] = last
              PROVE  u[j] \notin about
  BY DEF LastOf, u
<1>2. CASE j \in 1..Len(s)
  <2>1. i \in DOMAIN s /\ j \in DOMAIN s /\ s[i] = last /\ u[j] = s[j]
    BY <1>1, <1>2
  <2>. QED  BY <2>1 DEF LastOf
<1>3. CASE j \notin 1..Len(s) /\ i \in 1..Len(s)
  BY <1>1, <1>3 DEF Members
<1>4. CASE j \notin 1..Len(s) /\ i \notin 1..Len(s)
  <2>1. /\ i - Len(s) \in DOMAIN t /\ j - Len(s) \in DOMAIN t /\ i - Len(s) < j - Len(s)
        /\ t[i - Len(s)] = last /\ u[j] = t[j - Len(s)]
    BY <1>1, <1>4
  <2>. QED  BY <2>1 DEF LastOf
<1>. QED  BY <1>2, <1>3, <1>4

(* One message, or an answer and the note that the task is done. *)
LEMMA ShortChannels ==
  /\ Members(<<>>) = {}
  /\ \A last, about : LastOf(<<>>, last, about)
  /\ \A x : Members(<<x>>) = {x} /\ \A last, about : LastOf(<<x>>, last, about)
  /\ \A x, y : /\ Members(<<x, y>>) = {x, y}
              /\ \A last, about : y \notin about => LastOf(<<x, y>>, last, about)
BY DEF Members, LastOf

(* Writing one message is writing a channel of one message. *)
LEMMA AppendIsJoin ==
  ASSUME NEW S, NEW s \in Seq(S), NEW x \in S
  PROVE  Append(s, x) = s \o <<x>>
OBVIOUS

(* One message written behind the others. *)
LEMMA OneMore ==
  ASSUME NEW S, NEW s \in Seq(S), NEW x \in S, NEW last, NEW about, LastOf(s, last, about),
         last \notin Members(s) \/ x \notin about
  PROVE  /\ s \o <<x>> \in Seq(S)
         /\ Members(s \o <<x>>) = Members(s) \cup {x}
         /\ LastOf(s \o <<x>>, last, about)
<1>. DEFINE t == <<x>>
<1>1. t \in Seq(S)
  OBVIOUS
<1>2. Members(t) = {x} /\ LastOf(t, last, about)
  BY ShortChannels
<1>. HIDE DEF t
<1>3. s \o t \in Seq(S) /\ Members(s \o t) = Members(s) \cup {x}
  BY <1>1, <1>2, JoinProperties
<1>4. LastOf(s \o t, last, about)
  BY <1>1, <1>2, WriteProperties
<1>. QED  BY <1>3, <1>4 DEF t

-----------------------------------------------------------------------------
(* Messages. *)

Request(r)  == Msg("Request", r)
Chunk(r)    == Msg("ResponseChunk", r)
Complete(r) == Msg("ResponseComplete", r)

RequestKinds == {"Request", "Cancel", "ResponseChunk", "ResponseComplete", "none"}
PlainKinds == {"GracefulShutdown", "ModelsRefresh", "Close", "Ping", "Pong",
               "ModelsUpdate", "Register"}

Message == [type : RequestKinds, id : Requests] \cup [type : PlainKinds, id : {0}]

Event == {Outbound(m) : m \in Message} \cup {RequestFinished(r) : r \in Requests}
           \cup {RequestFailed(r) : r \in Requests}

(* What the daemon says about a request, on the connection and before that in *)
(* its event channel.                                                         *)
About(r) == {Chunk(r), Complete(r)}
Events(r) == {Outbound(Chunk(r)), Outbound(Complete(r))}

(* The messages and events the two programs build are messages and events. *)
LEMMA MessagesTyped ==
  /\ \A r \in Requests :
       /\ Request(r) \in Message /\ Chunk(r) \in Message /\ Complete(r) \in Message
       /\ Msg("Cancel", r) \in Message /\ Msg("none", r) \in Message
  /\ \A kind \in PlainKinds : Plainly(kind) \in Message
  /\ \A m \in Message : Outbound(m) \in Event
  /\ \A r \in Requests : RequestFinished(r) \in Event /\ RequestFailed(r) \in Event
<1>1. /\ \A r \in Requests, kind \in RequestKinds : Msg(kind, r) \in Message
      /\ \A kind \in PlainKinds : Plainly(kind) \in Message
  BY DEF Message, Msg, Plainly
<1>2. \A r \in Requests :
       /\ Request(r) \in Message /\ Chunk(r) \in Message /\ Complete(r) \in Message
       /\ Msg("Cancel", r) \in Message /\ Msg("none", r) \in Message
  BY <1>1 DEF Request, Chunk, Complete, RequestKinds
<1>. QED  BY <1>1, <1>2 DEF Event

(* A message is known by its type and its id. *)
LEMMA MessageKinds ==
  ASSUME NEW m \in Message
  PROVE  /\ m.type = "Request" => m.id \in Requests /\ m = Request(m.id)
         /\ m.type = "Cancel" => m.id \in Requests
         /\ m.type = "ResponseChunk" => m.id \in Requests /\ m = Chunk(m.id)
         /\ m.type = "ResponseComplete" => m.id \in Requests /\ m = Complete(m.id)
BY DEF Message, Msg, Request, Chunk, Complete, RequestKinds, PlainKinds

(* So is an event. *)
LEMMA EventKinds ==
  ASSUME NEW e \in Event
  PROVE  /\ e.type = "Outbound" => e.message \in Message /\ e = Outbound(e.message)
         /\ e.type = "RequestFinished" =>
              e.message.id \in Requests /\ e = RequestFinished(e.message.id)
<1>1. CASE \E m \in Message : e = Outbound(m)
  BY <1>1 DEF Outbound
<1>2. CASE \E r \in Requests : e = RequestFinished(r)
  BY <1>2 DEF RequestFinished, Msg
<1>3. CASE \E r \in Requests : e = RequestFailed(r)
  BY <1>3 DEF RequestFailed
<1>. QED  BY <1>1, <1>2, <1>3 DEF Event

(* Messages and events about different requests, and of different kinds, are  *)
(* different.                                                                 *)
LEMMA KindsDiffer ==
  ASSUME NEW r, NEW q
  PROVE  /\ Request(r) = Request(q) => r = q
         /\ Request(r) \notin About(q)
         /\ Chunk(r) # Complete(q)
         /\ \A kind : kind \notin {"Request", "ResponseChunk", "ResponseComplete"} =>
              Msg(kind, r) # Request(q) /\ Msg(kind, r) \notin About(q)
         /\ Chunk(r) \in About(q) \/ Complete(r) \in About(q) => r = q
         /\ RequestFinished(r) = RequestFinished(q) => r = q
         /\ RequestFinished(r) \notin Events(q) /\ RequestFailed(r) \notin Events(q)
         /\ RequestFailed(r) # RequestFinished(q)
         /\ \A m : /\ Outbound(m) \in Events(q) <=> m \in About(q)
                  /\ Outbound(m) = Outbound(Complete(q)) <=> m = Complete(q)
                  /\ Outbound(m) # RequestFinished(q)
<1>1. \A m, k : /\ Outbound(m) = Outbound(k) <=> m = k
               /\ \A x : Outbound(m) # RequestFinished(x) /\ Outbound(m) # RequestFailed(x)
  BY DEF Outbound, RequestFinished, RequestFailed
<1>2. /\ RequestFinished(r) = RequestFinished(q) => r = q
      /\ RequestFailed(r) # RequestFinished(q)
  BY DEF RequestFinished, RequestFailed, Msg
<1>. QED  BY <1>1, <1>2 DEF Request, Chunk, Complete, About, Events, Msg

-----------------------------------------------------------------------------
(* Types. *)

(* The daemon and the connections; LinkTypeOK says nothing of what is in the  *)
(* channels.                                                                  *)
DaemonTyped ==
  /\ pc \in {"backoff", "running", "refreshing"} /\ number \in 0..MaxSessions
  /\ active_requests \subseteq Requests /\ tasks \subseteq Session \X Requests
  /\ shutting_down \in BOOLEAN
  /\ ended \in [Session -> {"none", "graceful", "dropped", "failed", "error"}]
  /\ InSession => number \in Session
  /\ ~InSession => event_rx = <<>>

ChannelsTyped ==
  /\ event_rx \in Seq(Event)
  /\ to_worker \in [Session -> Seq(Message)]
  /\ to_server \in [Session -> Seq(Message)]
  /\ link \in [Session -> LinkState]

(* The proxy's end; a registered session's loop runs, and whatever is         *)
(* assigned is assigned to a registered session.                              *)
CoreTyped ==
  /\ turn \in [Session -> Turn]
  /\ place \in [Requests -> {"queued", "pending", "sent", "done"}]
  /\ owner \in [Requests -> 0..MaxSessions]
  /\ \A r \in Requests : owner[r] # 0 <=> place[r] \in {"pending", "sent"}
  /\ canceled \subseteq Requests /\ cancel_signals \subseteq {r \in canceled : owner[r] # 0}
  /\ drain_signals \subseteq draining /\ draining \subseteq workers
  /\ workers \subseteq Session /\ disconnect_reasons \subseteq Session \ workers
  /\ \A n \in Session : turn[n] = "none" <=> n > number
  /\ \A n \in workers : InLoop(n)
  /\ \A n \in disconnect_reasons : turn[n] \notin {"none", "register"}
  /\ \A r \in Requests : owner[r] # 0 => owner[r] \in workers
  /\ IsFiniteSet({r \in Requests : owner[r] # 0})

LinkTyped == DaemonTyped /\ ChannelsTyped /\ CoreTyped

(* Nothing is connected, assigned or sent at the start. *)
LEMMA LinkTypedInit == Init => LinkTyped
<1>. SUFFICES ASSUME Init PROVE LinkTyped
  OBVIOUS
<1>1. MaxSessions \in Nat
  BY DaemonAssumption
<1>2. DaemonTyped
  <2>1. /\ pc = "backoff" /\ number = 0 /\ active_requests = {} /\ tasks = {}
        /\ event_rx = <<>> /\ shutting_down = FALSE
        /\ ended = [n \in Session |-> "none"]
    BY DEF Init, DaemonInit
  <2>2. ~InSession
    BY <2>1 DEF InSession
  <2>3. number \in 0..MaxSessions /\ tasks \subseteq Session \X Requests
    BY <1>1, <2>1
  <2>4. ended \in [Session -> {"none", "graceful", "dropped", "failed", "error"}]
    BY <2>1
  <2>. QED  BY <2>1, <2>2, <2>3, <2>4, Zenon DEF DaemonTyped
<1>3. ChannelsTyped
  <2>1. <<>> \in Seq(Event) /\ <<>> \in Seq(Message)
    OBVIOUS
  <2>. QED  BY <2>1 DEF Init, DaemonInit, ChannelsTyped, LinkState
<1>4. CoreTyped
  <2>1. {r \in Requests : owner[r] # 0} = {}
    BY DEF Init
  <2>2. IsFiniteSet({r \in Requests : owner[r] # 0})
    BY <2>1, FS_EmptySet
  <2>. QED  BY <1>1, <2>2 DEF Init, DaemonInit, CoreTyped, Turn, Session, InLoop
<1>. QED  BY <1>2, <1>3, <1>4 DEF LinkTyped

(* A message arriving at the daemon, and what reading it leaves. *)
LEMMA IncomingProperties ==
  ASSUME LinkTyped, NEW type, Incoming(type)
  PROVE  /\ number \in Session /\ InSession
         /\ Head(to_worker[number]) \in Message
         /\ Head(to_worker[number]).type = type
         /\ Tail(to_worker[number]) \in Seq(Message)
<1>1. number \in Session /\ InSession
  BY DEF Incoming, LinkTyped, DaemonTyped, InSession
<1>2. to_worker[number] \in Seq(Message) /\ to_worker[number] # <<>>
  BY <1>1 DEF Incoming, LinkTyped, ChannelsTyped
<1>. QED  BY <1>1, <1>2, TailProperties DEF Incoming

(* An event the daemon takes from its channel. *)
LEMMA NextEventProperties ==
  ASSUME LinkTyped, NEW type, NextEvent(type)
  PROVE  /\ number \in Session /\ InSession
         /\ Head(event_rx) \in Event /\ Head(event_rx).type = type
         /\ Tail(event_rx) \in Seq(Event)
<1>1. number \in Session /\ InSession
  BY DEF NextEvent, LinkTyped, DaemonTyped, InSession
<1>2. event_rx \in Seq(Event) /\ event_rx # <<>>
  BY DEF NextEvent, LinkTyped, ChannelsTyped
<1>. QED  BY <1>1, <1>2, TailProperties DEF NextEvent

(* A session that ends leaves nothing unread behind. *)
LEMMA CloseTyped ==
  ASSUME LinkTyped, InSession, tasks' \subseteq tasks,
         NEW how \in {"graceful", "dropped", "failed", "error"}, CloseSession(how)
  PROVE  DaemonTyped' /\ ChannelsTyped' /\ number' = number
<1>1. <<>> \in Seq(Event) /\ <<>> \in Seq(Message)
  OBVIOUS
<1>. QED
  BY <1>1 DEF LinkTyped, DaemonTyped, ChannelsTyped, CloseSession, InSession, LinkState

(* Every step of the daemon keeps its types and those of the channels. *)
LEMMA DaemonStepTyped ==
  ASSUME LinkTyped, DaemonStep
  PROVE  DaemonTyped' /\ ChannelsTyped'
<1>. DEFINE Goal == DaemonTyped' /\ ChannelsTyped'
<1>1. ASSUME Connect PROVE Goal
  <2>1. <<>> \in Seq(Event) /\ <<Plainly("Register")>> \in Seq(Message)
    BY MessagesTyped DEF PlainKinds
  <2>2. number + 1 \in Session /\ number + 1 \in 0..MaxSessions
    BY <1>1, DaemonAssumption DEF Connect, LinkTyped, DaemonTyped, Session
  <2>3. DaemonTyped'
    BY <1>1, <2>2 DEF Connect, LinkTyped, DaemonTyped, InSession
  <2>4. ChannelsTyped'
    BY <1>1, <2>1, <2>2 DEF Connect, LinkTyped, ChannelsTyped, LinkState
  <2>. QED  BY <2>3, <2>4
<1>2. ASSUME InSession, ReturnError \/ BreakLoop PROVE Goal
  BY <1>2, CloseTyped DEF ReturnError, BreakLoop
<1>3. ASSUME HandleRequest, ~shutting_down PROVE Goal
  <2>1. /\ number \in Session /\ InSession
        /\ Tail(to_worker[number]) \in Seq(Message)
        /\ Head(to_worker[number]).id \in Requests
    BY <1>3, IncomingProperties, MessageKinds DEF HandleRequest
  <2>2. DaemonTyped'
    BY <1>3, <2>1 DEF HandleRequest, LinkTyped, DaemonTyped, InSession
  <2>3. ChannelsTyped'
    BY <1>3, <2>1 DEF HandleRequest, Consume, LinkTyped, ChannelsTyped
  <2>. QED  BY <2>2, <2>3
<1>4. ASSUME \/ HandlePing \/ HandleGracefulShutdown \/ HandleModelsRefresh \/ HandleCancel
      PROVE  Goal
  <2>1. PICK type : Incoming(type)
    BY <1>4 DEF HandlePing, HandleGracefulShutdown, HandleModelsRefresh, HandleCancel
  <2>2. number \in Session /\ InSession /\ Tail(to_worker[number]) \in Seq(Message)
    BY <2>1, IncomingProperties
  <2>3. event_rx \o <<Outbound(Plainly("Pong"))>> \in Seq(Event)
    <3>1. Outbound(Plainly("Pong")) \in Event
      BY MessagesTyped DEF PlainKinds
    <3>. QED  BY <3>1 DEF LinkTyped, ChannelsTyped
  <2>4. ChannelsTyped'
    BY <1>4, <2>2, <2>3
    DEF LinkTyped, ChannelsTyped, HandlePing, HandleGracefulShutdown, HandleModelsRefresh,
        HandleCancel, Consume, Enqueue
  <2>5. DaemonTyped'
    BY <1>4, <2>2
    DEF LinkTyped, DaemonTyped, HandlePing, HandleGracefulShutdown, HandleModelsRefresh,
        HandleCancel, InSession
  <2>. QED  BY <2>4, <2>5
<1>5. ASSUME ModelsDiscovered PROVE Goal
  <2>1. event_rx \o <<Outbound(Plainly("ModelsUpdate"))>> \in Seq(Event)
    <3>1. Outbound(Plainly("ModelsUpdate")) \in Event
      BY MessagesTyped DEF PlainKinds
    <3>. QED  BY <3>1 DEF LinkTyped, ChannelsTyped
  <2>. QED
    BY <1>5, <2>1 DEF ModelsDiscovered, Enqueue, LinkTyped, DaemonTyped, ChannelsTyped, InSession
<1>6. ASSUME SendOutbound PROVE Goal
  <2>1. /\ number \in Session /\ InSession /\ Tail(event_rx) \in Seq(Event)
        /\ Head(event_rx).message \in Message
    BY <1>6, NextEventProperties, EventKinds DEF SendOutbound
  <2>2. Append(to_server[number], Head(event_rx).message) \in Seq(Message)
    <3>1. to_server[number] \in Seq(Message)
      BY <2>1 DEF LinkTyped, ChannelsTyped
    <3>. QED  BY <2>1, <3>1
  <2>3. ChannelsTyped'
    BY <1>6, <2>1, <2>2 DEF SendOutbound, LinkTyped, ChannelsTyped
  <2>4. DaemonTyped'
    BY <1>6, <2>1 DEF SendOutbound, LinkTyped, DaemonTyped, InSession
  <2>. QED  BY <2>3, <2>4
<1>7. ASSUME RequestFinishes PROVE Goal
  <2>1. number \in Session /\ InSession /\ Tail(event_rx) \in Seq(Event)
    BY <1>7, NextEventProperties DEF RequestFinishes
  <2>. QED
    BY <1>7, <2>1 DEF RequestFinishes, LinkTyped, DaemonTyped, ChannelsTyped, InSession
<1>8. ASSUME RequestFails PROVE Goal
  <2>1. InSession
    BY <1>8, NextEventProperties DEF RequestFails
  <2>. QED  BY <1>8, <2>1, CloseTyped DEF RequestFails
<1>9. ASSUME NEW n \in Session, NEW r \in Requests,
             TaskSendsChunk(n, r) \/ TaskCompletes(n, r) \/ TaskFails(n, r)
      PROVE  Goal
  <2>1. PICK s \in Seq(Event) : event_rx' = event_rx \o s /\ (s # <<>> => InSession)
    <3>1. /\ <<Outbound(Chunk(r))>> \in Seq(Event) /\ <<>> \in Seq(Event)
          /\ <<Outbound(Complete(r)), RequestFinished(r)>> \in Seq(Event)
          /\ <<RequestFailed(r)>> \in Seq(Event)
      BY MessagesTyped
    <3>2. event_rx \o <<>> = event_rx
      BY DEF LinkTyped, ChannelsTyped
    <3>. QED
      BY <1>9, <3>1, <3>2
      DEF TaskSendsChunk, TaskCompletes, TaskFails, TaskEnds, Enqueue, Live, Chunk, Complete
  <2>2. event_rx \o s \in Seq(Event)
    BY DEF LinkTyped, ChannelsTyped
  <2>3. /\ UNCHANGED <<pc, number, active_requests, shutting_down, ended, linkVars>>
        /\ tasks' \subseteq tasks
    BY <1>9 DEF TaskSendsChunk, TaskCompletes, TaskFails, TaskEnds
  <2>4. ChannelsTyped'
    BY <2>1, <2>2, <2>3 DEF LinkTyped, ChannelsTyped
  <2>5. ~InSession => event_rx' = <<>>
    BY <2>1 DEF LinkTyped, DaemonTyped
  <2>6. DaemonTyped'
    BY <2>3, <2>5 DEF LinkTyped, DaemonTyped, InSession
  <2>. QED  BY <2>4, <2>6
<1>10. ASSUME \/ ReadClose \/ ReadFails \/ SendFails \/ LinkFoundDead \/ DiscoveryFails
              \/ HandleRequest /\ shutting_down
       PROVE  Goal
  BY <1>2, <1>10
  DEF ReadClose, ReadFails, SendFails, LinkFoundDead, DiscoveryFails, HandleRequest,
      Incoming, NextEvent, InSession
<1>. QED
  BY <1>1, <1>3, <1>4, <1>5, <1>6, <1>7, <1>8, <1>9, <1>10
  DEF DaemonStep, ReadArm, EventArm

(* What a flush writes: messages about the given requests, one for each. *)
LEMMA EnumerationProperties ==
  ASSUME NEW S, IsFiniteSet(S), NEW type, NEW s \in Enumerations(S, type)
  PROVE  /\ s \in Seq({Msg(type, r) : r \in S})
         /\ Members(s) \subseteq {Msg(type, r) : r \in S}
         /\ \A last, about : about = {last} => LastOf(s, last, about)
<1>1. Cardinality(S) \in Nat
  BY FS_CardinalityType
<1>2. s \in [1..Cardinality(S) -> {Msg(type, r) : r \in S}]
      /\ \A i, j \in DOMAIN s : s[i] = s[j] => i = j
  BY DEF Enumerations
<1>3. s \in Seq({Msg(type, r) : r \in S}) /\ DOMAIN s \subseteq Int
  BY <1>1, <1>2
<1>4. Members(s) \subseteq {Msg(type, r) : r \in S}
  BY <1>2 DEF Members
<1>5. \A last, about : about = {last} => LastOf(s, last, about)
  BY <1>2, <1>3 DEF LastOf
<1>. QED  BY <1>3, <1>4, <1>5

(* Writing messages keeps the channels typed. *)
LEMMA WriteTyped ==
  ASSUME ChannelsTyped, NEW n \in Session, NEW s \in Seq(Message), Write(n, s)
  PROVE  /\ to_worker' \in [Session -> Seq(Message)]
         /\ to_worker'[n] \in {to_worker[n], to_worker[n] \o s}
         /\ \A m \in Session : m # n => to_worker'[m] = to_worker[m]
<1>1. to_worker[n] \in Seq(Message) /\ to_worker[n] \o s \in Seq(Message)
  BY DEF ChannelsTyped
<1>. HIDE DEF Message
<1>. QED  BY <1>1 DEF ChannelsTyped, Write

(* Saying goodbye writes the close frame and forgets what was not read. *)
LEMMA GoodbyeTyped ==
  ASSUME ChannelsTyped, NEW n \in Session, SayGoodbye(n), UNCHANGED event_rx
  PROVE  /\ ChannelsTyped'
         /\ to_server'[n] = <<>>
         /\ to_worker'[n] \in {to_worker[n], to_worker[n] \o <<Plainly("Close")>>}
         /\ \A m \in Session : m # n =>
              to_server'[m] = to_server[m] /\ to_worker'[m] = to_worker[m]
<1>1. <<Plainly("Close")>> \in Seq(Message) /\ <<>> \in Seq(Message)
  BY MessagesTyped DEF PlainKinds
<1>2. /\ to_worker' \in [Session -> Seq(Message)]
      /\ to_worker'[n] \in {to_worker[n], to_worker[n] \o <<Plainly("Close")>>}
      /\ \A m \in Session : m # n => to_worker'[m] = to_worker[m]
  BY <1>1, WriteTyped DEF SayGoodbye
<1>3. to_server' \in [Session -> Seq(Message)] /\ to_server'[n] = <<>>
      /\ \A m \in Session : m # n => to_server'[m] = to_server[m]
  BY <1>1 DEF SayGoodbye, ChannelsTyped
<1>4. link' \in [Session -> LinkState]
  BY DEF SayGoodbye, ChannelsTyped, LinkState
<1>. QED  BY <1>2, <1>3, <1>4 DEF ChannelsTyped

(* The requests a flush takes are finitely many. *)
LEMMA FlushedFinite ==
  ASSUME CoreTyped, NEW n \in Session
  PROVE  /\ IsFiniteSet(ToldOff(n)) /\ ToldOff(n) \subseteq Requests
         /\ IsFiniteSet({r \in OwnedBy(n) : place[r] = "pending"})
         /\ \A S : IsFiniteSet({0 : d \in S \cap {n}})
<1>1. IsFiniteSet({r \in Requests : owner[r] # 0})
  BY DEF CoreTyped
<1>2. n # 0
  BY DaemonAssumption DEF Session
<1>3. /\ ToldOff(n) \subseteq {r \in Requests : owner[r] # 0}
      /\ {r \in OwnedBy(n) : place[r] = "pending"} \subseteq {r \in Requests : owner[r] # 0}
  BY <1>2 DEF ToldOff, OwnedBy, CoreTyped
<1>4. \A S : {0 : d \in S \cap {n}} \subseteq {0}
  OBVIOUS
<1>. QED  BY <1>1, <1>3, <1>4, FS_Subset, FS_Singleton

(* A flush writes messages, each about what it took, and no request but those *)
(* that are pending with its session, once.                                   *)
LEMMA FlushWrites ==
  ASSUME LinkTyped, NEW n \in Session,
         FlushCancels(n) \/ FlushRequests(n) \/ FlushShutdowns(n) \/ FlushRefreshes(n)
  PROVE  /\ UNCHANGED <<daemonVars, to_server, link>>
         /\ \E s \in Seq(Message) :
              /\ Write(n, s)
              /\ \A r \in Requests :
                   /\ LastOf(s, Request(r), {Request(r)})
                   /\ Request(r) \in Members(s) =>
                        FlushRequests(n) /\ owner[r] = n /\ place[r] = "pending"
<1>. DEFINE Pending(r) == FlushRequests(n) /\ owner[r] = n /\ place[r] = "pending"
            Goal == /\ UNCHANGED <<daemonVars, to_server, link>>
                    /\ \E s \in Seq(Message) :
                         /\ Write(n, s)
                         /\ \A r \in Requests :
                              /\ LastOf(s, Request(r), {Request(r)})
                              /\ Request(r) \in Members(s) => Pending(r)
<1>1. ASSUME NEW S, IsFiniteSet(S), NEW type, \A q \in S : Msg(type, q) \in Message,
             NEW now, NEW then, Flush(n, now, then, S, type),
             \A r \in Requests, q \in S : Msg(type, q) = Request(r) => Pending(r)
      PROVE  Goal
  <2>. DEFINE T == {Msg(type, q) : q \in S}
  <2>1. T \subseteq Message
    BY <1>1
  <2>2. PICK s \in Enumerations(S, type) : Write(n, s)
    BY <1>1 DEF Flush
  <2>3. /\ s \in Seq(T) /\ Members(s) \subseteq T
        /\ \A r : LastOf(s, Request(r), {Request(r)})
    BY <1>1, EnumerationProperties
  <2>4. \A r \in Requests : Request(r) \in T => Pending(r)
    BY <1>1
  <2>. HIDE DEF T, Pending
  <2>5. s \in Seq(Message)
    BY <2>1, <2>3
  <2>6. UNCHANGED <<daemonVars, to_server, link>>
    BY <1>1 DEF Flush
  <2>7. \A r \in Requests : Request(r) \in Members(s) => Pending(r)
    BY <2>3, <2>4, Zenon
  <2>. QED  BY <2>2, <2>3, <2>5, <2>6, <2>7
<1>2. /\ \A r \in Requests : Msg("Cancel", r) \in Message /\ Msg("Request", r) \in Message
      /\ \A type \in PlainKinds : Msg(type, 0) \in Message
  BY MessagesTyped DEF Request, Plainly, Msg
<1>3. \A type, q, r : type # "Request" => Msg(type, q) # Request(r)
  BY DEF Msg, Request
<1>4. ASSUME FlushCancels(n) PROVE Goal
  <2>1. IsFiniteSet(ToldOff(n)) /\ ToldOff(n) \subseteq Requests
    BY FlushedFinite DEF LinkTyped
  <2>2. Flush(n, "cancels", "requests", ToldOff(n), "Cancel")
    BY <1>4 DEF FlushCancels
  <2>. HIDE DEF Goal, Pending
  <2>. QED  BY <1>1, <1>2, <1>3, <2>1, <2>2
<1>5. ASSUME FlushRequests(n) PROVE Goal
  <2>. DEFINE pending == {r \in OwnedBy(n) : place[r] = "pending"}
  <2>1. /\ IsFiniteSet(pending) /\ pending \subseteq Requests
        /\ \A r \in pending : Pending(r)
    BY <1>5, FlushedFinite DEF OwnedBy, LinkTyped
  <2>2. Flush(n, "requests", "shutdowns", pending, "Request")
    BY <1>5 DEF FlushRequests
  <2>3. \A r, q : Msg("Request", q) = Request(r) => q = r
    BY KindsDiffer DEF Request
  <2>. HIDE DEF Goal, Pending, pending
  <2>. QED  BY <1>1, <1>2, <2>1, <2>2, <2>3
<1>6. \A S : IsFiniteSet({0 : d \in S \cap {n}}) /\ {0 : d \in S \cap {n}} \subseteq {0}
  BY FlushedFinite DEF LinkTyped
<1>7. ASSUME FlushShutdowns(n) PROVE Goal
  <2>. DEFINE S == {0 : d \in drain_signals \cap {n}}
  <2>1. Flush(n, "shutdowns", "refreshes", S, "GracefulShutdown")
    BY <1>7 DEF FlushShutdowns
  <2>2. \A q \in S : Msg("GracefulShutdown", q) \in Message
    BY <1>2 DEF PlainKinds
  <2>3. IsFiniteSet(S)
    BY <1>6
  <2>. HIDE DEF Goal, Pending, S
  <2>. QED  BY <1>1, <1>3, <2>1, <2>2, <2>3
<1>8. ASSUME FlushRefreshes(n) PROVE Goal
  <2>. DEFINE S == {0 : d \in (refresh_signals \cap workers) \cap {n}}
  <2>1. Flush(n, "refreshes", "close", S, "ModelsRefresh")
    BY <1>8 DEF FlushRefreshes
  <2>2. \A q \in S : Msg("ModelsRefresh", q) \in Message
    BY <1>2 DEF PlainKinds
  <2>3. IsFiniteSet(S)
    BY <1>6
  <2>. HIDE DEF Goal, Pending, S
  <2>. QED  BY <1>1, <1>3, <2>1, <2>2, <2>3
<1>. QED  BY <1>4, <1>5, <1>7, <1>8

(* Every step of the socket loop keeps the channels typed. *)
LEMMA LoopChannelsTyped ==
  ASSUME LinkTyped, NEW n \in Session, SocketLoop(n)
  PROVE  ChannelsTyped' /\ UNCHANGED daemonVars
<1>. DEFINE Goal == ChannelsTyped' /\ UNCHANGED daemonVars
<1>1. ASSUME FlushCancels(n) \/ FlushRequests(n) \/ FlushShutdowns(n) \/ FlushRefreshes(n)
      PROVE  Goal
  <2>1. PICK s \in Seq(Message) : Write(n, s)
    BY <1>1, FlushWrites
  <2>2. to_worker' \in [Session -> Seq(Message)]
    BY <2>1, WriteTyped DEF LinkTyped
  <2>3. UNCHANGED <<daemonVars, to_server, link>>
    BY <1>1, FlushWrites
  <2>. QED  BY <2>2, <2>3 DEF LinkTyped, ChannelsTyped
<1>3. ASSUME UNCHANGED linkVars, UNCHANGED daemonVars PROVE Goal
  BY <1>3 DEF LinkTyped, ChannelsTyped
<1>4. ASSUME SayGoodbye(n), UNCHANGED daemonVars PROVE Goal
  BY <1>4, GoodbyeTyped DEF LinkTyped
<1>5. ASSUME CloseAction(n) PROVE Goal
  BY <1>3, <1>4, <1>5 DEF CloseAction
<1>6. ASSUME to_server[n] # <<>>, to_server' = [to_server EXCEPT ![n] = Tail(@)],
             UNCHANGED <<to_worker, link, daemonVars>>
      PROVE  Goal
  <2>1. to_server[n] \in Seq(Message)
    BY DEF LinkTyped, ChannelsTyped
  <2>2. Tail(to_server[n]) \in Seq(Message)
    BY <1>6, <2>1, TailProperties
  <2>. QED  BY <1>6, <2>2 DEF LinkTyped, ChannelsTyped
<1>7. ASSUME RegisterWorker(n) \/ HandleComplete(n) \/ HandleLateComplete(n) \/ HandleReport(n)
      PROVE  Goal
  BY <1>6, <1>7
  DEF RegisterWorker, HandleComplete, HandleLateComplete, HandleReport, Accept, Arrives
<1>8. ASSUME RecvTimesOut(n) \/ ReceivePingFrame(n) \/ SocketLost(n) PROVE Goal
  BY <1>3, <1>8 DEF RecvTimesOut, ReceivePingFrame, SocketLost, LoopEnds
<1>9. ASSUME ProtocolError(n) \/ StaleHeartbeat(n) PROVE Goal
  BY <1>4, <1>9 DEF ProtocolError, StaleHeartbeat, LoopEnds
<1>10. ASSUME SendHeartbeatPing(n) PROVE Goal
  <2>1. <<Plainly("Ping")>> \in Seq(Message)
    BY MessagesTyped DEF PlainKinds
  <2>. QED
    BY <1>10, <2>1, WriteTyped DEF SendHeartbeatPing, LinkTyped, ChannelsTyped
<1>. QED
  BY <1>1, <1>5, <1>7, <1>8, <1>9, <1>10 DEF SocketLoop

(* A loop that goes on, or ends for a session that is not registered, keeps   *)
(* the proxy's types.                                                         *)
LEMMA TurnTyped ==
  ASSUME CoreTyped, NEW n \in Session, NEW step \in Turn, GoTo(n, step),
         turn[n] # "none", step \notin {"none", "register"},
         step = "over" => n \notin workers,
         UNCHANGED <<number, workers, place, owner, draining, disconnect_reasons,
                     canceled, cancel_signals, drain_signals>>
  PROVE  CoreTyped'
<1>1. /\ turn' \in [Session -> Turn] /\ turn'[n] = step
      /\ \A m \in Session : m # n => turn'[m] = turn[m]
  BY DEF CoreTyped, GoTo
<1>2. /\ \A m \in Session : turn'[m] = "none" <=> m > number'
      /\ \A m \in workers' : InLoop(m)'
      /\ \A m \in disconnect_reasons' : turn'[m] \notin {"none", "register"}
  BY <1>1 DEF CoreTyped, InLoop
<1>. QED  BY <1>1, <1>2 DEF CoreTyped

(* The loop of a session ends: what it owned is queued again or done. *)
LEMMA LoopEndTyped ==
  ASSUME CoreTyped, NEW n \in Session, turn[n] # "none", LoopEnds(n)
  PROVE  CoreTyped'
<1>1. /\ turn' \in [Session -> Turn] /\ turn'[n] = "over"
      /\ \A m \in Session : m # n => turn'[m] = turn[m]
      /\ number' = number
  BY DEF CoreTyped, LoopEnds, GoTo, Turn
<1>2. \A r \in Requests : r \in OwnedBy(n) <=> owner[r] = n
  BY DaemonAssumption DEF OwnedBy, CoreTyped, Session
<1>3. /\ \A r \in Requests : owner'[r] = IF owner[r] = n THEN 0 ELSE owner[r]
      /\ \A r \in Requests : place'[r] = IF owner[r] # n THEN place[r]
                                         ELSE IF r \in canceled THEN "done" ELSE "queued"
      /\ owner' \in [Requests -> 0..MaxSessions]
      /\ place' \in [Requests -> {"queued", "pending", "sent", "done"}]
  BY <1>2, DaemonAssumption DEF CoreTyped, LoopEnds, DisconnectWorker
<1>4. /\ workers' = workers \ {n} /\ draining' = draining \ {n}
      /\ drain_signals' = drain_signals \ {n}
      /\ cancel_signals' = {r \in cancel_signals : owner[r] # n}
      /\ UNCHANGED <<disconnect_reasons, canceled>>
  BY DEF LoopEnds, DisconnectWorker, RemoveWorkers
<1>5. \A r \in Requests : owner'[r] # 0 <=> place'[r] \in {"pending", "sent"}
  BY <1>3 DEF CoreTyped
<1>6. {r \in Requests : owner'[r] # 0} \subseteq {r \in Requests : owner[r] # 0}
  BY <1>3
<1>7. IsFiniteSet({r \in Requests : owner'[r] # 0})
  BY <1>6, FS_Subset DEF CoreTyped
<1>8. cancel_signals' \subseteq {r \in canceled' : owner'[r] # 0}
  BY <1>3, <1>4 DEF CoreTyped
<1>9. \A r \in Requests : owner'[r] # 0 => owner'[r] \in workers'
  BY <1>3, <1>4 DEF CoreTyped
<1>10. /\ \A m \in Session : turn'[m] = "none" <=> m > number'
       /\ \A m \in workers' : InLoop(m)'
       /\ \A m \in disconnect_reasons' : turn'[m] \notin {"none", "register"}
  BY <1>1, <1>4 DEF CoreTyped, InLoop
<1>. QED  BY <1>1, <1>3, <1>4, <1>5, <1>7, <1>8, <1>9, <1>10 DEF CoreTyped

(* The close action: expired workers and their requests go, and the loop of a *)
(* removed worker ends.                                                       *)
LEMMA CloseActionTyped ==
  ASSUME CoreTyped, NEW n \in Session, CloseAction(n)
  PROVE  CoreTyped'
<1>1. PICK expired \in {{}, draining} :
       LET idle == {d \in draining \cap {n} : OwnedBy(n) = {}}
           gone == expired \cup idle
           failed == UNION {OwnedBy(d) : d \in expired}
           removed == disconnect_reasons \cup gone
       IN /\ place' = [r \in Requests |-> IF r \in failed THEN "done" ELSE place[r]]
          /\ owner' = [r \in Requests |-> IF r \in failed THEN 0 ELSE owner[r]]
          /\ RemoveWorkers(gone)
          /\ disconnect_reasons' = removed \ {n}
          /\ GoTo(n, IF n \in removed THEN "over" ELSE "recv")
  BY DEF CloseAction
<1>. DEFINE idle == {d \in draining \cap {n} : OwnedBy(n) = {}}
            gone == expired \cup idle
            failed == UNION {OwnedBy(d) : d \in expired}
            removed == disconnect_reasons \cup gone
<1>2. gone \subseteq draining /\ gone \subseteq workers /\ gone \subseteq Session
  BY DEF CoreTyped
<1>3. \A r \in Requests : r \in failed <=> owner[r] \in expired
  <2>1. expired \subseteq Session
    BY <1>2
  <2>2. \A d \in Session, r \in Requests : r \in OwnedBy(d) <=> owner[r] = d
    BY DaemonAssumption DEF OwnedBy, CoreTyped, Session
  <2>. QED  BY <2>1, <2>2
<1>4. \A r \in Requests : owner[r] \in gone => owner[r] \in expired
  <2>. SUFFICES ASSUME NEW r \in Requests, owner[r] \in idle PROVE FALSE
    OBVIOUS
  <2>1. owner[r] = n /\ OwnedBy(n) = {}
    OBVIOUS
  <2>2. n # 0
    BY DaemonAssumption DEF Session
  <2>. QED  BY <2>1, <2>2 DEF OwnedBy, CoreTyped
<1>5. /\ turn[n] = "close" /\ UNCHANGED <<number, canceled>>
  BY DEF CloseAction
<1>6. /\ place' = [r \in Requests |-> IF r \in failed THEN "done" ELSE place[r]]
      /\ owner' = [r \in Requests |-> IF r \in failed THEN 0 ELSE owner[r]]
      /\ workers' = workers \ gone /\ draining' = draining \ gone
      /\ drain_signals' = drain_signals \ gone
      /\ cancel_signals' = {r \in cancel_signals : owner[r] \notin gone}
      /\ disconnect_reasons' = removed \ {n}
      /\ GoTo(n, IF n \in removed THEN "over" ELSE "recv")
  BY <1>1 DEF RemoveWorkers
<1>7. n \in removed \/ n \in workers' \/ n \notin workers
  BY <1>6
<1>. HIDE DEF idle, gone, failed
<1>8. /\ owner' \in [Requests -> 0..MaxSessions]
      /\ place' \in [Requests -> {"queued", "pending", "sent", "done"}]
      /\ \A r \in Requests : owner'[r] # 0 <=> place'[r] \in {"pending", "sent"}
      /\ \A r \in Requests : owner'[r] # 0 => owner'[r] \in workers'
      /\ cancel_signals' \subseteq {r \in canceled' : owner'[r] # 0}
  <2>1. \A r \in Requests : /\ owner'[r] = (IF owner[r] \in expired THEN 0 ELSE owner[r])
                            /\ place'[r] = (IF owner[r] \in expired THEN "done" ELSE place[r])
    BY <1>3, <1>6
  <2>2. owner' \in [Requests -> 0..MaxSessions]
    BY <1>6, DaemonAssumption DEF CoreTyped
  <2>3. place' \in [Requests -> {"queued", "pending", "sent", "done"}]
    BY <1>6 DEF CoreTyped
  <2>4. \A r \in Requests : owner'[r] # 0 <=> place'[r] \in {"pending", "sent"}
    BY <2>1 DEF CoreTyped
  <2>5. \A r \in Requests : owner'[r] # 0 => owner'[r] \in workers'
    BY <1>4, <1>6, <2>1 DEF CoreTyped
  <2>6. cancel_signals' \subseteq {r \in canceled' : owner'[r] # 0}
    <3>1. expired \subseteq gone
      BY DEF gone
    <3>. QED  BY <1>5, <1>6, <2>1, <3>1 DEF CoreTyped
  <2>. QED  BY <2>2, <2>3, <2>4, <2>5, <2>6
<1>9. IsFiniteSet({r \in Requests : owner'[r] # 0})
  <2>1. {r \in Requests : owner'[r] # 0} \subseteq {r \in Requests : owner[r] # 0}
    BY <1>6
  <2>. QED  BY <2>1, FS_Subset DEF CoreTyped
<1>10. /\ turn' \in [Session -> Turn]
       /\ turn'[n] = (IF n \in removed THEN "over" ELSE "recv")
       /\ \A m \in Session : m # n => turn'[m] = turn[m]
  BY <1>6 DEF CoreTyped, GoTo, Turn
<1>11. /\ workers' \subseteq Session /\ disconnect_reasons' \subseteq Session \ workers'
       /\ drain_signals' \subseteq draining' /\ draining' \subseteq workers'
  BY <1>2, <1>6 DEF CoreTyped
<1>12. /\ \A m \in Session : turn'[m] = "none" <=> m > number'
       /\ \A m \in workers' : InLoop(m)'
       /\ \A m \in disconnect_reasons' : turn'[m] \notin {"none", "register"}
  <2>1. \A m \in Session : turn'[m] = "none" <=> m > number'
    BY <1>5, <1>10 DEF CoreTyped
  <2>2. ASSUME NEW m \in workers' PROVE InLoop(m)'
    <3>1. m \in workers /\ m \notin removed
      BY <1>6, <2>2 DEF CoreTyped
    <3>. QED  BY <1>10, <3>1 DEF CoreTyped, InLoop
  <2>3. ASSUME NEW m \in disconnect_reasons' PROVE turn'[m] \notin {"none", "register"}
    <3>1. m # n /\ m \in Session /\ (m \in disconnect_reasons \/ m \in workers)
      BY <1>2, <1>6, <2>3 DEF CoreTyped
    <3>. QED  BY <1>10, <3>1 DEF CoreTyped, InLoop
  <2>. QED  BY <2>1, <2>2, <2>3
<1>. QED  BY <1>5, <1>8, <1>9, <1>10, <1>11, <1>12 DEF CoreTyped

(* A request that is answered leaves the session, and a drained session the   *)
(* registry.                                                                  *)
LEMMA CompleteTyped ==
  ASSUME CoreTyped, NEW n \in Session, NEW r \in OwnedBy(n),
         turn[n] = "recv", GoTo(n, "cancels"), UNCHANGED <<number, canceled>>,
         NEW gone \in SUBSET (draining \cap {n}), gone # {} => OwnedBy(n) = {r},
         place' = [place EXCEPT ![r] = "done"], owner' = [owner EXCEPT ![r] = 0],
         workers' = workers \ gone, draining' = draining \ gone,
         drain_signals' = drain_signals \ gone, cancel_signals' = cancel_signals \ {r},
         disconnect_reasons' = disconnect_reasons \cup gone
  PROVE  CoreTyped'
<1>1. \A q \in Requests : q \in OwnedBy(n) <=> owner[q] = n
  BY DaemonAssumption DEF OwnedBy, CoreTyped, Session
<1>2. r \in Requests /\ gone \subseteq workers
  BY DEF OwnedBy, CoreTyped
<1>3. /\ owner' \in [Requests -> 0..MaxSessions]
      /\ place' \in [Requests -> {"queued", "pending", "sent", "done"}]
      /\ \A q \in Requests : owner'[q] = (IF q = r THEN 0 ELSE owner[q])
                          /\ place'[q] = (IF q = r THEN "done" ELSE place[q])
  BY <1>2, DaemonAssumption DEF CoreTyped
<1>4. \A q \in Requests : owner'[q] # 0 <=> place'[q] \in {"pending", "sent"}
  BY <1>3 DEF CoreTyped
<1>5. \A q \in Requests : owner'[q] # 0 => owner'[q] \in workers'
  BY <1>1, <1>3 DEF CoreTyped
<1>6. cancel_signals' \subseteq {q \in canceled' : owner'[q] # 0}
  BY <1>3 DEF CoreTyped
<1>7. IsFiniteSet({q \in Requests : owner'[q] # 0})
  <2>1. {q \in Requests : owner'[q] # 0} \subseteq {q \in Requests : owner[q] # 0}
    BY <1>3
  <2>. QED  BY <2>1, FS_Subset DEF CoreTyped
<1>8. /\ turn' \in [Session -> Turn] /\ turn'[n] = "cancels"
      /\ \A m \in Session : m # n => turn'[m] = turn[m]
  BY DEF CoreTyped, GoTo, Turn
<1>9. /\ \A m \in Session : turn'[m] = "none" <=> m > number'
      /\ \A m \in workers' : InLoop(m)'
      /\ \A m \in disconnect_reasons' : turn'[m] \notin {"none", "register"}
  BY <1>8 DEF CoreTyped, InLoop
<1>10. /\ workers' \subseteq Session /\ disconnect_reasons' \subseteq Session \ workers'
       /\ drain_signals' \subseteq draining' /\ draining' \subseteq workers'
  BY <1>2 DEF CoreTyped
<1>. QED  BY <1>3, <1>4, <1>5, <1>6, <1>7, <1>8, <1>9, <1>10 DEF CoreTyped

(* A flush changes no more than the signals it takes and the requests it sends. *)
LEMMA FlushTyped ==
  ASSUME CoreTyped, NEW n \in Session, turn[n] \notin {"none", "register"},
         NEW then \in Turn \ {"none", "register", "over"}, GoTo(n, then),
         UNCHANGED <<number, workers, owner, draining, disconnect_reasons, canceled>>,
         cancel_signals' \subseteq cancel_signals, drain_signals' \subseteq drain_signals,
         place' \in [Requests -> {"queued", "pending", "sent", "done"}],
         \A r \in Requests : place'[r] \in {"pending", "sent"} <=> place[r] \in {"pending", "sent"}
  PROVE  CoreTyped'
<1>1. /\ turn' \in [Session -> Turn] /\ turn'[n] = then
      /\ \A m \in Session : m # n => turn'[m] = turn[m]
  BY DEF CoreTyped, GoTo
<1>2. /\ \A m \in Session : turn'[m] = "none" <=> m > number'
      /\ \A m \in workers' : InLoop(m)'
      /\ \A m \in disconnect_reasons' : turn'[m] \notin {"none", "register"}
  BY <1>1 DEF CoreTyped, InLoop
<1>. QED  BY <1>1, <1>2 DEF CoreTyped

(* Every step of the socket loop keeps the proxy's types. *)
LEMMA LoopCoreTyped ==
  ASSUME LinkTyped, NEW n \in Session, SocketLoop(n)
  PROVE  CoreTyped'
<1>0. CoreTyped /\ n \in Session
  BY DEF LinkTyped
<1>1. ASSUME NEW S, NEW type, NEW now \in Turn \ {"none", "register"},
             NEW then \in Turn \ {"none", "register", "over"}, Flush(n, now, then, S, type)
      PROVE  /\ turn[n] \notin {"none", "register"} /\ GoTo(n, then)
             /\ UNCHANGED <<number, workers, owner, draining, disconnect_reasons, canceled>>
  BY <1>1 DEF Flush
<1>2. ASSUME FlushCancels(n) PROVE CoreTyped'
  <2>1. /\ turn[n] \notin {"none", "register"} /\ GoTo(n, "requests")
        /\ UNCHANGED <<number, workers, owner, draining, disconnect_reasons, canceled>>
    BY <1>1, <1>2 DEF FlushCancels, Turn
  <2>2. cancel_signals' \subseteq cancel_signals /\ UNCHANGED <<place, drain_signals>>
    BY <1>2 DEF FlushCancels
  <2>. QED  BY <1>0, <2>1, <2>2, FlushTyped DEF Turn, CoreTyped
<1>3. ASSUME FlushRequests(n) PROVE CoreTyped'
  <2>. DEFINE pending == {r \in OwnedBy(n) : place[r] = "pending"}
  <2>1. /\ turn[n] \notin {"none", "register"} /\ GoTo(n, "shutdowns")
        /\ UNCHANGED <<number, workers, owner, draining, disconnect_reasons, canceled>>
    BY <1>1, <1>3 DEF FlushRequests, Turn
  <2>2. /\ place' = [r \in Requests |-> IF r \in pending THEN "sent" ELSE place[r]]
        /\ UNCHANGED <<cancel_signals, drain_signals>>
    BY <1>3 DEF FlushRequests
  <2>3. /\ place' \in [Requests -> {"queued", "pending", "sent", "done"}]
        /\ \A r \in Requests : place'[r] \in {"pending", "sent"} <=> place[r] \in {"pending", "sent"}
    BY <1>0, <2>2 DEF CoreTyped
  <2>. HIDE DEF pending
  <2>. QED  BY <1>0, <2>1, <2>2, <2>3, FlushTyped DEF Turn
<1>4. ASSUME FlushShutdowns(n) PROVE CoreTyped'
  <2>1. /\ turn[n] \notin {"none", "register"} /\ GoTo(n, "refreshes")
        /\ UNCHANGED <<number, workers, owner, draining, disconnect_reasons, canceled>>
    BY <1>1, <1>4 DEF FlushShutdowns, Turn
  <2>2. drain_signals' \subseteq drain_signals /\ UNCHANGED <<place, cancel_signals>>
    BY <1>4 DEF FlushShutdowns
  <2>. QED  BY <1>0, <2>1, <2>2, FlushTyped DEF Turn, CoreTyped
<1>5. ASSUME FlushRefreshes(n) PROVE CoreTyped'
  <2>1. /\ turn[n] \notin {"none", "register"} /\ GoTo(n, "close")
        /\ UNCHANGED <<number, workers, owner, draining, disconnect_reasons, canceled>>
    BY <1>1, <1>5 DEF FlushRefreshes, Turn
  <2>2. UNCHANGED <<place, cancel_signals, drain_signals>>
    BY <1>5 DEF FlushRefreshes
  <2>. QED  BY <1>0, <2>1, <2>2, FlushTyped DEF Turn, CoreTyped
<1>6. ASSUME CloseAction(n) PROVE CoreTyped'
  BY <1>0, <1>6, CloseActionTyped
<1>7. ASSUME RegisterWorker(n) PROVE CoreTyped'
  <2>1. /\ turn[n] = "register" /\ turn' = [turn EXCEPT ![n] = "cancels"]
        /\ workers' = workers \cup {n}
        /\ UNCHANGED <<place, owner, draining, disconnect_reasons, canceled,
                       cancel_signals, drain_signals, number>>
    BY <1>7 DEF RegisterWorker, GoTo
  <2>2. /\ turn' \in [Session -> Turn] /\ turn'[n] = "cancels"
        /\ \A m \in Session : m # n => turn'[m] = turn[m]
    BY <1>0, <2>1 DEF CoreTyped, Turn
  <2>3. n \notin disconnect_reasons
    BY <1>0, <2>1 DEF CoreTyped
  <2>4. /\ \A m \in Session : turn'[m] = "none" <=> m > number'
        /\ \A m \in workers' : InLoop(m)'
        /\ \A m \in disconnect_reasons' : turn'[m] \notin {"none", "register"}
    BY <1>0, <2>1, <2>2, <2>3 DEF CoreTyped, InLoop
  <2>. QED  BY <1>0, <2>1, <2>2, <2>3, <2>4 DEF CoreTyped
<1>8. ASSUME HandleComplete(n) PROVE CoreTyped'
  <2>1. PICK r \in OwnedBy(n) :
          LET gone == {d \in draining \cap {n} : OwnedBy(n) = {r}}
          IN /\ place' = [place EXCEPT ![r] = "done"]
             /\ owner' = [owner EXCEPT ![r] = 0]
             /\ workers' = workers \ gone /\ draining' = draining \ gone
             /\ drain_signals' = drain_signals \ gone
             /\ cancel_signals' = cancel_signals \ {r}
             /\ disconnect_reasons' = disconnect_reasons \cup gone
    BY <1>8 DEF HandleComplete
  <2>. DEFINE gone == {d \in draining \cap {n} : OwnedBy(n) = {r}}
  <2>2. turn[n] = "recv" /\ GoTo(n, "cancels") /\ UNCHANGED <<number, canceled>>
    BY <1>8 DEF HandleComplete, Arrives, Accept
  <2>3. gone \in SUBSET (draining \cap {n}) /\ (gone # {} => OwnedBy(n) = {r})
    OBVIOUS
  <2>4. /\ place' = [place EXCEPT ![r] = "done"]
        /\ owner' = [owner EXCEPT ![r] = 0]
        /\ workers' = workers \ gone /\ draining' = draining \ gone
        /\ drain_signals' = drain_signals \ gone
        /\ cancel_signals' = cancel_signals \ {r}
        /\ disconnect_reasons' = disconnect_reasons \cup gone
    BY <2>1
  <2>. HIDE DEF gone
  <2>. QED  BY <1>0, <2>2, <2>3, <2>4, CompleteTyped
<1>9. ASSUME \/ HandleLateComplete(n) \/ HandleReport(n) \/ RecvTimesOut(n)
             \/ ReceivePingFrame(n) \/ SendHeartbeatPing(n)
      PROVE  CoreTyped'
  <2>1. turn[n] = "recv" /\ GoTo(n, "cancels") /\ UNCHANGED <<number, coreVars>>
    BY <1>9 DEF HandleLateComplete, HandleReport, RecvTimesOut, ReceivePingFrame,
                SendHeartbeatPing, Arrives, Accept
  <2>. QED  BY <1>0, <2>1, TurnTyped DEF Turn
<1>10. ASSUME ProtocolError(n) \/ StaleHeartbeat(n) \/ SocketLost(n) PROVE CoreTyped'
  <2>1. turn[n] # "none" /\ LoopEnds(n)
    BY <1>10 DEF ProtocolError, StaleHeartbeat, SocketLost, Refused, Arrives, InLoop
  <2>. QED  BY <1>0, <2>1, LoopEndTyped
<1>. QED
  BY <1>2, <1>3, <1>4, <1>5, <1>6, <1>7, <1>8, <1>9, <1>10 DEF SocketLoop

(* A dispatch gives a queued request to a registered session. *)
LEMMA AssignTyped ==
  ASSUME CoreTyped, NEW n \in Session, NEW r \in Requests, Assign(n, r)
  PROVE  CoreTyped'
<1>1. /\ place' \in [Requests -> {"queued", "pending", "sent", "done"}]
      /\ owner' \in [Requests -> 0..MaxSessions]
      /\ \A q \in Requests : owner'[q] = (IF q = r THEN n ELSE owner[q])
                          /\ place'[q] = (IF q = r THEN "pending" ELSE place[q])
      /\ place[r] = "queued" /\ n # 0 /\ n \in workers
      /\ UNCHANGED <<number, turn, canceled, cancel_signals, draining, drain_signals,
                     workers, disconnect_reasons>>
  BY DaemonAssumption DEF CoreTyped, Assign, Session
<1>2. {q \in Requests : owner'[q] # 0} = {q \in Requests : owner[q] # 0} \cup {r}
  BY <1>1
<1>3. IsFiniteSet({q \in Requests : owner'[q] # 0})
  <2>. DEFINE S == {q \in Requests : owner[q] # 0}
  <2>1. IsFiniteSet(S)
    BY DEF CoreTyped
  <2>. HIDE DEF S
  <2>2. IsFiniteSet(S \cup {r})
    BY <2>1, FS_AddElement, Zenon
  <2>. QED  BY <1>2, <2>2 DEF S
<1>4. /\ \A q \in Requests : owner'[q] # 0 <=> place'[q] \in {"pending", "sent"}
      /\ \A q \in Requests : owner'[q] # 0 => owner'[q] \in workers'
      /\ cancel_signals' \subseteq {q \in canceled' : owner'[q] # 0}
  BY <1>1 DEF CoreTyped
<1>. QED  BY <1>1, <1>3, <1>4 DEF CoreTyped, InLoop

(* A client that gives up takes its request from the queue or marks it. *)
LEMMA CancelTyped ==
  ASSUME CoreTyped, NEW r \in Requests, CancelRequest(r)
  PROVE  CoreTyped'
<1>1. /\ canceled' = canceled \cup {r} /\ place[r] # "done"
      /\ \/ place[r] = "queued" /\ place' = [place EXCEPT ![r] = "done"] /\ UNCHANGED cancel_signals
         \/ place[r] # "queued" /\ cancel_signals' = cancel_signals \cup {r} /\ UNCHANGED place
      /\ UNCHANGED <<number, turn, owner, draining, drain_signals, workers, disconnect_reasons>>
  BY DEF CancelRequest
<1>2. /\ place' \in [Requests -> {"queued", "pending", "sent", "done"}]
      /\ \A q \in Requests : owner'[q] # 0 <=> place'[q] \in {"pending", "sent"}
      /\ cancel_signals' \subseteq {q \in canceled' : owner'[q] # 0}
  BY <1>1 DEF CoreTyped
<1>. QED  BY <1>1, <1>2 DEF CoreTyped, InLoop

(* The daemon connects to a socket loop that starts, and leaves the proxy's    *)
(* end alone.                                                                 *)
LEMMA DaemonTurn ==
  ASSUME LinkTyped, Daemon
  PROVE  /\ UNCHANGED coreVars
         /\ \/ number' = number /\ UNCHANGED turn
            \/ /\ Connect /\ number' = number + 1 /\ number' \in Session
               /\ turn[number'] = "none" /\ turn' = [turn EXCEPT ![number'] = "register"]
<1>1. UNCHANGED coreVars
  BY DEF Daemon
<1>2. CASE number' = number
  BY <1>1, <1>2 DEF Daemon
<1>3. CASE number' # number
  <2>1. Connect
    BY <1>3
    DEF Daemon, DaemonStep, ReadArm, EventArm, HandleRequest, HandlePing,
        HandleGracefulShutdown, HandleModelsRefresh, HandleCancel, ReadClose, ReadFails,
        SendOutbound, SendFails, RequestFinishes, RequestFails, LinkFoundDead,
        ModelsDiscovered, DiscoveryFails, TaskSendsChunk, TaskCompletes, TaskFails,
        TaskEnds, ReturnError, BreakLoop, CloseSession
  <2>2. number' = number + 1 /\ number' \in Session /\ number \in Int
    BY <2>1, DaemonAssumption DEF Connect, LinkTyped, DaemonTyped, Session
  <2>3. turn[number'] = "none"
    BY <2>2 DEF LinkTyped, CoreTyped, Session
  <2>. QED  BY <1>1, <1>3, <2>1, <2>2, <2>3 DEF Daemon
<1>. QED  BY <1>2, <1>3

(* Every step keeps the types. *)
LEMMA LinkTypedStep == LinkTyped /\ [Next]_vars => LinkTyped'
<1>. SUFFICES ASSUME LinkTyped, [Next]_vars PROVE LinkTyped'
  OBVIOUS
<1>0. ASSUME UNCHANGED daemonVars PROVE DaemonTyped'
  BY <1>0 DEF LinkTyped, DaemonTyped, InSession
<1>1. ASSUME UNCHANGED <<event_rx, linkVars>> PROVE ChannelsTyped'
  BY <1>1 DEF LinkTyped, ChannelsTyped
<1>2. ASSUME UNCHANGED <<number, coreVars, turn>> PROVE CoreTyped'
  BY <1>2 DEF LinkTyped, CoreTyped, InLoop
<1>3. ASSUME Daemon PROVE LinkTyped'
  <2>1. DaemonTyped' /\ ChannelsTyped'
    BY <1>3, DaemonStepTyped DEF Daemon
  <2>2. CASE number' = number
    BY <1>2, <1>3, <2>1, <2>2 DEF Daemon, LinkTyped
  <2>3. CASE number' # number
    <3>1. /\ number' = number + 1 /\ number' \in Session /\ number \in Int
          /\ turn' = [turn EXCEPT ![number'] = "register"] /\ UNCHANGED coreVars
          /\ turn[number'] = "none"
      BY <1>3, <2>3, DaemonTurn DEF LinkTyped, DaemonTyped
    <3>2. turn[number'] = "none"
      BY <3>1
    <3>3. /\ turn' \in [Session -> Turn] /\ turn'[number'] = "register"
          /\ \A m \in Session : m # number' => turn'[m] = turn[m]
      BY <3>1 DEF LinkTyped, CoreTyped, Turn
    <3>4. number' \notin workers /\ number' \notin disconnect_reasons
      BY <3>2 DEF LinkTyped, CoreTyped, InLoop
    <3>5. /\ \A m \in Session : turn'[m] = "none" <=> m > number'
          /\ \A m \in workers' : InLoop(m)'
          /\ \A m \in disconnect_reasons' : turn'[m] \notin {"none", "register"}
      BY <3>1, <3>3, <3>4 DEF LinkTyped, CoreTyped, InLoop, Session
    <3>. QED  BY <2>1, <3>1, <3>3, <3>5 DEF LinkTyped, CoreTyped
  <2>. QED  BY <2>2, <2>3
<1>4. ASSUME NEW state \in {"dead", "reset"}, BreakLink(state) PROVE LinkTyped'
  <2>1. ChannelsTyped'
    BY <1>4 DEF LinkTyped, ChannelsTyped, BreakLink, LinkState
  <2>. QED  BY <1>0, <1>2, <1>4, <2>1 DEF LinkTyped, BreakLink
<1>5. ASSUME NEW n \in Session, NEW r \in Requests, Assign(n, r) PROVE LinkTyped'
  BY <1>0, <1>1, <1>5, AssignTyped DEF LinkTyped, Assign
<1>6. ASSUME NEW r \in Requests, CancelRequest(r) PROVE LinkTyped'
  BY <1>0, <1>1, <1>6, CancelTyped DEF LinkTyped, CancelRequest
<1>7. ASSUME BeginGracefulShutdown PROVE LinkTyped'
  <2>1. CoreTyped'
    BY <1>7 DEF LinkTyped, CoreTyped, BeginGracefulShutdown, InLoop
  <2>. QED  BY <1>0, <1>1, <1>7, <2>1 DEF LinkTyped, BeginGracefulShutdown
<1>8. ASSUME NEW n \in Session, RequestWorkerModelsRefresh(n) PROVE LinkTyped'
  <2>1. CoreTyped'
    BY <1>8 DEF LinkTyped, CoreTyped, RequestWorkerModelsRefresh, InLoop
  <2>. QED  BY <1>0, <1>1, <1>8, <2>1 DEF LinkTyped, RequestWorkerModelsRefresh
<1>9. ASSUME NEW n \in Session, SocketLoop(n) PROVE LinkTyped'
  BY <1>0, <1>9, LoopChannelsTyped, LoopCoreTyped DEF LinkTyped
<1>10. ASSUME UNCHANGED vars PROVE LinkTyped'
  BY <1>0, <1>1, <1>2, <1>10 DEF vars, LinkTyped
<1>. QED
  BY <1>3, <1>4, <1>5, <1>6, <1>7, <1>8, <1>9, <1>10 DEF Next

(* The daemon, the connections and the proxy's end have their types, and      *)
(* what is owned, signalled, drained or told to close fits together.          *)
THEOREM LinkTypeCorrect == Spec => []LinkTypeOK
<1>1. LinkTyped => LinkTypeOK
  BY DEF LinkTyped, DaemonTyped, ChannelsTyped, CoreTyped, LinkTypeOK
<1>. QED  BY <1>1, LinkTypedInit, LinkTypedStep, PTL DEF Spec

-----------------------------------------------------------------------------
(* Where a request and what is said about it may be: written and not read by  *)
(* the daemon, at work in a task, in the daemon's event channel, written and  *)
(* not read by the proxy.                                                     *)

Asked(n, r)   == Request(r) \in Members(to_worker[n])
AtWork(n, r)  == <<n, r>> \in tasks
Waiting(n, r) == n = number /\ \E e \in Events(r) : e \in Members(event_rx)
Told(n, r)    == \E m \in About(r) : m \in Members(to_server[n])
Noted(n, r)   == n = number /\ RequestFinished(r) \in Members(event_rx)

AnswerWaiting(n, r) == n = number /\ Outbound(Complete(r)) \in Members(event_rx)
AnswerTold(n, r)    == Complete(r) \in Members(to_server[n])

Known(n, r) == Asked(n, r) \/ AtWork(n, r) \/ Waiting(n, r) \/ Told(n, r)

(* The order of what is in the channels. *)
Ordered(n, r) ==
  /\ LastOf(to_worker[n], Request(r), {Request(r)})
  /\ LastOf(to_server[n], Complete(r), About(r))
  /\ n = number => LastOf(event_rx, Outbound(Complete(r)), Events(r))

(* A request is asked for once, and nothing follows its answer. *)
Once(n, r) ==
  /\ Ordered(n, r)
  /\ AnswerTold(n, r) => ~Waiting(n, r)
  /\ Asked(n, r) => ~AtWork(n, r) /\ ~Waiting(n, r) /\ ~Told(n, r) /\ ~Noted(n, r)
  /\ AtWork(n, r) => ~AnswerWaiting(n, r) /\ ~AnswerTold(n, r) /\ ~Noted(n, r)

Sent(n, r) == owner[r] = n /\ place[r] = "sent"

(* What a session that is served knows of is sent to it and still its own,    *)
(* or done once the session is no longer registered.                          *)
Accounted(n, r) ==
  /\ turn[n] \in {"none", "register"} => ~Known(n, r) /\ ~Noted(n, r)
  /\ turn[n] # "over" /\ Known(n, r) => Sent(n, r) \/ (n \notin workers /\ place[r] = "done")
  /\ turn[n] # "over" /\ Noted(n, r) => Sent(n, r) \/ place[r] = "done"

PipelineInv == \A n \in Session, r \in Requests : Once(n, r) /\ Accounted(n, r)

(* The stages of a request that a step only empties. *)
OnlyFewer(n, r) ==
  /\ Asked(n, r)' => Asked(n, r)
  /\ AtWork(n, r)' => AtWork(n, r)
  /\ Waiting(n, r)' => Waiting(n, r)
  /\ Told(n, r)' => Told(n, r)
  /\ Noted(n, r)' => Noted(n, r)
  /\ AnswerWaiting(n, r)' => AnswerWaiting(n, r)
  /\ AnswerTold(n, r)' => AnswerTold(n, r)

(* Emptying stages keeps a request asked for once. *)
LEMMA FewerOnce ==
  ASSUME NEW n \in Session, NEW r \in Requests, Once(n, r), OnlyFewer(n, r), Ordered(n, r)'
  PROVE  Once(n, r)'
BY DEF Once, OnlyFewer

(* A step after which what a session knew is still accounted for: a loop does *)
(* not start anew, a request leaves the session only when it is done and the  *)
(* session is not registered, and a session is registered only at its start.  *)
Settles(n, r) ==
  /\ \/ turn'[n] = turn[n]
     \/ turn[n] = "none" /\ turn'[n] = "register"
     \/ turn[n] # "over" /\ turn'[n] \notin {"none", "register"}
     \/ turn'[n] = "over"
  /\ turn'[n] # "over" =>
       /\ Sent(n, r) => Sent(n, r)' \/ (n \notin workers' /\ place'[r] = "done")
       /\ place[r] = "done" => place'[r] = "done"
       /\ n \notin workers => n \notin workers' \/ turn[n] = "register"

LEMMA FewerAccounted ==
  ASSUME NEW n \in Session, NEW r \in Requests, Accounted(n, r), Settles(n, r),
         Known(n, r)' => Known(n, r), Noted(n, r)' => Noted(n, r) \/ Known(n, r)
  PROVE  Accounted(n, r)'
BY DEF Accounted, Settles

(* Channels on which a step says nothing of a request. *)
QuietToWorker(n, r) ==
  \/ to_worker'[n] = to_worker[n] \/ to_worker'[n] = <<>>
  \/ to_worker[n] # <<>> /\ to_worker'[n] = Tail(to_worker[n])
  \/ \E s \in Seq(Message) : /\ Request(r) \notin Members(s)
                             /\ to_worker'[n] = to_worker[n] \o s

QuietToServer(n, r) ==
  \/ to_server'[n] = to_server[n] \/ to_server'[n] = <<>>
  \/ to_server[n] # <<>> /\ to_server'[n] = Tail(to_server[n])
  \/ \E m \in Message \ About(r) :
       to_server'[n] = to_server[n] \o <<m>> \/ to_server'[n] = <<m>>

QuietEvents(n, r) ==
  \/ number' = number /\ event_rx' = event_rx
  \/ number' = number /\ n # number
  \/ event_rx' = <<>>
  \/ number' = number /\ event_rx # <<>> /\ event_rx' = Tail(event_rx)
  \/ number' = number /\ \E s \in Seq(Event) :
       /\ Members(s) \cap (Events(r) \cup {RequestFinished(r)}) = {}
       /\ event_rx' = event_rx \o s

(* What happens to the channel to the worker when nothing is asked for. *)
LEMMA WorkerChannelFewer ==
  ASSUME ChannelsTyped, NEW n \in Session, NEW r \in Requests, Ordered(n, r),
         QuietToWorker(n, r)
  PROVE  /\ Asked(n, r)' => Asked(n, r)
         /\ LastOf(to_worker'[n], Request(r), {Request(r)})
<1>1. to_worker[n] \in Seq(Message)
  BY DEF ChannelsTyped
<1>2. LastOf(to_worker[n], Request(r), {Request(r)})
  BY DEF Ordered
<1>3. CASE to_worker'[n] = to_worker[n]
  BY <1>2, <1>3 DEF Asked
<1>4. CASE to_worker'[n] = <<>>
  BY <1>4, ShortChannels DEF Asked
<1>5. CASE to_worker[n] # <<>> /\ to_worker'[n] = Tail(to_worker[n])
  BY <1>1, <1>2, <1>5, TailProperties DEF Asked
<1>6. ASSUME NEW s \in Seq(Message), Request(r) \notin Members(s),
             to_worker'[n] = to_worker[n] \o s
      PROVE  /\ Asked(n, r)' => Asked(n, r)
             /\ LastOf(to_worker'[n], Request(r), {Request(r)})
  <2>1. Members(to_worker'[n]) = Members(to_worker[n]) \cup Members(s)
    BY <1>1, <1>6, JoinProperties
  <2>2. LastOf(s, Request(r), {Request(r)})
    BY <1>6 DEF LastOf, Members
  <2>3. LastOf(to_worker'[n], Request(r), {Request(r)})
    BY <1>1, <1>2, <1>6, <2>2, WriteProperties
  <2>. QED  BY <1>6, <2>1, <2>3 DEF Asked
<1>. QED  BY <1>3, <1>4, <1>5, <1>6 DEF QuietToWorker

(* What happens to the channel to the server when nothing is said of r. *)
LEMMA ServerChannelFewer ==
  ASSUME ChannelsTyped, NEW n \in Session, NEW r \in Requests, Ordered(n, r),
         QuietToServer(n, r)
  PROVE  /\ Told(n, r)' => Told(n, r)
         /\ AnswerTold(n, r)' => AnswerTold(n, r)
         /\ LastOf(to_server'[n], Complete(r), About(r))
<1>1. to_server[n] \in Seq(Message)
  BY DEF ChannelsTyped
<1>2. LastOf(to_server[n], Complete(r), About(r)) /\ Complete(r) \in About(r)
  BY DEF Ordered, About
<1>3. CASE to_server'[n] = to_server[n]
  BY <1>2, <1>3 DEF Told, AnswerTold
<1>4. CASE to_server'[n] = <<>>
  BY <1>4, ShortChannels DEF Told, AnswerTold
<1>5. CASE to_server[n] # <<>> /\ to_server'[n] = Tail(to_server[n])
  BY <1>1, <1>2, <1>5, TailProperties DEF Told, AnswerTold
<1>6. ASSUME NEW m \in Message \ About(r), to_server'[n] = <<m>>
      PROVE  /\ Told(n, r)' => Told(n, r)
             /\ AnswerTold(n, r)' => AnswerTold(n, r)
             /\ LastOf(to_server'[n], Complete(r), About(r))
  BY <1>2, <1>6, ShortChannels DEF Told, AnswerTold
<1>7. ASSUME NEW m \in Message \ About(r), to_server'[n] = to_server[n] \o <<m>>
      PROVE  /\ Told(n, r)' => Told(n, r)
             /\ AnswerTold(n, r)' => AnswerTold(n, r)
             /\ LastOf(to_server'[n], Complete(r), About(r))
  <2>1. m \in Message /\ m \notin About(r)
    OBVIOUS
  <2>. HIDE DEF Message
  <2>2. /\ to_server'[n] \in Seq(Message) /\ Members(to_server'[n]) = Members(to_server[n]) \cup {m}
        /\ LastOf(to_server'[n], Complete(r), About(r))
    BY <1>1, <1>2, <1>7, <2>1, OneMore
  <2>. QED  BY <1>2, <2>1, <2>2, Zenon DEF Told, AnswerTold
<1>. QED  BY <1>3, <1>4, <1>5, <1>6, <1>7 DEF QuietToServer

(* What happens to the event channel when nothing is said of r. *)
LEMMA EventChannelFewer ==
  ASSUME ChannelsTyped, NEW n \in Session, NEW r \in Requests, Ordered(n, r),
         QuietEvents(n, r)
  PROVE  /\ Waiting(n, r)' => Waiting(n, r)
         /\ Noted(n, r)' => Noted(n, r)
         /\ AnswerWaiting(n, r)' => AnswerWaiting(n, r)
         /\ n = number' => LastOf(event_rx', Outbound(Complete(r)), Events(r))
<1>1. event_rx \in Seq(Event)
  BY DEF ChannelsTyped
<1>2. Outbound(Complete(r)) \in Events(r)
      /\ (n = number => LastOf(event_rx, Outbound(Complete(r)), Events(r)))
  BY DEF Ordered, Events
<1>3. CASE number' = number /\ event_rx' = event_rx
  BY <1>2, <1>3 DEF Waiting, Noted, AnswerWaiting
<1>4. CASE event_rx' = <<>>
  BY <1>4, ShortChannels DEF Waiting, Noted, AnswerWaiting
<1>5. CASE number' = number /\ event_rx # <<>> /\ event_rx' = Tail(event_rx)
  BY <1>1, <1>2, <1>5, TailProperties DEF Waiting, Noted, AnswerWaiting
<1>6. ASSUME NEW s \in Seq(Event), number' = number, event_rx' = event_rx \o s,
             Members(s) \cap (Events(r) \cup {RequestFinished(r)}) = {}
      PROVE  /\ Waiting(n, r)' => Waiting(n, r)
             /\ Noted(n, r)' => Noted(n, r)
             /\ AnswerWaiting(n, r)' => AnswerWaiting(n, r)
             /\ n = number' => LastOf(event_rx', Outbound(Complete(r)), Events(r))
  <2>. HIDE DEF Event
  <2>1. Members(event_rx') = Members(event_rx) \cup Members(s)
    BY <1>1, <1>6, JoinProperties
  <2>2. LastOf(s, Outbound(Complete(r)), Events(r))
    BY <1>6 DEF LastOf, Members
  <2>3. n = number => LastOf(event_rx', Outbound(Complete(r)), Events(r))
    BY <1>1, <1>2, <1>6, <2>2, WriteProperties
  <2>4. /\ \A e \in Events(r) : e \in Members(event_rx') => e \in Members(event_rx)
        /\ RequestFinished(r) \in Members(event_rx') => RequestFinished(r) \in Members(event_rx)
    BY <1>6, <2>1
  <2>. QED  BY <1>2, <1>6, <2>3, <2>4 DEF Waiting, Noted, AnswerWaiting
<1>7. CASE number' = number /\ n # number
  BY <1>7 DEF Waiting, Noted, AnswerWaiting
<1>. QED  BY <1>3, <1>4, <1>5, <1>6, <1>7 DEF QuietEvents

(* A step that says nothing of r on any channel, and starts no task for it. *)
LEMMA QuietStep ==
  ASSUME LinkTyped, NEW n \in Session, NEW r \in Requests, Once(n, r),
         AtWork(n, r)' => AtWork(n, r),
         QuietToWorker(n, r), QuietToServer(n, r), QuietEvents(n, r)
  PROVE  /\ Once(n, r)'
         /\ Known(n, r)' => Known(n, r)
         /\ Noted(n, r)' => Noted(n, r)
<1>1. ChannelsTyped /\ Ordered(n, r)
  BY DEF LinkTyped, Once
<1>2. (Asked(n, r)' => Asked(n, r)) /\ LastOf(to_worker'[n], Request(r), {Request(r)})
  BY <1>1, WorkerChannelFewer
<1>3. /\ Told(n, r)' => Told(n, r)
      /\ AnswerTold(n, r)' => AnswerTold(n, r)
      /\ LastOf(to_server'[n], Complete(r), About(r))
  BY <1>1, ServerChannelFewer
<1>4. /\ Waiting(n, r)' => Waiting(n, r)
      /\ Noted(n, r)' => Noted(n, r)
      /\ AnswerWaiting(n, r)' => AnswerWaiting(n, r)
      /\ n = number' => LastOf(event_rx', Outbound(Complete(r)), Events(r))
  BY <1>1, EventChannelFewer
<1>5. OnlyFewer(n, r)
  BY <1>2, <1>3, <1>4 DEF OnlyFewer
<1>6. Ordered(n, r)'
  BY <1>2, <1>3, <1>4 DEF Ordered
<1>. QED  BY <1>5, <1>6, FewerOnce DEF Known, OnlyFewer

-----------------------------------------------------------------------------
(* The socket loop. *)

(* But for the requests it sends, a step of the loop says nothing of any      *)
(* request on any connection.                                                 *)
LEMMA LoopIsQuiet ==
  ASSUME LinkTyped, NEW n \in Session, SocketLoop(n), NEW m \in Session, NEW r \in Requests,
         ~(m = n /\ FlushRequests(n) /\ owner[r] = n /\ place[r] = "pending")
  PROVE  /\ UNCHANGED daemonVars
         /\ QuietToWorker(m, r) /\ QuietToServer(m, r) /\ QuietEvents(m, r)
<1>. DEFINE Goal == QuietToWorker(m, r) /\ QuietToServer(m, r)
<1>1. UNCHANGED daemonVars /\ ChannelsTyped
  BY LoopChannelsTyped DEF LinkTyped
<1>2. ASSUME NEW s \in Seq(Message), Write(n, s), m = n => Request(r) \notin Members(s)
      PROVE  QuietToWorker(m, r)
  <2>1. /\ to_worker'[n] \in {to_worker[n], to_worker[n] \o s}
        /\ \A k \in Session : k # n => to_worker'[k] = to_worker[k]
    BY <1>1, <1>2, WriteTyped
  <2>. QED  BY <1>2, <2>1 DEF QuietToWorker
<1>3. ASSUME FlushCancels(n) \/ FlushRequests(n) \/ FlushShutdowns(n) \/ FlushRefreshes(n)
      PROVE  Goal
  <2>1. to_server' = to_server
    BY <1>3, FlushWrites
  <2>2. PICK s \in Seq(Message) :
          /\ Write(n, s)
          /\ \A q \in Requests :
               Request(q) \in Members(s) =>
                 FlushRequests(n) /\ owner[q] = n /\ place[q] = "pending"
    BY <1>3, FlushWrites
  <2>3. m = n => Request(r) \notin Members(s)
    BY <2>2
  <2>. QED  BY <1>2, <2>1, <2>2, <2>3 DEF QuietToServer
<1>4. ASSUME NEW kind \in {"Close", "Ping"}
      PROVE  <<Plainly(kind)>> \in Seq(Message) /\ Request(r) \notin Members(<<Plainly(kind)>>)
  <2>1. Plainly(kind) \in Message
    BY MessagesTyped DEF PlainKinds
  <2>2. Request(r) # Plainly(kind)
    BY DEF Request, Msg, Plainly
  <2>. QED  BY <2>1, <2>2, ShortChannels
<1>5. ASSUME SayGoodbye(n) PROVE Goal
  <2>1. /\ to_server'[n] = <<>>
        /\ \A k \in Session : k # n => to_server'[k] = to_server[k]
    BY <1>1, <1>5, GoodbyeTyped
  <2>2. QuietToWorker(m, r)
    BY <1>2, <1>4, <1>5 DEF SayGoodbye
  <2>. QED  BY <2>1, <2>2 DEF QuietToServer
<1>6. ASSUME UNCHANGED to_worker,
             \/ UNCHANGED to_server
             \/ to_server[n] # <<>> /\ to_server' = [to_server EXCEPT ![n] = Tail(@)]
      PROVE  Goal
  BY <1>1, <1>6 DEF ChannelsTyped, QuietToWorker, QuietToServer
<1>7. ASSUME CloseAction(n) PROVE Goal
  BY <1>5, <1>6, <1>7 DEF CloseAction
<1>8. ASSUME RegisterWorker(n) \/ HandleComplete(n) \/ HandleLateComplete(n) \/ HandleReport(n)
      PROVE  Goal
  <2>1. /\ to_server[n] # <<>> /\ to_server' = [to_server EXCEPT ![n] = Tail(@)]
        /\ UNCHANGED to_worker
    BY <1>8
    DEF RegisterWorker, HandleComplete, HandleLateComplete, HandleReport, Accept, Arrives
  <2>. QED  BY <1>6, <2>1
<1>9. ASSUME RecvTimesOut(n) \/ ReceivePingFrame(n) \/ SocketLost(n) PROVE Goal
  BY <1>6, <1>9 DEF RecvTimesOut, ReceivePingFrame, SocketLost
<1>10. ASSUME ProtocolError(n) \/ StaleHeartbeat(n) PROVE Goal
  BY <1>5, <1>10 DEF ProtocolError, StaleHeartbeat
<1>11. ASSUME SendHeartbeatPing(n) PROVE Goal
  <2>1. QuietToWorker(m, r)
    BY <1>2, <1>4, <1>11 DEF SendHeartbeatPing
  <2>. QED  BY <1>11, <2>1 DEF SendHeartbeatPing, QuietToServer
<1>. QED
  BY <1>1, <1>3, <1>7, <1>8, <1>9, <1>10, <1>11 DEF SocketLoop, QuietEvents

(* What each step of the loop does to a request a session knows of. *)
LEMMA LoopSettles ==
  ASSUME LinkTyped, NEW n \in Session, SocketLoop(n), NEW m \in Session, NEW r \in Requests,
         HandleComplete(n) => m # n \/ Arrived(n).id # r
  PROVE  Settles(m, r)
<1>0. /\ turn \in [Session -> Turn]
      /\ place \in [Requests -> {"queued", "pending", "sent", "done"}]
      /\ owner \in [Requests -> 0..MaxSessions]
      /\ n # 0 /\ m # 0
  BY DaemonAssumption DEF LinkTyped, CoreTyped, Session
<1>1. ASSUME NEW step \in Turn \ {"none", "register"}, GoTo(n, step), turn[n] # "over",
             workers' = workers \/ (turn[n] = "register" /\ workers' = workers \cup {n}),
             UNCHANGED owner,
             \/ UNCHANGED place
             \/ place'[r] = (IF place[r] = "pending" /\ owner[r] = n THEN "sent" ELSE place[r])
      PROVE  Settles(m, r)
  <2>1. turn'[n] = step /\ (m # n => turn'[m] = turn[m])
    BY <1>0, <1>1 DEF GoTo
  <2>2. Sent(m, r) => Sent(m, r)'
    BY <1>1 DEF Sent
  <2>3. place[r] = "done" => place'[r] = "done"
    BY <1>1
  <2>4. m \notin workers => m \notin workers' \/ turn[m] = "register"
    BY <1>1
  <2>. QED  BY <1>1, <2>1, <2>2, <2>3, <2>4 DEF Settles
<1>2. ASSUME FlushCancels(n) \/ FlushShutdowns(n) \/ FlushRefreshes(n) PROVE Settles(m, r)
  <2>1. PICK step \in {"requests", "refreshes", "close"} :
          turn[n] \in {"cancels", "shutdowns", "refreshes"} /\ GoTo(n, step)
    BY <1>2 DEF FlushCancels, FlushShutdowns, FlushRefreshes, Flush
  <2>2. UNCHANGED <<workers, owner, place>>
    BY <1>2 DEF FlushCancels, FlushShutdowns, FlushRefreshes, Flush
  <2>. QED  BY <1>1, <2>1, <2>2 DEF Turn
<1>3. ASSUME FlushRequests(n) PROVE Settles(m, r)
  <2>1. turn[n] = "requests" /\ GoTo(n, "shutdowns") /\ UNCHANGED <<workers, owner>>
    BY <1>3 DEF FlushRequests, Flush
  <2>2. place'[r] = (IF place[r] = "pending" /\ owner[r] = n THEN "sent" ELSE place[r])
    BY <1>3 DEF FlushRequests, OwnedBy
  <2>. QED  BY <1>1, <2>1, <2>2 DEF Turn
<1>4. ASSUME RegisterWorker(n) PROVE Settles(m, r)
  <2>1. /\ turn[n] = "register" /\ GoTo(n, "cancels") /\ workers' = workers \cup {n}
        /\ UNCHANGED <<owner, place>>
    BY <1>4 DEF RegisterWorker
  <2>. QED  BY <1>1, <2>1 DEF Turn
<1>5. ASSUME \/ HandleLateComplete(n) \/ HandleReport(n) \/ RecvTimesOut(n)
             \/ ReceivePingFrame(n) \/ SendHeartbeatPing(n)
      PROVE  Settles(m, r)
  <2>1. turn[n] = "recv" /\ GoTo(n, "cancels") /\ UNCHANGED <<workers, owner, place>>
    BY <1>5 DEF HandleLateComplete, HandleReport, RecvTimesOut, ReceivePingFrame,
                SendHeartbeatPing, Arrives, Accept
  <2>. QED  BY <1>1, <2>1 DEF Turn
<1>6. ASSUME ProtocolError(n) \/ StaleHeartbeat(n) \/ SocketLost(n) PROVE Settles(m, r)
  <2>1. LoopEnds(n)
    BY <1>6 DEF ProtocolError, StaleHeartbeat, SocketLost
  <2>2. turn'[n] = "over" /\ (m # n => turn'[m] = turn[m])
    BY <1>0, <2>1 DEF LoopEnds, GoTo
  <2>3. /\ workers' = workers \ {n}
        /\ r \notin OwnedBy(n) => owner'[r] = owner[r] /\ place'[r] = place[r]
    BY <2>1, <1>0 DEF LoopEnds, DisconnectWorker, RemoveWorkers
  <2>4. /\ m # n /\ Sent(m, r) => r \notin OwnedBy(n)
        /\ place[r] = "done" => r \notin OwnedBy(n)
    BY DEF Sent, OwnedBy
  <2>. QED  BY <2>2, <2>3, <2>4 DEF Settles, Sent
<1>7. ASSUME CloseAction(n) PROVE Settles(m, r)
  <2>1. PICK expired \in {{}, draining} :
         LET idle == {d \in draining \cap {n} : OwnedBy(n) = {}}
             gone == expired \cup idle
             failed == UNION {OwnedBy(d) : d \in expired}
         IN /\ place' = [q \in Requests |-> IF q \in failed THEN "done" ELSE place[q]]
            /\ owner' = [q \in Requests |-> IF q \in failed THEN 0 ELSE owner[q]]
            /\ workers' = workers \ gone
    BY <1>7 DEF CloseAction, RemoveWorkers
  <2>. DEFINE idle == {d \in draining \cap {n} : OwnedBy(n) = {}}
              gone == expired \cup idle
              failed == UNION {OwnedBy(d) : d \in expired}
  <2>2. /\ place'[r] = IF r \in failed THEN "done" ELSE place[r]
        /\ owner'[r] = IF r \in failed THEN 0 ELSE owner[r]
        /\ workers' = workers \ gone
    BY <2>1
  <2>3. \/ turn'[n] \in {"over", "recv"} /\ turn[n] = "close" /\ (m # n => turn'[m] = turn[m])
    BY <1>0, <1>7 DEF CloseAction, GoTo
  <2>4. r \in failed => owner[r] \in gone /\ place[r] \in {"pending", "sent"}
    BY DEF OwnedBy
  <2>. HIDE DEF idle, gone, failed
  <2>5. Sent(m, r) => Sent(m, r)' \/ (m \notin workers' /\ place'[r] = "done")
    BY <2>2, <2>4 DEF Sent
  <2>6. place[r] = "done" => place'[r] = "done"
    BY <2>2
  <2>7. m \notin workers => m \notin workers'
    BY <2>2
  <2>. QED  BY <2>3, <2>5, <2>6, <2>7 DEF Settles
<1>8. ASSUME HandleComplete(n) PROVE Settles(m, r)
  <2>. DEFINE q == Arrived(n).id
  <2>1. /\ q \in OwnedBy(n) /\ turn[n] = "recv" /\ GoTo(n, "cancels")
        /\ place' = [place EXCEPT ![q] = "done"] /\ owner' = [owner EXCEPT ![q] = 0]
        /\ m \notin workers => m \notin workers'
    BY <1>8 DEF HandleComplete, Arrives, Accept
  <2>2. m # n \/ q # r
    BY <1>8
  <2>. HIDE DEF q
  <2>3. q \in Requests /\ owner[q] = n
    BY <2>1 DEF OwnedBy
  <2>4. turn'[n] = "cancels" /\ (m # n => turn'[m] = turn[m])
    BY <1>0, <2>1 DEF GoTo
  <2>5. Sent(m, r) => Sent(m, r)'
    BY <1>0, <2>1, <2>2, <2>3 DEF Sent
  <2>6. place[r] = "done" => place'[r] = "done"
    BY <1>0, <2>1, <2>3
  <2>. QED  BY <2>1, <2>4, <2>5, <2>6 DEF Settles
<1>. QED
  BY <1>2, <1>3, <1>4, <1>5, <1>6, <1>7, <1>8 DEF SocketLoop

(* A request that is sent is asked for the first time. *)
LEMMA SendingKeepsPipeline ==
  ASSUME LinkTyped, NEW n \in Session, FlushRequests(n), NEW r \in Requests,
         Once(n, r), Accounted(n, r), owner[r] = n, place[r] = "pending"
  PROVE  Once(n, r)' /\ Accounted(n, r)'
<1>1. turn[n] = "requests" /\ turn'[n] = "shutdowns"
  BY DEF FlushRequests, Flush, GoTo, LinkTyped, CoreTyped
<1>2. ~Known(n, r) /\ ~Noted(n, r)
  BY <1>1 DEF Accounted, Sent
<1>3. Sent(n, r)'
  BY DEF FlushRequests, Flush, OwnedBy, Sent
<1>4. PICK s \in Seq(Message) : Write(n, s) /\ LastOf(s, Request(r), {Request(r)})
  BY FlushWrites
<1>5. UNCHANGED <<daemonVars, to_server>>
  BY FlushWrites
<1>6. to_worker'[n] \in {to_worker[n], to_worker[n] \o s} /\ to_worker[n] \in Seq(Message)
  BY <1>4, WriteTyped DEF LinkTyped, ChannelsTyped
<1>7. Request(r) \notin Members(to_worker[n]) /\ Ordered(n, r)
  BY <1>2 DEF Known, Asked, Once
<1>8. LastOf(to_worker'[n], Request(r), {Request(r)})
  BY <1>4, <1>6, <1>7, WriteProperties DEF Ordered
<1>9. /\ ~AtWork(n, r)' /\ ~Waiting(n, r)' /\ ~Told(n, r)' /\ ~Noted(n, r)'
      /\ AnswerTold(n, r)' <=> AnswerTold(n, r)
  BY <1>2, <1>5 DEF Known, AtWork, Waiting, Told, Noted, AnswerTold
<1>10. Ordered(n, r)'
  BY <1>5, <1>7, <1>8 DEF Ordered
<1>11. Once(n, r)'
  BY <1>9, <1>10 DEF Once
<1>12. Accounted(n, r)'
  BY <1>1, <1>3, <1>9 DEF Accounted
<1>. QED  BY <1>11, <1>12

(* When the answer of a request has been received nothing more is to come. *)
LEMMA AnsweredKeepsPipeline ==
  ASSUME LinkTyped, NEW n \in Session, HandleComplete(n), NEW r \in Requests,
         Once(n, r), r = Arrived(n).id
  PROVE  Once(n, r)' /\ Accounted(n, r)'
<1>1. /\ turn'[n] = "cancels" /\ place'[r] = "done"
      /\ to_server[n] \in Seq(Message) /\ to_server[n] # <<>>
      /\ to_server'[n] = Tail(to_server[n])
  BY DEF HandleComplete, Accept, Arrives, GoTo, LinkTyped, CoreTyped, ChannelsTyped
<1>2. Arrived(n) = Complete(r)
  <2>1. Arrived(n) \in Message /\ Arrived(n).type = "ResponseComplete"
    BY <1>1, TailProperties DEF HandleComplete, Arrived
  <2>. QED  BY <2>1, MessageKinds
<1>3. AnswerTold(n, r) /\ Told(n, r)
  <2>1. Complete(r) \in Members(to_server[n])
    BY <1>1, <1>2, TailProperties DEF Arrived
  <2>. QED  BY <2>1 DEF AnswerTold, Told, About
<1>4. ~Asked(n, r) /\ ~AtWork(n, r) /\ ~Waiting(n, r)
  BY <1>3 DEF Once
<1>5. ~Told(n, r)'
  <2>1. LastOf(to_server[n], Complete(r), About(r))
    BY DEF Once, Ordered
  <2>2. Members(Tail(to_server[n])) \cap About(r) = {}
    BY <1>1, <1>2, <2>1, TailProperties DEF Arrived
  <2>. QED  BY <1>1, <2>2 DEF Told
<1>6. ~FlushRequests(n)
  BY DEF FlushRequests, Flush, HandleComplete, Arrives
<1>7. /\ QuietToWorker(n, r) /\ QuietToServer(n, r) /\ QuietEvents(n, r) /\ UNCHANGED daemonVars
  BY <1>6, LoopIsQuiet DEF SocketLoop
<1>8. Once(n, r)'
  BY <1>7, QuietStep DEF AtWork
<1>9. ~Known(n, r)'
  <2>1. Asked(n, r)' => Asked(n, r)
    BY <1>7, WorkerChannelFewer DEF LinkTyped, Once
  <2>2. (Waiting(n, r)' <=> Waiting(n, r)) /\ (AtWork(n, r)' <=> AtWork(n, r))
    BY <1>7 DEF Waiting, AtWork
  <2>. QED  BY <1>4, <1>5, <2>1, <2>2 DEF Known
<1>10. Accounted(n, r)'
  BY <1>1, <1>9 DEF Accounted
<1>. QED  BY <1>8, <1>10

(* Every step of the socket loop keeps the pipeline in order. *)
LEMMA LoopKeepsPipeline ==
  ASSUME LinkTyped, PipelineInv, NEW n \in Session, SocketLoop(n)
  PROVE  PipelineInv'
<1>. SUFFICES ASSUME NEW m \in Session, NEW r \in Requests
              PROVE  Once(m, r)' /\ Accounted(m, r)'
  BY DEF PipelineInv
<1>0. Once(m, r) /\ Accounted(m, r)
  BY DEF PipelineInv
<1>1. CASE m = n /\ FlushRequests(n) /\ owner[r] = n /\ place[r] = "pending"
  BY <1>0, <1>1, SendingKeepsPipeline
<1>2. CASE m = n /\ HandleComplete(n) /\ Arrived(n).id = r
  BY <1>0, <1>2, AnsweredKeepsPipeline
<1>3. CASE /\ ~(m = n /\ FlushRequests(n) /\ owner[r] = n /\ place[r] = "pending")
           /\ HandleComplete(n) => m # n \/ Arrived(n).id # r
  <2>1. /\ UNCHANGED daemonVars
        /\ QuietToWorker(m, r) /\ QuietToServer(m, r) /\ QuietEvents(m, r)
    BY <1>3, LoopIsQuiet
  <2>2. Once(m, r)' /\ (Known(m, r)' => Known(m, r)) /\ (Noted(m, r)' => Noted(m, r))
    BY <1>0, <2>1, QuietStep DEF AtWork
  <2>3. Settles(m, r)
    BY <1>3, LoopSettles
  <2>. QED  BY <1>0, <2>2, <2>3, FewerAccounted
<1>. QED  BY <1>1, <1>2, <1>3

-----------------------------------------------------------------------------
(* The daemon. *)

(* The steps of the daemon that move a request on: it starts a task, writes   *)
(* what is waiting, or its task has something to say.                         *)
MovesOn(n, r) ==
  /\ n = number
  /\ \/ HandleRequest /\ ~shutting_down /\ Head(to_worker[number]).id = r
     \/ SendOutbound /\ Head(event_rx).message \in About(r)
     \/ Live(n) /\ (TaskSendsChunk(n, r) \/ TaskCompletes(n, r))

(* Every other step of the daemon says nothing of the request and starts no   *)
(* task for it.                                                               *)
LEMMA DaemonIsQuiet ==
  ASSUME LinkTyped, DaemonStep, NEW m \in Session, NEW r \in Requests, ~MovesOn(m, r)
  PROVE  /\ AtWork(m, r)' => AtWork(m, r)
         /\ QuietToWorker(m, r) /\ QuietToServer(m, r) /\ QuietEvents(m, r)
<1>. DEFINE Goal == /\ AtWork(m, r)' => AtWork(m, r)
                    /\ QuietToWorker(m, r) /\ QuietToServer(m, r) /\ QuietEvents(m, r)
<1>0. /\ to_worker \in [Session -> Seq(Message)] /\ to_server \in [Session -> Seq(Message)]
      /\ event_rx \in Seq(Event) /\ (InSession => number \in Session)
  BY DEF LinkTyped, DaemonTyped, ChannelsTyped
<1>1. ASSUME Connect PROVE Goal
  <2>1. Plainly("Register") \in Message \ About(r)
    <3>1. Plainly("Register") \in Message
      BY MessagesTyped DEF PlainKinds
    <3>. QED  BY <3>1 DEF Plainly, About, Chunk, Complete, Msg
  <2>2. /\ UNCHANGED <<tasks, to_worker>> /\ event_rx' = <<>>
        /\ to_server' = [to_server EXCEPT ![number + 1] = <<Plainly("Register")>>]
    BY <1>1 DEF Connect
  <2>3. to_server'[m] = to_server[m] \/ to_server'[m] = <<Plainly("Register")>>
    BY <1>0, <2>2
  <2>. QED
    BY <2>1, <2>2, <2>3 DEF AtWork, QuietToWorker, QuietToServer, QuietEvents
<1>2. ASSUME InSession, ReturnError \/ BreakLoop \/ RequestFails PROVE Goal
  <2>1. /\ tasks' \subseteq tasks /\ event_rx' = <<>> /\ UNCHANGED to_server
        /\ to_worker' = [to_worker EXCEPT ![number] = <<>>]
    BY <1>2 DEF ReturnError, BreakLoop, RequestFails, CloseSession
  <2>2. to_worker'[m] = to_worker[m] \/ to_worker'[m] = <<>>
    BY <1>0, <2>1
  <2>. QED
    BY <2>1, <2>2 DEF AtWork, QuietToWorker, QuietToServer, QuietEvents
<1>3. ASSUME NEW type, Incoming(type), Consume, UNCHANGED <<number, to_server>>,
             AtWork(m, r)' => AtWork(m, r), QuietEvents(m, r)
      PROVE  Goal
  <2>1. \/ to_worker'[m] = to_worker[m]
        \/ to_worker[m] # <<>> /\ to_worker'[m] = Tail(to_worker[m])
    BY <1>0, <1>3, IncomingProperties DEF Consume, Incoming
  <2>. QED  BY <1>3, <2>1 DEF QuietToWorker, QuietToServer
<1>4. ASSUME HandleRequest, ~shutting_down PROVE Goal
  <2>1. AtWork(m, r)' => AtWork(m, r)
    BY <1>4 DEF HandleRequest, MovesOn, AtWork
  <2>2. Consume /\ Incoming("Request") /\ UNCHANGED <<number, to_server, event_rx>>
    BY <1>4 DEF HandleRequest
  <2>3. QuietEvents(m, r)
    BY <2>2 DEF QuietEvents
  <2>. QED  BY <1>3, <2>1, <2>2, <2>3
<1>5. ASSUME NEW kind \in {"Pong", "ModelsUpdate"},
             Enqueue(<<Outbound(Plainly(kind))>>), UNCHANGED number
      PROVE  QuietEvents(m, r)
  <2>1. Plainly(kind) \in Message /\ Plainly(kind) \notin About(r)
    <3>1. Plainly(kind) \in Message
      BY MessagesTyped DEF PlainKinds
    <3>. QED  BY <3>1 DEF Plainly, About, Chunk, Complete, Msg
  <2>. DEFINE e == Outbound(Plainly(kind))
  <2>2. e \in Event /\ e \notin Events(r) /\ e # RequestFinished(r)
    <3>1. e \in Event
      BY <2>1, MessagesTyped
    <3>2. \A k : (Outbound(k) \in Events(r) <=> k \in About(r)) /\ Outbound(k) # RequestFinished(r)
      BY DEF Events, Outbound, About, RequestFinished
    <3>. QED  BY <2>1, <3>1, <3>2
  <2>3. event_rx' = event_rx \o <<e>>
    BY <1>5 DEF Enqueue
  <2>. HIDE DEF e, Event
  <2>4. <<e>> \in Seq(Event) /\ Members(<<e>>) = {e}
    BY <2>2, ShortChannels
  <2>. QED  BY <1>5, <2>2, <2>3, <2>4 DEF QuietEvents
<1>6. ASSUME HandlePing PROVE Goal
  <2>1. Consume /\ Incoming("Ping") /\ UNCHANGED <<number, to_server, tasks>>
    BY <1>6 DEF HandlePing
  <2>2. QuietEvents(m, r)
    BY <1>5, <1>6 DEF HandlePing
  <2>. QED  BY <1>3, <2>1, <2>2 DEF AtWork
<1>7. ASSUME HandleGracefulShutdown \/ HandleModelsRefresh \/ HandleCancel PROVE Goal
  <2>1. PICK type : Incoming(type)
    BY <1>7 DEF HandleGracefulShutdown, HandleModelsRefresh, HandleCancel
  <2>2. /\ Consume /\ UNCHANGED <<number, to_server, event_rx>> /\ tasks' \subseteq tasks
    BY <1>7 DEF HandleGracefulShutdown, HandleModelsRefresh, HandleCancel
  <2>. QED  BY <1>3, <2>1, <2>2 DEF AtWork, QuietEvents
<1>8. ASSUME ModelsDiscovered PROVE Goal
  <2>1. UNCHANGED <<number, tasks, to_server, to_worker>>
    BY <1>8 DEF ModelsDiscovered
  <2>2. QuietEvents(m, r)
    BY <1>5, <1>8 DEF ModelsDiscovered
  <2>. QED  BY <2>1, <2>2 DEF AtWork, QuietToWorker, QuietToServer
<1>9. ASSUME RequestFinishes PROVE Goal
  BY <1>9
  DEF RequestFinishes, NextEvent, AtWork, QuietToWorker, QuietToServer, QuietEvents
<1>10. ASSUME SendOutbound PROVE Goal
  <2>1. /\ number \in Session /\ Head(event_rx).message \in Message
    BY <1>10, NextEventProperties, EventKinds DEF SendOutbound
  <2>2. m = number => Head(event_rx).message \notin About(r)
    BY <1>10 DEF MovesOn
  <2>3. /\ UNCHANGED <<tasks, to_worker, number>> /\ event_rx # <<>> /\ event_rx' = Tail(event_rx)
        /\ to_server' = [to_server EXCEPT ![number] =
                           IF link[number] = "up" THEN Append(@, Head(event_rx).message) ELSE @]
    BY <1>10 DEF SendOutbound, NextEvent
  <2>. DEFINE x == Head(event_rx).message
  <2>. HIDE DEF x, Message
  <2>4. \/ to_server'[m] = to_server[m]
        \/ m = number /\ to_server'[m] = Append(to_server[m], x)
    BY <1>0, <2>3 DEF x
  <2>5. Append(to_server[m], x) = to_server[m] \o <<x>>
    <3>1. to_server[m] \in Seq(Message) /\ x \in Message
      BY <1>0, <2>1 DEF x
    <3>. QED  BY <3>1, AppendIsJoin
  <2>6. QuietToServer(m, r)
    BY <2>1, <2>2, <2>4, <2>5 DEF QuietToServer, x
  <2>. QED  BY <2>3, <2>6 DEF AtWork, QuietToWorker, QuietEvents
<1>11. ASSUME NEW n \in Session, NEW q \in Requests,
              TaskSendsChunk(n, q) \/ TaskCompletes(n, q) \/ TaskFails(n, q)
       PROVE  Goal
  <2>1. tasks' \subseteq tasks /\ UNCHANGED <<to_worker, to_server, number>>
    BY <1>11 DEF TaskSendsChunk, TaskCompletes, TaskFails, TaskEnds
  <2>2. CASE event_rx' = event_rx \/ m # number
    BY <2>1, <2>2 DEF AtWork, QuietToWorker, QuietToServer, QuietEvents
  <2>3. ASSUME event_rx' # event_rx, m = number PROVE QuietEvents(m, r)
    <3>1. n = m /\ Live(n)
      BY <1>11, <2>3 DEF TaskSendsChunk, TaskCompletes, TaskFails, TaskEnds, Live
    <3>. DEFINE c == <<Outbound(Chunk(q))>>
                d == <<Outbound(Complete(q)), RequestFinished(q)>>
                f == <<RequestFailed(q)>>
    <3>2. c \in Seq(Event) /\ d \in Seq(Event) /\ f \in Seq(Event)
      BY MessagesTyped
    <3>3. /\ Members(c) = {Outbound(Chunk(q))}
          /\ Members(d) = {Outbound(Complete(q)), RequestFinished(q)}
          /\ Members(f) = {RequestFailed(q)}
      BY ShortChannels
    <3>4. /\ q # r => /\ Outbound(Chunk(q)) \notin Events(r) /\ Outbound(Complete(q)) \notin Events(r)
                      /\ RequestFinished(q) # RequestFinished(r)
          /\ RequestFinished(q) \notin Events(r)
          /\ RequestFailed(q) \notin Events(r) /\ RequestFailed(q) # RequestFinished(r)
          /\ Outbound(Chunk(q)) # RequestFinished(r) /\ Outbound(Complete(q)) # RequestFinished(r)
      BY DEF Chunk, Complete, Events, RequestFinished, RequestFailed, Outbound, Msg
    <3>5. q = r => ~TaskSendsChunk(n, q) /\ ~TaskCompletes(n, q)
      BY <2>3, <3>1 DEF MovesOn
    <3>6. \/ q # r /\ event_rx' = event_rx \o c
          \/ q # r /\ event_rx' = event_rx \o d
          \/ event_rx' = event_rx \o f
      <4>1. CASE TaskSendsChunk(n, q)
        BY <3>5, <4>1 DEF TaskSendsChunk, Enqueue, Chunk
      <4>2. CASE TaskCompletes(n, q)
        BY <2>3, <3>5, <4>2 DEF TaskCompletes, TaskEnds, Enqueue, Complete
      <4>3. CASE TaskFails(n, q)
        BY <2>3, <4>3 DEF TaskFails, TaskEnds, Enqueue
      <4>. QED  BY <1>11, <4>1, <4>2, <4>3
    <3>. HIDE DEF c, d, f
    <3>7. /\ q # r => /\ Members(c) \cap (Events(r) \cup {RequestFinished(r)}) = {}
                      /\ Members(d) \cap (Events(r) \cup {RequestFinished(r)}) = {}
          /\ Members(f) \cap (Events(r) \cup {RequestFinished(r)}) = {}
      BY <3>3, <3>4
    <3>. QED  BY <2>1, <3>2, <3>6, <3>7 DEF QuietEvents
  <2>4. CASE event_rx' # event_rx /\ m = number
    BY <2>1, <2>3, <2>4 DEF AtWork, QuietToWorker, QuietToServer
  <2>. QED  BY <2>2, <2>4
<1>12. ASSUME \/ ReadClose \/ ReadFails \/ SendFails \/ LinkFoundDead \/ DiscoveryFails
              \/ (HandleRequest /\ shutting_down) \/ RequestFails
       PROVE  Goal
  BY <1>2, <1>12
  DEF ReadClose, ReadFails, SendFails, LinkFoundDead, DiscoveryFails, HandleRequest,
      RequestFails, Incoming, NextEvent, InSession
<1>. QED
  BY <1>1, <1>4, <1>6, <1>7, <1>8, <1>9, <1>10, <1>11, <1>12
  DEF DaemonStep, ReadArm, EventArm

(* A task starts with a request that was asked for, and is not asked for again. *)
LEMMA AcceptKeepsOnce ==
  ASSUME LinkTyped, NEW n \in Session, NEW r \in Requests, Once(n, r), n = number,
         HandleRequest, ~shutting_down, Head(to_worker[number]).id = r
  PROVE  Once(n, r)' /\ (Known(n, r)' => Known(n, r)) /\ (Noted(n, r)' => Noted(n, r))
<1>1. /\ to_worker[n] \in Seq(Message) /\ to_worker[n] # <<>>
      /\ to_worker'[n] = Tail(to_worker[n])
      /\ UNCHANGED <<number, event_rx, to_server>>
  BY DEF HandleRequest, Incoming, Consume, LinkTyped, ChannelsTyped
<1>2. Head(to_worker[n]) = Request(r)
  BY IncomingProperties, MessageKinds DEF HandleRequest
<1>3. Asked(n, r)
  BY <1>1, <1>2, TailProperties DEF Asked
<1>4. ~AtWork(n, r) /\ ~Waiting(n, r) /\ ~Told(n, r) /\ ~Noted(n, r)
  BY <1>3 DEF Once
<1>5. LastOf(to_worker[n], Request(r), {Request(r)})
  BY DEF Once, Ordered
<1>6. ~Asked(n, r)' /\ LastOf(to_worker'[n], Request(r), {Request(r)})
  BY <1>1, <1>2, <1>5, TailProperties DEF Asked
<1>7. Ordered(n, r)'
  BY <1>1, <1>6 DEF Once, Ordered
<1>8. /\ Waiting(n, r)' <=> Waiting(n, r)
      /\ Told(n, r)' <=> Told(n, r)
      /\ Noted(n, r)' <=> Noted(n, r)
      /\ AnswerWaiting(n, r)' <=> AnswerWaiting(n, r)
      /\ AnswerTold(n, r)' <=> AnswerTold(n, r)
  BY <1>1 DEF Waiting, Told, Noted, AnswerWaiting, AnswerTold
<1>9. ~AnswerWaiting(n, r) /\ ~AnswerTold(n, r)
  BY <1>4 DEF AnswerWaiting, AnswerTold, Waiting, Told, Events, About
<1>. QED  BY <1>3, <1>4, <1>6, <1>7, <1>8, <1>9 DEF Once, Known

(* What is waiting about a request is written behind what was written before. *)
LEMMA SendKeepsOnce ==
  ASSUME LinkTyped, NEW n \in Session, NEW r \in Requests, Once(n, r), n = number,
         SendOutbound, Head(event_rx).message \in About(r)
  PROVE  Once(n, r)' /\ (Known(n, r)' => Known(n, r)) /\ (Noted(n, r)' => Noted(n, r))
<1>. DEFINE x == Head(event_rx).message
<1>1. /\ x \in Message /\ x \in About(r) /\ Head(event_rx) = Outbound(x)
      /\ event_rx \in Seq(Event) /\ event_rx # <<>> /\ event_rx' = Tail(event_rx)
  <2>1. Head(event_rx) \in Event /\ Head(event_rx).type = "Outbound"
    BY NextEventProperties DEF SendOutbound
  <2>2. x \in Message /\ Head(event_rx) = Outbound(x)
    BY <2>1, EventKinds
  <2>. QED  BY <2>2 DEF SendOutbound, NextEvent, LinkTyped, ChannelsTyped
<1>2. /\ UNCHANGED <<number, tasks, to_worker>> /\ to_server[n] \in Seq(Message)
      /\ to_server'[n] \in {to_server[n], Append(to_server[n], x)}
  BY DEF SendOutbound, LinkTyped, ChannelsTyped
<1>. HIDE DEF x
<1>3. /\ Outbound(x) \in Members(event_rx) /\ Members(event_rx') \subseteq Members(event_rx)
      /\ \A last, about : LastOf(event_rx, last, about) =>
           /\ LastOf(event_rx', last, about)
           /\ Outbound(x) = last => Members(event_rx') \cap about = {}
  BY <1>1, TailProperties
<1>4. x = Chunk(r) \/ x = Complete(r)
  BY <1>1 DEF About
<1>5. Waiting(n, r) /\ (x = Complete(r) => AnswerWaiting(n, r))
  BY <1>3, <1>4 DEF Waiting, AnswerWaiting, Events
<1>6. ~Asked(n, r) /\ ~AnswerTold(n, r) /\ (x = Complete(r) => ~AtWork(n, r))
  BY <1>5 DEF Once
<1>7. /\ Members(to_server'[n]) \subseteq Members(to_server[n]) \cup {x}
      /\ LastOf(to_server'[n], Complete(r), About(r))
  <2>1. LastOf(to_server[n], Complete(r), About(r)) /\ Complete(r) \notin Members(to_server[n])
    BY <1>6 DEF Once, Ordered, AnswerTold
  <2>2. Append(to_server[n], x) = to_server[n] \o <<x>>
    BY <1>1, <1>2, AppendIsJoin
  <2>3. /\ Members(to_server[n] \o <<x>>) = Members(to_server[n]) \cup {x}
        /\ LastOf(to_server[n] \o <<x>>, Complete(r), About(r))
    BY <1>1, <1>2, <2>1, OneMore
  <2>. QED  BY <1>2, <2>1, <2>2, <2>3
<1>8. AnswerTold(n, r)' => x = Complete(r)
  BY <1>6, <1>7 DEF AnswerTold
<1>9. x = Complete(r) => ~Waiting(n, r)'
  <2>1. LastOf(event_rx, Outbound(Complete(r)), Events(r))
    BY DEF Once, Ordered
  <2>. QED  BY <1>3, <2>1 DEF Waiting
<1>10. /\ Asked(n, r)' <=> Asked(n, r)
       /\ AtWork(n, r)' <=> AtWork(n, r)
       /\ Noted(n, r)' => Noted(n, r)
       /\ AnswerWaiting(n, r)' => AnswerWaiting(n, r)
       /\ Waiting(n, r)' => Waiting(n, r)
  BY <1>2, <1>3 DEF Asked, AtWork, Noted, AnswerWaiting, Waiting
<1>11. Ordered(n, r)'
  BY <1>2, <1>3, <1>7 DEF Once, Ordered
<1>. QED
  BY <1>5, <1>6, <1>8, <1>9, <1>10, <1>11 DEF Once, Known

(* A task that is at work, and so has not answered, says something.           *)
LEMMA SayKeepsOnce ==
  ASSUME LinkTyped, NEW n \in Session, NEW r \in Requests, Once(n, r), n = number,
         AtWork(n, r), UNCHANGED <<number, to_worker, to_server>>,
         NEW s \in Seq(Event), event_rx' = event_rx \o s,
         LastOf(s, Outbound(Complete(r)), Events(r)),
         \/ Members(s) = {Outbound(Chunk(r))} /\ (AtWork(n, r)' <=> AtWork(n, r))
         \/ Members(s) = {Outbound(Complete(r)), RequestFinished(r)} /\ ~AtWork(n, r)'
  PROVE  Once(n, r)' /\ Known(n, r)
<1>1. /\ ~Asked(n, r) /\ ~AnswerWaiting(n, r) /\ ~AnswerTold(n, r) /\ ~Noted(n, r)
      /\ Known(n, r)
  BY DEF Once, Known
<1>2. /\ ~Asked(n, r)' /\ ~AnswerTold(n, r)'
  BY <1>1 DEF Asked, AnswerTold
<1>3. event_rx \in Seq(Event)
  BY DEF LinkTyped, ChannelsTyped
<1>4. Members(event_rx') = Members(event_rx) \cup Members(s)
  BY <1>3, JoinProperties
<1>5. AtWork(n, r)' => ~AnswerWaiting(n, r)' /\ ~Noted(n, r)'
  <2>. SUFFICES ASSUME AtWork(n, r)' PROVE ~AnswerWaiting(n, r)' /\ ~Noted(n, r)'
    OBVIOUS
  <2>1. Outbound(Complete(r)) \notin Members(s) /\ RequestFinished(r) \notin Members(s)
    BY DEF Outbound, Chunk, Complete, RequestFinished, Msg
  <2>. QED  BY <1>1, <1>4, <2>1 DEF AnswerWaiting, Noted
<1>6. LastOf(event_rx', Outbound(Complete(r)), Events(r))
  <2>1. /\ LastOf(event_rx, Outbound(Complete(r)), Events(r))
        /\ Outbound(Complete(r)) \notin Members(event_rx)
    BY <1>1 DEF Once, Ordered, AnswerWaiting
  <2>. QED  BY <1>3, <2>1, WriteProperties
<1>7. Ordered(n, r)'
  BY <1>6 DEF Once, Ordered
<1>. QED  BY <1>1, <1>2, <1>5, <1>7 DEF Once

LEMMA TaskKeepsOnce ==
  ASSUME LinkTyped, NEW n \in Session, NEW r \in Requests, Once(n, r), n = number, Live(n),
         TaskSendsChunk(n, r) \/ TaskCompletes(n, r)
  PROVE  Once(n, r)' /\ Known(n, r)
<1>. DEFINE c == <<Outbound(Chunk(r))>>
            d == <<Outbound(Complete(r)), RequestFinished(r)>>
<1>1. c \in Seq(Event) /\ d \in Seq(Event)
  BY MessagesTyped
<1>2. /\ Members(c) = {Outbound(Chunk(r))}
      /\ Members(d) = {Outbound(Complete(r)), RequestFinished(r)}
      /\ LastOf(c, Outbound(Complete(r)), Events(r))
      /\ LastOf(d, Outbound(Complete(r)), Events(r))
  <2>1. RequestFinished(r) \notin Events(r)
    BY DEF Events, Outbound, RequestFinished
  <2>. QED  BY <2>1, ShortChannels
<1>3. AtWork(n, r) /\ UNCHANGED <<number, to_worker, to_server>>
  BY DEF TaskSendsChunk, TaskCompletes, TaskEnds, AtWork
<1>4. CASE TaskSendsChunk(n, r)
  <2>1. event_rx' = event_rx \o c /\ (AtWork(n, r)' <=> AtWork(n, r))
    BY <1>4 DEF TaskSendsChunk, Enqueue, Chunk, AtWork
  <2>. HIDE DEF c, d
  <2>. QED  BY <1>1, <1>2, <1>3, <2>1, SayKeepsOnce
<1>5. CASE TaskCompletes(n, r)
  <2>1. event_rx' = event_rx \o d /\ ~AtWork(n, r)'
    BY <1>5 DEF TaskCompletes, TaskEnds, Enqueue, Complete, AtWork
  <2>. HIDE DEF c, d
  <2>. QED  BY <1>1, <1>2, <1>3, <2>1, SayKeepsOnce
<1>. QED  BY <1>4, <1>5

(* Every step of the daemon keeps the pipeline in order. *)
LEMMA DaemonKeepsPipeline ==
  ASSUME LinkTyped, PipelineInv, Daemon
  PROVE  PipelineInv'
<1>. SUFFICES ASSUME NEW n \in Session, NEW r \in Requests
              PROVE  Once(n, r)' /\ Accounted(n, r)'
  BY DEF PipelineInv
<1>1. Once(n, r) /\ Accounted(n, r) /\ DaemonStep
  BY DEF PipelineInv, Daemon
<1>2. Settles(n, r)
  <2>1. UNCHANGED <<place, owner, workers>>
    BY DaemonTurn
  <2>2. turn'[n] = turn[n] \/ (turn[n] = "none" /\ turn'[n] = "register")
    BY DaemonTurn DEF LinkTyped, CoreTyped
  <2>. QED  BY <2>1, <2>2 DEF Settles, Sent
<1>3. /\ Once(n, r)' /\ (Known(n, r)' => Known(n, r))
      /\ Noted(n, r)' => Noted(n, r) \/ Known(n, r)
  <2>1. CASE ~MovesOn(n, r)
    BY <1>1, <2>1, DaemonIsQuiet, QuietStep
  <2>2. CASE MovesOn(n, r)
    BY <1>1, <2>2, AcceptKeepsOnce, SendKeepsOnce, TaskKeepsOnce DEF MovesOn
  <2>. QED  BY <2>1, <2>2
<1>. QED  BY <1>1, <1>2, <1>3, FewerAccounted

(* What the core does for others, and a link that breaks, says nothing of a   *)
(* request to a worker.                                                       *)
LEMMA OthersKeepPipeline ==
  ASSUME LinkTyped, PipelineInv, UNCHANGED <<daemonVars, to_worker, to_server, turn, workers>>,
         \A r \in Requests : \/ place'[r] = place[r] /\ owner'[r] = owner[r]
                             \/ place[r] = "queued"
  PROVE  PipelineInv'
<1>. SUFFICES ASSUME NEW n \in Session, NEW r \in Requests
              PROVE  Once(n, r)' /\ Accounted(n, r)'
  BY DEF PipelineInv
<1>1. Once(n, r) /\ Accounted(n, r)
  BY DEF PipelineInv
<1>2. QuietToWorker(n, r) /\ QuietToServer(n, r) /\ QuietEvents(n, r)
  BY DEF QuietToWorker, QuietToServer, QuietEvents
<1>3. Once(n, r)' /\ (Known(n, r)' => Known(n, r)) /\ (Noted(n, r)' => Noted(n, r))
  BY <1>1, <1>2, QuietStep DEF AtWork
<1>4. Settles(n, r)
  BY DEF Settles, Sent
<1>. QED  BY <1>1, <1>3, <1>4, FewerAccounted

(* Every step keeps the pipeline in order. *)
LEMMA PipelineStep == LinkTyped /\ PipelineInv /\ [Next]_vars => PipelineInv'
<1>. SUFFICES ASSUME LinkTyped, PipelineInv, [Next]_vars PROVE PipelineInv'
  OBVIOUS
<1>1. CASE Daemon
  BY <1>1, DaemonKeepsPipeline
<1>2. CASE \E n \in Session : SocketLoop(n)
  BY <1>2, LoopKeepsPipeline
<1>3. CASE BreakLink("dead") \/ BreakLink("reset")
  BY <1>3, OthersKeepPipeline DEF BreakLink
<1>4. ASSUME NEW n \in Session, NEW r \in Requests, Assign(n, r) PROVE PipelineInv'
  <2>1. /\ UNCHANGED <<daemonVars, to_worker, to_server, turn, workers>>
        /\ place[r] = "queued"
        /\ \A q \in Requests : q # r => place'[q] = place[q] /\ owner'[q] = owner[q]
    BY <1>4 DEF Assign, LinkTyped, CoreTyped
  <2>. QED  BY <2>1, OthersKeepPipeline
<1>5. ASSUME NEW r \in Requests, CancelRequest(r) PROVE PipelineInv'
  <2>1. /\ UNCHANGED <<daemonVars, to_worker, to_server, turn, workers, owner>>
        /\ place[r] = "queued" \/ UNCHANGED place
        /\ \A q \in Requests : q # r => place'[q] = place[q]
    BY <1>5 DEF CancelRequest, LinkTyped, CoreTyped
  <2>. QED  BY <2>1, OthersKeepPipeline
<1>6. CASE BeginGracefulShutdown \/ \E n \in Session : RequestWorkerModelsRefresh(n)
  BY <1>6, OthersKeepPipeline DEF BeginGracefulShutdown, RequestWorkerModelsRefresh
<1>7. CASE UNCHANGED vars
  BY <1>7, OthersKeepPipeline DEF vars
<1>. QED  BY <1>1, <1>2, <1>3, <1>4, <1>5, <1>6, <1>7 DEF Next

(* Nothing is known of any request at the start. *)
LEMMA PipelineInit == Init => PipelineInv
<1>. SUFFICES ASSUME Init, NEW n \in Session, NEW r \in Requests
              PROVE  Once(n, r) /\ Accounted(n, r)
  BY DEF PipelineInv
<1>1. /\ to_worker[n] = <<>> /\ to_server[n] = <<>> /\ event_rx = <<>> /\ tasks = {}
  BY DEF Init, DaemonInit
<1>2. Ordered(n, r)
  BY <1>1, ShortChannels DEF Ordered
<1>3. ~Known(n, r) /\ ~Noted(n, r)
  BY <1>1, ShortChannels DEF Known, Asked, AtWork, Waiting, Told, Noted
<1>. QED  BY <1>2, <1>3 DEF Once, Accounted, Known

(* What the order of the channels and the account of the requests say of the  *)
(* messages the proxy receives: a message of a served session about a request *)
(* is about one that was sent to it.                                          *)
LEMMA PipelineMeansNeverRefused == LinkTyped /\ PipelineInv => NeverRefused
<1>. SUFFICES ASSUME LinkTyped, PipelineInv, NEW n \in Session, Refused(n)
              PROVE  n \notin workers /\ Arrived(n).type # "ResponseComplete"
  BY DEF NeverRefused
<1>1. /\ turn[n] = "recv" /\ to_server[n] \in Seq(Message) /\ to_server[n] # <<>>
  BY DEF Refused, Arrives, LinkTyped, ChannelsTyped
<1>2. Arrived(n) \in Message /\ Arrived(n) \in Members(to_server[n])
  BY <1>1, TailProperties DEF Arrived
<1>3. ASSUME Arrived(n).type \in {"ResponseChunk", "ResponseComplete"}
      PROVE  \/ Arrived(n).id \in OwnedBy(n)
             \/ n \notin workers /\ place[Arrived(n).id] = "done"
  <2>. DEFINE r == Arrived(n).id
  <2>1. r \in Requests /\ Arrived(n) \in About(r)
    BY <1>2, <1>3, MessageKinds DEF About
  <2>2. Known(n, r)
    BY <1>2, <2>1 DEF Known, Told
  <2>3. Sent(n, r) \/ (n \notin workers /\ place[r] = "done")
    BY <1>1, <2>1, <2>2 DEF PipelineInv, Accounted
  <2>. QED  BY <2>1, <2>3 DEF Sent, OwnedBy
<1>. QED  BY <1>3 DEF Refused

(* The proxy never takes an answer for a protocol error, nor any message of a *)
(* session that is registered, whatever is cancelled, requeued or lost, and   *)
(* for any number of sessions.                                                *)
THEOREM AnswersAreNeverRefused == Spec => []NeverRefused
<1>1. Init => LinkTyped /\ PipelineInv
  BY LinkTypedInit, PipelineInit
<1>2. LinkTyped /\ PipelineInv /\ [Next]_vars => (LinkTyped /\ PipelineInv)'
  BY LinkTypedStep, PipelineStep
<1>. QED  BY <1>1, <1>2, PipelineMeansNeverRefused, PTL DEF Spec

(* What a registered session runs at the backend counts against its           *)
(* max_concurrent: the proxy frees the slot of a request only when its answer *)
(* has come, not when it is cancelled.                                        *)
THEOREM EveryTaskIsCounted == Spec => []TasksAccountedFor
<1>1. LinkTyped /\ PipelineInv => TasksAccountedFor
  <2>. SUFFICES ASSUME LinkTyped, PipelineInv, NEW n \in workers, NEW r \in Requests,
                       <<n, r>> \in tasks
                PROVE  r \in OwnedBy(n) /\ place[r] = "sent"
    BY DEF TasksAccountedFor
  <2>1. n \in Session /\ turn[n] # "over"
    BY DEF LinkTyped, CoreTyped, InLoop
  <2>2. Known(n, r)
    BY DEF Known, AtWork
  <2>. QED  BY <2>1, <2>2 DEF PipelineInv, Accounted, Sent, OwnedBy
<1>2. Init => LinkTyped /\ PipelineInv
  BY LinkTypedInit, PipelineInit
<1>3. LinkTyped /\ PipelineInv /\ [Next]_vars => (LinkTyped /\ PipelineInv)'
  BY LinkTypedStep, PipelineStep
<1>. QED  BY <1>1, <1>2, <1>3, PTL DEF Spec

-----------------------------------------------------------------------------
(* The tasks of a session and its list of active requests. *)

(* A task of the current session can be aborted: it is in the list. *)
Handled == InSession => \A r \in Requests : AtWork(number, r) => r \in active_requests

(* Leaving the loop aborts every task of the session; an error leaves them to *)
(* themselves, and is what the session is recorded to have ended with.        *)
LEMMA CloseKeepsCleanEnds ==
  ASSUME LinkTyped, InSession, Handled, CleanEndStopsTasks, NEW how, CloseSession(how),
         \/ tasks' = tasks \ OfSession
         \/ tasks' = tasks /\ how = "error"
  PROVE  Handled' /\ CleanEndStopsTasks'
<1>1. ~InSession'
  BY DEF CloseSession, InSession
<1>2. number \in Session /\ ended'[number] = how
      /\ \A n \in Session : n # number => ended'[n] = ended[n]
  BY DEF LinkTyped, DaemonTyped, CloseSession
<1>3. ASSUME NEW t \in tasks' PROVE ended'[t[1]] = "error"
  <2>1. t \in tasks /\ tasks \subseteq Session \X Requests
    BY DEF LinkTyped, DaemonTyped
  <2>2. CASE t[1] # number
    BY <1>2, <2>1, <2>2 DEF CleanEndStopsTasks, Live
  <2>3. CASE t[1] = number /\ tasks' = tasks \ OfSession
    <3>1. t = <<number, t[2]>> /\ t[2] \in Requests
      BY <2>1, <2>3
    <3>2. t[2] \in active_requests
      BY <2>1, <3>1 DEF Handled, AtWork
    <3>3. t \in OfSession
      BY <3>1, <3>2 DEF OfSession
    <3>. QED  BY <1>3, <2>3, <3>3
  <2>4. CASE t[1] = number /\ how = "error"
    BY <1>2, <2>4
  <2>. QED  BY <2>2, <2>3, <2>4
<1>. QED  BY <1>1, <1>3 DEF Handled, CleanEndStopsTasks

(* Every step of the daemon keeps the list complete, and so what ends clean   *)
(* without tasks.                                                             *)
LEMMA DaemonEndsClean ==
  ASSUME LinkTyped, PipelineInv, Handled, CleanEndStopsTasks, Daemon
  PROVE  Handled' /\ CleanEndStopsTasks'
<1>. DEFINE Goal == Handled' /\ CleanEndStopsTasks'
<1>0. DaemonStep /\ tasks \subseteq Session \X Requests
  BY DEF Daemon, LinkTyped, DaemonTyped
<1>1. ASSUME Connect PROVE Goal
  <2>1. /\ number' \in Session /\ turn[number'] = "none" /\ UNCHANGED <<tasks, ended>>
        /\ ~InSession
    <3>1. number' # number
      BY <1>1 DEF Connect, LinkTyped, DaemonTyped
    <3>2. number' \in Session /\ turn[number'] = "none"
      BY <3>1, DaemonTurn
    <3>. QED  BY <1>1, <3>2 DEF Connect
  <2>2. \A r \in Requests : ~AtWork(number', r)
    BY <2>1 DEF PipelineInv, Accounted, Known
  <2>3. Handled'
    BY <2>1, <2>2 DEF Handled, AtWork
  <2>4. CleanEndStopsTasks'
    BY <2>1 DEF CleanEndStopsTasks, Live
  <2>. QED  BY <2>3, <2>4
<1>2. ASSUME InSession, ReturnError \/ BreakLoop \/ RequestFails PROVE Goal
  BY <1>2, CloseKeepsCleanEnds DEF ReturnError, BreakLoop, RequestFails
<1>3. ASSUME InSession, InSession', UNCHANGED <<number, ended>>,
             tasks' \subseteq tasks \cup {<<number, r>> : r \in Requests}, Handled'
      PROVE  Goal
  <2>1. ASSUME NEW t \in tasks' PROVE Live(t[1])' \/ ended'[t[1]] = "error"
    <3>1. CASE t \in tasks
      BY <1>3, <3>1 DEF CleanEndStopsTasks, Live
    <3>2. CASE \E r \in Requests : t = <<number, r>>
      BY <1>3, <3>2 DEF Live
    <3>. QED  BY <1>3, <2>1, <3>1, <3>2
  <2>. QED  BY <1>3, <2>1 DEF CleanEndStopsTasks
<1>4. ASSUME HandleRequest, ~shutting_down PROVE Goal
  <2>. DEFINE q == Head(to_worker[number]).id
  <2>1. /\ InSession /\ InSession' /\ UNCHANGED <<number, ended>>
        /\ tasks' = tasks \cup {<<number, q>>} /\ active_requests' = active_requests \cup {q}
    BY <1>4 DEF HandleRequest, Incoming, InSession
  <2>2. q \in Requests
    BY <1>4, IncomingProperties, MessageKinds DEF HandleRequest
  <2>. HIDE DEF q
  <2>3. Handled'
    BY <2>1 DEF Handled, AtWork
  <2>. QED  BY <1>3, <2>1, <2>2, <2>3
<1>5. ASSUME HandleCancel PROVE Goal
  <2>. DEFINE q == Head(to_worker[number]).id
  <2>1. /\ InSession /\ InSession' /\ UNCHANGED <<number, ended>>
        /\ tasks' = tasks \ ({<<number, q>>} \cap OfSession)
        /\ active_requests' = active_requests \ {q}
    BY <1>5 DEF HandleCancel, Incoming, InSession
  <2>. HIDE DEF q
  <2>2. Handled'
    <3>. SUFFICES ASSUME NEW r \in Requests, <<number', r>> \in tasks'
                  PROVE  r \in active_requests'
      BY DEF Handled, AtWork
    <3>1. AtWork(number, r)
      BY <2>1 DEF AtWork
    <3>2. r \in active_requests
      BY <2>1, <3>1 DEF Handled
    <3>3. r # q
      BY <2>1, <3>2 DEF AtWork, OfSession
    <3>. QED  BY <2>1, <3>2, <3>3
  <2>. QED  BY <1>3, <2>1, <2>2
<1>6. ASSUME RequestFinishes PROVE Goal
  <2>. DEFINE q == Head(event_rx).message.id
  <2>1. /\ InSession /\ InSession' /\ UNCHANGED <<number, ended, tasks>>
        /\ active_requests' = active_requests \ {q}
    BY <1>6 DEF RequestFinishes, NextEvent, InSession
  <2>2. number \in Session /\ q \in Requests /\ Head(event_rx) = RequestFinished(q)
    BY <1>6, NextEventProperties, EventKinds DEF RequestFinishes
  <2>3. Noted(number, q)
    BY <1>6, <2>2, TailProperties
    DEF Noted, RequestFinishes, NextEvent, LinkTyped, ChannelsTyped
  <2>4. ~AtWork(number, q)
    BY <2>2, <2>3 DEF PipelineInv, Once
  <2>. HIDE DEF q
  <2>5. Handled'
    BY <2>1, <2>4 DEF Handled, AtWork
  <2>. QED  BY <1>3, <2>1, <2>5
<1>7. ASSUME UNCHANGED <<number, ended, active_requests>>, InSession <=> InSession',
             tasks' \subseteq tasks
      PROVE  Goal
  <2>1. Handled'
    BY <1>7 DEF Handled, AtWork
  <2>2. CleanEndStopsTasks'
    BY <1>7 DEF CleanEndStopsTasks, Live
  <2>. QED  BY <2>1, <2>2
<1>8. ASSUME \/ HandlePing \/ HandleGracefulShutdown \/ HandleModelsRefresh \/ ModelsDiscovered
             \/ SendOutbound
      PROVE  Goal
  BY <1>7, <1>8
  DEF HandlePing, HandleGracefulShutdown, HandleModelsRefresh, ModelsDiscovered,
      SendOutbound, Incoming, NextEvent, InSession
<1>9. ASSUME NEW n \in Session, NEW r \in Requests,
             TaskSendsChunk(n, r) \/ TaskCompletes(n, r) \/ TaskFails(n, r)
      PROVE  Goal
  BY <1>7, <1>9 DEF TaskSendsChunk, TaskCompletes, TaskFails, TaskEnds, InSession
<1>10. ASSUME \/ ReadClose \/ ReadFails \/ SendFails \/ LinkFoundDead \/ DiscoveryFails
              \/ (HandleRequest /\ shutting_down) \/ RequestFails
       PROVE  Goal
  BY <1>2, <1>10
  DEF ReadClose, ReadFails, SendFails, LinkFoundDead, DiscoveryFails, HandleRequest,
      RequestFails, Incoming, NextEvent, InSession
<1>. QED
  BY <1>0, <1>1, <1>4, <1>5, <1>6, <1>8, <1>9, <1>10
  DEF DaemonStep, ReadArm, EventArm

(* No task outlives a session that ended without an error: the list of active *)
(* requests is complete because nothing is noted as finished before its task  *)
(* ended.                                                                     *)
THEOREM CleanEndsStopTasks == Spec => []CleanEndStopsTasks
<1>. DEFINE IInv == LinkTyped /\ PipelineInv /\ Handled /\ CleanEndStopsTasks
<1>1. Init => IInv
  BY LinkTypedInit, PipelineInit DEF Init, DaemonInit, Handled, InSession, CleanEndStopsTasks
<1>2. IInv /\ [Next]_vars => IInv'
  <2>. SUFFICES ASSUME IInv, [Next]_vars PROVE IInv'
    OBVIOUS
  <2>1. LinkTyped' /\ PipelineInv'
    BY LinkTypedStep, PipelineStep
  <2>2. CASE Daemon
    BY <2>1, <2>2, DaemonEndsClean
  <2>3. CASE UNCHANGED daemonVars
    BY <2>1, <2>3 DEF Handled, InSession, AtWork, CleanEndStopsTasks, Live
  <2>4. Daemon \/ UNCHANGED daemonVars
    BY LoopChannelsTyped
    DEF Next, vars, BreakLink, Assign, CancelRequest, BeginGracefulShutdown,
        RequestWorkerModelsRefresh
  <2>. QED  BY <2>2, <2>3, <2>4
<1>. QED  BY <1>1, <1>2, PTL DEF Spec
-----------------------------------------------------------------------------
(* The core at the daemon's connections implements WorkerSessions.            *)

(* Size means in WorkerSessions what it means here. *)
LEMMA SameSize == ASSUME NEW S PROVE Sessions!Cardinality(S) = Cardinality(S)
BY DEF Sessions!Cardinality, Cardinality

Held(n) == {r \in Requests : owner[r] = n}

(* No session is given more than it takes, and no canceled request waits. *)
SlotsInv ==
  /\ \A n \in Session : Cardinality(Held(n)) <= MaxConcurrent
  /\ \A r \in canceled : place[r] # "queued"

(* No slot is taken and no cancellation noted, and what is taken from a       *)
(* session is done or, unless it was canceled, queued again.                  *)
Released ==
  /\ UNCHANGED canceled /\ cancel_signals' \subseteq cancel_signals
  /\ \A r \in Requests :
       \/ owner'[r] = owner[r] /\ (place'[r] = "queued" => place[r] = "queued")
       \/ owner'[r] = 0 /\ (place'[r] = "done" \/ (place'[r] = "queued" /\ r \notin canceled))

(* Every action but a dispatch and a cancellation does no more. *)
LEMMA ReleasingActions ==
  LinkTyped /\ [Next]_vars =>
    \/ Released
    \/ \E n \in Session, r \in Requests : Assign(n, r)
    \/ \E r \in Requests : CancelRequest(r)
<1>. SUFFICES ASSUME LinkTyped, CoreTyped, [Next]_vars,
                     ~\E n \in Session, r \in Requests : Assign(n, r),
                     ~\E r \in Requests : CancelRequest(r)
              PROVE  Released
  BY DEF LinkTyped
<1>0. ASSUME UNCHANGED <<owner, place, canceled>>, cancel_signals' \subseteq cancel_signals
      PROVE  Released
  BY <1>0 DEF Released
<1>1. ASSUME NEW n \in Session, FlushRequests(n) PROVE Released
  <2>1. /\ UNCHANGED <<owner, canceled, cancel_signals>>
        /\ \A r \in Requests : place'[r] \in {place[r], "sent"}
    BY <1>1 DEF FlushRequests, Flush
  <2>. QED  BY <2>1 DEF Released
<1>2. ASSUME NEW n \in Session, CloseAction(n) PROVE Released
  <2>1. PICK expired \in {{}, draining} :
          LET idle == {d \in draining \cap {n} : OwnedBy(n) = {}}
              gone == expired \cup idle
              failed == UNION {OwnedBy(d) : d \in expired}
          IN /\ place' = [r \in Requests |-> IF r \in failed THEN "done" ELSE place[r]]
             /\ owner' = [r \in Requests |-> IF r \in failed THEN 0 ELSE owner[r]]
             /\ RemoveWorkers(gone)
    BY <1>2 DEF CloseAction
  <2>. DEFINE failed == UNION {OwnedBy(d) : d \in expired}
  <2>2. /\ place' = [r \in Requests |-> IF r \in failed THEN "done" ELSE place[r]]
        /\ owner' = [r \in Requests |-> IF r \in failed THEN 0 ELSE owner[r]]
    BY <2>1
  <2>3. cancel_signals' \subseteq cancel_signals
    BY <2>1 DEF RemoveWorkers
  <2>4. UNCHANGED canceled
    BY <1>2 DEF CloseAction
  <2>. HIDE DEF failed
  <2>. QED  BY <2>2, <2>3, <2>4 DEF Released
<1>3. ASSUME NEW n \in Session, HandleComplete(n) PROVE Released
  <2>1. PICK q \in OwnedBy(n) :
          /\ place' = [place EXCEPT ![q] = "done"] /\ owner' = [owner EXCEPT ![q] = 0]
          /\ cancel_signals' = cancel_signals \ {q}
    BY <1>3 DEF HandleComplete
  <2>2. UNCHANGED canceled
    BY <1>3 DEF HandleComplete
  <2>3. \A r \in Requests : /\ place'[r] = (IF r = q THEN "done" ELSE place[r])
                            /\ owner'[r] = (IF r = q THEN 0 ELSE owner[r])
    BY <2>1 DEF CoreTyped
  <2>. QED  BY <2>1, <2>2, <2>3 DEF Released
<1>4. ASSUME NEW n \in Session, LoopEnds(n) PROVE Released
  <2>1. /\ UNCHANGED canceled /\ cancel_signals' \subseteq cancel_signals
        /\ place' = [r \in Requests |-> IF r \notin OwnedBy(n) THEN place[r]
                                        ELSE IF r \in canceled THEN "done" ELSE "queued"]
        /\ owner' = [r \in Requests |-> IF r \in OwnedBy(n) THEN 0 ELSE owner[r]]
    BY <1>4 DEF LoopEnds, DisconnectWorker, RemoveWorkers
  <2>. QED  BY <2>1 DEF Released
<1>5. ASSUME NEW n \in Session,
             \/ FlushCancels(n) \/ FlushShutdowns(n) \/ FlushRefreshes(n)
             \/ RegisterWorker(n) \/ HandleLateComplete(n) \/ HandleReport(n)
             \/ RecvTimesOut(n) \/ ReceivePingFrame(n) \/ SendHeartbeatPing(n)
      PROVE  Released
  BY <1>0, <1>5
  DEF FlushCancels, FlushShutdowns, FlushRefreshes, Flush, RegisterWorker,
      HandleLateComplete, HandleReport, RecvTimesOut, ReceivePingFrame, SendHeartbeatPing
<1>6. ASSUME NEW n \in Session, SocketLoop(n) PROVE Released
  BY <1>1, <1>2, <1>3, <1>4, <1>5, <1>6
  DEF SocketLoop, ProtocolError, StaleHeartbeat, SocketLost
<1>7. ASSUME Daemon \/ BreakLink("dead") \/ BreakLink("reset") \/ UNCHANGED vars
      PROVE  Released
  BY <1>0, <1>7 DEF Daemon, BreakLink, vars
<1>8. ASSUME \/ BeginGracefulShutdown
             \/ \E n \in Session : RequestWorkerModelsRefresh(n)
      PROVE  Released
  BY <1>0, <1>8 DEF BeginGracefulShutdown, RequestWorkerModelsRefresh
<1>. QED  BY <1>6, <1>7, <1>8 DEF Next

(* Slots stay within bounds, and canceled requests out of the queue. *)
LEMMA SlotsStep == LinkTyped /\ SlotsInv /\ [Next]_vars => SlotsInv'
<1>. SUFFICES ASSUME LinkTyped, CoreTyped, SlotsInv, [Next]_vars PROVE SlotsInv'
  BY DEF LinkTyped
<1>0. ASSUME NEW n \in Session PROVE IsFiniteSet(Held(n))
  <2>1. Held(n) \subseteq {r \in Requests : owner[r] # 0}
    BY DaemonAssumption DEF Held, Session
  <2>. QED  BY <2>1, FS_Subset DEF CoreTyped
<1>a. ASSUME NEW n \in Session, Held(n)' \subseteq Held(n)
      PROVE  Cardinality(Held(n)') <= MaxConcurrent
  <2>1. Cardinality(Held(n)') <= Cardinality(Held(n)) /\ IsFiniteSet(Held(n)')
    BY <1>0, <1>a, FS_Subset
  <2>2. Cardinality(Held(n)') \in Nat /\ Cardinality(Held(n)) \in Nat
    BY <1>0, <2>1, FS_CardinalityType
  <2>3. Cardinality(Held(n)) <= MaxConcurrent
    BY DEF SlotsInv
  <2>. QED  BY <2>1, <2>2, <2>3, LinkAssumption
<1>1. CASE Released
  <2>1. \A n \in Session : Held(n)' \subseteq Held(n)
    BY <1>1, DaemonAssumption DEF Released, Held, Session
  <2>2. \A r \in canceled' : place'[r] # "queued"
    BY <1>1 DEF Released, SlotsInv, CoreTyped
  <2>. QED  BY <1>a, <2>1, <2>2 DEF SlotsInv
<1>2. ASSUME NEW r \in Requests, CancelRequest(r) PROVE SlotsInv'
  <2>1. UNCHANGED owner /\ canceled' = canceled \cup {r}
        /\ \A q \in Requests : place'[q] = IF q = r /\ place[r] = "queued" THEN "done" ELSE place[q]
    BY <1>2 DEF CancelRequest, CoreTyped
  <2>2. \A n \in Session : Held(n)' \subseteq Held(n)
    BY <2>1 DEF Held
  <2>3. \A q \in canceled' : place'[q] # "queued"
    BY <2>1 DEF SlotsInv, CoreTyped
  <2>. QED  BY <1>a, <2>2, <2>3 DEF SlotsInv
<1>3. ASSUME NEW n \in Session, NEW r \in Requests, Assign(n, r) PROVE SlotsInv'
  <2>1. /\ Cardinality(OwnedBy(n)) < MaxConcurrent /\ place[r] = "queued" /\ UNCHANGED canceled
        /\ \A q \in Requests : /\ owner'[q] = IF q = r THEN n ELSE owner[q]
                               /\ place'[q] = IF q = r THEN "pending" ELSE place[q]
    BY <1>3 DEF Assign, CoreTyped
  <2>2. OwnedBy(n) = Held(n)
    BY DaemonAssumption DEF OwnedBy, Held, CoreTyped, Session
  <2>3. r \notin Held(n)
    BY <2>1, DaemonAssumption DEF Held, CoreTyped, Session
  <2>4. Held(n)' = Held(n) \cup {r} /\ \A m \in Session : m # n => Held(m)' \subseteq Held(m)
    BY <2>1 DEF Held
  <2>5. Cardinality(Held(n)') <= MaxConcurrent
    <3>1. Cardinality(Held(n) \cup {r}) = Cardinality(Held(n)) + 1
      BY <1>0, <2>3, FS_AddElement
    <3>2. Cardinality(Held(n)) \in Nat
      BY <1>0, FS_CardinalityType
    <3>. QED  BY <2>1, <2>2, <2>4, <3>1, <3>2, LinkAssumption
  <2>6. \A m \in Session : Cardinality(Held(m)') <= MaxConcurrent
    BY <1>a, <2>4, <2>5
  <2>7. \A q \in canceled' : place'[q] # "queued"
    BY <2>1 DEF SlotsInv, CoreTyped
  <2>. QED  BY <2>6, <2>7 DEF SlotsInv
<1>. QED  BY <1>1, <1>2, <1>3, ReleasingActions

(* What the proxy's end says of one state is consistent. *)
LEMMA LinkIsConsistent == LinkTyped /\ SlotsInv => Sessions!Consistent
<1>. SUFFICES ASSUME CoreTyped, SlotsInv PROVE Sessions!Consistent
  BY DEF LinkTyped
<1>1. \A n \in workers : /\ n \in Session
                         /\ Stage(n) = IF n \in draining THEN "draining" ELSE "serving"
  BY DEF CoreTyped, Stage, InLoop
<1>2. Sessions!HoldersRegistered
  <2>. SUFFICES ASSUME NEW r \in Requests
                PROVE  IF Sessions!Given(r) THEN owner[r] \in Session /\ Sessions!Registered(owner[r])
                                            ELSE owner[r] = 0
    BY DEF Sessions!HoldersRegistered
  <2>1. Sessions!Given(r) <=> owner[r] # 0
    BY DEF Sessions!Given, CoreTyped
  <2>2. owner[r] # 0 => owner[r] \in workers
    BY DEF CoreTyped
  <2>. QED  BY <1>1, <2>1, <2>2 DEF Sessions!Registered, Sessions!InRegistry
<1>3. Sessions!RoomKept
  <2>. SUFFICES ASSUME NEW n \in Session
                PROVE  Cardinality(Sessions!Holds(n)) <= MaxConcurrent
    BY SameSize DEF Sessions!RoomKept
  <2>1. Sessions!Holds(n) = Held(n)
    BY DEF Sessions!Holds, Held
  <2>. QED  BY <2>1 DEF SlotsInv
<1>4. Sessions!SignalsTrue
  <2>1. {r \in canceled : owner[r] # 0} \subseteq {r \in Requests : Sessions!Given(r)}
    BY DEF Sessions!Given, CoreTyped
  <2>2. drain_signals \subseteq {n \in Session : [m \in Session |-> Stage(m)][n] = "draining"}
    BY <1>1 DEF CoreTyped
  <2>. QED  BY <2>1, <2>2 DEF Sessions!SignalsTrue, CoreTyped
<1>. QED  BY <1>2, <1>3, <1>4 DEF Sessions!Consistent

(* The same of the state after a step. *)
LEMMA LinkStaysConsistent == (LinkTyped /\ SlotsInv)' => Sessions!Consistent'
BY LinkIsConsistent, PTL

(* A session whose loop turns, and whose place in the registry stays, is left *)
(* alone.                                                                    *)
LEMMA SessionStays ==
  ASSUME NEW n \in Session,
         \/ turn'[n] = turn[n]
         \/ InLoop(n) /\ InLoop(n)'
         \/ turn[n] \in {"none", "register"} /\ turn'[n] \in {"none", "register"},
         n \in workers' <=> n \in workers, n \in draining' <=> n \in draining,
         n \in disconnect_reasons' <=> n \in disconnect_reasons,
         n \in drain_signals' => n \in drain_signals
  PROVE  Sessions!WorkerStep(n)
<1>1. Stage(n)' = Stage(n)
  BY DEF Stage, InLoop
<1>. QED  BY <1>1 DEF Sessions!WorkerStep

(* A session whose loop ends is closed. *)
LEMMA SessionCloses ==
  ASSUME NEW n \in Session, turn[n] # "over", turn'[n] = "over",
         n \in drain_signals' => n \in drain_signals
  PROVE  Sessions!WorkerStep(n)
<1>1. Stage(n) # "closed" /\ Stage(n)' = "closed"
  BY DEF Stage, InLoop
<1>. QED  BY <1>1 DEF Sessions!WorkerStep, Sessions!Close

(* A session the core removes is told why. *)
LEMMA SessionRemoved ==
  ASSUME CoreTyped, NEW n \in Session, n \in workers, InLoop(n), InLoop(n)',
         n \notin workers', n \in disconnect_reasons',
         n \in drain_signals' => n \in drain_signals
  PROVE  Sessions!WorkerStep(n)
<1>1. Stage(n) \in {"serving", "draining"} /\ Stage(n)' = "removed"
  BY DEF Stage, InLoop
<1>. QED
  BY <1>1 DEF Sessions!WorkerStep, Sessions!Remove, Sessions!Registered, Sessions!InRegistry

(* Every action is, for every session, one that WorkerSessions has, or none. *)
LEMMA SessionSteps ==
  LinkTyped /\ [Next]_vars => \A n \in Session : Sessions!WorkerStep(n)
<1>. DEFINE Steps == \A m \in Session : Sessions!WorkerStep(m)
<1>. SUFFICES ASSUME LinkTyped, CoreTyped, [Next]_vars PROVE Steps
  BY DEF LinkTyped
<1>0. ASSUME NEW n \in Session, UNCHANGED <<workers, draining, disconnect_reasons>>,
             drain_signals' \subseteq drain_signals,
             \A m \in Session : m # n => turn'[m] = turn[m],
             InLoop(n) /\ InLoop(n)'
      PROVE  Steps
  <2>. SUFFICES ASSUME NEW m \in Session PROVE Sessions!WorkerStep(m)
    OBVIOUS
  <2>1. \/ turn'[m] = turn[m]
        \/ InLoop(m) /\ InLoop(m)'
        \/ turn[m] \in {"none", "register"} /\ turn'[m] \in {"none", "register"}
    BY <1>0
  <2>. QED  BY <1>0, <2>1, SessionStays
<1>a. ASSUME UNCHANGED <<turn, workers, draining, disconnect_reasons, drain_signals>> PROVE Steps
  <2>. SUFFICES ASSUME NEW m \in Session PROVE Sessions!WorkerStep(m)
    OBVIOUS
  <2>1. \/ turn'[m] = turn[m]
        \/ InLoop(m) /\ InLoop(m)'
        \/ turn[m] \in {"none", "register"} /\ turn'[m] \in {"none", "register"}
    BY <1>a
  <2>. QED  BY <1>a, <2>1, SessionStays
<1>b. ASSUME NEW n \in Session, NEW step \in Turn, GoTo(n, step)
      PROVE  turn'[n] = step /\ \A m \in Session : m # n => turn'[m] = turn[m]
  BY <1>b DEF GoTo, CoreTyped
<1>1. ASSUME Daemon PROVE Steps
  <2>1. UNCHANGED coreVars
    BY <1>1, DaemonTurn
  <2>2. CASE UNCHANGED turn
    BY <1>a, <2>1, <2>2
  <2>3. CASE ~UNCHANGED turn
    <3>1. PICK n \in Session : turn[n] = "none" /\ turn' = [turn EXCEPT ![n] = "register"]
      BY <1>1, <2>3, DaemonTurn
    <3>. SUFFICES ASSUME NEW m \in Session PROVE Sessions!WorkerStep(m)
      OBVIOUS
    <3>2. \/ turn'[m] = turn[m]
          \/ turn[m] \in {"none", "register"} /\ turn'[m] \in {"none", "register"}
      BY <3>1 DEF CoreTyped
    <3>. QED  BY <2>1, <3>2, SessionStays
  <2>. QED  BY <2>2, <2>3
<1>2. ASSUME \/ BreakLink("dead") \/ BreakLink("reset") \/ UNCHANGED vars
             \/ \E n \in Session, r \in Requests : Assign(n, r)
             \/ \E r \in Requests : CancelRequest(r)
             \/ \E n \in Session : RequestWorkerModelsRefresh(n)
      PROVE  Steps
  BY <1>a, <1>2 DEF BreakLink, vars, Assign, CancelRequest, RequestWorkerModelsRefresh
<1>3. ASSUME BeginGracefulShutdown PROVE Steps
  <2>1. /\ draining' = workers /\ drain_signals' = drain_signals \cup (workers \ draining)
        /\ UNCHANGED <<turn, workers, disconnect_reasons>>
    BY <1>3 DEF BeginGracefulShutdown
  <2>. SUFFICES ASSUME NEW m \in Session PROVE Sessions!WorkerStep(m)
    OBVIOUS
  <2>2. CASE m \in workers \ draining
    <3>1. Stage(m) = "serving" /\ Stage(m)' = "draining"
      BY <2>1, <2>2 DEF Stage, CoreTyped, InLoop
    <3>. QED  BY <2>1, <2>2, <3>1 DEF Sessions!WorkerStep, Sessions!BeginDrain
  <2>3. CASE m \notin workers \ draining
    BY <2>1, <2>3, SessionStays DEF CoreTyped
  <2>. QED  BY <2>2, <2>3
<1>4. ASSUME NEW n \in Session,
             \/ FlushCancels(n) \/ FlushRequests(n) \/ FlushShutdowns(n) \/ FlushRefreshes(n)
             \/ HandleLateComplete(n) \/ HandleReport(n)
             \/ RecvTimesOut(n) \/ ReceivePingFrame(n) \/ SendHeartbeatPing(n)
      PROVE  Steps
  <2>1. UNCHANGED <<workers, draining, disconnect_reasons>>
        /\ drain_signals' \subseteq drain_signals
    BY <1>4
    DEF FlushCancels, FlushRequests, FlushShutdowns, FlushRefreshes, Flush,
        HandleLateComplete, HandleReport, RecvTimesOut, ReceivePingFrame, SendHeartbeatPing
  <2>2. InLoop(n) /\ \E step \in Turn \ {"none", "register", "over"} : GoTo(n, step)
    BY <1>4
    DEF FlushCancels, FlushRequests, FlushShutdowns, FlushRefreshes, Flush, Turn, InLoop,
        HandleLateComplete, HandleReport, RecvTimesOut, ReceivePingFrame, SendHeartbeatPing,
        Accept, Arrives
  <2>3. InLoop(n)' /\ \A m \in Session : m # n => turn'[m] = turn[m]
    BY <1>b, <2>2 DEF InLoop
  <2>. QED  BY <1>0, <2>1, <2>2, <2>3
<1>5. ASSUME NEW n \in Session, RegisterWorker(n) PROVE Steps
  <2>1. /\ turn[n] = "register" /\ turn'[n] = "cancels"
        /\ \A m \in Session : m # n => turn'[m] = turn[m]
        /\ workers' = workers \cup {n}
        /\ UNCHANGED <<draining, disconnect_reasons, drain_signals>>
    BY <1>b, <1>5 DEF RegisterWorker, Turn
  <2>2. Sessions!WorkerStep(n)
    <3>1. n \notin draining /\ n \notin drain_signals'
      BY <2>1 DEF CoreTyped, InLoop
    <3>2. Stage(n) = "new" /\ Stage(n)' = "serving"
      BY <2>1, <3>1 DEF Stage, InLoop
    <3>. QED  BY <3>1, <3>2 DEF Sessions!WorkerStep, Sessions!Register
  <2>3. ASSUME NEW m \in Session, m # n PROVE Sessions!WorkerStep(m)
    BY <2>1, <2>3, SessionStays
  <2>. QED  BY <2>2, <2>3
<1>6. ASSUME NEW n \in Session, HandleComplete(n) PROVE Steps
  <2>1. PICK gone \in SUBSET (draining \cap {n}) :
          /\ workers' = workers \ gone /\ draining' = draining \ gone
          /\ drain_signals' = drain_signals \ gone
          /\ disconnect_reasons' = disconnect_reasons \cup gone
    BY <1>6 DEF HandleComplete
  <2>2. InLoop(n) /\ InLoop(n)' /\ \A m \in Session : m # n => turn'[m] = turn[m]
    BY <1>b, <1>6 DEF HandleComplete, Accept, Arrives, InLoop, Turn
  <2>. SUFFICES ASSUME NEW m \in Session PROVE Sessions!WorkerStep(m)
    OBVIOUS
  <2>3. CASE m \in gone
    <3>1. m = n /\ m \in workers
      BY <2>1, <2>3 DEF CoreTyped
    <3>. QED  BY <2>1, <2>2, <2>3, <3>1, SessionRemoved
  <2>4. CASE m \notin gone
    <3>1. \/ turn'[m] = turn[m]
          \/ InLoop(m) /\ InLoop(m)'
      BY <2>2
    <3>. QED  BY <2>1, <2>4, <3>1, SessionStays
  <2>. QED  BY <2>3, <2>4
<1>7. ASSUME NEW n \in Session, turn[n] # "over", LoopEnds(n) PROVE Steps
  <2>1. /\ turn'[n] = "over" /\ \A m \in Session : m # n => turn'[m] = turn[m]
        /\ workers' = workers \ {n} /\ draining' = draining \ {n}
        /\ drain_signals' = drain_signals \ {n}
        /\ UNCHANGED disconnect_reasons
    BY <1>b, <1>7 DEF LoopEnds, Turn, DisconnectWorker, RemoveWorkers
  <2>2. Sessions!WorkerStep(n)
    BY <1>7, <2>1, SessionCloses
  <2>3. ASSUME NEW m \in Session, m # n PROVE Sessions!WorkerStep(m)
    BY <2>1, <2>3, SessionStays
  <2>. QED  BY <2>2, <2>3
<1>8. ASSUME NEW n \in Session, ProtocolError(n) \/ StaleHeartbeat(n) \/ SocketLost(n)
      PROVE  Steps
  <2>1. turn[n] # "over" /\ LoopEnds(n)
    BY <1>8 DEF ProtocolError, StaleHeartbeat, SocketLost, Refused, Arrives, InLoop
  <2>. QED  BY <1>7, <2>1
<1>9. ASSUME NEW n \in Session, CloseAction(n) PROVE Steps
  <2>1. PICK expired \in {{}, draining} :
          LET idle == {d \in draining \cap {n} : OwnedBy(n) = {}}
              gone == expired \cup idle
              removed == disconnect_reasons \cup gone
          IN /\ RemoveWorkers(gone)
             /\ disconnect_reasons' = removed \ {n}
             /\ GoTo(n, IF n \in removed THEN "over" ELSE "recv")
    BY <1>9 DEF CloseAction
  <2>. DEFINE idle == {d \in draining \cap {n} : OwnedBy(n) = {}}
              gone == expired \cup idle
              removed == disconnect_reasons \cup gone
  <2>2. /\ workers' = workers \ gone /\ draining' = draining \ gone
        /\ drain_signals' = drain_signals \ gone
        /\ disconnect_reasons' = removed \ {n}
        /\ GoTo(n, IF n \in removed THEN "over" ELSE "recv")
    BY <2>1 DEF RemoveWorkers
  <2>3. gone \subseteq workers
    BY DEF CoreTyped
  <2>4. turn[n] = "close"
    BY <1>9 DEF CloseAction
  <2>. HIDE DEF idle, gone
  <2>5. /\ turn'[n] = (IF n \in removed THEN "over" ELSE "recv")
        /\ \A m \in Session : m # n => turn'[m] = turn[m]
    BY <1>b, <2>2 DEF Turn
  <2>. SUFFICES ASSUME NEW m \in Session PROVE Sessions!WorkerStep(m)
    OBVIOUS
  <2>6. CASE m = n /\ n \in removed
    BY <2>2, <2>4, <2>5, <2>6, SessionCloses
  <2>7. CASE m \in gone /\ m # n
    <3>1. m \in workers /\ m \notin workers' /\ m \in disconnect_reasons'
      BY <2>2, <2>3, <2>7
    <3>2. InLoop(m) /\ InLoop(m)'
      BY <2>5, <2>7, <3>1 DEF CoreTyped, InLoop
    <3>. QED  BY <2>2, <3>1, <3>2, SessionRemoved
  <2>8. CASE m \notin gone /\ ~(m = n /\ n \in removed)
    <3>1. \/ turn'[m] = turn[m]
          \/ InLoop(m) /\ InLoop(m)'
      BY <2>4, <2>5, <2>8 DEF InLoop
    <3>2. m \in disconnect_reasons' <=> m \in disconnect_reasons
      BY <2>2, <2>8
    <3>. QED  BY <2>2, <2>8, <3>1, <3>2, SessionStays
  <2>. QED  BY <2>6, <2>7, <2>8
<1>. HIDE DEF Steps
<1>10. ASSUME NEW n \in Session, SocketLoop(n) PROVE Steps
  BY <1>4, <1>5, <1>6, <1>8, <1>9, <1>10 DEF SocketLoop
<1>. QED  BY <1>1, <1>2, <1>3, <1>10 DEF Next

(* Every action is, for every request, one that WorkerSessions has, or none.  *)
LEMMA LinkRequestSteps ==
  LinkTyped /\ PipelineInv /\ [Next]_vars => \A r \in Requests : Sessions!RequestStep(r)
<1>. DEFINE Steps == \A q \in Requests : Sessions!RequestStep(q)
<1>. SUFFICES ASSUME LinkTyped, CoreTyped, PipelineInv, [Next]_vars PROVE Steps
  BY DEF LinkTyped
<1>0. ASSUME NEW r \in Requests, place'[r] = place[r], owner'[r] = owner[r]
      PROVE  Sessions!RequestStep(r)
  BY <1>0 DEF Sessions!RequestStep, Sessions!Stays
<1>a. ASSUME UNCHANGED <<place, owner>> PROVE Steps
  BY <1>0, <1>a
<1>b. ASSUME NEW r \in Requests, NEW n \in Session, owner[r] = n,
             Stage(n)' \in {"removed", "closed"},
             place'[r] = "done" \/ (place'[r] = "queued" /\ r \notin canceled)
      PROVE  Sessions!RequestStep(r)
  <2>1. owner[r] \in Session /\ place[r] \in {"pending", "sent"}
    BY <1>b, DaemonAssumption DEF CoreTyped, Session
  <2>2. Sessions!Given(r)
    BY <2>1 DEF Sessions!Given
  <2>. QED
    BY <1>b, <2>1, <2>2 DEF Sessions!RequestStep, Sessions!Lose, Sessions!InRegistry
<1>1. ASSUME NEW n \in Session, NEW r \in Requests, Assign(n, r) PROVE Steps
  <2>1. /\ n \in workers \ draining /\ place[r] = "queued"
        /\ UNCHANGED <<workers, draining, turn, disconnect_reasons>>
        /\ place' = [place EXCEPT ![r] = "pending"] /\ owner' = [owner EXCEPT ![r] = n]
    BY <1>1 DEF Assign, loopVars
  <2>2. Stage(n) = "serving" /\ Stage(n)' = "serving"
    BY <2>1 DEF Stage, CoreTyped, InLoop
  <2>3. owner'[r] = n /\ place'[r] = "pending"
    BY <2>1 DEF CoreTyped
  <2>4. Sessions!RequestStep(r)
    BY <2>1, <2>2, <2>3 DEF Sessions!RequestStep, Sessions!Give, Sessions!Moves
  <2>5. \A q \in Requests : q # r => place'[q] = place[q] /\ owner'[q] = owner[q]
    BY <2>1 DEF CoreTyped
  <2>. QED  BY <1>0, <2>4, <2>5
<1>2. ASSUME NEW r \in Requests, CancelRequest(r) PROVE Steps
  <2>1. UNCHANGED owner
        /\ \A q \in Requests : place'[q] = IF q = r /\ place[r] = "queued" THEN "done" ELSE place[q]
    BY <1>2 DEF CancelRequest, CoreTyped
  <2>. SUFFICES ASSUME NEW q \in Requests PROVE Sessions!RequestStep(q)
    OBVIOUS
  <2>2. CASE q = r /\ place[r] = "queued"
    BY <2>1, <2>2 DEF Sessions!RequestStep, Sessions!GiveUp, Sessions!Moves
  <2>. QED  BY <1>0, <2>1, <2>2
<1>3. ASSUME NEW n \in Session, FlushRequests(n) PROVE Steps
  <2>1. /\ UNCHANGED owner
        /\ \A q \in Requests : \/ place'[q] = place[q]
                               \/ place[q] = "pending" /\ place'[q] = "sent"
    BY <1>3 DEF FlushRequests, Flush, OwnedBy
  <2>. SUFFICES ASSUME NEW q \in Requests PROVE Sessions!RequestStep(q)
    OBVIOUS
  <2>2. CASE place[q] = "pending" /\ place'[q] = "sent"
    BY <2>1, <2>2 DEF Sessions!RequestStep, Sessions!Send, Sessions!Moves
  <2>. QED  BY <1>0, <2>1, <2>2
<1>4. ASSUME NEW n \in Session, HandleComplete(n) PROVE Steps
  <2>1. PICK r \in OwnedBy(n) :
          /\ r = Arrived(n).id /\ turn[n] = "recv" /\ to_server[n] \in Seq(Message)
          /\ to_server[n] # <<>> /\ Arrived(n).type = "ResponseComplete"
          /\ place' = [place EXCEPT ![r] = "done"] /\ owner' = [owner EXCEPT ![r] = 0]
    BY <1>4 DEF HandleComplete, Arrives, LinkTyped, ChannelsTyped
  <2>2. Arrived(n) \in Message /\ Arrived(n) \in Members(to_server[n])
    BY <2>1, TailProperties DEF Arrived
  <2>3. r \in Requests /\ Arrived(n) \in About(r)
    BY <2>1, <2>2, MessageKinds DEF About
  <2>4. Known(n, r)
    BY <2>2, <2>3 DEF Known, Told
  <2>5. place[r] = "sent"
    BY <2>1, <2>3, <2>4 DEF PipelineInv, Accounted, Sent, OwnedBy
  <2>6. place'[r] = "done"
    BY <2>1, <2>3 DEF CoreTyped
  <2>7. Sessions!RequestStep(r)
    BY <2>3, <2>5, <2>6 DEF Sessions!RequestStep, Sessions!Settle, Sessions!Moves
  <2>. SUFFICES ASSUME NEW q \in Requests, q # r PROVE Sessions!RequestStep(q)
    BY <2>7
  <2>8. place'[q] = place[q] /\ owner'[q] = owner[q]
    BY <2>1 DEF CoreTyped
  <2>. QED  BY <1>0, <2>8
<1>5. ASSUME NEW n \in Session, LoopEnds(n) PROVE Steps
  <2>1. /\ turn'[n] = "over"
        /\ place' = [q \in Requests |-> IF q \notin OwnedBy(n) THEN place[q]
                                        ELSE IF q \in canceled THEN "done" ELSE "queued"]
        /\ owner' = [q \in Requests |-> IF q \in OwnedBy(n) THEN 0 ELSE owner[q]]
    BY <1>5 DEF LoopEnds, DisconnectWorker, GoTo, CoreTyped
  <2>2. Stage(n)' = "closed"
    BY <2>1 DEF Stage, InLoop
  <2>. SUFFICES ASSUME NEW q \in Requests PROVE Sessions!RequestStep(q)
    OBVIOUS
  <2>3. CASE q \in OwnedBy(n)
    <3>1. owner[q] = n
      BY <2>3 DEF OwnedBy
    <3>. QED  BY <1>b, <2>1, <2>2, <2>3, <3>1
  <2>4. CASE q \notin OwnedBy(n)
    BY <1>0, <2>1, <2>4
  <2>. QED  BY <2>3, <2>4
<1>6. ASSUME NEW n \in Session, ProtocolError(n) \/ StaleHeartbeat(n) \/ SocketLost(n)
      PROVE  Steps
  BY <1>5, <1>6 DEF ProtocolError, StaleHeartbeat, SocketLost
<1>7. ASSUME NEW n \in Session, CloseAction(n) PROVE Steps
  <2>1. PICK expired \in {{}, draining} :
          LET idle == {d \in draining \cap {n} : OwnedBy(n) = {}}
              gone == expired \cup idle
              failed == UNION {OwnedBy(d) : d \in expired}
              removed == disconnect_reasons \cup gone
          IN /\ place' = [r \in Requests |-> IF r \in failed THEN "done" ELSE place[r]]
             /\ owner' = [r \in Requests |-> IF r \in failed THEN 0 ELSE owner[r]]
             /\ RemoveWorkers(gone)
             /\ disconnect_reasons' = removed \ {n}
             /\ GoTo(n, IF n \in removed THEN "over" ELSE "recv")
    BY <1>7 DEF CloseAction
  <2>. DEFINE gone == expired \cup {d \in draining \cap {n} : OwnedBy(n) = {}}
              failed == UNION {OwnedBy(d) : d \in expired}
              removed == disconnect_reasons \cup gone
  <2>2. /\ place' = [r \in Requests |-> IF r \in failed THEN "done" ELSE place[r]]
        /\ owner' = [r \in Requests |-> IF r \in failed THEN 0 ELSE owner[r]]
        /\ workers' = workers \ gone /\ disconnect_reasons' = removed \ {n}
        /\ GoTo(n, IF n \in removed THEN "over" ELSE "recv")
    BY <2>1 DEF RemoveWorkers
  <2>3. gone \subseteq workers /\ expired \subseteq gone
    BY DEF CoreTyped
  <2>4. \A r \in failed : owner[r] \in expired
    BY DEF OwnedBy
  <2>. HIDE DEF gone, failed
  <2>5. /\ turn'[n] = (IF n \in removed THEN "over" ELSE "recv")
        /\ \A m \in Session : m # n => turn'[m] = turn[m]
    BY <2>2 DEF GoTo, CoreTyped
  <2>6. ASSUME NEW m \in gone PROVE Stage(m)' \in {"removed", "closed"}
    <3>1. m \in Session /\ m \in workers /\ InLoop(m) /\ m \notin workers'
      BY <2>2, <2>3 DEF CoreTyped
    <3>2. CASE m = n
      <4>1. CASE n \in removed
        BY <2>5, <3>2, <4>1 DEF Stage, InLoop
      <4>. QED  BY <3>2, <4>1
    <3>3. CASE m # n
      <4>1. turn'[m] = turn[m] /\ m \in disconnect_reasons'
        BY <2>2, <2>5, <3>1, <3>3
      <4>. QED  BY <3>1, <4>1 DEF Stage, InLoop
    <3>. QED  BY <3>2, <3>3
  <2>. SUFFICES ASSUME NEW q \in Requests PROVE Sessions!RequestStep(q)
    OBVIOUS
  <2>7. CASE q \in failed
    <3>1. PICK m \in gone : owner[q] = m
      BY <2>3, <2>4, <2>7
    <3>2. m \in Session /\ Stage(m)' \in {"removed", "closed"}
      BY <2>3, <2>6 DEF CoreTyped
    <3>3. place'[q] = "done"
      BY <2>2, <2>7
    <3>. QED  BY <1>b, <3>1, <3>2, <3>3
  <2>8. CASE q \notin failed
    BY <1>0, <2>2, <2>8
  <2>. QED  BY <2>7, <2>8
<1>8. ASSUME NEW n \in Session,
             \/ FlushCancels(n) \/ FlushShutdowns(n) \/ FlushRefreshes(n)
             \/ RegisterWorker(n) \/ HandleLateComplete(n) \/ HandleReport(n)
             \/ RecvTimesOut(n) \/ ReceivePingFrame(n) \/ SendHeartbeatPing(n)
      PROVE  Steps
  BY <1>a, <1>8
  DEF FlushCancels, FlushShutdowns, FlushRefreshes, Flush, RegisterWorker,
      HandleLateComplete, HandleReport, RecvTimesOut, ReceivePingFrame, SendHeartbeatPing
<1>9. ASSUME \/ Daemon \/ BreakLink("dead") \/ BreakLink("reset") \/ UNCHANGED vars
             \/ BeginGracefulShutdown
             \/ \E n \in Session : RequestWorkerModelsRefresh(n)
      PROVE  Steps
  BY <1>a, <1>9
  DEF Daemon, BreakLink, vars, BeginGracefulShutdown, RequestWorkerModelsRefresh
<1>. HIDE DEF Steps
<1>10. ASSUME NEW n \in Session, SocketLoop(n) PROVE Steps
  BY <1>3, <1>4, <1>6, <1>7, <1>8, <1>10 DEF SocketLoop
<1>. QED  BY <1>1, <1>2, <1>9, <1>10 DEF Next

(* Marks and signals change as WorkerSessions says. *)
LEMMA LinkMarkSteps ==
  LinkTyped /\ SlotsInv /\ [Next]_vars => \A r \in Requests : Sessions!MarkStep(r)
<1>. DEFINE Marked(r) == r \in canceled /\ owner[r] # 0
<1>. SUFFICES ASSUME LinkTyped, CoreTyped, SlotsInv, [Next]_vars, NEW r \in Requests
              PROVE  Sessions!MarkStep(r)
  BY DEF LinkTyped
<1>0. ASSUME Marked(r)' => Marked(r), r \in cancel_signals' => r \in cancel_signals,
             Marked(r) /\ ~Marked(r)' => place'[r] = "done"
      PROVE  Sessions!MarkStep(r)
  BY <1>0 DEF Sessions!MarkStep
<1>1. CASE Released
  <2>1. UNCHANGED canceled /\ cancel_signals' \subseteq cancel_signals
    BY <1>1 DEF Released
  <2>2. CASE owner'[r] = owner[r]
    BY <1>0, <2>1, <2>2
  <2>3. CASE owner'[r] = 0 /\ (place'[r] = "done" \/ (place'[r] = "queued" /\ r \notin canceled))
    BY <1>0, <2>1, <2>3
  <2>. QED  BY <1>1, <2>2, <2>3 DEF Released
<1>2. ASSUME NEW n \in Session, NEW q \in Requests, Assign(n, q) PROVE Sessions!MarkStep(r)
  <2>1. /\ place[q] = "queued" /\ UNCHANGED <<canceled, cancel_signals>>
        /\ owner'[r] = IF r = q THEN n ELSE owner[r]
    BY <1>2 DEF Assign, CoreTyped, signalVars, callVars
  <2>2. q \notin canceled
    BY <2>1 DEF SlotsInv
  <2>. QED  BY <1>0, <2>1, <2>2
<1>3. ASSUME NEW q \in Requests, CancelRequest(q) PROVE Sessions!MarkStep(r)
  <2>1. /\ q \notin canceled /\ canceled' = canceled \cup {q} /\ UNCHANGED owner
        /\ IF place[q] = "queued"
           THEN place' = [place EXCEPT ![q] = "done"] /\ UNCHANGED cancel_signals
           ELSE cancel_signals' = cancel_signals \cup {q} /\ UNCHANGED place
    BY <1>3 DEF CancelRequest
  <2>2. CASE r # q \/ place[q] \in {"queued", "done"}
    <3>1. Marked(r)' <=> Marked(r)
      BY <2>1, <2>2 DEF CoreTyped
    <3>2. r \in cancel_signals' => r \in cancel_signals
      BY <1>3, <2>1, <2>2 DEF CancelRequest
    <3>. QED  BY <1>0, <3>1, <3>2
  <2>3. CASE r = q /\ place[q] \in {"pending", "sent"}
    <3>1. /\ UNCHANGED <<place, owner>> /\ r \notin canceled
          /\ r \in cancel_signals' /\ r \in canceled'
      BY <2>1, <2>3
    <3>2. Sessions!Given(r) /\ Sessions!Stays(r)
      BY <2>3, <3>1 DEF Sessions!Given, Sessions!Stays
    <3>. QED  BY <3>1, <3>2 DEF Sessions!MarkStep
  <2>. QED  BY <2>2, <2>3 DEF CoreTyped
<1>. QED  BY <1>1, <1>2, <1>3, ReleasingActions

(* At the start nothing is assigned and nothing is canceled. *)
LEMMA SlotsInit == Init => SlotsInv
<1>. SUFFICES ASSUME Init PROVE SlotsInv
  OBVIOUS
<1>1. \A n \in Session : Held(n) = {}
  BY DaemonAssumption DEF Init, Held, Session
<1>2. Cardinality({}) = 0
  BY FS_EmptySet
<1>. QED  BY <1>1, <1>2, LinkAssumption DEF SlotsInv, Init

(* Each connection of a daemon is dealt with as WorkerSessions says, over     *)
(* reconnections, cancellations and a drain that overlap: its requests stay   *)
(* with it until it answers or its loop ends, never more than max_concurrent  *)
(* of them, and a canceled one never goes to the next session.                *)
THEOREM LinkImplementsSessions == Spec => ImplementsSessions
<1>1. Init => Sessions!SessionsInit
  <2>. SUFFICES ASSUME Init PROVE Sessions!SessionsInit
    OBVIOUS
  <2>1. \A n \in Session : Stage(n) = "new"
    BY DEF Init, Stage, InLoop
  <2>2. {r \in canceled : owner[r] # 0} = {}
    BY DEF Init
  <2>3. \A r \in Requests : place[r] = "queued"
    BY DEF Init
  <2>4. /\ [n \in Session |-> Stage(n)] = [n \in Session |-> "new"]
        /\ [n \in Session |-> MaxConcurrent] \in [Session -> Nat]
    BY <2>1, LinkAssumption
  <2>5. [r \in Requests |-> IF place[r] = "queued" THEN "waiting" ELSE place[r]] \in
          [Requests -> {"new", "waiting"}]
    BY <2>3
  <2>. QED  BY <2>2, <2>4, <2>5 DEF Init, Sessions!SessionsInit
<1>2. LinkTyped /\ PipelineInv /\ SlotsInv /\ LinkTyped' /\ SlotsInv' /\ [Next]_vars =>
        [Sessions!SessionsNext]_(Sessions!sessionVars)
  BY SessionSteps, LinkRequestSteps, LinkMarkSteps, LinkStaysConsistent
  DEF Sessions!SessionsNext
<1>. QED
  BY <1>1, <1>2, LinkTypedInit, LinkTypedStep, PipelineInit, PipelineStep,
     SlotsInit, SlotsStep, PTL
  DEF Spec, ImplementsSessions, Sessions!SessionsSpec
=============================================================================
