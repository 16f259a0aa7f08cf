---------------------------- MODULE WorkerDaemon ----------------------------
(***************************************************************************)
(* WorkerDaemon (crates/modelrelay-worker/src/lib.rs): a daemon that       *)
(* connects to the proxy, runs one session after another (run_session      *)
(* inside run_with_reconnect), and forwards each request to its backend in *)
(* a spawned task.  One action is one arm of the session loop's select!    *)
(* or one step of a task.                                                  *)
(*                                                                         *)
(* A session ends in one of two ways.  Leaving the loop aborts the         *)
(* session's tasks; an error propagated by "?" drops their JoinHandles,    *)
(* which leaves them running without a session.                            *)
(*                                                                         *)
(* As in ProxyCore, a definition may stand next to an unused variant with  *)
(* a plausible mistake (see the README).                                   *)
(***************************************************************************)
EXTENDS Integers, Sequences, FiniteSets

CONSTANTS
  Requests,     \* request ids
  Streaming,    \* those with is_streaming
  MaxSessions   \* bound: connections in a behaviour

ASSUME DaemonAssumption == Streaming \subseteq Requests /\ MaxSessions \in Nat \ {0}

Session == 1..MaxSessions

VARIABLES
  (* the daemon *)
  pc,               \* "backoff", "running" or "refreshing" (awaiting the backend)
  number,           \* the current session, or the last one
  active_requests,  \* keys of the session's active_requests
  tasks,            \* <<session, request>> of the tasks at work on the backend
  event_rx,         \* the session's event channel
  shutting_down,
  ended,            \* how each session ended, "none" before
  (* the connections *)
  to_worker,        \* what the server wrote and the daemon has not read
  to_server,        \* what the daemon wrote and the server has not read
  link              \* state of each connection

daemonVars == <<pc, number, active_requests, tasks, event_rx, shutting_down, ended>>
linkVars == <<to_worker, to_server, link>>

(* ServerToWorkerMessage, WorkerToServerMessage and DaemonEvent. *)
Msg(type, r) == [type |-> type, id |-> r]
Plainly(type) == [type |-> type, id |-> 0]
Outbound(m) == [type |-> "Outbound", message |-> m]
RequestFinished(r) == [type |-> "RequestFinished", message |-> Msg("none", r)]
RequestFailed(r) == [type |-> "RequestFailed", message |-> Msg("none", r)]

(* "up"; "dead": half open, nothing arrives; "reset": the next read or write  *)
(* fails; "closed": the server said goodbye; "left": the daemon did.          *)
LinkState == {"none", "up", "dead", "reset", "closed", "left"}

DaemonInit ==
  /\ pc = "backoff" /\ number = 0
  /\ active_requests = {} /\ tasks = {} /\ event_rx = <<>>
  /\ shutting_down = FALSE
  /\ ended = [n \in Session |-> "none"]
  /\ to_worker = [n \in Session |-> <<>>]
  /\ to_server = [n \in Session |-> <<>>]
  /\ link = [n \in Session |-> "none"]

InSession == pc # "backoff"
Live(n) == InSession /\ n = number

(* Bound: things fail only while another session can follow. *)
MayFail == number < MaxSessions

-----------------------------------------------------------------------------
(* A new session: run_with_reconnect waits and connects again, however the    *)
(* last one ended; the length of the wait is left out.                        *)

(* connect_async, and the registration message of the new session. *)
Connect ==
  /\ ~InSession /\ number < MaxSessions
  /\ number' = number + 1
  /\ pc' = "running"
  /\ active_requests' = {} /\ event_rx' = <<>> /\ shutting_down' = FALSE
  /\ link' = [link EXCEPT ![number + 1] = "up"]
  /\ to_server' = [to_server EXCEPT ![number + 1] = <<Plainly("Register")>>]
  /\ UNCHANGED <<tasks, to_worker, ended>>

-----------------------------------------------------------------------------
(* How a session ends. *)

OfSession == {<<number, r>> : r \in active_requests}

CloseSession(how) ==
  /\ pc' = "backoff"
  /\ active_requests' = {} /\ event_rx' = <<>>
  /\ ended' = [ended EXCEPT ![number] = how]
  /\ link' = [link EXCEPT ![number] = IF @ = "up" THEN "left" ELSE @]
  /\ to_worker' = [to_worker EXCEPT ![number] = <<>>]
  /\ UNCHANGED <<number, shutting_down, to_server>>

LeaveTasksRunning ==
  /\ tasks' = tasks
  /\ CloseSession(IF shutting_down THEN "graceful" ELSE "dropped")

(* The loop is left: abort what is active and return shutting_down. *)
BreakLoop ==
  /\ tasks' = tasks \ OfSession
  /\ CloseSession(IF shutting_down THEN "graceful" ELSE "dropped")

(* An error is returned out of the loop: the handles are dropped. *)
ReturnError ==
  /\ tasks' = tasks
  /\ CloseSession("error")

-----------------------------------------------------------------------------
(* The arm socket_read.next(): one message of the server. *)

Incoming(type) ==
  /\ pc = "running" /\ link[number] \in {"up", "closed"}
  /\ to_worker[number] # <<>> /\ Head(to_worker[number]).type = type

Consume == to_worker' = [to_worker EXCEPT ![number] = Tail(@)]

Enqueue(s) == event_rx' = event_rx \o s

HandleRequest ==
  /\ Incoming("Request")
  /\ LET r == Head(to_worker[number]).id IN
       IF shutting_down THEN ReturnError
       ELSE /\ Consume
            /\ active_requests' = active_requests \cup {r}
            /\ tasks' = tasks \cup {<<number, r>>}
            /\ UNCHANGED <<pc, number, event_rx, shutting_down, ended, to_server, link>>

HandlePing ==
  /\ Incoming("Ping")
  /\ Consume
  /\ Enqueue(<<Outbound(Plainly("Pong"))>>)
  /\ UNCHANGED <<pc, number, active_requests, tasks, shutting_down, ended,
                 to_server, link>>

HandleGracefulShutdown ==
  /\ Incoming("GracefulShutdown")
  /\ Consume
  /\ shutting_down' = TRUE
  /\ UNCHANGED <<pc, number, active_requests, tasks, event_rx, ended, to_server, link>>

(* handle_server_message awaits the backend's /v1/models inside the arm, so   *)
(* the loop does nothing else until it answers.                               *)
HandleModelsRefresh ==
  /\ Incoming("ModelsRefresh")
  /\ Consume
  /\ pc' = "refreshing"
  /\ UNCHANGED <<number, active_requests, tasks, event_rx, shutting_down, ended,
                 to_server, link>>

ModelsDiscovered ==
  /\ pc = "refreshing"
  /\ pc' = "running"
  /\ Enqueue(<<Outbound(Plainly("ModelsUpdate"))>>)
  /\ UNCHANGED <<number, active_requests, tasks, shutting_down, ended, linkVars>>

DiscoveryFails == pc = "refreshing" /\ MayFail /\ ReturnError

HandleCancel ==
  /\ Incoming("Cancel")
  /\ Consume
  /\ LET r == Head(to_worker[number]).id IN
       /\ tasks' = tasks \ ({<<number, r>>} \cap OfSession)
       /\ active_requests' = active_requests \ {r}
  /\ UNCHANGED <<pc, number, event_rx, shutting_down, ended, to_server, link>>

ReadClose == Incoming("Close") /\ BreakLoop

ReadFails == pc = "running" /\ link[number] = "reset" /\ ReturnError

-----------------------------------------------------------------------------
(* The arm event_rx.recv(): one event of a task. *)

NextEvent(type) == pc = "running" /\ event_rx # <<>> /\ Head(event_rx).type = type

(* What is written to a connection nobody reads is lost. *)
SendOutbound ==
  /\ NextEvent("Outbound")
  /\ link[number] # "reset"
  /\ event_rx' = Tail(event_rx)
  /\ to_server' = [to_server EXCEPT ![number] =
                     IF link[number] = "up" THEN Append(@, Head(event_rx).message) ELSE @]
  /\ UNCHANGED <<pc, number, active_requests, tasks, shutting_down, ended,
                 to_worker, link>>

SendFails == NextEvent("Outbound") /\ link[number] \in {"reset", "closed", "dead"} /\ ReturnError

RequestFinishes ==
  /\ NextEvent("RequestFinished")
  /\ event_rx' = Tail(event_rx)
  /\ active_requests' = active_requests \ {Head(event_rx).message.id}
  /\ UNCHANGED <<pc, number, tasks, shutting_down, ended, linkVars>>

(* One failed request ends the session and every other request with it. *)
RequestFails ==
  /\ NextEvent("RequestFailed")
  /\ tasks' = tasks \ OfSession
  /\ CloseSession("failed")

(* The idle deadline, or a client ping that cannot be written. *)
LinkFoundReset == pc = "running" /\ link[number] \in {"reset", "closed"} /\ BreakLoop
LinkFoundDead == pc = "running" /\ link[number] \in {"dead", "reset", "closed"} /\ BreakLoop

-----------------------------------------------------------------------------
(* A spawned task: forward_request, then the events of its result.  A task    *)
(* without a session finds its channel closed and says nothing.               *)

(* Bound: at most one chunk of a request is on its way. *)
ChunkOnItsWay(r) ==
  \/ \E i \in DOMAIN event_rx : event_rx[i] = Outbound(Msg("ResponseChunk", r))
  \/ \E i \in DOMAIN to_server[number] : to_server[number][i] = Msg("ResponseChunk", r)

TaskSendsChunk(n, r) ==
  /\ <<n, r>> \in tasks /\ r \in Streaming /\ Live(n) /\ ~ChunkOnItsWay(r)
  /\ Enqueue(<<Outbound(Msg("ResponseChunk", r))>>)
  /\ UNCHANGED <<pc, number, active_requests, tasks, shutting_down, ended, linkVars>>

TaskEndsAnySession(n, r, result) ==
  /\ <<n, r>> \in tasks
  /\ tasks' = tasks \ {<<n, r>>}
  /\ IF InSession THEN Enqueue(result) ELSE UNCHANGED event_rx
  /\ UNCHANGED <<pc, number, active_requests, shutting_down, ended, linkVars>>

TaskEnds(n, r, result) ==
  /\ <<n, r>> \in tasks
  /\ tasks' = tasks \ {<<n, r>>}
  /\ IF Live(n) THEN Enqueue(result) ELSE UNCHANGED event_rx
  /\ UNCHANGED <<pc, number, active_requests, shutting_down, ended, linkVars>>

TaskCompletes(n, r) ==
  TaskEnds(n, r, <<Outbound(Msg("ResponseComplete", r)), RequestFinished(r)>>)

TaskFails(n, r) == MayFail /\ TaskEnds(n, r, <<RequestFailed(r)>>)

ReadArm ==
  \/ HandleRequest \/ HandlePing \/ HandleGracefulShutdown \/ HandleModelsRefresh
  \/ HandleCancel \/ ReadClose \/ ReadFails

EventArm == SendOutbound \/ SendFails \/ RequestFinishes \/ RequestFails

DaemonStep ==
  \/ Connect \/ ReadArm \/ EventArm \/ LinkFoundDead
  \/ ModelsDiscovered \/ DiscoveryFails
  \/ \E n \in Session, r \in Requests :
       TaskSendsChunk(n, r) \/ TaskCompletes(n, r) \/ TaskFails(n, r)
=============================================================================
