----------------------------- MODULE RelayLink -----------------------------
(***************************************************************************)
(* A worker daemon and the proxy at the two ends of its connections.  The  *)
(* proxy's end is the socket loop of worker_socket.rs with the part of the *)
(* core that concerns one worker; each session of the daemon is a worker   *)
(* of its own to the proxy, and an old one may still be registered when    *)
(* the next connects.                                                      *)
(*                                                                         *)
(* A turn of the socket loop takes the core's lock once for each of the    *)
(* cancel signals, the requests, the shutdown signals, the refresh signals *)
(* and the close action, and writes what it took; then it receives for     *)
(* 25 ms.  Other socket loops and clients use the core in between.         *)
(***************************************************************************)
EXTENDS WorkerDaemon

CONSTANTS
  MaxConcurrent,   \* the daemon's max_concurrent
  Cancellable,     \* bound: requests whose client may give up
  MaxShutdowns,    \* bound: graceful shutdowns, all their workers have one deadline
  MaxPings,        \* bound: heartbeat pings on links that work
  MaxRefreshes     \* bound: requests for a model refresh

ASSUME LinkAssumption ==
  /\ MaxConcurrent \in Nat \ {0} /\ MaxShutdowns \in 0..1 /\ MaxRefreshes \in 0..1
  /\ MaxPings \in Nat
  /\ Cancellable \subseteq Requests /\ 0 \notin Requests

VARIABLES
  turn,             \* where each socket loop stands
  workers,          \* the sessions registered with the core
  place,            \* "queued", "pending", "sent" or "done"
  owner,            \* the session a pending or sent request is assigned to
  canceled,         \* requests cancel_request marked
  cancel_signals,   \* those the worker has not been told of
  draining,         \* sessions with a drain deadline
  drain_signals,    \* those not told yet
  refresh_signals,
  disconnect_reasons, \* sessions the core removed and whose loop must close
  awaiting_pong,    \* sessions pinged and not heard of since
  shutdowns, refreshes, pings

signalVars == <<cancel_signals, drain_signals, refresh_signals>>
callVars == <<canceled, shutdowns, refreshes>>
coreVars == <<workers, place, owner, draining, disconnect_reasons, signalVars, callVars>>
loopVars == <<turn, awaiting_pong, pings>>
vars == <<daemonVars, linkVars, coreVars, loopVars>>

Turn == {"none", "register", "cancels", "requests", "shutdowns", "refreshes", "close",
         "recv", "over"}

InLoop(n) == turn[n] \notin {"none", "register", "over"}

OwnedBy(n) == {r \in Requests : place[r] \in {"pending", "sent"} /\ owner[r] = n}

Init ==
  /\ DaemonInit
  /\ turn = [n \in Session |-> "none"]
  /\ place = [r \in Requests |-> "queued"]
  /\ owner = [r \in Requests |-> 0]
  /\ canceled = {} /\ cancel_signals = {}
  /\ workers = {} /\ draining = {} /\ disconnect_reasons = {}
  /\ drain_signals = {} /\ refresh_signals = {}
  /\ awaiting_pong = {}
  /\ shutdowns = 0 /\ refreshes = 0 /\ pings = 0

-----------------------------------------------------------------------------
(* The daemon, and the network. *)

Daemon ==
  /\ DaemonStep
  /\ turn' = IF number' # number THEN [turn EXCEPT ![number'] = "register"] ELSE turn
  /\ UNCHANGED <<awaiting_pong, pings, coreVars>>

BreakLink(state) ==
  /\ InSession /\ MayFail /\ link[number] = "up"
  /\ link' = [link EXCEPT ![number] = state]
  /\ UNCHANGED <<daemonVars, to_worker, to_server, coreVars, loopVars>>

-----------------------------------------------------------------------------
(* What the core does for its other callers. *)

(* Dispatch of a queued request, by a submission, a finish or a report. *)
Assign(n, r) ==
  /\ n \in workers \ draining
  /\ Cardinality(OwnedBy(n)) < MaxConcurrent
  /\ place[r] = "queued"
  /\ place' = [place EXCEPT ![r] = "pending"]
  /\ owner' = [owner EXCEPT ![r] = n]
  /\ UNCHANGED <<workers, draining, disconnect_reasons, signalVars, callVars,
                 loopVars, daemonVars, linkVars>>

CancelRequest(r) ==
  /\ r \in Cancellable \ canceled /\ place[r] # "done"
  /\ canceled' = canceled \cup {r}
  /\ IF place[r] = "queued"
     THEN place' = [place EXCEPT ![r] = "done"] /\ UNCHANGED cancel_signals
     ELSE cancel_signals' = cancel_signals \cup {r} /\ UNCHANGED place
  /\ UNCHANGED <<workers, owner, draining, disconnect_reasons, drain_signals,
                 refresh_signals, shutdowns, refreshes, loopVars, daemonVars, linkVars>>

BeginGracefulShutdown ==
  /\ shutdowns < MaxShutdowns /\ MayFail
  /\ shutdowns' = shutdowns + 1
  /\ draining' = workers
  /\ drain_signals' = drain_signals \cup (workers \ draining)
  /\ UNCHANGED <<workers, place, owner, disconnect_reasons, cancel_signals,
                 refresh_signals, canceled, refreshes, loopVars, daemonVars, linkVars>>

RequestWorkerModelsRefresh(n) ==
  /\ n \in workers /\ refreshes < MaxRefreshes
  /\ refreshes' = refreshes + 1
  /\ refresh_signals' = refresh_signals \cup {n}
  /\ UNCHANGED <<workers, place, owner, draining, disconnect_reasons, cancel_signals,
                 drain_signals, canceled, shutdowns, loopVars, daemonVars, linkVars>>

(* remove_worker *)
RemoveWorkers(gone) ==
  /\ workers' = workers \ gone
  /\ draining' = draining \ gone
  /\ drain_signals' = drain_signals \ gone
  /\ cancel_signals' = {r \in cancel_signals : owner[r] \notin gone}

(* disconnect_worker: back to the queue, unless canceled.  With MaxSessions   *)
(* at most MAX_REQUEUE_COUNT no request is requeued too often.                *)
DisconnectAndForget(n) ==
  /\ place' = place /\ owner' = owner
  /\ RemoveWorkers({n})
  /\ UNCHANGED <<disconnect_reasons, refresh_signals, callVars>>

DisconnectWorker(n) ==
  /\ place' = [r \in Requests |-> IF r \notin OwnedBy(n) THEN place[r]
                                  ELSE IF r \in canceled THEN "done" ELSE "queued"]
  /\ owner' = [r \in Requests |-> IF r \in OwnedBy(n) THEN 0 ELSE owner[r]]
  /\ RemoveWorkers({n})
  /\ UNCHANGED <<disconnect_reasons, refresh_signals, callVars>>

-----------------------------------------------------------------------------
(* The socket loop of session n. *)

GoTo(n, step) == turn' = [turn EXCEPT ![n] = step]

(* What is written after the other end is gone, or into a dead link, is lost. *)
Write(n, s) ==
  to_worker' = [to_worker EXCEPT ![n] = IF link[n] = "up" THEN @ \o s ELSE @]

Enumerations(S, type) ==
  {s \in [1..Cardinality(S) -> {Msg(type, r) : r \in S}] :
     \A i, j \in DOMAIN s : s[i] = s[j] => i = j}

(* One flush of a turn: what is taken from the core is written. *)
Flush(n, now, then, S, type) ==
  /\ turn[n] = now
  /\ \E s \in Enumerations(S, type) : Write(n, s)
  /\ GoTo(n, then)
  /\ UNCHANGED <<workers, owner, draining, disconnect_reasons, callVars,
                 awaiting_pong, pings, daemonVars, to_server, link>>

ToldOff(n) == {r \in cancel_signals : owner[r] = n}

FlushCancelsAndFree(n) ==
  /\ Flush(n, "cancels", "requests", ToldOff(n), "Cancel")
  /\ cancel_signals' = cancel_signals \ ToldOff(n)
  /\ place' = [r \in Requests |-> IF r \in ToldOff(n) THEN "done" ELSE place[r]]
  /\ UNCHANGED <<drain_signals, refresh_signals>>

FlushCancels(n) ==
  /\ Flush(n, "cancels", "requests", ToldOff(n), "Cancel")
  /\ cancel_signals' = cancel_signals \ ToldOff(n)
  /\ UNCHANGED <<place, drain_signals, refresh_signals>>

(* The order in which requests were assigned is left open. *)
FlushRequests(n) ==
  LET pending == {r \in OwnedBy(n) : place[r] = "pending"}
  IN /\ Flush(n, "requests", "shutdowns", pending, "Request")
     /\ place' = [r \in Requests |-> IF r \in pending THEN "sent" ELSE place[r]]
     /\ UNCHANGED signalVars

FlushShutdowns(n) ==
  /\ Flush(n, "shutdowns", "refreshes", {0 : d \in drain_signals \cap {n}},
           "GracefulShutdown")
  /\ drain_signals' = drain_signals \ {n}
  /\ UNCHANGED <<place, cancel_signals, refresh_signals>>

FlushRefreshes(n) ==
  /\ Flush(n, "refreshes", "close", {0 : d \in refresh_signals \cap workers \cap {n}},
           "ModelsRefresh")
  /\ refresh_signals' = (refresh_signals \cap workers) \ {n}
  /\ UNCHANGED <<place, cancel_signals, drain_signals>>

(* close_socket: the close frame is the last thing written. *)
SayGoodbye(n) ==
  /\ Write(n, <<Plainly("Close")>>)
  /\ link' = [link EXCEPT ![n] = IF @ = "up" THEN "closed" ELSE @]
  /\ to_server' = [to_server EXCEPT ![n] = <<>>]

(* graceful_shutdown_close_action: the drain deadline of every worker, which  *)
(* may have passed at any time, then whether this worker is drained or was    *)
(* removed before.  The requests of an expired worker fail.                   *)
CloseAction(n) ==
  /\ turn[n] = "close"
  /\ \E expired \in {{}, draining} :
       LET idle == {d \in draining \cap {n} : OwnedBy(n) = {}}
           gone == expired \cup idle
           failed == UNION {OwnedBy(d) : d \in expired}
           removed == disconnect_reasons \cup gone
       IN /\ place' = [r \in Requests |-> IF r \in failed THEN "done" ELSE place[r]]
          /\ owner' = [r \in Requests |-> IF r \in failed THEN 0 ELSE owner[r]]
          /\ RemoveWorkers(gone)
          /\ disconnect_reasons' = removed \ {n}
          /\ IF n \in removed
             THEN GoTo(n, "over") /\ SayGoodbye(n) /\ awaiting_pong' = awaiting_pong \ {n}
             ELSE GoTo(n, "recv") /\ UNCHANGED <<linkVars, awaiting_pong>>
  /\ UNCHANGED <<refresh_signals, callVars, pings, daemonVars>>

RegisterWorker(n) ==
  /\ turn[n] = "register" /\ link[n] \in {"up", "left"} /\ to_server[n] # <<>>
  /\ to_server' = [to_server EXCEPT ![n] = Tail(@)]
  /\ workers' = workers \cup {n}
  /\ GoTo(n, "cancels")
  /\ UNCHANGED <<place, owner, draining, disconnect_reasons, signalVars, callVars,
                 awaiting_pong, pings, daemonVars, to_worker, link>>

(* The socket loop receives a message: any message shows that the worker is   *)
(* alive.                                                                     *)
Arrives(n) == turn[n] = "recv" /\ to_server[n] # <<>> /\ link[n] \in {"up", "left"}
Arrived(n) == Head(to_server[n])

Accept(n) ==
  /\ to_server' = [to_server EXCEPT ![n] = Tail(@)]
  /\ awaiting_pong' = awaiting_pong \ {n}
  /\ GoTo(n, "cancels")
  /\ UNCHANGED <<pings, daemonVars, to_worker, link>>

(* complete_http_response and finish_request free the slot of the worker; a   *)
(* draining worker that is now idle is removed.                               *)
HandleCompleteKeepSlot(n) ==
  /\ Arrives(n) /\ Arrived(n).type = "ResponseComplete"
  /\ place' = [place EXCEPT ![Arrived(n).id] = "done"]
  /\ Accept(n)
  /\ UNCHANGED <<workers, owner, draining, disconnect_reasons, signalVars, callVars>>

HandleComplete(n) ==
  /\ Arrives(n) /\ Arrived(n).type = "ResponseComplete"
  /\ Arrived(n).id \in OwnedBy(n)
  /\ LET r == Arrived(n).id
         gone == {d \in draining \cap {n} : OwnedBy(n) = {r}}
     IN /\ place' = [place EXCEPT ![r] = "done"]
        /\ owner' = [owner EXCEPT ![r] = 0]
        /\ workers' = workers \ gone /\ draining' = draining \ gone
        /\ drain_signals' = drain_signals \ gone
        /\ cancel_signals' = cancel_signals \ {r}
        /\ disconnect_reasons' = disconnect_reasons \cup gone
  /\ Accept(n)
  /\ UNCHANGED <<refresh_signals, callVars>>

(* The answer to a request that is no more is taken and changes nothing. *)
HandleLateComplete(n) ==
  /\ Arrives(n) /\ Arrived(n).type = "ResponseComplete" /\ place[Arrived(n).id] = "done"
  /\ Accept(n)
  /\ UNCHANGED coreVars

(* A chunk of a request of this worker; a Pong or a ModelsUpdate of a worker  *)
(* the core knows. *)
HandleReport(n) ==
  /\ Arrives(n)
  /\ \/ Arrived(n).type \in {"Pong", "ModelsUpdate"} /\ n \in workers
     \/ Arrived(n).type = "ResponseChunk" /\ Arrived(n).id \in OwnedBy(n)
  /\ Accept(n)
  /\ UNCHANGED coreVars

(* What handle_worker_message does not take is a protocol error. *)
Refused(n) ==
  /\ Arrives(n)
  /\ \/ Arrived(n).type \in {"Pong", "ModelsUpdate"} /\ n \notin workers
     \/ Arrived(n).type = "ResponseChunk" /\ Arrived(n).id \notin OwnedBy(n)
     \/ /\ Arrived(n).type = "ResponseComplete"
        /\ Arrived(n).id \notin OwnedBy(n) /\ place[Arrived(n).id] # "done"

LoopEnds(n) ==
  /\ GoTo(n, "over")
  /\ awaiting_pong' = awaiting_pong \ {n}
  /\ DisconnectWorker(n)
  /\ UNCHANGED <<pings, daemonVars>>

ProtocolError(n) == Refused(n) /\ SayGoodbye(n) /\ LoopEnds(n)

(* Nothing arrives: the turn ends, with a ping when none is outstanding. *)
RecvTimesOut(n) ==
  /\ turn[n] = "recv" /\ ~Arrives(n)
  /\ GoTo(n, "cancels")
  /\ UNCHANGED <<coreVars, awaiting_pong, pings, daemonVars, linkVars>>

(* A ping frame of the daemon, sent every 15 s, is a sign of life as well. *)
ReceivePingFrame(n) ==
  /\ turn[n] = "recv" /\ ~Arrives(n) /\ link[n] = "up"
  /\ awaiting_pong' = awaiting_pong \ {n}
  /\ GoTo(n, "cancels")
  /\ UNCHANGED <<coreVars, pings, daemonVars, linkVars>>

SendHeartbeatPing(n) ==
  /\ turn[n] = "recv" /\ ~Arrives(n) /\ n \notin awaiting_pong
  /\ link[n] = "up" => pings < MaxPings
  /\ pings' = IF link[n] = "up" THEN pings + 1 ELSE pings
  /\ awaiting_pong' = awaiting_pong \cup {n}
  /\ Write(n, <<Plainly("Ping")>>)
  /\ GoTo(n, "cancels")
  /\ UNCHANGED <<coreVars, daemonVars, to_server, link>>

StaleHeartbeat(n) ==
  /\ turn[n] = "recv" /\ ~Arrives(n) /\ n \in awaiting_pong
  /\ link[n] = "up" => MayFail
  /\ SayGoodbye(n) /\ LoopEnds(n)

(* The end of the stream, or an error on it, in any part of the turn. *)
SocketLost(n) ==
  /\ \/ InLoop(n) /\ link[n] \in {"reset", "left"}
     \/ turn[n] = "register" /\ link[n] = "reset"
  /\ LoopEnds(n)
  /\ UNCHANGED linkVars

SocketLoop(n) ==
  \/ FlushCancels(n) \/ FlushRequests(n) \/ FlushShutdowns(n) \/ FlushRefreshes(n)
  \/ CloseAction(n) \/ RegisterWorker(n)
  \/ HandleComplete(n) \/ HandleLateComplete(n) \/ HandleReport(n) \/ ProtocolError(n)
  \/ RecvTimesOut(n) \/ ReceivePingFrame(n) \/ SendHeartbeatPing(n)
  \/ StaleHeartbeat(n) \/ SocketLost(n)

Next ==
  \/ Daemon
  \/ BreakLink("dead") \/ BreakLink("reset")
  \/ \E n \in Session, r \in Requests : Assign(n, r)
  \/ \E r \in Requests : CancelRequest(r)
  \/ BeginGracefulShutdown
  \/ \E n \in Session : RequestWorkerModelsRefresh(n) \/ SocketLoop(n)

Spec == Init /\ [][Next]_vars
-----------------------------------------------------------------------------
(* The daemon, the connections and the proxy's end have their types. *)
LinkTypeOK ==
  /\ pc \in {"backoff", "running", "refreshing"} /\ number \in 0..MaxSessions
  /\ active_requests \subseteq Requests /\ tasks \subseteq Session \X Requests
  /\ shutting_down \in BOOLEAN
  /\ ended \in [Session -> {"none", "graceful", "dropped", "failed", "error"}]
  /\ link \in [Session -> LinkState]
  /\ turn \in [Session -> Turn]
  /\ place \in [Requests -> {"queued", "pending", "sent", "done"}]
  /\ owner \in [Requests -> 0..MaxSessions]
  /\ \A r \in Requests : owner[r] # 0 <=> place[r] \in {"pending", "sent"}
  /\ canceled \subseteq Requests /\ cancel_signals \subseteq {r \in canceled : owner[r] # 0}
  /\ drain_signals \subseteq draining /\ draining \subseteq workers
  /\ workers \subseteq Session /\ disconnect_reasons \subseteq Session \ workers

(* The proxy does not take a message of a registered worker for a protocol    *)
(* error, nor ever an answer: over cancellation, requeueing and sessions that *)
(* follow each other, what arrives on a connection is about requests of that  *)
(* worker.                                                                    *)
NeverRefused ==
  \A n \in Session : Refused(n) => n \notin workers /\ Arrived(n).type # "ResponseComplete"

(* While a session is registered, every task it runs at the backend is        *)
(* counted by the proxy against max_concurrent, cancelled ones included.      *)
TasksAccountedFor ==
  \A n \in workers, r \in Requests :
    <<n, r>> \in tasks => r \in OwnedBy(n) /\ place[r] = "sent"

(* A session that ends without an error leaves no task at work: what runs     *)
(* belongs to the current session or was left behind by an error.             *)
CleanEndStopsTasks ==
  \A t \in tasks : Live(t[1]) \/ ended[t[1]] = "error"

-----------------------------------------------------------------------------
(* The core of this module makes the same promises as the one of ProxyCore.   *)

(* "stranded" would be a session whose loop nothing tells to close.           *)
Stage(n) ==
  CASE turn[n] \in {"none", "register"} -> "new"
    [] turn[n] = "over" -> "closed"
    [] InLoop(n) /\ n \in workers -> IF n \in draining THEN "draining" ELSE "serving"
    [] InLoop(n) /\ n \notin workers -> IF n \in disconnect_reasons THEN "removed" ELSE "stranded"

Sessions == INSTANCE WorkerSessions WITH
  Request <- Requests,
  Worker  <- Session,
  stage   <- [n \in Session |-> Stage(n)],
  room    <- [n \in Session |-> MaxConcurrent],
  at      <- [r \in Requests |-> IF place[r] = "queued" THEN "waiting" ELSE place[r]],
  holder  <- owner,
  marked  <- {r \in canceled : owner[r] # 0},
  cancels <- cancel_signals,
  drains  <- drain_signals

(* The sessions of the daemon are dealt with as WorkerSessions says.          *)
ImplementsSessions == Sessions!SessionsSpec

-----------------------------------------------------------------------------
(* Fairness: both loops turn; on a dead link nothing resets the server's      *)
(* timers and the daemon's idle deadline passes; drain deadlines pass; the    *)
(* backend answers each request.  Nothing is assumed of model discovery.      *)
Fairness ==
  /\ WF_vars(Daemon /\ Connect)
  /\ WF_vars(Daemon /\ ReadArm)
  /\ WF_vars(Daemon /\ EventArm)
  /\ WF_vars(Daemon /\ LinkFoundDead)
  /\ \A n \in Session, r \in Requests : WF_vars(Daemon /\ TaskCompletes(n, r))
  /\ \A n \in Session :
       /\ WF_vars(SocketLoop(n))
       /\ WF_vars(SocketLost(n))
       /\ SF_vars(CloseAction(n) /\ turn'[n] = "over")
       /\ SF_vars(link[n] = "dead" /\ (SendHeartbeatPing(n) \/ StaleHeartbeat(n)))

FairSpec == Spec /\ Fairness

(* A request given to a session does not stay with it: unless its client      *)
(* cancels it, it is answered, failed or requeued, whatever happens to the    *)
(* daemon, the link or the drain.                                             *)
InFlightSettles ==
  \A n \in Session, r \in Requests :
    owner[r] = n ~> owner[r] # n \/ r \in canceled

(* Both ends give up a half-open connection. *)
DeadLinkNoticed ==
  \A n \in Session : link[n] = "dead" /\ InLoop(n) ~> ~Live(n) /\ ~InLoop(n)
=============================================================================
