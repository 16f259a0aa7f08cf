----------------------------- MODULE ServerPages -----------------------------
(***************************************************************************)
(* What the server tells about its core: the pages of http.rs that an        *)
(* operator, a load balancer or a client reads.  Each takes the core's lock  *)
(* once, so a page shows one state of ProxyCore; versions, times and names   *)
(* are left out.  An admin page asks for the server's token, if it has one.  *)
(***************************************************************************)
EXTENDS ProxyCore, FiniteSetsExt

(* provider_queues is a map of the core, with finitely many providers.        *)
ASSUME PagesAssumption == IsFiniteSet(Providers)

NoToken == "no token"
FORBIDDEN == {"forbidden"}

-----------------------------------------------------------------------------
(* The views of the core.                                                    *)

connected_worker_count == Cardinality(workers)

admin_queue_depth == [p \in Providers |-> Len(provider_queues[p])]

total_queue_depth == MapThenSumSet(LAMBDA p : Len(provider_queues[p]), Providers)

admin_workers_snapshot ==
  {[worker_id |-> w, provider |-> profile[w].provider, models |-> models[w],
    endpoint_prefixes |-> profile[w].prefixes, max_concurrent |-> profile[w].max_concurrent,
    reported_load |-> reported_load[w], in_flight_count |-> Len(in_flight_requests[w]),
    is_draining |-> is_draining(w)] : w \in workers}

worker_debug_info ==
  {[id |-> w, provider |-> profile[w].provider, models |-> models[w],
    in_flight |-> Len(in_flight_requests[w]), max_concurrent |-> profile[w].max_concurrent,
    is_draining |-> is_draining(w)] : w \in workers}

Advertised(ws) == UNION {models[w] : w \in ws} \ {"*"}

(* The models of the provider's own workers, draining ones too; of all        *)
(* workers when they name none.                                              *)
provider_models(p) ==
  LET exact == Advertised({w \in workers : profile[w].provider = p})
  IN  IF exact # {} THEN exact ELSE Advertised(workers)

-----------------------------------------------------------------------------
(* The handlers.                                                             *)

health_handler ==
  [workers_connected |-> connected_worker_count, queue_depth |-> total_queue_depth,
   workers |-> worker_debug_info]

models_handler(models_provider) == provider_models(models_provider)

(* Without a token of its own the server admits nobody.                       *)
check_admin_auth(admin_token, presented) == admin_token # NoToken /\ presented = admin_token

admin_workers_handler(admin_token, presented) ==
  IF check_admin_auth(admin_token, presented) THEN admin_workers_snapshot ELSE FORBIDDEN

admin_stats_handler(admin_token, presented) ==
  IF check_admin_auth(admin_token, presented)
  THEN {[queue_depth |-> admin_queue_depth, active_workers |-> connected_worker_count]}
  ELSE FORBIDDEN

-----------------------------------------------------------------------------
Token == "token"

CountedInFlight(page) == MapThenSumSet(LAMBDA w : w.in_flight, page.workers)

(* A client is answered by a completion or a failure.                         *)
Answered(r) == \E i \in DOMAIN events[r] : events[r][i].kind # "chunk"

(* The clients that wait: asked, not answered, and not known to have left.    *)
WaitingClients == {r \in RequestId : r < next_request_id /\ r \notin abandoned /\ ~Answered(r)}

(* What the core holds for clients that are known to have left.               *)
Leftovers == {r \in abandoned : active_requests[r].at # "absent"}

(* The pages add up, in every state the lock is released in.  What /health    *)
(* counts in the queues and at the workers is every client that waits for an  *)
(* answer, once, and nothing besides, except requests whose client is known   *)
(* to have left.  Each of those is marked as canceled at its worker           *)
(* (lib.rs:760-786), or else it has lost a worker, so that its cancellation   *)
(* may have looked for it in the wrong queue (lib.rs:747-751).                *)
(* /admin/stats and /admin/workers say the same of the same state; and        *)
(* /v1/models offers a model only while a registered worker has it, so that a *)
(* request for it is refused only when that worker is draining.               *)
PagesAgree ==
  LET health == health_handler
      stats == CHOOSE s \in admin_stats_handler(Token, Token) : TRUE
  IN /\ health.queue_depth + CountedInFlight(health) =
          Cardinality(WaitingClients) + Cardinality(Leftovers)
     /\ \A r \in Leftovers : active_requests[r].cancellation = "none" => requeue_count[r] > 0
     /\ health.queue_depth = MapThenSumSet(LAMBDA p : stats.queue_depth[p], Providers)
     /\ stats.active_workers = health.workers_connected
     /\ health.workers_connected = Cardinality(admin_workers_handler(Token, Token))
     /\ \A p \in Providers : \A m \in models_handler(p) :
          \/ provider_has_compatible_worker(m)
          \/ \E info \in health.workers : m \in info.models /\ info.is_draining
=============================================================================
