# A TLA+ specification of ModelRelay

ModelRelay (crate names `modelrelay-*`) lets HTTP clients of an OpenAI/Anthropic-style
API reach inference workers that dial in over WebSockets from behind NAT. This directory
models the program's own logic in TLA+, model-checks it with TLC on small instances and
proves the most important results for every instance with TLAPS.

- [The system](#the-system)
- [Modules and their correspondence to the code](#modules-and-their-correspondence-to-the-code)
- [Runs](#runs)
- [Bounds](#bounds), [Fairness](#fairness), [Abstractions](#abstractions)
- [Proofs](#proofs)
- [Where the code and its documentation disagree](#where-the-code-and-its-documentation-disagree)
- [What the models show besides](#what-the-models-show-besides)
- [What is not modelled](#what-is-not-modelled), [Plan](#plan)

To run: `tlc -config CoreDrain.cfg MCProxyCore`, and `tlapm ProxyCoreProofs.tla`.

## The system

| component | code | state | operations | concurrency and failure |
|---|---|---|---|---|
| relay core | `modelrelay-server/src/lib.rs` | workers, per-provider queues, active requests, response senders, signals waiting for each socket, all in `ProxyServerCore` behind one tokio `Mutex` | register, report (Pong, ModelsUpdate), submit, chunk, complete, cancel, disconnect, graceful shutdown, delete provider, expire | every critical section interleaves with those of all sockets, HTTP handlers and the timer loop |
| worker socket loop | `worker_socket.rs` | per socket: heartbeat instants, registered id; shared: failed-authentication table | authenticate, register, turn: cancels, requests, shutdown and refresh signals, close action, then receive for 25 ms, ping | loss of the socket at any await; close by drain, by heartbeat, by deletion; attempts of one client at once |
| HTTP layer | `http.rs` | per request: event receiver, cancellation guard, bytes streamed | submit, forward events, cancel on drop; health, models and admin pages | client disconnects at any await; the guard cancels from `Drop` through a spawned task |
| server process | `main.rs` | configuration | queue-timeout loop every second, start of the key store, stops listening on a signal (the core's graceful shutdown is left to embedding callers) | timer against all the above; several replicas starting at once |
| API key store | `api_keys.rs` | keys in memory or PostgreSQL | create, validate, revoke, list, import the bootstrap key | replicas over one table, a process that dies inside a transaction |
| worker daemon | `modelrelay-worker/src` | active request tasks, shutting-down flag, reconnect delay; configuration | launch, resolve "*", serve, cancel, drain, refresh models, ping, reconnect with backoff | tasks against the socket loop, lost connections, failing backend |
| desktop application | `modelrelay-desktop/src` | daemon task handle, status, settings; installed version | start, stop, save settings; check, install, restart | overlapping commands and the end of the daemon task |
| cloud billing | `webhook.rs`, `checkout.rs`, `dashboard.rs`, `reprovision_server_keys.rs` of `modelrelay-cloud` | users, subscriptions, keys in PostgreSQL; the relay server's keys over its admin API | Stripe webhooks, checkout, key management, reprovisioning | webhooks late, duplicated, out of order, overlapping; partial failure over database and admin API |
| cloud web application | the rest of `modelrelay-cloud` | sessions, login limiter, two caches of GitHub's releases | login, logout, forms, pages, download redirect, update manifest | requests of one browser overlap; lookups overlap |
| contract tests | `modelrelay-contract-tests` | reference harnesses with an explicit clock | the operations of core, heartbeat, registration, response | none: plain structs |
| web templates, packaging | `modelrelay-web`, `docs`, `extras` | none | rendering | none |

**How they interact.** An HTTP handler calls `submit_*_request` under the lock, then waits
on a channel whose sender the core keeps. The core either assigns the request to a worker
(it is put in the worker's in-flight list and in the list of requests its socket has to
send), queues it, or refuses it. A worker's socket loop takes what waits for the worker,
sends it, and passes the worker's messages to the core, which forwards them to the handler
and dispatches the next compatible queued request. When a socket is lost the core requeues
what the worker was doing at most three times. A graceful shutdown marks all workers as
draining with a deadline; whichever socket loop turns first after the deadline lets all
expired workers go. The handler's guard calls `cancel_request` when the client is gone. A
worker's connection is admitted by a provider's static secret or by a key of the key store,
which the cloud service fills over the server's admin API when Stripe reports a payment.

**What makes each part correct.** *Core*: a request is in exactly one place and its client
hears exactly one final event; capacity and compatibility hold over all dispatch paths;
retries are bounded and spare cancelled requests; queues and drains end; the pages add up.
*Socket loop and daemon together*: a request runs only at its owner, a drain loses no
answered work, a dead peer is noticed; failed authentications are bounded. *HTTP layer*:
a client that leaves has its request cancelled, but for a stream cut at its size limit and a
request that was retried under another provider's queue. *Key store and cloud*: while nothing
fails, the subscription, the stored key and the key the server accepts agree, whatever the
delivery of events; a key the server knows as revoked stays so. *Sessions*: a browser is signed in when its last login or
logout says so. *Desktop*: at most one daemon runs, `stop` stops it, an update never goes
back. `PROJECT.json` lists the hazards line by line.

## Modules and their correspondence to the code

**`ProxyCore`** models `ProxyServerCore`. Its variables have the names of the struct's
fields; a `HashMap` is a function with a value for absent keys (`Absent`, `0`, `<<>>`, `{}`)
or the set of its keys. One action is one critical section:

| action | code |
|---|---|
| `RegisterWorker`, `UpdateWorkerModels`, `RecordWorkerPong` | `register_worker`, `update_worker_models`, `record_worker_pong`, with the loops that drain the queues (`DrainQueues`, `Batches`) |
| `SubmitDispatched`, `SubmitQueued`, `SubmitRejected` | the three outcomes of `submit_transport_request` inside `submit_http_*_request`; worker selection is `find_eligible_worker_id` with exact-provider preference, `only`/`ignore`/`order`/`allow_fallbacks` and the round-robin cursors |
| `StreamHttpResponseChunk` | `stream_http_response_chunk` |
| `FinishRequest`, `FinishDrain`, `LateResponse` | `complete_http_response` and `finish_request` as `handle_worker_message` calls them, for a worker that goes on, one that was draining and has finished, and one already removed |
| `CancelQueued`, `CancelInFlight` | `cancel_request` |
| `TakePending...` | the four `take_pending_worker_*` operations of the socket loop |
| `DisconnectWorker`, `LoseRemovedSocket` | `disconnect_worker` on a registered and on an already removed worker |
| `BeginGracefulShutdown`, `GracefulShutdownCloseAction` | `begin_graceful_shutdown`, and `graceful_shutdown_close_action` of a socket loop with `expire_graceful_shutdown` and `disconnect_drained_worker_if_idle` |
| `DeleteProvider`, `ExpireQueueTimeouts` | `delete_provider`, `expire_queue_timeouts` |
| `QueueTimeoutPasses`, `DrainDeadlinePasses` | the clock |

The surroundings are variables too: `sockets` (loops still running), `handed` (requests a
worker was sent and has not answered), `events` (what each HTTP handler received),
`abandoned` (requests `cancel_request` was called for). Workers answer, report and vanish at
any moment.

**`WorkerDaemon`** models the daemon: one action per arm of `run_session`'s `select!` and per
server message in `handle_server_message`, and the steps of a spawned task
(`forward_request`). Its state is that of the function: `active_requests`, `event_rx`,
`shutting_down`; `tasks` are the tasks at work on the backend, of whatever session. A
session ends by `BreakLoop` (tasks aborted), `RequestFails` (the same, and an error) or
`ReturnError` (`?`: the handles are dropped and the tasks go on).

**`RelayLink`** composes it with `handle_authenticated_socket`. Each session of the daemon is
a connection of its own, with a FIFO channel either way and a state (`up`; `dead`, half
open; `reset`; `closed` by the server; `left` by the daemon), and has a socket loop whose
place in its turn is `turn`:

| action | code |
|---|---|
| `RegisterWorker` | `register_authenticated_worker` |
| `FlushCancels`, `FlushRequests`, `FlushShutdowns`, `FlushRefreshes` | the four flushes, in the order of the code, each one lock of the core and the writes that follow |
| `CloseAction` | `graceful_shutdown_close_action`: expiry for all workers, then this one's close |
| `HandleComplete`, `HandleLateComplete`, `HandleReport`, `ProtocolError` | `handle_worker_message` |
| `RecvTimesOut`, `ReceivePingFrame`, `SendHeartbeatPing`, `StaleHeartbeat`, `SocketLost` | the other outcomes of the 25 ms receive and the errors of the flushes |
| `Assign`, `CancelRequest`, `BeginGracefulShutdown`, `RequestWorkerModelsRefresh` | the core, for its other callers |
| `BreakLink` | the network |

The core of `RelayLink` is the part of `ProxyCore` that one provider's workers see: where a
request is, which session owns it, which signals wait. That the two agree in what they promise
a socket loop is shown by `WorkerSessions`, which both implement.

**`ServerPages`** adds the pages of `http.rs` that show the core (`/health`, `/v1/models`,
`/admin/workers`, `/admin/stats`), as operators over `ProxyCore`'s state, with the core's
read-only operations (`worker_debug_info`, `admin_workers_snapshot`, `provider_models`, ...).

**`ClientApi`** is the other side of the core's channels: `wildcard_handler`, the stream it
returns and `HttpRequestCancellationGuard`. Each call has a place (`pc`), a guard (`armed`)
and a channel; `Disconnect` may take the client away at every await and drops the guard,
which spawns `RunCancel`. `HearUnary`, `HearFirst...`, `HearChunk`, `HearEnd`, `EmitFirst` and
`EndCut` are the arms of the handlers; the core is what a handler can tell of it
(`WorkerTakes`, `WorkerSendsChunk`, `WorkerCompletes`, `WorkerLost`, `CoreFails`). A request
that lost a worker of another provider is `"astray"`: it waits in that provider's queue, where
`cancel_request` does not find it (`lib.rs:747`), and `missed` notes that it did not.

**`ApiKeyStore`** is `server_api_keys` (or the map in memory) under several server
processes: `CreateKey`, `RevokeKey` and validation (`Accepted`) are a statement each; a start
imports the bootstrap key in a transaction of three steps (`LockTable`, `Find`, `Commit`)
and may die between them. **`WorkerAuth`** extends it with `authenticate_connection`: an
attempt reads the clock, looks at the limiter (`Limited`, `Pass`), asks the store (`Lookup`)
and records or clears (`Record`, `Clear`), each a step.

**`WorkerLaunch`** is the worker's `main` and its model list: `ReadConfig` (flags, environment,
file, default), `WildcardResolved`/`WildcardKept`, `Register` at every connection,
`RefreshAsked`/`RefreshAnswered`, `SessionEnds`, `ShutdownSignal`.

**`DesktopManager`** has a process per command of the window; a step is what runs between
two awaits of `save_settings`, `stop_worker` and `start_worker` (`Persist`, `Replace`,
`TakeHandle`, `AwaitEnd`, `Stopped`, `ReadSettings`, `Spawn`, `StoreHandle`). **`ReleaseCache`**
has a process per lookup over `LATEST_CACHE` and `DESKTOP_DOWNLOAD_CACHE` (`ReadCache`,
`GitHubAnswers`, `StoreRelease`), the checks of the updater route, and the application that
installs (`Install`, `Decline`, `Restart`).

**`CloudBilling`** has a process per webhook request whose steps are the statements and admin
calls of `handle_checkout_completed`, `handle_subscription_updated`,
`handle_subscription_deleted` and `handle_payment_failed`, one for the administrator
(`keys_generate`, `keys_revoke`) and one for `reprovision_server_keys`; Stripe, which owns the
truth of a subscription and sends each event until it is acknowledged and perhaps again, is
the environment. `RevokeAtServer` and `Issue` are the admin handlers of the relay server.
**`CloudSession`** has a process per request of one browser: `CheckForm` (`csrf_middleware`),
`OpenPage`, `AskLimiter`, `LoginFails`, `PasswordVerified`, `CheckoutSucceeds`, `logout`, and
`Reply`, where the session layer writes the request's copy of the record back.

**`ContractDispatch`** and **`ContractHarnesses`** are the reference harnesses of the contract
tests, one action per operation. `ContractDispatch` is held against the same
`RequestLifecycle` as `ProxyCore`, and differs from it in one step, which
`ImplementsLifecycleOnTrust` names: `deliver_worker_chunk` (`dispatch_harness.rs:383`) asks only
that the request is active and not canceled, not who sent the chunk, and so forwards one for
a request that waits to be retried, which the server refuses (`lib.rs:368`); a canceled
request, whose chunks the server forwards, gets none.

**`SeqFilter`** is the one helper on sequences, removal of members with the order kept,
written without recursion so that it can be proved about.
**`RequestLifecycle`** is the abstract specification: what one client is promised. The core
implements it under the mapping `Lifecycle` at the end of `ProxyCore`, the harness under the
one at the end of `ContractDispatch`.
**`WorkerSessions`** is the abstract specification of the core's other side: what it promises
the socket loop of a worker. A loop is given requests only while its worker serves, never
more than it takes at once; a request it holds leaves it by its answer or because the worker
is removed, and not to another worker once it was canceled; a loop is to be told of each
cancellation and of a drain once; a worker that is removed leaves a loop that is to close.
Every worker and every request may take a step at once, because one call of the core may
remove several workers with all their requests. `ProxyCore` implements it, and so does
`RelayLink`, under the mappings named `Sessions`: the smaller core of `RelayLink` is held
against the same statement as the full one, with each session of a daemon as a worker.
**`ContractTests`** puts the harnesses of the contract tests side by side: they share no
state, and a variable `part` picks the one whose steps a behaviour takes.
**`MCProxyCore`**, **`MCCloud`**, **`MCDesktop`** and **`MCContract`** give the constants their
values. `MCCloud` and `MCDesktop` put parts that share no state into one run in the same
way; the parts that take no step rest in one initial state.
**`DocumentedClaims`** states what the documentation says and the code does not do. The
modules whose name ends in `Proofs` hold the theorems.

Some definitions of these modules stand next to a variant with a plausible mistake
(`QueueHasSpaceOffByOne`, `IgnoreCancellation`, `DisconnectQuietly`, ...), unused by the
specification. `PROJECT.json` ("mutants") names for each property the variant that, put in
the place of its original, makes TLC report that property violated: the evidence that the
property says something about the code.

## Runs

| run | properties | what it shows |
|---|---|---|
| `core_queues` | `FreshQueueBounded`, `CapacityRespected`, `SentOnlyToOwner`, `AssignedOnlyCompatible`, `ReportDrainsQueues` | requests with and without routing over two providers, with stale load reports and changing models: no path assigns a request to a worker that does not cover it or has no slot, only requeues take a queue past its limit, no report leaves a servable request queued, and a socket is handed only what its worker owns |
| `core_retry` | `CancelledNeverRetried` | five short-lived workers, so that every retry is used up: whenever a cancelled request loses its worker it is failed and not retried (that there is no fourth retry is part of `ImplementsLifecycle`) |
| `core_drain` | `OnePlace`, `PagesAgree`, `SenderWhileActive`, `ImplementsLifecycle`, `ImplementsSessions`, `TimedQueueResolves`, `DrainEnds` | every way a worker leaves, racing answers, cancellation and timeouts; the core implements `RequestLifecycle` and `WorkerSessions`; the pages agree with each other, and count the clients that wait and, besides, only requests whose clients are known to have left; liveness from the server's own loops and the clock |
| `link_safety` | `NeverRefused`, `TasksAccountedFor`, `ImplementsSessions` | a daemon with two slots over two connections, with a stream, a cancellation, a shutdown, failures and an old session still registered beside the new one: no message of a registered worker is taken for a protocol error, no task of a registered session is unknown to the proxy, and the core implements `WorkerSessions` at its connections |
| `link_refresh` | `CleanEndStopsTasks` | heartbeats and a model refresh that may fail: only an error leaves tasks running |
| `link_progress` | `InFlightSettles`, `DeadLinkNoticed` | no request stays with a session for ever unless its client cancels it, and both ends give up a half-open connection |
| `client_http` | `NoUnheardWork`, `EndedStreamIsWhole`, `AbandonedIsCanceled`, `GoneIsAnswered` | three calls over one slot and one place in the queue, a client that vanishes at any await, late cancellations, lost workers of this and of other providers, and the stream limit: no work for nobody but in the two cases the code leaves, no stream that ends well with a chunk missing, every handler is answered |
| `worker_auth` | `OneRowPerKey`, `TriesBounded`, `RevokedForGood` | two replicas that start, import, create, revoke and die, and two attempts of one client at once: one row per key, no way back from revocation, a bound on the secrets a client tries |
| `cloud` | `StoresAgree`, `PaidHoldsKey`, `RevocationIsFinal`, `CheckoutSettles`, `ScreenMatchesSession` | Stripe's events in any order, twice and to two handlers at once, an administrator, the reprovisioning tool, calls that fail, handlers that die at any step and a loss of the server's keys; and a browser with two requests at once |
| `desktop` | `OneDaemonAtATime`, `QuietIsConsistent`, `CommandsEnd`, `BoundedStaleness`, `OffersWhatItHas` | two commands of the window at once, with saves that fail or cut the file short; overlapping lookups of releases; a worker's model list over reconnections and refreshes, for every mix of flags, environment and file |
| `contract` | `LimitsKept`, `NobodyPassedOver`, `QueueServedInOrder`, `ImplementsLifecycleOnTrust` | the reference harnesses keep their limits, serve queues in order, let equally loaded workers take turns, and implement `RequestLifecycle` but for the chunks the dispatch harness forwards on trust |
| `claim_only` | `OnlyIsRespected` | a counterexample to a documented statement, see below |

## Bounds

`MaxWorkers`, `MaxRequests`, `MaxShutdowns` and `MaxChunks` bound registrations,
submissions, shutdowns and chunks; `Cancellable`, `Deletable` and `Refreshable` restrict
who is cancelled, deleted and refreshed; the sets of messages are small. Each is chosen for
the case it has to reach:

- two workers of different providers and two requests make every conflict between places
  (queue of p, queue of q, list of a worker) happen; a queue limit of one or two makes
  queues overflow;
- `core_retry` has one worker more than `MAX_REQUEUE_COUNT + 1`, so that a cancellation meets
  every retry and a further one would be possible, and needs only one request;
- `core_queues` has a worker with two slots and a stale load, and one that takes every model
  of one prefix and asks for no slot, so that each rule of selection decides somewhere;
- `core_drain` has one shutdown, with workers registered before and after it, and a worker of
  the deleted provider beside one that stays;
- `"q"` stands for a provider only workers name: default policy, no timeout, and a limit
  (99) that no run reaches.

`RelayLink` bounds connections (`MaxSessions`), what fails (`MayFail`: only while another
session can follow), shutdowns, refreshes and pings on working links, and lets one chunk of
a request be on its way. Two sessions are what it takes for a daemon to meet its own past:
detached tasks, an old registration, a requeued request. With two sessions no request
reaches `MAX_REQUEUE_COUNT`, and with two workers none does in `core_drain`: that the limit
is kept is the theorem `CoreImplementsLifecycle`, for any number of workers. `link_safety` has two requests
and two slots so that a cancelled request, a running one and a requeued one coexist; the
other link runs ask about one request.

`client_http`: one slot and a queue of one place make the third request refused; a limit of
one chunk is passed by the second; one requeue lets a stream be begun twice and the second
loss fail it. `worker_auth`: two replicas to import at once, three starts so that one dies
and comes back, a threshold of two with two attempts at once, a clock that runs past one
cooldown, four connections. `cloud`: two handlers overlap; two faults in all let an event be
repeated and a step fail, or a key be issued and the server's database be lost; one run of
the tool; a limit of two failed logins with two tabs. `desktop`: two commands at once and
four in all; a lifetime of two ticks and one lookup of one, two releases; two launches and
two changes of the backend over 256 mixes of input. `contract`: two workers with two slots
and one, two requests, one tick of time; the smallest numbers that reach each limit.

`CHECK_DEADLOCK FALSE` everywhere: with the bounds used up and everything settled the
system may stop.

## Fairness

`core_drain` assumes it only of the server's own loops and the clock: the socket loop
of a connected worker turns at least every 25 ms and performs the drain's close action
(`worker_socket.rs`), the queue-timeout loop runs every second (`main.rs`), time passes.
Nothing is assumed of workers, clients or registrations. One caveat: a socket loop blocked
in a send to a peer that does not read is not turning; the expiry of its drain is then done
by other loops, the closing of that socket is not.

`link_progress` assumes that the daemon's arms are taken (tokio's `select!` picks among the
ready ones at random) and it reconnects, that each socket loop turns, that a drain deadline
passes (strong fairness of the closing `CloseAction`: the loop comes by it again and again),
that the timers of both ends fire on a dead link, where nothing resets them, and that the
backend answers each request. Nothing is assumed of pings, refreshes, cancellation,
assignment or link failures. In this run no model refresh is asked for: with one whose
backend hangs, the daemon's side of `DeadLinkNoticed` fails.
A connection that dies before its worker registers is not covered: that receive has no
timeout in the code, and the model keeps it in `turn = "register"`.

`client_http` assumes that hyper polls a handler or body with something to hear (`Hear`) and
that a spawned cancellation runs (`RunCancel`); nothing of clients, workers or the core.
`cloud` assumes that a handler under way goes on (each of its calls returns or fails) and
that Stripe delivers each event it owes, to one handler or another; nothing of the
administrator, the tool or the browser. `desktop` assumes that a command under way goes on,
which for a start with "*" needs that the backend asked for its models answers or fails
(`resolve_wildcard_models` has no timeout), and that an aborted daemon ends. The other runs
check safety only.

## Abstractions

- Ids are the counters they are drawn from. `worker_order` (registration order) and
  `queued_at` (read under the lock) order workers and requests as their ids do; equal
  instants are ignored.
- A requeued request keeps its `queued_at`, so the time waited is a prefix of the ids
  (`aged`): all timed providers have the same timeout.
- Model names are trimmed by the constant function `Trim`, path prefixes are the relation
  `StartsWith`; headers, bodies, status codes and wording are left out. A failure keeps its
  reason.
- Loads are natural numbers: `saturating_add` at the upper end of the integer type is not
  modelled, `saturating_sub` at zero is.
- `provider_routing.only` absent is all providers; the `given` flag says whether a routing
  object was sent at all.
- A worker answers only what it was sent and completes it once. What it does with a Cancel
  that crosses its answer is nondeterministic. (`RelayLink` models what the daemon does.)
- In `RelayLink` the instants of the heartbeat and idle timers are left out: a timeout may
  fire whenever its condition other than the elapsed time holds.
- The order of a worker's pending requests is left open in `RelayLink`, and so is which
  event of the core assigns a queued request.
- Data in flight on a link that dies or is reset is lost; what is written to it too.
- In `ClientApi` a chunk is one unit of the bytes the limit counts; headers, the parsing of
  a body and the wording of answers are left out. `main.rs`'s request timeout drops the
  handler as `Disconnect` does. The `Err(_)` arms (502) are taken only when a sender is
  dropped without an event, which the core does not do while a handler listens.
- In `WorkerAuth` one client is modelled (the records of two do not touch), and the clock is
  read where the code reads it, before the record's lock.
- In `CloudBilling` a key is a number; a handler may fail or die at each step
  (`HandlerFails`), and a statement or call that takes effect although the handler sees an
  error, or dies, is the step followed by a failure at the next. In `CloudSession` the session layer
  (`tower_sessions`) is external; failures of the database are left out.
- In `ReleaseCache` there is one platform, in `DesktopManager` the settings are a version.
- In `WorkerLaunch` addresses and the log level are left out.
- In the harnesses clocks are ages, ids are reused when nobody holds them; the log of
  cancel signals and the cutting of long worker names are left out. The harness's
  `register_worker` does not dispatch, as the core's does not.

## Proofs

Each theorem rests on the named assumptions of its component's module (bounds are
naturals, inputs have the types their comments say, sets that are counted are finite) and
on nothing else. What a theorem says of a run's property it says for every value of the
constants.

**`SeqFilterProofs`** shows that `Without(s, X)` is a sequence over the same set, holds exactly
the members of `s` outside `X`, is not longer than `s` and has no repeats if `s` has none.
It rests on the existence of an increasing enumeration of a finite set of naturals, proved
by a least counterexample (`WFMin`), since the induction theorems with an operator
parameter are not usable.

The module has two more lemmas of this kind, about what the community modules compute
recursively. The sum or fold a `MapThenSumSet` or a `FoldLeft` stands for is a function that
satisfies an equation (`SumsUp`, `FoldsUp`), with the operator it maps or folds given as a
function. `SumOfDisjoint`: such a function exists for the sizes of disjoint finite sets, and
its value is the size of their union. `FoldOfPrefixes` (with `FoldExists`): such a function
exists, and it goes through the prefixes of a sequence one position at a time. Both are
proved from a least counterexample too.

**`ProxyCoreProofs`**

- `TypeCorrect`: `Spec => []TypeOK`. `TypeOK` is inductive by itself; each action is one
  step, and the operators several actions share (`assign_to_worker`, `DrainQueues`,
  `remove_workers`, `fail_pending_http_response`, `find_eligible_worker_id`) have a typing
  lemma each.
- `EveryRequestInOnePlace`: `Spec => []OnePlace`. The inductive invariant is
  `PlaceInv == TypeOK /\ OnePlace /\ FreshIds`. `FreshIds` (ids not drawn yet are absent)
  is what `OnePlace` lacks: without it a submission could put an id in a queue in which it
  already stands. Two lemmas carry the argument: taking requests out of the table, the
  queues and the lists together keeps every other request in its place
  (`RemovalKeepsPlaces`), and so does moving a batch from the queues to the end of one
  worker's list (`AssignmentKeepsPlaces`). Each action is one of these, or both.

- `HandlersAreNeverStranded`, `SlotsAreRespected`, `OnlyOwnersHoldRequests`,
  `RegistryAndSocketsAgree`, `QueueLimitsHold`: the invariants `SenderWhileActive`,
  `CapacityRespected`, `SentOnlyToOwner`, `RegistryMatchesSockets` and `FreshQueueBounded`.
  They hold only together. The inductive invariant `CoreInv` is `PlaceInv`, these five, and
  what they lack: sockets and disconnect reasons belong to ids that were drawn
  (`SocketsDrawn`), so that a new worker starts with nothing; what a socket was handed was
  drawn, and what a removed worker still holds is no longer active (`HandedAt`), so that a
  late answer finds nothing. Taking requests out and adding a batch each have a lemma per
  part (`RemovalKeepsSockets`, `AssignmentKeepsSent`, ...).
- `OnlyCompatibleAssigned`, `ReportsDrainQueues`, `CancelledAreNeverRetried`: the action
  properties, from `PlaceInv`. `ReportsDrainQueues` says that the walk over all queues of a
  provider stops only at the worker's capacity; it rests on `Without` keeping the members
  that were not taken.
- `PagesAlwaysAgree`: `Spec => []PagesAgree`, from parts of `CoreInv`. The active requests are
  the members of the queues and of the workers' lists, which are disjoint and without repeats
  (`OnePlace`), so the totals the pages add up are the number of active requests
  (`QueuesCounted`, `FlightsCounted`, by `SumOfDisjoint`). `PagesInv` says of each request,
  from what its client has heard, whether it is active: one that was asked, not answered and
  not given up is (`AnsweredSteps`, `AnswersStep`), so the active requests are the clients
  that wait and the leftovers of those that left (`WaitingCounted`); and a leftover is
  marked as canceled or has lost a worker (`LeaverExplained`, `LeftoversStep`). `PagesAssumption` is that there are finitely
  many providers: `provider_queues` is a map in memory.
- `CoreImplementsLifecycle`: `Spec => ImplementsLifecycle`, the refinement. Under the
  mapping at the end of `ProxyCore`, each action is for each request a `Step` of
  `RequestLifecycle` or leaves its part of the state alone. A request's client has heard
  what its `events` say, so the proof follows what each action appends to them, and that
  the owner of an answered request is the worker that answers.
- `CoreImplementsSessions`: `Spec => ImplementsSessions`, the refinement of `WorkerSessions`.
  `WorkerSteps`, `RequestSteps` and `MarkSteps` show, for each worker, each request and each
  mark, that what an action does to it is a step of the abstract specification or nothing;
  `CoreStaysConsistent` that slots, holders and signals stay consistent. It rests on `CoreInv`
  and on one thing more, `DeadlinesKnown`: a worker that is not registered has no drain
  deadline, so that a new one begins as serving. The mapping calls a removed worker whose loop
  nothing tells to close "stranded", for which no abstract step exists.

**`RelayLinkProofs`** (`LinkTypeCorrect`, `AnswersAreNeverRefused`, `EveryTaskIsCounted`,
`CleanEndsStopTasks`, `LinkImplementsSessions`). What one end may conclude depends on what is still on its way, so the
invariant speaks of both channels, the tasks and the daemon's event channel at once.
`PipelineInv` has two parts for each session and request. `Once`: a request is in one stage
only, in the order asked, at work, waiting in the event channel, told; nothing follows its
answer in any channel, and it is noted as finished only after its task ended. `Accounted`:
whatever a session that is still served knows of a request, the request is sent to that
session, or is done and the session is no longer registered. The type invariant alone is
inductive (`LinkTyped`). A message the proxy would refuse would be about a request that is
not sent to its session (`NeverRefused`), and the tasks of a registered session are among the
requests it owns (`TasksAccountedFor`). `CleanEndStopsTasks` needs one thing more, `Handled`:
every task of the current session is in `active_requests`, because the event that takes a
request out of it follows the end of its task.
`LinkImplementsSessions` is the refinement of `WorkerSessions`. Its invariant adds `SlotsInv`:
no session owns more than `MaxConcurrent` requests, and no canceled request is queued, so
that none is given to the next session. `PipelineInv` is what shows that a request that is
answered was sent before.

**`ClientApiProofs`** (`ClientTypeCorrect`, `NobodyWorksUnheard`, `CutOnlyAtTheLimit`,
`StreamsEndWhole`, `AnswersAreFinal`). The inductive invariant `ClientInv` is the type
invariant and, for each request, `Sound`: where its handler stands against its guard
(`HandlerSound`), what its channel holds against the place the core keeps it in
(`ChannelSound`, `SenderSound`), what was sent against what was passed on and still waits
(`HeardSound`), when it was cut (`CutSound`), what its client was told (`AnswerSound`). The
properties say nothing of the channel, so none is inductive: a stream is whole at its end
only because every chunk sent was passed on or is still in the channel before the final
event. A step touches one request; for the others `UntouchedSound` carries `Sound` over.

**`WorkerAuthProofs`** (`AuthTypeCorrect`, `KeysHaveOneRow`, `RevokedKeysStayRevoked`,
`BlockedExactlyAtThreshold`, `TriesAreBounded`). `StoreInv` says that at most one replica
holds the lock, that the one that has found no row of the bootstrap key still holds it, and
that no row can have been added meanwhile (`LockSound`, `ImportSound`, `RowsSound`);
`TriesInv` that the failures counted within a block and the attempts past the limiter make
up the bound, and that no attempt holds a clock later than now (`ClocksSound`,
`TriesSound`).

**`DesktopProofs`** (`DesktopTypeCorrect`, `HandleIsLive`, `AtMostOneDaemon`,
`WindowTellsTheTruth`, `ReleaseTypeCorrect`, `StalenessIsBounded`, `RunningOnlyAdvances`,
`WorkersOfferWhatTheyHave`).
`ManagerInv` relates handle, lock and the steps of all commands and holds with any overlap;
`AloneInv` says, while no two commands overlapped, what runs, what the status says and which
settings are where at each step of the one command. `ReleaseInv` says that what a lookup
holds is no older than the lookup allows (`KnownSound`, `AgeSound`) and that only a newer
version is being installed (`InstallSound`). `LaunchInv` says that a process without a link
is not in the registry and that its configuration names what the backend gave for the
wildcard or else what the sources resolve to (`ConfigSound`); that this is the list in force
needs that trimming twice trims once (`CleanTwice`).

**`CloudProofs`** (`CloudTypeCorrect`, `RevokedKeysAreNeverAccepted`, `StoresAlwaysAgree`,
`PaidCustomersHoldKeys`, `SessionTypeCorrect`, `LoginTriesAreBounded`,
`ScreenAndSessionAgree`).

- `CloudInv` says that keys not issued yet are unknown to the server and that every key
  named by a row, a handler or the tool was issued, so that neither an issue nor an import
  meets a revoked key.
- `FlowInv` is what `StoresAgree` and `PaidHoldsKey` need, and like them it speaks of the
  time before anything fails: a handler that fails to provision or to revoke logs it and
  goes on, and then a key is lost or left over. It says that every key is held for at most
  one subscription, by its row or by the requests that store or revoke it, and that all
  rows of such a key are its owner's (`HeldOnce`); so another subscription's cancellation
  and the administrator, who sees administrators' keys only, revoke other keys
  (`AdminsOwn`). Rows are marked after the server has revoked the key (`MarkedAreDead`);
  what the server accepts is recorded or about to be (`ValidAreExpected`, `Expected`), and
  so on to what a customer who has not canceled holds (`ServedWell`). `KeysCounted` counts
  the keys issued, the requests that will ask for one and the checkouts not begun against
  the subscriptions, the repetitions and the administrator's requests: the bound `Keys`
  never stops the server from issuing one.
- `SessionInv` counts the attempts past the limiter with the records within the window
  (`AttemptsSound`).
- `ScreenInv` says what lies between two moments at which the browser is at rest. A request
  that is alone has the browser's session (`ShownSound`). Since a login nobody overlapped,
  every request under way has the session that is signed in, and what it will write back is
  signed in too (`SignedIn`, `HasSession`); since a logout, no record is and no request's
  copy of one (`SignedOut`). Between a login's or logout's effect and its answer the answer
  is on its way (`SigningIn`, `LoggingOut`). Every step of a request before its reply is an
  instance of one lemma, `MoveKeeps`.

**`ContractProofs`** proves of the harnesses of the contract tests what the run `contract`
checks; the heartbeat and registration harnesses have `HarnessSpec` in `ContractHarnesses`
for it, the dispatch harness its own `Spec`.

- `HarnessKeepsPlaces`: `Spec => [](ContractTypeOK /\ CapacityKept)`. The inductive invariant
  `DispatchInv` says for each worker (`WorkerSound`) that it was registered, holds no request
  twice, no more than its slots, and none once it is gone; for each request
  (`RequestSound`) that it stands where its record says and nowhere else, and that a worker
  holds requests of its own provider only; and that ids not drawn name nothing (`IdSound`).
  Three lemmas carry most actions: giving a worker a batch (`DispatchKeeps`), removing
  workers (`WorkersLeave`) and taking requests out of everything (`RequestsLeave`).
- `HarnessServesInOrder`: `Spec => QueueServedInOrder`. `BatchProperties` says of a batch
  that it is no longer than asked and holds with a request every earlier one for the same
  model; it counts positions, so it rests on finite sets of positions having a last one
  (`FirstFew`), not on induction.
- `HarnessImplementsLifecycleOnTrust`: `Spec => ImplementsLifecycleOnTrust`. Every step of the
  harness, written beside the server as its reference, is for every request a step of the
  abstract specification the server's core implements, except a chunk, which it forwards
  whoever sent it (`HeardOnTrust`). What it promises of retries, owners and final events is
  what the server promises; what it promises of chunks is less.
- `NobodyIsPassedOver`: `HarnessSpec => []NobodyPassedOver`. That a worker is passed over fewer
  times than there are workers is not inductive; `TurnsInv` says how often, from where it
  stands against the position chosen last (`TurnsMissed`).
- `WrongSecretsAreBounded`: `HarnessSpec => []WrongSecretsBounded`. `RegistrationInv` says that
  the wrong secrets within the window are no more than the limiter has counted.
- `AcknowledgementsAreFaithful`: `HarnessSpec => []AckIsFaithful`. An acknowledgement is a fold
  of `Sanitized` over the names sent. `Faithful(s, k, done)` says of what is accepted of the
  first `k` names what `AckIsFaithful` says of the whole list; one more name keeps it
  (`FaithfulStep`), and the least prefix at which it failed would contradict that.
- `StreamsAreLimited`: `HarnessSpec => []StreamWithinLimit`. The bytes counted are a fold over
  the chunks forwarded, and appending a chunk adds its size to it.
- `HarnessLimitsAreKept`: `ContractSpec => []LimitsKept`. A behaviour of the harnesses side by
  side is one of each of them (`EachHarness`), so the property of the run `contract` is the
  conjunction of the theorems above.

Every safety property a passing run checks, invariant or action property, is thereby stated
by a theorem, and so are the refinements: of `RequestLifecycle` by the core and, chunks
excepted, by the dispatch harness, of `WorkerSessions` by the core and by the proxy's end of `RelayLink`. What stays model-checked
only:

- liveness under fairness, which is out of the prover's reach, as `ENABLED` is:
  `TimedQueueResolves`, `DrainEnds`, `InFlightSettles`, `DeadLinkNoticed`,
  `AbandonedIsCanceled`, `GoneIsAnswered`, `CheckoutSettles` and `CommandsEnd`;
- `OnlyIsRespected`, which the code violates.

## Where the code and its documentation disagree

The run `claim_only` ends in a behaviour of the code that contradicts a sentence of the
repository, quoted in `DocumentedClaims` and in `PROJECT.json`: a queued request loses its
provider restriction (`OnlyIsRespected`).

Behaviours of the models that contradict the documentation too and are not kept as runs:

- a request requeued under another provider's queue is not found when its client gives up,
  and stays queued until a worker or a timeout takes it (`lib.rs:748`;
  `docs/architecture.md:179`: "removed immediately"): the second exception of `NoUnheardWork`;
- a retried stream continues with a second execution (`lib.rs:716`;
  `docs/architecture.md:322`: "identical to talking directly to the backend");
- the daemon aborts a cancelled request and says nothing, so the request keeps its slot
  while the worker is connected (`modelrelay-worker/src/lib.rs:426`;
  `docs/architecture.md:278`: "Done, Failed, or Cancelled");
- `register_worker` leaves compatible requests queued until the worker's first report
  (`docs/architecture.md:54`: "or a new worker registers");
- a new submission overtakes compatible queued requests (`docs/behavior-contract.md:18`);
- requeues ignore the configured queue length (`docs/architecture.md:54`);
- a Cancel may be written before its Request, which the daemon then runs: `FlushCancels`
  precedes `FlushRequests` (`docs/architecture.md:179`);
- a request assigned between `FlushRequests` and a shutdown is written after
  GracefulShutdown, and the daemon fails its session on it (`docs/architecture.md:226`);
- tasks left by a session that ended with an error run beside the next session's, more
  than `MAX_CONCURRENCY` together (`README.md:350`);
- the daemon reconnects after a graceful shutdown (`docs/architecture.md:100`: "clean exit");
- a daemon that awaits its backend's model list does not notice a dead connection
  (`crates/modelrelay-worker/src/lib.rs:25`);
- two overlapping submissions of one form are both accepted, although a token is consumed
  when it is used (`csrf.rs:34`);
- two overlapping starts leave a daemon that `stop_worker` does not reach
  (`modelrelay-desktop/src/lib.rs:133`: "stops the existing worker first");
- the updater's cache is said to be "shared with the `/download/desktop/{platform}`
  redirect" (`updater.rs:9`); they are two;
- a reconnect registers the list of the launch again, without what refreshes have brought
  (`README.md:55`: "Live model list").

## What the models show besides

The properties carry the conditions under which they hold; these are the behaviours of the
code behind the conditions.

- *Streams*: a stream over the limit disarms its guard and its worker goes on
  (`NoUnheardWork` and `AbandonedIsCanceled` except it); a failure in the middle of a stream ends the body like a
  completion, so a client cannot tell (`EndedStreamIsWhole` says what it has by then).
- *Authentication*: a failure timed before the end of a block and recorded after it
  prolongs the block (`prolonged`); an error of the key store counts as a wrong secret; the
  limiter ends with its process. Without a database keys end with the process, and a
  configured bootstrap key stops it from starting.
- *Pages*: `/health` goes on counting a request whose client has left until its worker
  answers or is lost, or, requeued under another provider's queue, until a worker answers
  it or a timeout takes it (`PagesAgree`, `Leftovers`).
- *Billing*: a cancellation handled while the checkout still stores its rows leaves an
  unrevoked `api_keys` row for a revoked key; a repeated or late checkout leaves a valid key
  after a cancellation and makes a canceled subscription active; a failed provisioning is
  swallowed and leaves a paid subscription without a key; a failed revocation by the
  administrator is not tried again. Keys the tool imported have an id of their own and
  cannot be revoked by the id the service keeps; a key recorded after the tool's read is
  missed; a key revoked after it, whose row the server has lost, is imported as valid
  (`RevocationIsFinal` is about keys the server remembers).
- *Sessions*: a request under way at a logout may write the signed-in record back.
- *Desktop*: a stop that meets a start before it stored its handle stops nothing;
  overlapping saves can leave the memory and the disk with different settings; a write that
  fails can cut `settings.json` short (`damaged`), and `QuietIsConsistent` then says nothing of
  the file until the next save.
- *Releases*: an older overlapping lookup stored last takes the cached version back, with
  a new age (the application does not follow: `RunningOnlyAdvances`); a release seen before
  its assets are there is cached for the whole lifetime by the updater; simultaneous
  misses all fetch.
- *Model lists*: a refresh replaces an explicit list with everything the backend lists;
  lists from a file are not trimmed by the worker (the server does it).

## What is not modelled

Rendering (`modelrelay-web`, the HTML of `dashboard.rs` and `auth.rs`), static pages, legal
texts, icons; parsing and serialisation (`modelrelay-protocol`, `admin_api_harness.rs`);
argument parsing and route wiring of the server; signature verification and password
hashing, which decide by their result only; the tray's windows and menus; the lengths of
heartbeats and of the reconnect backoff; the test cases of `modelrelay-contract-tests/src/lib.rs`.
They hold no state, or decide nothing the properties are about.

## Plan

1. *done* `ProxyCore`, `RequestLifecycle`, `WorkerDaemon`, `RelayLink`: the core, its sockets
   and the daemon.
2. *done* `ClientApi`, `ServerPages`, `ApiKeyStore`, `WorkerAuth`, `WorkerLaunch`,
   `DesktopManager`, `ReleaseCache`, `CloudBilling`, `CloudSession`, `ContractDispatch`,
   `ContractHarnesses`.
3. *done* Proofs of the safety invariants and action properties of every component, and of
   the refinements of `RequestLifecycle` and of `WorkerSessions`.
4. Left: that `DesktopManager` and `CloudBilling` implement abstract specifications of
   their own (a worker that is running or not; a subscription and its key), which are not
   written; all liveness stays with TLC.
