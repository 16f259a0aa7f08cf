----------------------------- MODULE WorkerLaunch -----------------------------
(***************************************************************************)
(* How a worker comes to offer its models: the modelrelay-worker binary      *)
(* reads its flags, the environment and a file, asks the backend what "*"    *)
(* stands for, and registers at each connection; afterwards the server may   *)
(* ask it to look at the backend again.                                      *)
(*                                                                          *)
(* A setting is one of Settings; the addresses and the log level are left    *)
(* out.  Lists are sets of the names as they are spelled, and Spelled says   *)
(* what str::trim makes of each ("" when blank).                             *)
(***************************************************************************)
EXTENDS Integers

CONSTANTS
  Spellings,    \* model names and prefixes as a person or a backend spells them
  Spelled,      \* str::trim
  Served,       \* the lists that the backend may answer with
  Inputs,       \* the flags, environments and files considered
  MaxLaunches,  \* bound: processes started
  MaxAnswers    \* bound: changes of the backend

Lists == {"models", "endpoint_prefixes"}
Settings == Lists \cup {"provider", "worker_secret", "worker_name", "max_concurrency"}

ASSUME LaunchAssumption ==
  /\ Spelled \in [Spellings -> STRING]
  /\ \A x \in Spellings :   \* trimming twice trims once
       Spelled[x] # "" => Spelled[x] \in Spellings /\ Spelled[Spelled[x]] = Spelled[x]
  /\ Served \subseteq SUBSET Spellings
  /\ MaxLaunches \in Nat /\ MaxAnswers \in Nat
  /\ \A given \in Inputs :
       /\ DOMAIN given = {"flags", "env", "file", "readable"}
       /\ given.readable \in BOOLEAN
       /\ DOMAIN given.flags \cup DOMAIN given.env \cup DOMAIN given.file \subseteq Settings
       /\ \A source \in {given.flags, given.env, given.file} :
            "models" \in DOMAIN source => source.models \subseteq Spellings

VARIABLES
  input,       \* what the process was started with
  process,     \* "off", "resolving", "backoff", "connected", "refreshing" or "exited"
  config,      \* WorkerDaemonConfig
  backend,     \* the answer to GET /v1/models: a list, or NoAnswer
  registered,  \* the worker's entry in the server's registry, or NotRegistered
  resolved,    \* ghost: the list that resolve_wildcard_models found
  listed,      \* ghost: everything the backend listed to this process
  launches,
  answers

launchVars == <<input, process, config, backend, registered, resolved, listed, launches, answers>>

NoAnswer == {"no answer"}
NotRegistered == [models |-> {}, warnings |-> {}]
Nothing == [s \in {} |-> {}]

LaunchInit ==
  /\ input \in Inputs /\ process = "off" /\ config = Nothing
  /\ backend \in Served \cup {NoAnswer}
  /\ registered = NotRegistered /\ resolved = {} /\ listed = {}
  /\ launches = 0 /\ answers = 0

-----------------------------------------------------------------------------
(* main: one value for each setting.                                         *)

(* Trimmed, without blanks.                                                  *)
Clean(names) == {Spelled[x] : x \in names} \ {""}

(* Two sources of settings, the first before the second.                      *)
Over(first, second) ==
  [s \in DOMAIN first \cup DOMAIN second |->
     IF s \in DOMAIN first THEN first[s] ELSE second[s]]

(* clap takes a flag before its variable; both spell a list with commas.     *)
Arguments == Over(input.flags, input.env)
SplitArguments ==
  [s \in DOMAIN Arguments |-> IF s \in Lists THEN Clean(Arguments[s]) ELSE Arguments[s]]

Default ==
  [s \in Settings \ {"worker_secret"} |->
     CASE s = "provider" -> "local"
       [] s = "worker_name" -> "worker"
       [] s = "models" -> {"default"}
       [] s = "max_concurrency" -> 1
       [] s = "endpoint_prefixes" -> {}]

(* Flags and environment, then the file, then the default.                   *)
Resolved == Over(SplitArguments, Over(input.file, Default))

HasWildcard(names) == \E x \in names : Spelled[x] = "*"

(* An unreadable file, or no secret, ends the process at once.               *)
ReadConfig ==
  /\ process \in {"off", "exited"} /\ launches < MaxLaunches
  /\ launches' = launches + 1
  /\ resolved' = {} /\ listed' = {}
  /\ IF ~input.readable \/ "worker_secret" \notin DOMAIN Resolved
     THEN process' = "exited" /\ config' = Nothing
     ELSE /\ config' = Resolved
          /\ process' = IF HasWildcard(Resolved.models) THEN "resolving" ELSE "backoff"
  /\ UNCHANGED <<input, backend, registered, answers>>

-----------------------------------------------------------------------------
(* resolve_wildcard_models, once per process; it waits as long as the        *)
(* backend does.                                                             *)

(* A variant: what the backend lists is added.                               *)
WildcardAndFound(found) == [config EXCEPT !.models = @ \cup found]

InsteadOfWildcard(found) == [config EXCEPT !.models = found]

WildcardResolved ==
  /\ process = "resolving" /\ backend \notin {NoAnswer, {}}
  /\ config' = InsteadOfWildcard(backend)
  /\ resolved' = backend /\ listed' = backend
  /\ process' = "backoff"
  /\ UNCHANGED <<input, backend, registered, launches, answers>>

(* An error, or an empty list: the wildcard stays.                           *)
WildcardKept ==
  /\ process = "resolving" /\ backend \in {NoAnswer, {}}
  /\ process' = "backoff"
  /\ UNCHANGED <<input, config, backend, registered, resolved, listed, launches, answers>>

-----------------------------------------------------------------------------
(* The daemon, and what the server makes of its messages.                    *)

registration_warnings(models) ==
  {w \in {"worker_name", "models"} :
     \/ w = "worker_name" /\ config.worker_name = ""
     \/ w = "models" /\ models = {}}

(* registration_message and register_worker.                                 *)
Register ==
  /\ process = "backoff"
  /\ process' = "connected"
  /\ registered' = [models |-> Clean(config.models),
                    warnings |-> registration_warnings(Clean(config.models))]
  /\ UNCHANGED <<input, config, backend, resolved, listed, launches, answers>>

RefreshAsked ==
  /\ process = "connected" /\ process' = "refreshing"
  /\ UNCHANGED <<input, config, backend, registered, resolved, listed, launches, answers>>

(* The answer replaces the list in the registry, whether or not the           *)
(* configuration had a wildcard; the configuration keeps its own.            *)
RefreshAnswered ==
  /\ process = "refreshing" /\ backend # NoAnswer
  /\ registered' = [registered EXCEPT !.models = Clean(backend)]
  /\ listed' = listed \cup backend
  /\ process' = "connected"
  /\ UNCHANGED <<input, config, backend, resolved, launches, answers>>

(* A lost link, a failed request, or a refresh without an answer.            *)
SessionEnds ==
  /\ process \in {"connected", "refreshing"}
  /\ process' = "backoff" /\ registered' = NotRegistered
  /\ UNCHANGED <<input, config, backend, resolved, listed, launches, answers>>

(* shutdown_signal, which main selects on beside the daemon; before, a signal  *)
(* kills the process.                                                        *)
ShutdownSignal ==
  /\ process \notin {"off", "exited"}
  /\ process' = "exited" /\ registered' = NotRegistered
  /\ UNCHANGED <<input, config, backend, resolved, listed, launches, answers>>

BackendChanges ==
  /\ answers < MaxAnswers /\ answers' = answers + 1
  /\ backend' \in Served \cup {NoAnswer}
  /\ UNCHANGED <<input, process, config, registered, resolved, listed, launches>>

LaunchNext ==
  \/ ReadConfig \/ WildcardResolved \/ WildcardKept
  \/ Register \/ RefreshAsked \/ RefreshAnswered \/ SessionEnds
  \/ ShutdownSignal \/ BackendChanges

LaunchSpec == LaunchInit /\ [][LaunchNext]_launchVars

-----------------------------------------------------------------------------
(* The list in force, from the comment on Args: flags before environment      *)
(* before file before default.                                               *)
Listing(given) == IF "models" \in DOMAIN given THEN given.models ELSE {}
Silent(given) == "models" \notin DOMAIN given
InForce ==
  CASE ~Silent(input.flags) -> Listing(input.flags)
    [] Silent(input.flags) /\ ~Silent(input.env) -> Listing(input.env)
    [] Silent(input.flags) /\ Silent(input.env) /\ ~Silent(input.file) -> Listing(input.file)
    [] OTHER -> {"default"}

(* Over reconnections and refreshes, the server offers under a worker's name  *)
(* only models that the list in force names or that the backend listed to     *)
(* this process, and takes any request to it (the wildcard) only when the     *)
(* list in force has a wildcard the launch found no models for, or the        *)
(* backend itself lists a model of that name.                                *)
OffersWhatItHas ==
  /\ registered.models \subseteq Clean(InForce \cup listed)
  /\ "*" \in registered.models =>
       \/ "*" \in Clean(InForce) /\ resolved = {}
       \/ "*" \in Clean(listed)
=============================================================================
