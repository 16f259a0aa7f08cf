---------------------------- MODULE MCProxyCore ----------------------------
(***************************************************************************)
(* Small instances of ProxyCore for TLC.  "p" is the provider the server   *)
(* is configured with (the one clients' requests are submitted to, with a  *)
(* queue policy); "q" is a provider only workers name, which has the       *)
(* default policy: no timeout and no limit.                                *)
(***************************************************************************)
EXTENDS ServerPages

MCTrim == [x \in {"a", " a ", "b", "*", " "} |->
             CASE x \in {"a", " a "} -> "a" [] x = "b" -> "b" [] x = "*" -> "*" [] OTHER -> ""]
MCStartsWith == {<<"/v1/chat", "/v1">>, <<"/v1/models", "/v1">>, <<"/v1/chat", "/v1/chat">>}

NoRouting == [given |-> FALSE, only |-> {"p", "q"}, ignore |-> {}, order |-> <<>>,
              allow_fallbacks |-> TRUE]
Routed(only, ignore, order, fallbacks) ==
  [given |-> TRUE, only |-> only, ignore |-> ignore, order |-> order,
   allow_fallbacks |-> fallbacks]

Ask(model, path, streaming, routing) ==
  [provider |-> "p", model |-> model, path |-> path, streaming |-> streaming,
   routing |-> routing]
Join(provider, raw, prefixes, slots, load) ==
  [provider |-> provider, models |-> raw, prefixes |-> prefixes,
   max_concurrent |-> slots, current_load |-> load]

OneSlotPolicy == Configured("p", 1, 30)
TwoSlotPolicy == Configured("p", 2, 30)

Plain == Ask("a", "/v1/chat", FALSE, NoRouting)
Streaming == Ask("a", "/v1/chat", TRUE, NoRouting)

(* Routing: workers of two providers; restrictions, preferences, fallbacks.  *)
RoutingSubmissions ==
  {Ask("a", "/v1/models", FALSE, NoRouting),
   Ask("b", "/v1/chat", FALSE, Routed({"p", "q"}, {"p"}, <<"p", "q">>, TRUE)),
   Ask("a", "/v1/chat", FALSE, Routed({"p"}, {}, <<>>, FALSE))}

(* Retries: one streaming request, or two, over many short-lived workers.    *)
RetryRegistrations == {Join("p", {"a"}, {}, 1, 0)}
RetrySubmissions == {Streaming}

(* Queues: a provider's worker with two slots and one that takes every model,  *)
(* announces an endpoint prefix and asks for no slot; loads may be stale and   *)
(* models change.                                                            *)
QueueRegistrations == {Join("p", {" a "," "}, {}, 2, 1), Join("q", {"*"}, {"/v1/chat"}, 0, 0)}
QueueUpdates == {{"b", " a "}}

(* Departures: drains, deadlines and deleted providers.                      *)
DrainRegistrations == {Join("p", {"a"}, {}, 1, 0), Join("q", {"a"}, {"/v1/chat"}, 2, 0)}
DrainSubmissions == {Plain}
=============================================================================
