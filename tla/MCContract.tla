----------------------------- MODULE MCContract -----------------------------
(***************************************************************************)
(* Instances of the contract harnesses: for dispatch a worker of two slots   *)
(* for one model and one of one slot for two, a queue of two places with a   *)
(* timeout; for the others three workers, one client, lists of up to four    *)
(* names.                                                                    *)
(***************************************************************************)
EXTENDS ContractTests

Regs == {[provider |-> "p", models |-> {"a"}, max_concurrent |-> 2],
         [provider |-> "p", models |-> {"a", "b"}, max_concurrent |-> 0]}
Policies == [p \in Providers |-> [max_queue_len |-> IF p = "p" THEN 2 ELSE 0, timeout |-> IF p = "p" THEN 1 ELSE 0]]
Trims == [x \in {"a", " a", "b", "c", " "} |->
            CASE x = " a" -> "a" [] x = " " -> "" [] OTHER -> x]

MCProviders ==
  "p" :> [worker_secret |-> "s", enabled |-> TRUE] @@ "off" :> [worker_secret |-> "s", enabled |-> FALSE]
MCRequests == [provider : {"p", "off", "unknown"}, header_secret : {"none", "s", "t"},
               query_secret : {"none", "s", "t"}]
=============================================================================
