-------------------------- MODULE DocumentedClaims --------------------------
(***************************************************************************)
(* A statement of the repository's documentation about the proxy core that *)
(* the code does not keep: the counterexample is a behaviour of the code.  *)
(***************************************************************************)
EXTENDS MCProxyCore

(* crates/modelrelay-protocol/src/lib.rs:27, "Only route to workers whose     *)
(* provider matches one of these names": without fallbacks, a request is in   *)
(* flight only at workers of the providers it names.                          *)
OnlyIsRespected ==
  \A w \in workers : \A r \in Members(in_flight_requests[w]) :
    LET routing == request[r].routing
    IN  routing.given /\ ~routing.allow_fallbacks => profile[w].provider \in routing.only
=============================================================================
