---------------------------- MODULE ContractTests ----------------------------
(***************************************************************************)
(* The harnesses of the contract tests side by side.  They share no state,   *)
(* and a test uses one of them: a behaviour is one of a harness with the     *)
(* others at rest.                                                           *)
(***************************************************************************)
EXTENDS ContractDispatch, ContractHarnesses

VARIABLE part   \* the harness the test uses

contractVars == <<vars, harnessVars, part>>

ContractInit ==
  Init /\ HarnessInit /\ part \in {"dispatch", "heartbeat", "registration", "acknowledge", "response"}

ContractNext ==
  /\ UNCHANGED part
  /\ \/ part = "dispatch" /\ Next /\ UNCHANGED harnessVars
     \/ part = "heartbeat" /\ HeartbeatNext /\ UNCHANGED vars
     \/ part = "registration" /\ RegistrationNext /\ UNCHANGED vars
     \/ part = "acknowledge" /\ AcknowledgeNext /\ UNCHANGED vars
     \/ part = "response" /\ ResponseNext /\ UNCHANGED vars

(* Each harness keeps what it has consistent and within its limit: one place  *)
(* for every request and no more of them on a worker than it has slots, no    *)
(* more wrong secrets of a client than the threshold, no more models than the *)
(* maximum in a faithful acknowledgement, no more bytes than a stream's limit.*)
LimitsKept ==
  ContractTypeOK /\ CapacityKept /\ WrongSecretsBounded /\ AckIsFaithful /\ StreamWithinLimit

ContractSpec == ContractInit /\ [][ContractNext]_contractVars
=============================================================================
