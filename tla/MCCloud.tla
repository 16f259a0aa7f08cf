-------------------------------- MODULE MCCloud --------------------------------
(***************************************************************************)
(* Small instances of two parts of the cloud service: billing with one        *)
(* customer and one administrator, and one browser's session.  They share no *)
(* state, so a behaviour is one of either part with the other at rest.       *)
(***************************************************************************)
EXTENDS CloudBilling, CloudSession

MCOwner == [s \in Subs |-> "ann"]

VARIABLE part

cloudVars == <<vars, sessionVars, part>>

CloudInit ==
  Init /\ SessionInit /\ part \in {"billing", "session"}

CloudNext ==
  /\ UNCHANGED part
  /\ \/ part = "billing" /\ Next /\ UNCHANGED sessionVars
     \/ part = "session" /\ SessionNext /\ UNCHANGED vars

CloudSpec == CloudInit /\ [][CloudNext]_cloudVars

(* Stripe and the handlers are fair, as in FairSpec.                          *)
CloudFairSpec ==
  /\ CloudSpec
  /\ \A h \in Handlers : WF_vars(HandlerStep(h))
  /\ \A e \in Events : WF_vars(\E h \in Handlers : Deliver(h, e))
=============================================================================
