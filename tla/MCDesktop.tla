------------------------------- MODULE MCDesktop -------------------------------
(***************************************************************************)
(* Small instances of what runs beside the server: the desktop application's  *)
(* worker manager, the way a release reaches that application, and the launch *)
(* of a worker.  They share no state, so a behaviour is one of a part with   *)
(* the others at rest.                                                       *)
(***************************************************************************)
EXTENDS DesktopManager, ReleaseCache, WorkerLaunch, TLC

VARIABLE part

desktopVars == <<vars, releaseVars, launchVars, part>>

(* The names a person may write in a list, with the wildcard spelled in two    *)
(* ways, and what the backend lists.                                         *)
MCSpellings == {"a", "b", "*", " * ", " ", "default"}
MCSpelled == [x \in MCSpellings |-> CASE x = " * " -> "*" [] x = " " -> "" [] OTHER -> x]
MCServed == {{}, {"a"}, {"a", "b"}}

ListGiven == {Nothing} \cup {[models |-> names] : names \in {{"a", " "}, {" * ", "b"}, {" "}}}
SecretGiven == {Nothing, [worker_secret |-> "s"]}

(* Every mix of the three sources giving a list, and the secret in one of      *)
(* them or in none.                                                          *)
MCInputs ==
  {[flags |-> flags @@ first, env |-> env, file |-> file @@ more, readable |-> readable] :
     flags \in ListGiven, env \in ListGiven, file \in ListGiven,
     first \in SecretGiven, more \in SecretGiven, readable \in BOOLEAN}

(* A part at rest has one initial state.                                      *)
AnyLaunch == backend = {} /\ input = CHOOSE given \in Inputs : TRUE

MCInit ==
  /\ Init /\ ReleaseInit /\ LaunchInit
  /\ \/ part = "manager" /\ (\A c \in Callers : role[c] = "updater") /\ AnyLaunch
     \/ part = "release" /\ (\A v \in Versions : secret[v]) /\ AnyLaunch
     \/ /\ part = "launch" /\ (\A v \in Versions : secret[v])
        /\ \A c \in Callers : role[c] = "updater"

MCNext ==
  /\ UNCHANGED part
  /\ \/ part = "manager" /\ Next /\ UNCHANGED <<releaseVars, launchVars>>
     \/ part = "release" /\ ReleaseNext /\ UNCHANGED <<vars, launchVars>>
     \/ part = "launch" /\ LaunchNext /\ UNCHANGED <<vars, releaseVars>>

(* The manager is fair, as in its FairSpec.                                  *)
MCFairSpec ==
  /\ MCInit /\ [][MCNext]_desktopVars
  /\ \A c \in Commands : WF_vars(Step(c))
  /\ \A d \in Daemons : WF_vars(DaemonEnds(d))
=============================================================================
