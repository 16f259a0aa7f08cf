--------------------------- MODULE DesktopManager ---------------------------
(***************************************************************************)
(* The tray application's WorkerManager: commands of the window (start,      *)
(* stop, save the settings) and the start at launch, each a task of its own, *)
(* around one handle, one copy of the settings and one status, each behind   *)
(* its own mutex.  Only stop_worker holds a lock across an await, the        *)
(* handle's while the aborted daemon ends.                                   *)
(*                                                                          *)
(* A daemon whose handle is overwritten or dropped runs on: dropping a       *)
(* JoinHandle detaches the task.  A daemon does not end by itself, for       *)
(* run_with_reconnect never returns.  Settings are what tells two saves      *)
(* apart, a version, and whether they have a worker secret.                  *)
(***************************************************************************)
EXTENDS Naturals, FiniteSets

CONSTANTS
  Commands,     \* commands in progress at once
  MaxDaemons,   \* bound: daemons ever started
  MaxSaves,     \* bound: versions of the settings
  MaxCommands   \* bound: commands

(* A command starts one daemon at most.                                      *)
ASSUME DesktopAssumption ==
  /\ MaxDaemons \in Nat /\ MaxSaves \in Nat
  /\ MaxCommands \in 0..MaxDaemons

NoDaemon == 0
Daemons == 1..MaxDaemons
Versions == 0..MaxSaves

VARIABLES
  settings,    \* the version in memory
  secret,      \* whether each version has a worker secret
  persisted,   \* the version last written to settings.json
  damaged,     \* a failing write has cut settings.json short since
  connected,   \* status.connected
  handle,      \* worker_handle
  lock,        \* the command that holds the handle's lock across an await
  daemon,      \* each daemon: none, running, aborted or gone
  runs,        \* the version each daemon was started with
  command,     \* where each command is
  issued,      \* commands begun
  overlapped   \* a command began while another was in progress

vars == <<settings, secret, persisted, damaged, connected, handle, lock, daemon, runs,
          command, issued, overlapped>>

Idle == [step |-> "idle", kind |-> "none", held |-> NoDaemon, version |-> 0]

(* The settings that were saved before, or the default without a secret; with *)
(* auto_start a command begins at launch.                                    *)
Init ==
  /\ settings = 0 /\ persisted = 0 /\ damaged = FALSE
  /\ secret \in [Versions -> BOOLEAN]
  /\ connected = FALSE /\ handle = NoDaemon /\ lock = {}
  /\ daemon = [d \in Daemons |-> "none"] /\ runs = [d \in Daemons |-> 0]
  /\ command = [c \in Commands |-> Idle]
  /\ issued = 0 /\ overlapped = FALSE

At(c, step) == command[c].step = step
Goto(c, step) == command' = [command EXCEPT ![c].step = step]
End(c) == command' = [command EXCEPT ![c] = Idle]
Unlocked == lock = {}

Begin(c, kind, step) ==
  /\ At(c, "idle") /\ issued < MaxCommands /\ issued' = issued + 1
  /\ overlapped' = (overlapped \/ \E d \in Commands : ~At(d, "idle"))
  /\ command' = [command EXCEPT ![c] = [Idle EXCEPT !.step = step, !.kind = kind]]
  /\ UNCHANGED <<settings, secret, persisted, damaged, connected, handle, lock, daemon,
                 runs>>

Start(c) == Begin(c, "start", "take")
Stop(c) == Begin(c, "stop", "take")
Save(c) == Begin(c, "save", "is_running")

-----------------------------------------------------------------------------
(* save_settings, the command: a worker that runs is started again.          *)

IsRunning(c) ==
  /\ At(c, "is_running") /\ Unlocked
  /\ command' = [command EXCEPT ![c].step = "save",
                                ![c].kind = IF handle # NoDaemon THEN "restart" ELSE "save"]
  /\ UNCHANGED <<settings, secret, persisted, damaged, connected, handle, lock, daemon,
                 runs, issued, overlapped>>

(* A URL that is not valid, or a file that cannot be written, ends the command. *)
(* std::fs::write empties the file before it can fail.                       *)
SaveFails(c) ==
  /\ At(c, "save") /\ End(c)
  /\ damaged' \in {damaged, TRUE}
  /\ UNCHANGED <<settings, secret, persisted, connected, handle, lock, daemon,
                 runs, issued, overlapped>>

(* persist_settings writes the file before the lock of the settings is asked  *)
(* for.                                                                      *)
Persist(c) ==
  /\ At(c, "save") /\ persisted < MaxSaves
  /\ persisted' = persisted + 1 /\ damaged' = FALSE
  /\ command' = [command EXCEPT ![c].step = "replace", ![c].version = persisted + 1]
  /\ UNCHANGED <<settings, secret, connected, handle, lock, daemon, runs, issued, overlapped>>

(* A variant: the worker goes on with the settings it has.                    *)
AfterSaveEnd(c) == End(c)

AfterSave(c) == IF command[c].kind = "restart" THEN Goto(c, "take") ELSE End(c)

Replace(c) ==
  /\ At(c, "replace")
  /\ settings' = command[c].version
  /\ AfterSave(c)
  /\ UNCHANGED <<secret, persisted, damaged, connected, handle, lock, daemon, runs,
                 issued, overlapped>>

-----------------------------------------------------------------------------
(* stop_worker, which start_worker calls first.                              *)

(* A variant: the handle is dropped, which only detaches the daemon.          *)
TakeDetached(c) ==
  /\ At(c, "take") /\ Unlocked
  /\ Goto(c, "await") /\ handle' = NoDaemon /\ lock' = {c}
  /\ UNCHANGED <<settings, secret, persisted, damaged, connected, daemon, runs, issued,
                 overlapped>>

TakeHandle(c) ==
  /\ At(c, "take") /\ Unlocked
  /\ command' = [command EXCEPT ![c].step = "await", ![c].held = handle]
  /\ daemon' = IF handle = NoDaemon THEN daemon ELSE [daemon EXCEPT ![handle] = "aborted"]
  /\ handle' = NoDaemon /\ lock' = {c}
  /\ UNCHANGED <<settings, secret, persisted, damaged, connected, runs, issued, overlapped>>

(* An aborted task is dropped at its next await.                             *)
DaemonEnds(d) ==
  /\ daemon[d] = "aborted" /\ daemon' = [daemon EXCEPT ![d] = "gone"]
  /\ UNCHANGED <<settings, secret, persisted, damaged, connected, handle, lock, runs,
                 command, issued, overlapped>>

Ended(d) == d \in {NoDaemon} \cup {e \in Daemons : daemon[e] = "gone"}

(* A variant: the lock is not released.                                      *)
AwaitEndHolding(c) ==
  /\ At(c, "await") /\ Ended(command[c].held)
  /\ Goto(c, "stopped")
  /\ UNCHANGED <<settings, secret, persisted, damaged, connected, handle, lock, daemon,
                 runs, issued, overlapped>>

AwaitEnd(c) ==
  /\ At(c, "await") /\ Ended(command[c].held)
  /\ lock' = {} /\ Goto(c, "stopped")
  /\ UNCHANGED <<settings, secret, persisted, damaged, connected, handle, daemon, runs,
                 issued, overlapped>>

Stopped(c) ==
  /\ At(c, "stopped") /\ connected' = FALSE
  /\ IF command[c].kind = "stop" THEN End(c) ELSE Goto(c, "read")
  /\ UNCHANGED <<settings, secret, persisted, damaged, handle, lock, daemon, runs, issued,
                 overlapped>>

-----------------------------------------------------------------------------
(* The rest of start_worker.                                                 *)

ReadSettings(c) ==
  /\ At(c, "read")
  /\ IF secret[settings]
     THEN command' = [command EXCEPT ![c].step = "resolve", ![c].version = settings]
     ELSE End(c)
  /\ UNCHANGED <<settings, secret, persisted, damaged, connected, handle, lock, daemon,
                 runs, issued, overlapped>>

(* resolve_wildcard_models asks the backend; then the status is written and   *)
(* the daemon spawned without an await in between.                           *)
Spawn(c) ==
  /\ At(c, "resolve")
  /\ \E d \in Daemons :
       /\ daemon[d] = "none" /\ \A e \in Daemons : e < d => daemon[e] # "none"
       /\ daemon' = [daemon EXCEPT ![d] = "running"]
       /\ runs' = [runs EXCEPT ![d] = command[c].version]
       /\ command' = [command EXCEPT ![c].step = "store", ![c].held = d]
  /\ connected' = TRUE
  /\ UNCHANGED <<settings, secret, persisted, damaged, handle, lock, issued, overlapped>>

StoreHandle(c) ==
  /\ At(c, "store") /\ Unlocked
  /\ handle' = command[c].held /\ End(c)
  /\ UNCHANGED <<settings, secret, persisted, damaged, connected, lock, daemon, runs,
                 issued, overlapped>>

Step(c) ==
  \/ IsRunning(c) \/ SaveFails(c) \/ Persist(c) \/ Replace(c)
  \/ TakeHandle(c) \/ AwaitEnd(c) \/ Stopped(c)
  \/ ReadSettings(c) \/ Spawn(c) \/ StoreHandle(c)

Next ==
  \/ \E c \in Commands : Start(c) \/ Stop(c) \/ Save(c) \/ Step(c)
  \/ \E d \in Daemons : DaemonEnds(d)

Spec == Init /\ [][Next]_vars
FairSpec ==
  /\ Spec
  /\ \A c \in Commands : WF_vars(Step(c))
  /\ \A d \in Daemons : WF_vars(DaemonEnds(d))

-----------------------------------------------------------------------------
Alive == {d \in Daemons : daemon[d] \in {"running", "aborted"}}
Quiet == \A c \in Commands : At(c, "idle")

(* Every variable keeps its shape, and the handle's lock is held across an     *)
(* await by the one command that waits for its daemon's end.                 *)
DesktopTypeOK ==
  /\ settings \in Versions /\ persisted \in Versions /\ secret \in [Versions -> BOOLEAN]
  /\ damaged \in BOOLEAN /\ connected \in BOOLEAN /\ handle \in Daemons \cup {NoDaemon}
  /\ daemon \in [Daemons -> {"none", "running", "aborted", "gone"}]
  /\ runs \in [Daemons -> Versions]
  /\ command \in [Commands -> [step : {"idle", "is_running", "save", "replace", "take", "await",
                                      "stopped", "read", "resolve", "store"},
                               kind : {"none", "start", "stop", "save", "restart"},
                               held : Daemons \cup {NoDaemon}, version : Versions]]
  /\ lock = {c \in Commands : At(c, "await")} /\ Cardinality(lock) <= 1
  /\ issued \in 0..MaxCommands /\ overlapped \in BOOLEAN

(* "If already running, stops the existing worker first" (lib.rs:133): two     *)
(* daemons never hold a connection at once, not even while one is being       *)
(* stopped, as long as commands do not overlap.  When they do, a daemon can   *)
(* be lost track of (lib.rs:138).                                            *)
OneDaemonAtATime == ~overlapped => Cardinality(Alive) <= 1

(* After commands that did not overlap the window tells the truth: it says    *)
(* connected when a daemon runs, which is the one stop would stop, and that   *)
(* daemon runs with the settings in memory, which are those on disk unless a  *)
(* write that failed has cut the file short (lib.rs:106).                    *)
QuietIsConsistent ==
  Quiet /\ ~overlapped =>
    /\ connected <=> Alive # {}
    /\ Alive \subseteq {handle}
    /\ \A d \in Alive : runs[d] = settings
    /\ damaged \/ persisted = settings

(* Overlapping or not, the handle is that of a daemon that runs: is_running   *)
(* never reports a dead daemon, and a save never restarts a stopped one.     *)
HandleRuns == handle # NoDaemon => daemon[handle] = "running"

(* No command waits for ever, though stop_worker holds the handle's lock       *)
(* while its daemon ends, if the backend asked for its models answers or     *)
(* fails.                                                                    *)
CommandsEnd == \A c \in Commands : ~At(c, "idle") ~> At(c, "idle")
=============================================================================
