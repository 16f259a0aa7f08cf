---------------------------- MODULE DesktopProofs ----------------------------
(***************************************************************************)
(* Proofs about DesktopManager, for any number of commands at once, daemons  *)
(* and saves, about ReleaseCache, for any number of callers, any cache       *)
(* lifetime and any timeout, and about WorkerLaunch, for any names, lists    *)
(* and sources.                                                             *)
(***************************************************************************)
EXTENDS DesktopManager, ReleaseCache, WorkerLaunch, FiniteSetTheorems, TLAPS

Steps == {"idle", "is_running", "save", "replace", "take", "await", "stopped", "read",
          "resolve", "store"}
Kinds == {"none", "start", "stop", "save", "restart"}
Positions == [step : Steps, kind : Kinds, held : Daemons \cup {NoDaemon}, version : Versions]

ManagerTyped ==
  /\ settings \in Versions /\ persisted \in Versions /\ secret \in [Versions -> BOOLEAN]
  /\ damaged \in BOOLEAN /\ connected \in BOOLEAN /\ handle \in Daemons \cup {NoDaemon}
  /\ daemon \in [Daemons -> {"none", "running", "aborted", "gone"}]
  /\ runs \in [Daemons -> Versions]
  /\ command \in [Commands -> Positions]
  /\ issued \in 0..MaxCommands /\ overlapped \in BOOLEAN

LockHeld ==
  /\ lock = {c \in Commands : At(c, "await")}
  /\ \A c, d \in lock : c = d

(* A daemon is named by the handle or by the one command that has yet to      *)
(* store it, and runs; an aborted one is only waited for.                     *)
HandleSound ==
  /\ handle # NoDaemon => daemon[handle] = "running"
  /\ \A c \in Commands :
       At(c, "store") => /\ command[c].held \in Daemons /\ daemon[command[c].held] = "running"
                         /\ command[c].held # handle
                         /\ \A d \in Commands \ {c} :
                              At(d, "store") => command[d].held # command[c].held

ManagerInv == ManagerTyped /\ LockHeld /\ HandleSound

LEMMA ManagerStart == Init => ManagerInv
<1>. SUFFICES ASSUME Init PROVE ManagerInv
  OBVIOUS
<1>1. 0 \in Versions /\ 0 \in 0..MaxCommands
  BY DesktopAssumption DEF Versions
<1>2. Idle \in Positions
  BY <1>1 DEF Idle, Positions, Steps, Kinds
<1>. QED  BY <1>1, <1>2 DEF Init, ManagerInv, ManagerTyped, LockHeld, HandleSound, At, Idle

(* A command that moves keeps its shape.                                      *)
LEMMA CommandMoves ==
  ASSUME ManagerTyped, NEW c \in Commands, NEW step \in Steps, NEW kind \in Kinds,
         NEW held \in Daemons \cup {NoDaemon}, NEW version \in Versions,
         \/ command' = [command EXCEPT ![c] = Idle]
         \/ command' = [command EXCEPT ![c].step = step]
         \/ command' = [command EXCEPT ![c].step = step, ![c].kind = kind]
         \/ command' = [command EXCEPT ![c].step = step, ![c].held = held]
         \/ command' = [command EXCEPT ![c].step = step, ![c].version = version]
         \/ command' = [command EXCEPT ![c] = [Idle EXCEPT !.step = step, !.kind = kind]]
  PROVE  /\ command' \in [Commands -> Positions]
         /\ \A d \in Commands \ {c} : command'[d] = command[d]
<1>1. command \in [Commands -> Positions]
  BY DEF ManagerTyped
<1>2. command[c] \in Positions
  BY <1>1
<1>3. 0 \in Versions
  BY DesktopAssumption DEF Versions
<1>4. Idle \in Positions /\ [Idle EXCEPT !.step = step, !.kind = kind] \in Positions
  BY <1>3 DEF Idle, Positions, Steps, Kinds
<1>5. /\ [command[c] EXCEPT !.step = step] \in Positions
      /\ [command[c] EXCEPT !.step = step, !.kind = kind] \in Positions
      /\ [command[c] EXCEPT !.step = step, !.held = held] \in Positions
      /\ [command[c] EXCEPT !.step = step, !.version = version] \in Positions
  BY <1>2 DEF Positions
<1>6. \E p \in Positions : command' = [command EXCEPT ![c] = p]
  BY <1>1, <1>4, <1>5
<1>. QED  BY <1>1, <1>6

(* What each action does to its command and to the handle.                    *)
LEMMA BeginTyped ==
  ASSUME ManagerInv, NEW c \in Commands, Start(c) \/ Stop(c) \/ Save(c)
  PROVE  ManagerInv'
<1>. ManagerTyped /\ LockHeld /\ HandleSound
  BY DEF ManagerInv
<1>8. /\ At(c, "idle") /\ issued < MaxCommands /\ issued' = issued + 1
      /\ UNCHANGED <<settings, secret, persisted, damaged, connected, handle, lock, daemon, runs>>
  BY DEF Start, Stop, Save, Begin
<1>9. overlapped' \in BOOLEAN
  BY DEF Start, Stop, Save, Begin
<1>10. issued' \in 0..MaxCommands
  BY <1>8, DesktopAssumption DEF ManagerTyped
<1>1. /\ At(c, "idle") /\ issued' \in 0..MaxCommands /\ overlapped' \in BOOLEAN
      /\ UNCHANGED <<settings, secret, persisted, damaged, connected, handle, lock, daemon, runs>>
  BY <1>8, <1>9, <1>10
<1>2. PICK step \in {"take", "is_running"}, kind \in {"start", "stop", "save"} :
        command' = [command EXCEPT ![c] = [Idle EXCEPT !.step = step, !.kind = kind]]
  BY DEF Start, Stop, Save, Begin
<1>3. step \in Steps /\ kind \in Kinds /\ NoDaemon \in Daemons \cup {NoDaemon} /\ 0 \in Versions
  BY DesktopAssumption DEF Steps, Kinds, Versions
<1>4. /\ command' \in [Commands -> Positions]
      /\ \A d \in Commands \ {c} : command'[d] = command[d]
  BY <1>2, <1>3, CommandMoves
<1>5. command'[c].step \in {"take", "is_running"}
  BY <1>2 DEF ManagerTyped, Idle
<1>6. LockHeld'
  BY <1>1, <1>4, <1>5 DEF LockHeld, At
<1>7. HandleSound'
  BY <1>1, <1>4, <1>5 DEF HandleSound, At
<1>. QED  BY <1>1, <1>4, <1>6, <1>7 DEF ManagerInv, ManagerTyped

(* The steps that move a command only between positions that neither wait nor *)
(* store.                                                                    *)
LEMMA PlainStep ==
  ASSUME ManagerInv, NEW c \in Commands,
         IsRunning(c) \/ SaveFails(c) \/ Persist(c) \/ Replace(c) \/ Stopped(c) \/ ReadSettings(c)
  PROVE  /\ ManagerInv'
         /\ \A d \in Commands \ {c} : command'[d] = command[d]
<1>. ManagerTyped /\ LockHeld /\ HandleSound
  BY DEF ManagerInv
<1>1. /\ command[c].step \in {"is_running", "save", "replace", "stopped", "read"}
      /\ UNCHANGED <<handle, lock, daemon, runs, secret, issued, overlapped>>
  BY DEF IsRunning, SaveFails, Persist, Replace, Stopped, ReadSettings, At
<1>2. /\ settings' \in Versions /\ persisted' \in Versions
      /\ connected' \in BOOLEAN /\ damaged' \in BOOLEAN
  <2>1. /\ settings \in 0..MaxSaves /\ persisted \in 0..MaxSaves /\ connected \in BOOLEAN
        /\ command[c].version \in 0..MaxSaves /\ MaxSaves \in Nat
    BY DesktopAssumption DEF ManagerTyped, Versions, Positions
  <2>2. settings' \in {settings, command[c].version} /\ connected' \in {connected, FALSE}
    BY DEF IsRunning, SaveFails, Persist, Replace, Stopped, ReadSettings
  <2>3. persisted' \in 0..MaxSaves
    <3>1. CASE Persist(c)
      BY <2>1, <3>1 DEF Persist
    <3>2. CASE UNCHANGED persisted
      BY <2>1, <3>2
    <3>. QED  BY <3>1, <3>2 DEF IsRunning, SaveFails, Replace, Stopped, ReadSettings
  <2>4. settings' \in 0..MaxSaves
    BY <2>1, <2>2
  <2>5. damaged' \in {damaged, TRUE, FALSE} /\ damaged \in BOOLEAN
    BY DEF IsRunning, SaveFails, Persist, Replace, Stopped, ReadSettings, ManagerTyped
  <2>. QED  BY <2>1, <2>2, <2>3, <2>4, <2>5 DEF Versions
<1>3. \E step \in {"save", "replace", "take", "read", "resolve"}, kind \in Kinds, version \in Versions :
        \/ command' = [command EXCEPT ![c] = Idle]
        \/ command' = [command EXCEPT ![c].step = step]
        \/ command' = [command EXCEPT ![c].step = step, ![c].kind = kind]
        \/ command' = [command EXCEPT ![c].step = step, ![c].version = version]
  <2>1. persisted' \in Versions /\ settings \in Versions
    BY <1>2 DEF ManagerTyped
  <2>2. {"restart", "save"} \subseteq Kinds
    BY DEF Kinds
  <2>3. CASE IsRunning(c)
    BY <2>1, <2>2, <2>3 DEF IsRunning
  <2>4. CASE SaveFails(c)
    BY <2>1, <2>2, <2>4 DEF SaveFails, End
  <2>5. CASE Persist(c)
    BY <2>1, <2>2, <2>5 DEF Persist
  <2>6. CASE Replace(c)
    BY <2>1, <2>2, <2>6 DEF Replace, AfterSave, End, Goto
  <2>7. CASE Stopped(c)
    BY <2>1, <2>2, <2>7 DEF Stopped, End, Goto
  <2>8. CASE ReadSettings(c)
    BY <2>1, <2>2, <2>8 DEF ReadSettings, End
  <2>. QED  BY <2>3, <2>4, <2>5, <2>6, <2>7, <2>8
<1>4. PICK step \in {"save", "replace", "take", "read", "resolve"}, kind \in Kinds, version \in Versions :
        \/ command' = [command EXCEPT ![c] = Idle]
        \/ command' = [command EXCEPT ![c].step = step]
        \/ command' = [command EXCEPT ![c].step = step, ![c].kind = kind]
        \/ command' = [command EXCEPT ![c].step = step, ![c].version = version]
  BY <1>3
<1>5. step \in Steps /\ NoDaemon \in Daemons \cup {NoDaemon}
  BY DEF Steps
<1>6. /\ command' \in [Commands -> Positions]
      /\ \A d \in Commands \ {c} : command'[d] = command[d]
  BY <1>4, <1>5, CommandMoves
<1>7. command'[c].step \in {"idle", "save", "replace", "take", "read", "resolve"}
  BY <1>4 DEF ManagerTyped, Idle, Positions
<1>8. LockHeld'
  BY <1>1, <1>6, <1>7 DEF LockHeld, At
<1>9. HandleSound'
  BY <1>1, <1>6, <1>7 DEF HandleSound, At
<1>. QED  BY <1>1, <1>2, <1>6, <1>8, <1>9 DEF ManagerInv, ManagerTyped

LEMMA TakeStep ==
  ASSUME ManagerInv, NEW c \in Commands, TakeHandle(c)
  PROVE  /\ ManagerInv'
         /\ \A d \in Commands \ {c} : command'[d] = command[d]
         /\ command'[c].step = "await" /\ command'[c].held = handle
<1>. ManagerTyped /\ LockHeld /\ HandleSound
  BY DEF ManagerInv
<1>1. /\ At(c, "take") /\ lock = {} /\ lock' = {c} /\ handle' = NoDaemon
      /\ command' = [command EXCEPT ![c].step = "await", ![c].held = handle]
      /\ UNCHANGED <<settings, secret, persisted, damaged, connected, runs, issued, overlapped>>
  BY DEF TakeHandle, Unlocked
<1>2. handle \in Daemons \cup {NoDaemon} /\ "await" \in Steps /\ "none" \in Kinds /\ 0 \in Versions
  BY DesktopAssumption DEF ManagerTyped, Steps, Kinds, Versions
<1>3. /\ command' \in [Commands -> Positions]
      /\ \A d \in Commands \ {c} : command'[d] = command[d]
  BY <1>1, <1>2, CommandMoves
<1>4. command'[c].step = "await" /\ command'[c].held = handle
  BY <1>1 DEF ManagerTyped, Positions
<1>5. /\ daemon' \in [Daemons -> {"none", "running", "aborted", "gone"}]
      /\ \A d \in Daemons : d # handle => daemon'[d] = daemon[d]
  BY <1>2 DEF TakeHandle, ManagerTyped
<1>6. LockHeld'
  BY <1>1, <1>3, <1>4 DEF LockHeld, At
<1>7. HandleSound'
  BY <1>1, <1>3, <1>4, <1>5 DEF HandleSound, At, NoDaemon, Daemons
<1>. QED  BY <1>1, <1>3, <1>4, <1>5, <1>6, <1>7 DEF ManagerInv, ManagerTyped

LEMMA AwaitStep ==
  ASSUME ManagerInv, NEW c \in Commands, AwaitEnd(c)
  PROVE  /\ ManagerInv'
         /\ \A d \in Commands \ {c} : command'[d] = command[d]
         /\ command'[c].step = "stopped"
<1>. ManagerTyped /\ LockHeld /\ HandleSound
  BY DEF ManagerInv
<1>1. /\ At(c, "await") /\ lock' = {} /\ command' = [command EXCEPT ![c].step = "stopped"]
      /\ UNCHANGED <<settings, secret, persisted, damaged, connected, handle, daemon, runs, issued, overlapped>>
  BY DEF AwaitEnd, Goto
<1>2. NoDaemon \in Daemons \cup {NoDaemon} /\ "stopped" \in Steps /\ "none" \in Kinds /\ 0 \in Versions
  BY DesktopAssumption DEF Steps, Kinds, Versions
<1>3. /\ command' \in [Commands -> Positions]
      /\ \A d \in Commands \ {c} : command'[d] = command[d]
  BY <1>1, <1>2, CommandMoves
<1>4. command'[c].step = "stopped"
  BY <1>1 DEF ManagerTyped, Positions
<1>5. c \in lock
  BY <1>1 DEF LockHeld
<1>6. LockHeld'
  BY <1>1, <1>3, <1>4, <1>5 DEF LockHeld, At
<1>7. HandleSound'
  BY <1>1, <1>3, <1>4 DEF HandleSound, At
<1>. QED  BY <1>1, <1>3, <1>4, <1>6, <1>7 DEF ManagerInv, ManagerTyped

LEMMA SpawnStep ==
  ASSUME ManagerInv, NEW c \in Commands, Spawn(c)
  PROVE  /\ ManagerInv'
         /\ \A d \in Commands \ {c} : command'[d] = command[d]
         /\ \E d \in Daemons :
              /\ daemon[d] = "none" /\ daemon' = [daemon EXCEPT ![d] = "running"]
              /\ runs' = [runs EXCEPT ![d] = command[c].version]
              /\ command'[c].step = "store" /\ command'[c].held = d
<1>. ManagerTyped /\ LockHeld /\ HandleSound
  BY DEF ManagerInv
<1>1. PICK d \in Daemons :
        /\ daemon[d] = "none" /\ daemon' = [daemon EXCEPT ![d] = "running"]
        /\ runs' = [runs EXCEPT ![d] = command[c].version]
        /\ command' = [command EXCEPT ![c].step = "store", ![c].held = d]
  BY DEF Spawn
<1>2. /\ At(c, "resolve") /\ connected' \in BOOLEAN
      /\ UNCHANGED <<settings, secret, persisted, damaged, handle, lock, issued, overlapped>>
  BY DEF Spawn
<1>3. d \in Daemons \cup {NoDaemon} /\ "store" \in Steps /\ "none" \in Kinds /\ 0 \in Versions
  BY DesktopAssumption DEF Steps, Kinds, Versions
<1>4. /\ command' \in [Commands -> Positions]
      /\ \A e \in Commands \ {c} : command'[e] = command[e]
  BY <1>1, <1>3, CommandMoves
<1>5. command'[c].step = "store" /\ command'[c].held = d
  BY <1>1 DEF ManagerTyped, Positions
<1>6. command[c].version \in Versions
  BY DEF ManagerTyped, Positions
<1>7. /\ daemon' \in [Daemons -> {"none", "running", "aborted", "gone"}]
      /\ runs' \in [Daemons -> Versions]
      /\ daemon'[d] = "running" /\ \A e \in Daemons \ {d} : daemon'[e] = daemon[e]
  BY <1>1, <1>6 DEF ManagerTyped
<1>8. LockHeld'
  BY <1>2, <1>4, <1>5 DEF LockHeld, At
<1>9. HandleSound'
  <2>1. handle # NoDaemon => handle # d /\ daemon'[handle] = "running"
    BY <1>1, <1>7 DEF HandleSound, ManagerTyped
  <2>2. \A e \in Commands \ {c} :
          At(e, "store") => /\ command[e].held \in Daemons /\ command[e].held # d
                            /\ daemon'[command[e].held] = "running"
    BY <1>1, <1>7 DEF HandleSound
  <2>3. d # NoDaemon
    BY DEF NoDaemon, Daemons
  <2>. QED  BY <1>2, <1>4, <1>5, <1>7, <2>1, <2>2, <2>3 DEF HandleSound, At
<1>. QED  BY <1>1, <1>2, <1>4, <1>5, <1>7, <1>8, <1>9 DEF ManagerInv, ManagerTyped

LEMMA StoreStep ==
  ASSUME ManagerInv, NEW c \in Commands, StoreHandle(c)
  PROVE  /\ ManagerInv'
         /\ \A d \in Commands \ {c} : command'[d] = command[d]
         /\ command'[c].step = "idle" /\ handle' = command[c].held
<1>. ManagerTyped /\ LockHeld /\ HandleSound
  BY DEF ManagerInv
<1>1. /\ At(c, "store") /\ handle' = command[c].held /\ command' = [command EXCEPT ![c] = Idle]
      /\ UNCHANGED <<settings, secret, persisted, damaged, connected, lock, daemon, runs, issued, overlapped>>
  BY DEF StoreHandle, End
<1>2. NoDaemon \in Daemons \cup {NoDaemon} /\ "idle" \in Steps /\ "none" \in Kinds /\ 0 \in Versions
  BY DesktopAssumption DEF Steps, Kinds, Versions
<1>3. /\ command' \in [Commands -> Positions]
      /\ \A d \in Commands \ {c} : command'[d] = command[d]
  BY <1>1, <1>2, CommandMoves
<1>4. command'[c].step = "idle"
  BY <1>1 DEF ManagerTyped, Idle
<1>5. /\ command[c].held \in Daemons /\ daemon[command[c].held] = "running"
      /\ \A d \in Commands \ {c} : At(d, "store") => command[d].held # command[c].held
  BY <1>1 DEF HandleSound
<1>6. LockHeld'
  BY <1>1, <1>3, <1>4 DEF LockHeld, At
<1>7. HandleSound'
  BY <1>1, <1>3, <1>4, <1>5 DEF HandleSound, At
<1>. QED  BY <1>1, <1>3, <1>4, <1>5, <1>6, <1>7 DEF ManagerInv, ManagerTyped

LEMMA EndsStep ==
  ASSUME ManagerInv, NEW d \in Daemons, DaemonEnds(d)
  PROVE  ManagerInv'
<1>1. /\ daemon[d] = "aborted" /\ daemon' = [daemon EXCEPT ![d] = "gone"]
      /\ UNCHANGED <<settings, secret, persisted, damaged, connected, handle, lock, runs, command,
                     issued, overlapped>>
  BY DEF DaemonEnds
<1>. QED  BY <1>1 DEF ManagerInv, ManagerTyped, LockHeld, HandleSound, At

LEMMA ManagerStep ==
  ASSUME ManagerInv, [Next]_vars
  PROVE  ManagerInv'
<1>1. CASE UNCHANGED vars
  BY <1>1 DEF vars, ManagerInv, ManagerTyped, LockHeld, HandleSound, At
<1>2. ASSUME NEW c \in Commands, Step(c) PROVE ManagerInv'
  BY <1>2, PlainStep, TakeStep, AwaitStep, SpawnStep, StoreStep DEF Step
<1>. QED  BY <1>1, <1>2, BeginTyped, EndsStep DEF Next

LEMMA ManagerInvariance == Spec => []ManagerInv
<1>1. ManagerInv /\ [Next]_vars => ManagerInv'
  BY ManagerStep
<1>. QED  BY <1>1, ManagerStart, PTL DEF Spec

(* Every variable of the tray application keeps its shape, and the handle's    *)
(* lock is held across an await by one command at most.                      *)
THEOREM DesktopTypeCorrect == Spec => []DesktopTypeOK
<1>1. ASSUME LockHeld PROVE Cardinality(lock) <= 1
  <2>1. lock = {} \/ \E c : lock = {c}
    BY <1>1 DEF LockHeld
  <2>2. Cardinality(lock) = 0 \/ Cardinality(lock) = 1
    BY <2>1, FS_EmptySet, FS_Singleton
  <2>. QED  BY <2>2
<1>2. ManagerInv => DesktopTypeOK
  BY <1>1 DEF ManagerInv, ManagerTyped, LockHeld, DesktopTypeOK, Positions, Steps, Kinds
<1>. QED  BY <1>2, ManagerInvariance, PTL

(* However commands overlap, the handle is that of a daemon that runs, so      *)
(* is_running never reports a dead one.                                      *)
THEOREM HandleIsLive == Spec => []HandleRuns
<1>1. ManagerInv => HandleRuns
  BY DEF ManagerInv, HandleSound, HandleRuns
<1>. QED  BY <1>1, ManagerInvariance, PTL

-----------------------------------------------------------------------------
(* Commands that do not overlap. *)

Alone == ~overlapped => \A c, d \in Commands : ~At(c, "idle") /\ ~At(d, "idle") => c = d

(* Between commands: the handle names the daemon there is, if there is one,    *)
(* which runs with the settings in memory and on disk.                        *)
Named == Alive \subseteq {handle} /\ (connected <=> Alive # {})
Calm == Named /\ persisted = settings /\ \A d \in Alive : runs[d] = settings

(* Within a command, by its position.                                         *)
Where(c) ==
  /\ command[c].step \in {"is_running", "save"} => Calm
  /\ command[c].step = "save" => command[c].kind = "restart" \/ handle = NoDaemon
  /\ command[c].step = "replace" =>
       /\ Named /\ persisted = command[c].version
       /\ command[c].kind = "restart" \/ handle = NoDaemon
  /\ command[c].step = "take" => Named /\ persisted = settings
  /\ command[c].step = "await" =>
       handle = NoDaemon /\ Alive \subseteq {command[c].held} /\ persisted = settings
  /\ command[c].step = "stopped" => handle = NoDaemon /\ Alive = {} /\ persisted = settings
  /\ command[c].step \in {"read", "resolve"} =>
       handle = NoDaemon /\ Alive = {} /\ persisted = settings /\ ~connected
  /\ command[c].step = "resolve" => command[c].version = settings
  /\ command[c].step = "store" =>
       /\ handle = NoDaemon /\ Alive = {command[c].held} /\ persisted = settings
       /\ connected /\ runs[command[c].held] = settings

OneByOne == ~overlapped => (Quiet => Calm) /\ \A c \in Commands : Where(c)

AloneInv == ManagerInv /\ Alone /\ OneByOne

(* A step of the one command in progress: what has to be shown of it.         *)
LEMMA StepOfOne ==
  ASSUME ManagerInv, Alone, ~overlapped, NEW c \in Commands, ~At(c, "idle"),
         \A d \in Commands \ {c} : command'[d] = command[d],
         overlapped' = overlapped, At(c, "idle")' => Calm', Where(c)'
  PROVE  Alone' /\ OneByOne'
<1>1. \A d \in Commands \ {c} : command[d].step = "idle"
  BY DEF Alone, At
<1>2. \A d \in Commands \ {c} : command'[d].step = "idle"
  BY <1>1
<1>3. Alone'
  BY <1>2 DEF Alone, At
<1>4. \A d \in Commands \ {c} : Where(d)'
  BY <1>2 DEF Where
<1>5. Quiet' => Calm'
  BY DEF Quiet, At
<1>. QED  BY <1>3, <1>4, <1>5 DEF OneByOne

LEMMA OneBegins ==
  ASSUME AloneInv, NEW c \in Commands, Start(c) \/ Stop(c) \/ Save(c)
  PROVE  Alone' /\ OneByOne'
<1>. SUFFICES ASSUME ~overlapped' PROVE Alone' /\ OneByOne'
  BY DEF Alone, OneByOne
<1>1. /\ ~overlapped /\ \A d \in Commands : At(d, "idle")
      /\ UNCHANGED <<settings, secret, persisted, connected, handle, lock, daemon, runs>>
  BY DEF Start, Stop, Save, Begin
<1>2. PICK step \in {"take", "is_running"}, kind \in {"start", "stop", "save"} :
        command' = [command EXCEPT ![c] = [Idle EXCEPT !.step = step, !.kind = kind]]
  BY DEF Start, Stop, Save, Begin
<1>3. /\ command'[c].step \in {"take", "is_running"}
      /\ \A d \in Commands \ {c} : command'[d].step = "idle"
  BY <1>1, <1>2 DEF AloneInv, ManagerInv, ManagerTyped, Idle, At
<1>4. Calm
  BY <1>1 DEF AloneInv, OneByOne, Quiet
<1>5. Calm' /\ Named'
  BY <1>1, <1>4 DEF Calm, Named, Alive
<1>6. Alone'
  BY <1>3 DEF Alone, At
<1>7. \A d \in Commands : Where(d)'
  BY <1>3, <1>5 DEF Where, Calm
<1>. QED  BY <1>5, <1>6, <1>7 DEF OneByOne

LEMMA OneGoesOn ==
  ASSUME AloneInv, NEW c \in Commands,
         IsRunning(c) \/ SaveFails(c) \/ Persist(c) \/ Replace(c) \/ Stopped(c) \/ ReadSettings(c)
  PROVE  Alone' /\ OneByOne'
<1>. ManagerInv /\ ManagerTyped /\ Alone /\ OneByOne
  BY DEF AloneInv, ManagerInv
<1>1. /\ ~At(c, "idle") /\ UNCHANGED <<handle, lock, daemon, runs, secret, issued, overlapped>>
      /\ Alive' = Alive
  BY DEF IsRunning, SaveFails, Persist, Replace, Stopped, ReadSettings, At, Alive
<1>. SUFFICES ASSUME ~overlapped PROVE Alone' /\ OneByOne'
  BY <1>1 DEF Alone, OneByOne
<1>2. Where(c)
  BY DEF OneByOne
<1>3. /\ \A d \in Commands \ {c} : command'[d] = command[d]
      /\ command[c] \in Positions
  BY PlainStep DEF ManagerTyped
<1>4. handle = NoDaemon /\ Named => Alive = {}
  BY DEF Named, Alive, NoDaemon, Daemons
<1>5. ASSUME IsRunning(c) PROVE Where(c)' /\ (At(c, "idle")' => Calm')
  <2>1. /\ command[c].step = "is_running" /\ command'[c].step = "save"
        /\ command'[c].kind = "restart" \/ handle = NoDaemon
        /\ UNCHANGED <<settings, persisted, connected>>
    BY <1>5 DEF IsRunning, At, ManagerTyped, Positions
  <2>2. Calm'
    BY <1>1, <1>2, <2>1 DEF Where, Calm, Named
  <2>. QED  BY <1>1, <2>1, <2>2 DEF Where, At
<1>6. ASSUME SaveFails(c) PROVE Where(c)' /\ (At(c, "idle")' => Calm')
  <2>1. /\ command[c].step = "save" /\ command'[c].step = "idle"
        /\ UNCHANGED <<settings, persisted, connected>>
    BY <1>6 DEF SaveFails, At, End, ManagerTyped, Idle
  <2>2. Calm'
    BY <1>1, <1>2, <2>1 DEF Where, Calm, Named
  <2>. QED  BY <2>1, <2>2 DEF Where
<1>7. ASSUME Persist(c) PROVE Where(c)' /\ (At(c, "idle")' => Calm')
  <2>1. /\ command[c].step = "save" /\ command'[c].step = "replace"
        /\ command'[c].kind = command[c].kind /\ command'[c].version = persisted'
        /\ UNCHANGED connected
    BY <1>7 DEF Persist, At, ManagerTyped, Positions
  <2>2. Named'
    BY <1>1, <1>2, <2>1 DEF Where, Calm, Named
  <2>. QED  BY <1>1, <1>2, <2>1, <2>2 DEF Where, At
<1>8. ASSUME Replace(c) PROVE Where(c)' /\ (At(c, "idle")' => Calm')
  <2>1. /\ command[c].step = "replace" /\ settings' = command[c].version
        /\ UNCHANGED <<persisted, connected>>
        /\ \/ command[c].kind = "restart" /\ command'[c].step = "take"
           \/ command[c].kind # "restart" /\ command'[c].step = "idle"
    BY <1>8 DEF Replace, AfterSave, At, End, Goto, ManagerTyped, Positions, Idle
  <2>2. Named' /\ persisted' = settings'
    BY <1>1, <1>2, <2>1 DEF Where, Named
  <2>3. command'[c].step = "idle" => Alive' = {}
    BY <1>1, <1>2, <1>4, <2>1 DEF Where
  <2>4. command'[c].step = "idle" => Calm'
    BY <2>2, <2>3 DEF Calm
  <2>. QED  BY <2>1, <2>2, <2>4 DEF Where, At
<1>9. ASSUME Stopped(c) PROVE Where(c)' /\ (At(c, "idle")' => Calm')
  <2>1. /\ command[c].step = "stopped" /\ command'[c].step \in {"idle", "read"}
        /\ ~connected' /\ UNCHANGED <<persisted, settings>>
    BY <1>9 DEF Stopped, At, End, Goto, ManagerTyped, Positions, Idle
  <2>2. handle' = NoDaemon /\ Alive' = {} /\ persisted' = settings'
    BY <1>1, <1>2, <2>1 DEF Where
  <2>. QED  BY <2>1, <2>2 DEF Where, Calm, Named
<1>10. ASSUME ReadSettings(c) PROVE Where(c)' /\ (At(c, "idle")' => Calm')
  <2>1. /\ command[c].step = "read" /\ UNCHANGED <<persisted, settings, connected>>
        /\ \/ command'[c].step = "idle"
           \/ command'[c].step = "resolve" /\ command'[c].version = settings
    BY <1>10 DEF ReadSettings, At, End, ManagerTyped, Positions, Idle
  <2>2. handle' = NoDaemon /\ Alive' = {} /\ persisted' = settings' /\ ~connected'
    BY <1>1, <1>2, <2>1 DEF Where
  <2>. QED  BY <2>1, <2>2 DEF Where, Calm, Named
<1>11. Where(c)' /\ (At(c, "idle")' => Calm')
  BY <1>5, <1>6, <1>7, <1>8, <1>9, <1>10
<1>. QED  BY <1>1, <1>3, <1>11, StepOfOne

LEMMA OneStops ==
  ASSUME AloneInv, NEW c \in Commands, TakeHandle(c) \/ AwaitEnd(c)
  PROVE  Alone' /\ OneByOne'
<1>. ManagerInv /\ ManagerTyped /\ Alone /\ OneByOne /\ HandleSound
  BY DEF AloneInv, ManagerInv
<1>1. /\ ~At(c, "idle") /\ UNCHANGED <<settings, persisted, connected, runs, overlapped>>
  BY DEF TakeHandle, AwaitEnd, At
<1>. SUFFICES ASSUME ~overlapped PROVE Alone' /\ OneByOne'
  BY <1>1 DEF Alone, OneByOne
<1>2. Where(c)
  BY DEF OneByOne
<1>3. ASSUME TakeHandle(c) PROVE Where(c)' /\ (At(c, "idle")' => Calm')
  <2>1. command[c].step = "take" /\ command'[c].step = "await" /\ command'[c].held = handle
    BY <1>3, TakeStep DEF TakeHandle, At
  <2>2. handle' = NoDaemon /\ Alive' \subseteq Alive
    BY <1>3 DEF TakeHandle, Alive, HandleSound, ManagerTyped
  <2>3. Alive \subseteq {handle} /\ persisted = settings
    BY <1>2, <2>1 DEF Where, Named
  <2>. QED  BY <1>1, <2>1, <2>2, <2>3 DEF Where, At
<1>4. ASSUME AwaitEnd(c) PROVE Where(c)' /\ (At(c, "idle")' => Calm')
  <2>1. /\ command[c].step = "await" /\ command'[c].step = "stopped"
        /\ Ended(command[c].held) /\ UNCHANGED <<handle, daemon>>
    BY <1>4, AwaitStep DEF AwaitEnd, At
  <2>2. handle = NoDaemon /\ Alive \subseteq {command[c].held} /\ persisted = settings
    BY <1>2, <2>1 DEF Where
  <2>3. Alive = {}
    BY <2>1, <2>2 DEF Ended, Alive, NoDaemon, Daemons
  <2>4. Alive' = {}
    BY <2>1, <2>3 DEF Alive
  <2>. QED  BY <1>1, <2>1, <2>2, <2>4 DEF Where, At
<1>5. \A d \in Commands \ {c} : command'[d] = command[d]
  BY TakeStep, AwaitStep
<1>. QED  BY <1>1, <1>3, <1>4, <1>5, StepOfOne

LEMMA OneStarts ==
  ASSUME AloneInv, NEW c \in Commands, Spawn(c) \/ StoreHandle(c)
  PROVE  Alone' /\ OneByOne'
<1>. ManagerInv /\ ManagerTyped /\ Alone /\ OneByOne
  BY DEF AloneInv, ManagerInv
<1>1. /\ ~At(c, "idle") /\ UNCHANGED <<settings, persisted, overlapped>>
  BY DEF Spawn, StoreHandle, At
<1>. SUFFICES ASSUME ~overlapped PROVE Alone' /\ OneByOne'
  BY <1>1 DEF Alone, OneByOne
<1>2. Where(c)
  BY DEF OneByOne
<1>3. ASSUME Spawn(c) PROVE Where(c)' /\ (At(c, "idle")' => Calm')
  <2>1. command[c].step = "resolve" /\ connected' /\ handle' = handle
    BY <1>3 DEF Spawn, At
  <2>2. PICK d \in Daemons :
          /\ daemon[d] = "none" /\ daemon' = [daemon EXCEPT ![d] = "running"]
          /\ runs' = [runs EXCEPT ![d] = command[c].version]
          /\ command'[c].step = "store" /\ command'[c].held = d
    BY <1>3, SpawnStep
  <2>3. /\ handle = NoDaemon /\ Alive = {} /\ persisted = settings
        /\ command[c].version = settings
    BY <1>2, <2>1 DEF Where
  <2>4. Alive' = {d}
    BY <2>2, <2>3 DEF Alive, ManagerTyped
  <2>5. runs'[d] = settings
    BY <2>2, <2>3 DEF ManagerTyped
  <2>. QED  BY <1>1, <2>1, <2>2, <2>3, <2>4, <2>5 DEF Where, At
<1>4. ASSUME StoreHandle(c) PROVE Where(c)' /\ (At(c, "idle")' => Calm')
  <2>1. /\ command[c].step = "store" /\ command'[c].step = "idle" /\ handle' = command[c].held
        /\ UNCHANGED <<connected, daemon, runs>>
    BY <1>4, StoreStep DEF StoreHandle, At
  <2>2. /\ Alive = {command[c].held} /\ persisted = settings
        /\ connected /\ runs[command[c].held] = settings
    BY <1>2, <2>1 DEF Where
  <2>3. Alive' = Alive
    BY <2>1 DEF Alive
  <2>4. Calm'
    BY <1>1, <2>1, <2>2, <2>3 DEF Calm, Named
  <2>. QED  BY <2>1, <2>4 DEF Where
<1>5. \A d \in Commands \ {c} : command'[d] = command[d]
  BY SpawnStep, StoreStep
<1>. QED  BY <1>1, <1>3, <1>4, <1>5, StepOfOne

LEMMA OneDaemonEnds ==
  ASSUME AloneInv, NEW d \in Daemons, DaemonEnds(d)
  PROVE  Alone' /\ OneByOne'
<1>. ManagerTyped /\ Alone /\ OneByOne /\ HandleSound
  BY DEF AloneInv, ManagerInv
<1>1. /\ daemon[d] = "aborted" /\ daemon' = [daemon EXCEPT ![d] = "gone"]
      /\ UNCHANGED <<settings, secret, persisted, connected, handle, lock, runs, command,
                     issued, overlapped>>
  BY DEF DaemonEnds
<1>2. d \in Alive /\ Alive' \subseteq Alive
  BY <1>1 DEF Alive, ManagerTyped
<1>3. d # handle
  BY <1>1 DEF HandleSound, NoDaemon, Daemons
<1>4. ~Named /\ ~Calm
  BY <1>2, <1>3 DEF Named, Calm
<1>5. Alone'
  BY <1>1 DEF Alone, At
<1>6. ASSUME ~overlapped, NEW c \in Commands PROVE Where(c)'
  <2>1. Where(c)
    BY <1>6 DEF OneByOne
  <2>2. command[c].step \notin {"is_running", "save", "replace", "take", "stopped", "read", "resolve"}
    BY <1>2, <1>4, <2>1 DEF Where
  <2>3. command[c].step # "store"
    BY <1>1, <1>2, <2>1 DEF Where, HandleSound, At
  <2>4. command'[c] = command[c]
    BY <1>1
  <2>. QED  BY <1>1, <1>2, <2>1, <2>2, <2>3, <2>4 DEF Where
<1>7. ~overlapped => ~Quiet
  BY <1>4 DEF OneByOne
<1>8. Quiet' <=> Quiet
  BY <1>1 DEF Quiet, At
<1>. QED  BY <1>1, <1>5, <1>6, <1>7, <1>8 DEF OneByOne

LEMMA AloneInvariance == Spec => []AloneInv
<1>1. Init => AloneInv
  <2>. SUFFICES ASSUME Init PROVE Alone /\ OneByOne
    BY ManagerStart DEF AloneInv
  <2>1. \A c \in Commands : command[c].step = "idle"
    BY DEF Init, Idle
  <2>2. Alive = {}
    BY DEF Init, Alive
  <2>3. Calm
    BY <2>2 DEF Init, Calm, Named
  <2>. QED  BY <2>1, <2>3 DEF Alone, OneByOne, Where, At
<1>2. AloneInv /\ [Next]_vars => AloneInv'
  <2>. SUFFICES ASSUME AloneInv, [Next]_vars PROVE Alone' /\ OneByOne'
    BY ManagerStep DEF AloneInv
  <2>1. CASE UNCHANGED vars
    <3>1. /\ UNCHANGED <<settings, persisted, connected, handle, runs, command, overlapped>>
          /\ Alive' = Alive
      BY <2>1 DEF vars, Alive
    <3>2. (Calm' <=> Calm) /\ (Named' <=> Named)
      BY <3>1 DEF Calm, Named
    <3>. QED  BY <3>1, <3>2 DEF AloneInv, Alone, OneByOne, Where, Quiet, At
  <2>2. ASSUME NEW c \in Commands, Step(c) PROVE Alone' /\ OneByOne'
    BY <2>2, OneGoesOn, OneStops, OneStarts DEF Step
  <2>. QED  BY <2>1, <2>2, OneBegins, OneDaemonEnds DEF Next
<1>. QED  BY <1>1, <1>2, PTL DEF Spec

(* As long as commands do not overlap there is one daemon at most, also while  *)
(* the old one is stopped and a new one started.                             *)
THEOREM AtMostOneDaemon == Spec => []OneDaemonAtATime
<1>1. ASSUME AloneInv, ~overlapped PROVE \E d : Alive \subseteq {d}
  <2>1. CASE Quiet
    BY <1>1, <2>1 DEF AloneInv, OneByOne, Calm, Named
  <2>2. ASSUME NEW c \in Commands, ~At(c, "idle") PROVE \E d : Alive \subseteq {d}
    <3>1. Where(c) /\ command[c].step \in Steps \ {"idle"}
      BY <1>1, <2>2 DEF AloneInv, OneByOne, ManagerInv, ManagerTyped, Positions, At
    <3>. QED  BY <3>1 DEF Where, Calm, Named, Steps
  <2>. QED  BY <2>1, <2>2 DEF Quiet
<1>2. ASSUME AloneInv, ~overlapped PROVE Cardinality(Alive) <= 1
  <2>1. Alive = {} \/ \E d : Alive = {d}
    BY <1>1, <1>2
  <2>2. Cardinality(Alive) = 0 \/ Cardinality(Alive) = 1
    BY <2>1, FS_EmptySet, FS_Singleton
  <2>. QED  BY <2>2
<1>3. AloneInv => OneDaemonAtATime
  BY <1>2 DEF OneDaemonAtATime
<1>. QED  BY <1>3, AloneInvariance, PTL

(* After commands that did not overlap the window, the handle, the running     *)
(* daemon's settings, the memory and the disk agree.                         *)
THEOREM WindowTellsTheTruth == Spec => []QuietIsConsistent
<1>1. AloneInv => QuietIsConsistent
  BY DEF AloneInv, OneByOne, Calm, Named, QuietIsConsistent
<1>. QED  BY <1>1, AloneInvariance, PTL

-----------------------------------------------------------------------------
(* Releases. *)

Roles == {"updater", "download"}
Releases == [version : 0..LastVersion, assets : SUBSET Assets]
CallSteps == {"idle", "fetching", "storing", "deciding", "signing", "installing"}

ReleaseTyped ==
  /\ role \in [Callers -> Roles]
  /\ latest \in Version /\ uploaded \in [Version -> SUBSET Assets]
  /\ superseded \in [Version -> 0..Stale] /\ signatures \subseteq Version
  /\ failures \in 0..MaxFailures
  /\ running \in Version /\ installed \in Version
  /\ cache \in [Roles -> [release : Releases, age : 0..Ttl]]
  /\ call \in [Callers -> [step : CallSteps, elapsed : 0..FetchMax, release : Releases]]

(* A release that is held somewhere was at GitHub, with these assets.         *)
Known(release) ==
  release # NoRelease =>
    release.version \in 1..latest /\ release.assets \subseteq uploaded[release.version]

KnownSound ==
  /\ \A kind \in Roles : Known(cache[kind].release)
  /\ \A c \in Callers :
       /\ Known(call[c].release)
       /\ call[c].step \in {"storing", "deciding", "signing", "installing"}
            => call[c].release # NoRelease

(* A release was not superseded before the request that brought it began.      *)
AgeSound ==
  /\ \A v \in Version : v >= latest => superseded[v] = 0
  /\ \A kind \in Roles :
       cache[kind].age < Ttl /\ cache[kind].release # NoRelease =>
         superseded[cache[kind].release.version] <= cache[kind].age + FetchMax
  /\ \A c \in Callers :
       call[c].step = "storing" => superseded[call[c].release.version] <= call[c].elapsed

InstallSound ==
  /\ installed >= running
  /\ \A c \in Callers : call[c].step \in {"signing", "installing"} =>
       role[c] = "updater" /\ call[c].release.version > running

ReleaseInv == ReleaseTyped /\ KnownSound /\ AgeSound /\ InstallSound

LEMMA ReleaseConstants ==
  /\ Ttl \in Nat /\ FetchMax \in Nat /\ LastVersion \in Nat /\ MaxFailures \in Nat
  /\ Version = 1..LastVersion /\ 1 \in Version /\ Stale = Ttl + FetchMax + 1 /\ Stale \in Nat
  /\ NoRelease \in Releases /\ NoRelease.version = 0 /\ NoRelease.assets = {}
BY ReleaseAssumption DEF Version, Stale, NoRelease, NoVersion, Releases

LEMMA ReleaseStart == ReleaseInit => ReleaseInv
<1>. SUFFICES ASSUME ReleaseInit PROVE ReleaseInv
  OBVIOUS
<1>1. /\ Empty \in [release : Releases, age : 0..Ttl] /\ Empty.release = NoRelease
      /\ NoCall \in [step : CallSteps, elapsed : 0..FetchMax, release : Releases]
      /\ NoCall.step = "idle" /\ NoCall.release = NoRelease
  BY ReleaseConstants DEF Empty, NoCall, CallSteps
<1>2. ReleaseTyped
  BY <1>1, ReleaseConstants DEF ReleaseInit, ReleaseTyped, Roles
<1>3. KnownSound
  BY <1>1 DEF ReleaseInit, KnownSound, Known, Roles
<1>4. AgeSound
  BY <1>1, ReleaseConstants DEF ReleaseInit, AgeSound, Roles
<1>5. InstallSound
  BY <1>1 DEF ReleaseInit, InstallSound
<1>. QED  BY <1>2, <1>3, <1>4, <1>5 DEF ReleaseInv

(* GitHub publishes a release or an asset.                                    *)
LEMMA GitHubStep ==
  ASSUME ReleaseInv, Publish \/ \E v \in Version, asset \in Assets : Upload(v, asset)
  PROVE  ReleaseInv'
<1>. ReleaseTyped /\ KnownSound /\ AgeSound /\ InstallSound
  BY DEF ReleaseInv
<1>1. UNCHANGED <<role, superseded, cache, signatures, call, running, installed, failures>>
  BY DEF Publish, Upload
<1> DEFINE Grown == /\ latest' \in Version /\ latest' >= latest
                    /\ latest \in Nat /\ latest' \in Nat
                    /\ uploaded' \in [Version -> SUBSET Assets]
                    /\ \A v \in Version : uploaded[v] \subseteq uploaded'[v]
<1>2. Grown
  <2>1. CASE Publish
    BY <2>1, ReleaseConstants DEF Publish, ReleaseTyped
  <2>2. ASSUME NEW v \in Version, NEW asset \in Assets, Upload(v, asset)
        PROVE  Grown
    BY <2>2, ReleaseConstants DEF Upload, ReleaseTyped
  <2>. QED  BY <2>1, <2>2
<1>3. ReleaseTyped'
  BY <1>1, <1>2 DEF ReleaseTyped
<1>4. ASSUME NEW release \in Releases, Known(release) PROVE release # NoRelease =>
        release.version \in 1..latest' /\ release.assets \subseteq uploaded'[release.version]
  <2>1. release # NoRelease => release.version \in 1..latest /\ release.version \in Version
    BY <1>4, ReleaseConstants DEF Known, Releases
  <2>. QED  BY <1>2, <1>4, <2>1 DEF Known
<1>5. KnownSound'
  <2>1. /\ \A kind \in Roles : cache[kind].release \in Releases
        /\ \A c \in Callers : call[c].release \in Releases
    BY DEF ReleaseTyped
  <2>2. \A kind \in Roles : Known(cache[kind].release)'
    BY <1>1, <1>4, <2>1 DEF KnownSound, Known
  <2>3. \A c \in Callers : Known(call[c].release)'
    BY <1>1, <1>4, <2>1 DEF KnownSound, Known
  <2>. QED  BY <1>1, <2>2, <2>3 DEF KnownSound
<1>6. AgeSound'
  <2>1. \A v \in Version : v >= latest' => v >= latest
    BY <1>2, ReleaseConstants
  <2>. QED  BY <1>1, <2>1 DEF AgeSound
<1>7. InstallSound'
  BY <1>1 DEF InstallSound
<1>. QED  BY <1>3, <1>5, <1>6, <1>7 DEF ReleaseInv

(* A caller moves on to what t says, and may have stored a release.           *)
LEMMA CallerStep ==
  ASSUME ReleaseInv, NEW c \in Callers,
         NEW t \in [step : CallSteps, elapsed : 0..FetchMax, release : Releases],
         call' = [call EXCEPT ![c] = t],
         UNCHANGED <<role, latest, uploaded, superseded, running>>,
         cache' \in [Roles -> [release : Releases, age : 0..Ttl]],
         \A kind \in Roles :
           /\ Known(cache'[kind].release)
           /\ cache'[kind].age < Ttl /\ cache'[kind].release # NoRelease =>
                superseded[cache'[kind].release.version] <= cache'[kind].age + FetchMax,
         signatures' \subseteq Version, failures' \in 0..MaxFailures,
         installed' \in Version, installed' >= running,
         Known(t.release),
         t.step \in {"storing", "deciding", "signing", "installing"} => t.release # NoRelease,
         t.step = "storing" => superseded[t.release.version] <= t.elapsed,
         t.step \in {"signing", "installing"} => role[c] = "updater" /\ t.release.version > running
  PROVE  ReleaseInv'
<1>. ReleaseTyped /\ KnownSound /\ AgeSound /\ InstallSound
  BY DEF ReleaseInv
<1>1. call' \in [Callers -> [step : CallSteps, elapsed : 0..FetchMax, release : Releases]]
  BY DEF ReleaseTyped
<1>2. /\ \A d \in Callers : call'[d] = IF d = c THEN t ELSE call[d]
  BY DEF ReleaseTyped
<1>3. ReleaseTyped'
  BY <1>1 DEF ReleaseTyped
<1>4. KnownSound'
  BY <1>2 DEF KnownSound, Known
<1>5. AgeSound'
  BY <1>2 DEF AgeSound
<1>6. InstallSound'
  BY <1>2 DEF InstallSound
<1>. QED  BY <1>3, <1>4, <1>5, <1>6 DEF ReleaseInv

(* Every entry ages, every request under way takes longer, and every release   *)
(* that is not the newest has been superseded for longer.                    *)
LEMMA TickStep ==
  ASSUME ReleaseInv, Tick
  PROVE  ReleaseInv'
<1>. ReleaseTyped /\ KnownSound /\ AgeSound /\ InstallSound
  BY DEF ReleaseInv
<1>1. UNCHANGED <<role, latest, uploaded, signatures, running, installed, failures>>
  BY DEF Tick
<1>2. DOMAIN cache = Roles
  BY DEF ReleaseTyped
<1>3. \A kind \in Roles :
        /\ cache[kind].age \in 0..Ttl /\ cache[kind].release \in Releases
        /\ cache'[kind] \in [release : Releases, age : 0..Ttl]
        /\ cache'[kind].release = cache[kind].release
        /\ cache[kind].age < Ttl => cache'[kind].age = cache[kind].age + 1
        /\ ~(cache[kind].age < Ttl) => cache'[kind].age = cache[kind].age
  <2>. SUFFICES ASSUME NEW kind \in Roles PROVE <1>3!(kind)
    OBVIOUS
  <2>1. cache[kind] \in [release : Releases, age : 0..Ttl]
    BY DEF ReleaseTyped
  <2>2. cache'[kind] = [cache[kind] EXCEPT !.age = IF @ < Ttl THEN @ + 1 ELSE @]
    BY <1>2 DEF Tick
  <2>. QED  BY <2>1, <2>2, ReleaseConstants
<1>4. \A c \in Callers :
        /\ call[c].elapsed \in 0..FetchMax /\ call[c].release \in Releases
        /\ call'[c] \in [step : CallSteps, elapsed : 0..FetchMax, release : Releases]
        /\ call'[c].step = call[c].step /\ call'[c].release = call[c].release
        /\ call[c].step \in Fetching => call'[c].elapsed = call[c].elapsed + 1
  <2>. SUFFICES ASSUME NEW c \in Callers PROVE <1>4!(c)
    OBVIOUS
  <2>1. call[c] \in [step : CallSteps, elapsed : 0..FetchMax, release : Releases]
    BY DEF ReleaseTyped
  <2>2. call'[c] = IF call[c].step \in Fetching THEN [call[c] EXCEPT !.elapsed = @ + 1] ELSE call[c]
    BY DEF Tick
  <2>3. call[c].step \in Fetching => call[c].elapsed < FetchMax
    BY DEF Tick
  <2>. QED  BY <2>1, <2>2, <2>3, ReleaseConstants
<1>5. ASSUME NEW v \in Version
      PROVE  /\ superseded[v] \in 0..Stale /\ superseded'[v] \in 0..Stale
             /\ superseded'[v] <= superseded[v] + 1
             /\ v >= latest => superseded'[v] = superseded[v]
  BY ReleaseConstants DEF Tick, ReleaseTyped
<1>6. ReleaseTyped'
  <2>1. superseded' \in [Version -> 0..Stale]
    BY <1>5 DEF Tick
  <2>2. cache' \in [Roles -> [release : Releases, age : 0..Ttl]]
    <3>1. \A kind \in Roles : cache'[kind] \in [release : Releases, age : 0..Ttl]
      BY <1>3, ReleaseConstants
    <3>. QED  BY <3>1, <1>2 DEF Tick
  <2>3. call' \in [Callers -> [step : CallSteps, elapsed : 0..FetchMax, release : Releases]]
    <3>1. \A c \in Callers : call'[c] \in [step : CallSteps, elapsed : 0..FetchMax,
                                            release : Releases]
      BY <1>4, ReleaseConstants
    <3>. QED  BY <3>1 DEF Tick
  <2>. QED  BY <1>1, <2>1, <2>2, <2>3 DEF ReleaseTyped
<1>7. KnownSound'
  <2>1. \A kind \in Roles : cache'[kind].release = cache[kind].release
    BY <1>3
  <2>2. \A c \in Callers : call'[c].release = call[c].release /\ call'[c].step = call[c].step
    BY <1>4
  <2>. QED  BY <1>1, <2>1, <2>2 DEF KnownSound, Known
<1>8. AgeSound'
  <2>1. \A v \in Version : v >= latest => superseded'[v] = 0
    BY <1>5 DEF AgeSound
  <2>2. ASSUME NEW release \in Releases, Known(release), release # NoRelease
        PROVE  release.version \in Version
    BY <2>2, ReleaseConstants DEF Known, Releases, ReleaseTyped
  <2>3. ASSUME NEW kind \in Roles, cache'[kind].age < Ttl, cache'[kind].release # NoRelease
        PROVE  superseded'[cache'[kind].release.version] <= cache'[kind].age + FetchMax
    <3>1. /\ cache'[kind].age = cache[kind].age + 1 /\ cache[kind].age < Ttl
          /\ cache'[kind].release = cache[kind].release /\ cache[kind].age \in Nat
      BY <1>3, <2>3, ReleaseConstants
    <3>2. cache[kind].release.version \in Version
      BY <1>3, <2>2, <2>3, <3>1 DEF KnownSound
    <3>3. superseded[cache[kind].release.version] <= cache[kind].age + FetchMax
      BY <2>3, <3>1 DEF AgeSound
    <3>4. /\ superseded[cache[kind].release.version] \in Nat
          /\ superseded'[cache[kind].release.version] \in Nat
          /\ superseded'[cache[kind].release.version] <= superseded[cache[kind].release.version] + 1
      BY <1>5, <3>2, ReleaseConstants
    <3>. QED  BY <3>1, <3>3, <3>4, ReleaseConstants, SMTT(30)
  <2>4. ASSUME NEW c \in Callers, call'[c].step = "storing"
        PROVE  superseded'[call'[c].release.version] <= call'[c].elapsed
    <3>1. call[c].step = "storing" /\ call[c].step \in Fetching
      BY <1>4, <2>4 DEF Fetching
    <3>2. /\ call'[c].elapsed = call[c].elapsed + 1 /\ call'[c].release = call[c].release
          /\ call[c].elapsed \in Nat
      BY <1>4, <3>1, ReleaseConstants
    <3>3. call[c].release # NoRelease /\ Known(call[c].release)
      BY <3>1 DEF KnownSound
    <3>4. call[c].release.version \in Version
      BY <1>4, <2>2, <3>3
    <3>5. superseded[call[c].release.version] <= call[c].elapsed
      BY <3>1 DEF AgeSound
    <3> DEFINE v == call[c].release.version
               old == superseded[v]
               new == superseded'[v]
               elapsed == call[c].elapsed
    <3>6. old \in 0..Stale /\ new \in 0..Stale /\ new <= old + 1
      <4>1. v \in Version
        BY <3>4
      <4> HIDE DEF v
      <4>. QED  BY <1>5, <4>1
    <3>7. new <= elapsed + 1
      <4>1. old \in Nat /\ new \in Nat /\ elapsed \in Nat /\ old <= elapsed /\ new <= old + 1
        <5>1. \A n \in 0..Stale : n \in Nat
          BY ReleaseConstants
        <5>2. old \in Nat /\ new \in Nat /\ new <= old + 1
          BY <3>6, <5>1
        <5>3. elapsed \in Nat /\ old <= elapsed
          BY <3>2, <3>5
        <5>. QED  BY <5>2, <5>3
      <4> HIDE DEF old, new, elapsed
      <4>. QED  BY <4>1
    <3>. QED  BY <3>2, <3>7
  <2>. QED  BY <1>1, <2>1, <2>3, <2>4 DEF AgeSound
<1>9. InstallSound'
  BY <1>1, <1>4 DEF InstallSound
<1>. QED  BY <1>6, <1>7, <1>8, <1>9 DEF ReleaseInv

(* A look at the cache, GitHub's answer, and the entry made of it.            *)
LEMMA LookupStep ==
  ASSUME ReleaseInv, NEW c \in Callers,
         ReadCache(c) \/ GitHubAnswers(c) \/ StoreRelease(c)
  PROVE  ReleaseInv'
<1>. ReleaseTyped /\ KnownSound /\ AgeSound /\ InstallSound
  BY DEF ReleaseInv
<1>0. /\ call \in [Callers -> [step : CallSteps, elapsed : 0..FetchMax, release : Releases]]
      /\ call[c] \in [step : CallSteps, elapsed : 0..FetchMax, release : Releases]
      /\ cache \in [Roles -> [release : Releases, age : 0..Ttl]]
      /\ role[c] \in Roles /\ cache[role[c]] \in [release : Releases, age : 0..Ttl]
      /\ 0 \in 0..FetchMax /\ 0 \in 0..Ttl /\ latest \in Version
      /\ signatures \subseteq Version /\ failures \in 0..MaxFailures
      /\ installed \in Version /\ installed >= running
  BY ReleaseConstants DEF ReleaseTyped, InstallSound
<1>1. /\ {"deciding", "fetching", "storing", "idle"} \subseteq CallSteps
      /\ Known(NoRelease) /\ NoCall \in [step : CallSteps, elapsed : 0..FetchMax,
                                         release : Releases]
      /\ NoCall.step = "idle" /\ NoCall.release = NoRelease
  BY <1>0, ReleaseConstants DEF CallSteps, Known, NoCall
<1>2. \A kind \in Roles :
        /\ Known(cache[kind].release)
        /\ cache[kind].age < Ttl /\ cache[kind].release # NoRelease =>
             superseded[cache[kind].release.version] <= cache[kind].age + FetchMax
  BY DEF KnownSound, AgeSound
<1>3. CASE ReadCache(c)
  <2>1. CASE Fresh(role[c]) /\ Hold(c, "deciding", cache[role[c]].release)
    <3> DEFINE t == [step |-> "deciding", elapsed |-> 0, release |-> cache[role[c]].release]
    <3>1. call' = [call EXCEPT ![c] = t]
      BY <2>1 DEF Hold
    <3>2. /\ t \in [step : CallSteps, elapsed : 0..FetchMax, release : Releases]
          /\ t.step = "deciding" /\ t.release = cache[role[c]].release /\ t.release # NoRelease
      BY <1>0, <1>1, <2>1 DEF Fresh
    <3> HIDE DEF t
    <3>3. Known(t.release)
      BY <1>0, <1>2, <3>2
    <3>. QED  BY <1>0, <1>2, <1>3, <3>1, <3>2, <3>3, CallerStep
              DEF ReadCache, GitHubStays, AppStays
  <2>2. CASE Proceed(c, "fetching")
    <3> DEFINE t == [step |-> "fetching", elapsed |-> 0, release |-> call[c].release]
    <3>1. call' = [call EXCEPT ![c] = t]
      BY <2>2 DEF Proceed, Hold
    <3>2. /\ t \in [step : CallSteps, elapsed : 0..FetchMax, release : Releases]
          /\ t.step = "fetching" /\ t.release = call[c].release
      <4>1. call[c].release \in Releases /\ "fetching" \in CallSteps
        BY <1>0, <1>1
      <4>. QED  BY <1>0, <4>1
    <3> HIDE DEF t
    <3>3. Known(t.release)
      BY <3>2 DEF KnownSound
    <3>. QED  BY <1>0, <1>2, <1>3, <3>1, <3>2, <3>3, CallerStep
              DEF ReadCache, GitHubStays, AppStays
  <2>. QED  BY <1>3, <2>1, <2>2 DEF ReadCache
<1>4. CASE GitHubAnswers(c)
  <2> DEFINE release == [version |-> latest, assets |-> uploaded[latest]]
  <2>1. /\ release \in Releases /\ release.version = latest /\ release # NoRelease
        /\ Known(release) /\ superseded[latest] = 0
    <3>1. latest \in 1..latest /\ latest # 0 /\ latest \in 0..LastVersion /\ latest >= latest
      BY <1>0, ReleaseConstants
    <3>2. uploaded[latest] \in SUBSET Assets
      BY <1>0 DEF ReleaseTyped
    <3>3. superseded[latest] = 0
      BY <1>0, <3>1 DEF AgeSound
    <3>4. release \in Releases /\ release.version = latest /\ release.assets = uploaded[latest]
      BY <3>1, <3>2 DEF Releases
    <3>5. release # NoRelease
      BY <3>1, <3>4, ReleaseConstants
    <3>. QED  BY <3>1, <3>3, <3>4, <3>5 DEF Known
  <2>2. CASE call' = [call EXCEPT ![c] = NoCall]
    BY <1>0, <1>1, <1>2, <1>4, <2>2, CallerStep DEF GitHubAnswers, GitHubStays, AppStays
  <2> DEFINE t == [step |-> "storing", elapsed |-> call[c].elapsed, release |-> release]
  <2>3. CASE call' = [call EXCEPT ![c] = t]
    <3>1. call' = [call EXCEPT ![c] = t]
      BY <2>3
    <3>2. /\ t \in [step : CallSteps, elapsed : 0..FetchMax, release : Releases]
          /\ t.step = "storing" /\ t.release = release /\ t.elapsed = call[c].elapsed
      <4>1. call[c].elapsed \in 0..FetchMax /\ "storing" \in CallSteps
        BY <1>0, <1>1
      <4> HIDE DEF release
      <4>. QED  BY <2>1, <4>1
    <3> HIDE DEF t
    <3>3. superseded[t.release.version] <= t.elapsed
      BY <1>0, <2>1, <3>2, ReleaseConstants
    <3>4. Known(t.release) /\ t.release # NoRelease
      BY <2>1, <3>2
    <3>. QED  BY <1>0, <1>2, <1>4, <3>1, <3>2, <3>3, <3>4, CallerStep
              DEF GitHubAnswers, GitHubStays, AppStays
  <2>. QED  BY <1>4, <2>2, <2>3 DEF GitHubAnswers
<1>5. CASE StoreRelease(c)
  <2> DEFINE t == [step |-> "deciding", elapsed |-> 0, release |-> call[c].release]
             entry == [release |-> call[c].release, age |-> 0]
  <2>1. /\ call' = [call EXCEPT ![c] = t] /\ cache' = [cache EXCEPT ![role[c]] = entry]
        /\ call[c].step = "storing"
    BY <1>0, <1>5 DEF StoreRelease, Proceed, Hold
  <2>2. /\ t \in [step : CallSteps, elapsed : 0..FetchMax, release : Releases]
        /\ t.step = "deciding" /\ t.release = call[c].release
        /\ entry \in [release : Releases, age : 0..Ttl]
        /\ entry.release = call[c].release /\ entry.age = 0
    <3>1. call[c].release \in Releases /\ "deciding" \in CallSteps
      BY <1>0, <1>1
    <3>. QED  BY <1>0, <3>1
  <2> HIDE DEF t, entry
  <2>3. Known(call[c].release) /\ call[c].release # NoRelease
    BY <2>1 DEF KnownSound
  <2>4. superseded[call[c].release.version] <= entry.age + FetchMax
    <3>1. superseded[call[c].release.version] <= call[c].elapsed
      BY <2>1 DEF AgeSound
    <3>2. call[c].release.version \in Version
      BY <1>0, <2>3, ReleaseConstants DEF Known, Releases
    <3>3. superseded[call[c].release.version] \in Nat
      BY <3>2, ReleaseConstants DEF ReleaseTyped
    <3>. QED  BY <1>0, <2>2, <3>1, <3>3, ReleaseConstants
  <2>5. cache' \in [Roles -> [release : Releases, age : 0..Ttl]]
    BY <1>0, <2>1, <2>2
  <2>6. \A kind \in Roles : cache'[kind] = entry \/ cache'[kind] = cache[kind]
    BY <1>0, <2>1
  <2>7. \A kind \in Roles :
          /\ Known(cache'[kind].release)
          /\ cache'[kind].age < Ttl /\ cache'[kind].release # NoRelease =>
               superseded[cache'[kind].release.version] <= cache'[kind].age + FetchMax
    BY <1>2, <2>2, <2>3, <2>4, <2>6
  <2>. QED  BY <1>0, <1>5, <2>1, <2>2, <2>3, <2>5, <2>7, CallerStep
            DEF StoreRelease, GitHubStays, AppStays
<1>. QED  BY <1>3, <1>4, <1>5

(* What a caller does with the release it was answered, and a request that     *)
(* fails.                                                                    *)
LEMMA AnsweredStep ==
  ASSUME ReleaseInv, NEW c \in Callers,
         \/ Redirect(c) \/ NothingToInstall(c) \/ FindSignature(c) \/ SignatureFetched(c)
         \/ Install(c) \/ FetchFails(c) \/ Decline(c)
  PROVE  ReleaseInv'
<1>. ReleaseTyped /\ KnownSound /\ AgeSound /\ InstallSound
  BY DEF ReleaseInv
<1> DEFINE going(step) == [step |-> step, elapsed |-> 0, release |-> call[c].release]
<1>1. /\ call[c] \in [step : CallSteps, elapsed : 0..FetchMax, release : Releases]
      /\ cache \in [Roles -> [release : Releases, age : 0..Ttl]]
      /\ {"signing", "installing"} \subseteq CallSteps /\ "idle" \in CallSteps
      /\ Known(NoRelease) /\ NoCall.step = "idle" /\ NoCall.release = NoRelease
      /\ NoCall \in [step : CallSteps, elapsed : 0..FetchMax, release : Releases]
  <2>1. 0 \in 0..FetchMax
    BY ReleaseConstants
  <2>. QED  BY <2>1, ReleaseConstants DEF CallSteps, Known, NoCall, ReleaseTyped
<1>2. \A kind \in Roles :
        /\ Known(cache[kind].release)
        /\ cache[kind].age < Ttl /\ cache[kind].release # NoRelease =>
             superseded[cache[kind].release.version] <= cache[kind].age + FetchMax
  BY DEF KnownSound, AgeSound
<1>3. /\ signatures \subseteq Version /\ failures \in 0..MaxFailures
      /\ installed \in Version /\ installed >= running
  BY DEF ReleaseTyped, InstallSound
<1>4. /\ UNCHANGED <<role, latest, uploaded, superseded, running, cache>>
      /\ failures' \in 0..MaxFailures
  <2>1. failures < MaxFailures /\ failures' = failures + 1 => failures' \in 0..MaxFailures
    BY <1>3, ReleaseConstants
  <2>. QED  BY <1>3, <2>1 DEF Redirect, NothingToInstall, FindSignature, SignatureFetched, Install,
                           FetchFails, Decline, GitHubStays, AppStays, RequestFails
<1>5. CASE Hangup(c) /\ UNCHANGED <<installed, signatures>>
  BY <1>1, <1>2, <1>3, <1>4, <1>5, CallerStep DEF Hangup
<1>6. CASE Install(c)
  <2>1. call[c].step = "installing"
    BY <1>6 DEF Install
  <2>2. call[c].release # NoRelease /\ Known(call[c].release) /\ call[c].release.version > running
    BY <2>1 DEF KnownSound, InstallSound
  <2>3. installed' = call[c].release.version /\ Hangup(c) /\ UNCHANGED signatures
    BY <1>6 DEF Install
  <2>4. installed' \in Version /\ installed' >= running
    BY <2>2, <2>3, ReleaseConstants DEF Known, ReleaseTyped
  <2>. QED  BY <1>1, <1>2, <1>3, <1>4, <2>3, <2>4, CallerStep DEF Hangup
<1>7. ASSUME NEW step \in {"signing", "installing"}, Proceed(c, step), UNCHANGED installed,
             signatures' \subseteq Version,
             call[c].release # NoRelease, role[c] = "updater", call[c].release.version > running
      PROVE  ReleaseInv'
  <2>1. call' = [call EXCEPT ![c] = going(step)]
    BY <1>7 DEF Proceed, Hold
  <2>2. /\ going(step) \in [step : CallSteps, elapsed : 0..FetchMax, release : Releases]
        /\ going(step).step = step /\ going(step).release = call[c].release
    <3>1. step \in CallSteps /\ call[c].release \in Releases /\ 0 \in 0..FetchMax
      BY <1>1, <1>7, ReleaseConstants
    <3>. QED  BY <3>1
  <2>3. Known(call[c].release)
    BY DEF KnownSound
  <2>4. step # "storing"
    BY <1>7
  <2> HIDE DEF going
  <2>. QED  BY <1>2, <1>3, <1>4, <1>7, <1>1, <2>1, <2>2, <2>3, <2>4, CallerStep
<1>8. CASE FindSignature(c)
  <2>1. /\ call[c].release # NoRelease /\ role[c] = "updater" /\ call[c].release.version > running
        /\ UNCHANGED <<installed, signatures>>
    BY <1>8 DEF FindSignature, KnownSound, IsNewer, AppStays
  <2>2. \E step \in {"signing", "installing"} : Proceed(c, step)
    BY <1>8 DEF FindSignature
  <2>. QED  BY <1>3, <1>7, <2>1, <2>2
<1>9. CASE SignatureFetched(c)
  <2>1. call[c].step = "signing" /\ Proceed(c, "installing") /\ UNCHANGED installed
        /\ signatures' = signatures \cup {call[c].release.version}
    BY <1>9 DEF SignatureFetched, AppStays
  <2>2. /\ call[c].release # NoRelease /\ Known(call[c].release)
        /\ role[c] = "updater" /\ call[c].release.version > running
    BY <2>1 DEF KnownSound, InstallSound
  <2>3. signatures' \subseteq Version
    <3>1. call[c].release.version \in 1..latest /\ latest \in Version
      BY <2>2 DEF Known, ReleaseTyped
    <3>2. call[c].release.version \in Version
      BY <3>1, ReleaseConstants
    <3>. QED  BY <1>3, <2>1, <3>2
  <2>. QED  BY <1>7, <2>1, <2>2, <2>3
<1>. QED  BY <1>5, <1>6, <1>8, <1>9 DEF Redirect, NothingToInstall, FetchFails, Decline,
                                      GitHubStays, AppStays, RequestFails

(* The application starts again with the version it installed, and what it was *)
(* asking is forgotten.                                                      *)
LEMMA RestartStep ==
  ASSUME ReleaseInv, Restart
  PROVE  ReleaseInv'
<1>. ReleaseTyped /\ KnownSound /\ AgeSound /\ InstallSound
  BY DEF ReleaseInv
<1>1. /\ UNCHANGED <<role, latest, uploaded, superseded, cache, signatures, installed, failures>>
      /\ running' = installed
  BY DEF Restart, GitHubStays
<1>2. /\ NoCall \in [step : CallSteps, elapsed : 0..FetchMax, release : Releases]
      /\ NoCall.step = "idle" /\ NoCall.release = NoRelease
  <2>1. 0 \in 0..FetchMax /\ "idle" \in CallSteps
    BY ReleaseConstants DEF CallSteps
  <2>. QED  BY <2>1, ReleaseConstants DEF NoCall
<1>3. \A c \in Callers :
        \/ call'[c] = NoCall
        \/ call'[c] = call[c] /\ role[c] # "updater"
  BY DEF Restart
<1>4. ReleaseTyped'
  <2>1. call' \in [Callers -> [step : CallSteps, elapsed : 0..FetchMax, release : Releases]]
    BY <1>2 DEF Restart, ReleaseTyped
  <2>. QED  BY <1>1, <2>1 DEF ReleaseTyped
<1>5. KnownSound'
  BY <1>1, <1>2, <1>3 DEF KnownSound, Known
<1>6. AgeSound'
  BY <1>1, <1>2, <1>3 DEF AgeSound
<1>7. InstallSound'
  <2>1. installed' >= running'
    BY <1>1, ReleaseConstants DEF ReleaseTyped
  <2>. QED  BY <1>1, <1>2, <1>3, <2>1 DEF InstallSound
<1>. QED  BY <1>4, <1>5, <1>6, <1>7 DEF ReleaseInv

LEMMA ReleaseInvariance == ReleaseSpec => []ReleaseInv
<1>1. ASSUME ReleaseInv, ReleaseNext PROVE ReleaseInv'
  BY <1>1, GitHubStep, TickStep, LookupStep, AnsweredStep, RestartStep DEF ReleaseNext, Lookup
<1>2. ASSUME ReleaseInv, UNCHANGED releaseVars PROVE ReleaseInv'
  BY <1>2 DEF releaseVars, ReleaseInv, ReleaseTyped, KnownSound, Known, AgeSound, InstallSound
<1>. QED  BY <1>1, <1>2, ReleaseStart, PTL DEF ReleaseSpec

(* What a cache or a lookup holds of a release was there at GitHub.           *)
THEOREM ReleaseTypeCorrect == ReleaseSpec => []ReleaseTypeOK
<1>1. ReleaseInv => ReleaseTypeOK
  <2>. SUFFICES ASSUME ReleaseInv PROVE ReleaseTypeOK
    OBVIOUS
  <2>1. ReleaseTyped /\ KnownSound
    BY DEF ReleaseInv
  <2>2. latest \in Version /\ DOMAIN cache = Roles
    BY <2>1 DEF ReleaseTyped
  <2>3. \A release \in Releases : Known(release) => release.version \in 0..latest
    BY <2>2, ReleaseConstants DEF Known, Releases
  <2>4. ASSUME NEW kind \in Roles
        PROVE  /\ cache[kind].release.version \in 0..latest /\ cache[kind].age \in 0..Ttl
               /\ cache[kind].release # NoRelease =>
                    cache[kind].release.assets \subseteq uploaded[cache[kind].release.version]
    <3>1. cache[kind].release \in Releases /\ cache[kind].age \in 0..Ttl
      BY <2>1 DEF ReleaseTyped
    <3>2. Known(cache[kind].release)
      BY <2>1 DEF KnownSound
    <3>. QED  BY <2>3, <3>1, <3>2 DEF Known
  <2>5. ASSUME NEW c \in Callers
        PROVE  /\ call[c].step \in CallSteps
               /\ call[c].elapsed \in 0..FetchMax /\ call[c].release.version \in 0..latest
    <3>1. /\ call[c].release \in Releases /\ call[c].elapsed \in 0..FetchMax
          /\ call[c].step \in CallSteps
      BY <2>1 DEF ReleaseTyped
    <3>2. Known(call[c].release)
      BY <2>1 DEF KnownSound
    <3>. QED  BY <2>3, <3>1, <3>2
  <2>. QED  BY <2>1, <2>2, <2>4, <2>5 DEF ReleaseTypeOK, ReleaseTyped, CallSteps
<1>. QED  BY <1>1, ReleaseInvariance, PTL

(* A cache never answers with a release superseded longer ago than its         *)
(* lifetime and one request to GitHub, however lookups overlap.              *)
THEOREM StalenessIsBounded == ReleaseSpec => []BoundedStaleness
<1>1. ReleaseInv => BoundedStaleness
  <2>. SUFFICES ASSUME ReleaseInv, NEW kind \in DOMAIN cache, Fresh(kind)
                PROVE  superseded[cache[kind].release.version] < Ttl + FetchMax
    BY DEF BoundedStaleness
  <2>1. ReleaseTyped /\ KnownSound /\ AgeSound
    BY DEF ReleaseInv
  <2>2. /\ kind \in Roles /\ cache[kind].release \in Releases /\ cache[kind].age \in Nat
        /\ cache[kind].age < Ttl /\ cache[kind].release # NoRelease
    BY <2>1, ReleaseConstants DEF ReleaseTyped, Fresh
  <2>3. superseded[cache[kind].release.version] <= cache[kind].age + FetchMax
    BY <2>1, <2>2 DEF AgeSound
  <2>4. cache[kind].release.version \in Version
    BY <2>1, <2>2, ReleaseConstants DEF KnownSound, Known, ReleaseTyped
  <2>5. superseded[cache[kind].release.version] \in Nat
    BY <2>1, <2>4, ReleaseConstants DEF ReleaseTyped
  <2>. QED  BY <2>2, <2>3, <2>5, ReleaseConstants
<1>. QED  BY <1>1, ReleaseInvariance, PTL

(* The version that runs never goes back, although the version a cache holds   *)
(* may, and several checks of one application may overlap.                   *)
THEOREM RunningOnlyAdvances == ReleaseSpec => NeverDowngrades
<1>1. ReleaseInv /\ [ReleaseNext]_releaseVars => [running' >= running]_releaseVars
  <2>. SUFFICES ASSUME ReleaseInv, ReleaseNext PROVE running' >= running
    OBVIOUS
  <2>1. running \in Nat /\ installed >= running
    BY ReleaseConstants DEF ReleaseInv, ReleaseTyped, InstallSound
  <2>2. running' = running \/ running' = installed
    BY DEF ReleaseNext, Publish, Upload, Tick, Restart, Lookup, ReadCache, GitHubAnswers,
           StoreRelease, Redirect, NothingToInstall, FindSignature, SignatureFetched, Install,
           FetchFails, Decline, AppStays, RequestFails
  <2>. QED  BY <2>1, <2>2
<1>. QED  BY <1>1, ReleaseInvariance, PTL DEF ReleaseSpec, NeverDowngrades

-----------------------------------------------------------------------------
(* The launch of a worker.                                                     *)

ProcessStates == {"off", "resolving", "backoff", "connected", "refreshing", "exited"}

(* What the process offers comes from the list in force or from the backend,   *)
(* and only a process with a link is in the registry.                         *)
LaunchTyped ==
  /\ input \in Inputs /\ process \in ProcessStates
  /\ resolved \subseteq listed
  /\ registered = [models |-> registered.models, warnings |-> registered.warnings]
  /\ process \notin {"connected", "refreshing"} => registered.models = {}

ConfigSound ==
  process \notin {"off", "exited"} =>
    /\ resolved # {} => config.models = resolved
    /\ resolved = {} => config.models = Resolved.models

LaunchInv == LaunchTyped /\ ConfigSound /\ OffersWhatItHas

(* A longer list offers no less.                                               *)
LEMMA CleanGrows ==
  ASSUME NEW S, NEW T, S \subseteq T
  PROVE  Clean(S) \subseteq Clean(T)
BY DEF Clean

(* str::trim has nothing left to do the second time.                           *)
LEMMA CleanTwice ==
  ASSUME NEW S \in SUBSET Spellings
  PROVE  Clean(Clean(S)) = Clean(S)
<1>1. \A y \in Clean(S) : Spelled[y] = y /\ y # ""
  BY LaunchAssumption DEF Clean
<1>. QED  BY <1>1 DEF Clean

(* The first source that gives a list decides.                                 *)
LEMMA OverGives ==
  ASSUME NEW f, NEW g
  PROVE  /\ DOMAIN Over(f, g) = DOMAIN f \cup DOMAIN g
         /\ "models" \in DOMAIN f => Over(f, g).models = f.models
         /\ "models" \in DOMAIN g /\ "models" \notin DOMAIN f => Over(f, g).models = g.models
<1>1. /\ "models" \in DOMAIN f => Over(f, g)["models"] = f["models"]
      /\ "models" \in DOMAIN g /\ "models" \notin DOMAIN f => Over(f, g)["models"] = g["models"]
  BY DEF Over
<1>. QED  BY <1>1 DEF Over

(* What main makes of the sources is the list in force.                        *)
LEMMA ResolvedIsInForce ==
  ASSUME input \in Inputs
  PROVE  Clean(Resolved.models) = Clean(InForce)
<1> DEFINE flags == input.flags  env == input.env  file == input.file  m == "models"
<1>1. \A source \in {flags, env, file} : m \in DOMAIN source => source.models \in SUBSET Spellings
  BY LaunchAssumption
<1>2. m \in Lists /\ m \in DOMAIN Default /\ Default.models = {"default"}
  BY DEF Lists, Settings, Default
<1>3. DOMAIN SplitArguments = DOMAIN flags \cup DOMAIN env
  BY OverGives DEF SplitArguments, Arguments
<1>4. m \in DOMAIN SplitArguments => SplitArguments.models = Clean(Arguments.models)
  <2>1. DOMAIN SplitArguments = DOMAIN Arguments
    BY DEF SplitArguments
  <2>2. \A s \in DOMAIN Arguments : s \in Lists => SplitArguments[s] = Clean(Arguments[s])
    BY DEF SplitArguments
  <2>. QED  BY <1>2, <2>1, <2>2
<1>5. /\ m \in DOMAIN flags => Arguments.models = flags.models
      /\ m \in DOMAIN env /\ m \notin DOMAIN flags => Arguments.models = env.models
  BY OverGives DEF Arguments
<1>6. /\ m \in DOMAIN SplitArguments => Resolved.models = SplitArguments.models
      /\ m \notin DOMAIN SplitArguments /\ m \in DOMAIN file => Resolved.models = file.models
      /\ m \notin DOMAIN SplitArguments /\ m \notin DOMAIN file => Resolved.models = {"default"}
  <2> DEFINE split == SplitArguments  rest == Over(file, Default)
  <2>1. Resolved = Over(split, rest)
    BY DEF Resolved
  <2>2. m \in DOMAIN file => rest.models = file.models
    BY OverGives
  <2>3. m \notin DOMAIN file => rest.models = {"default"}
    BY <1>2, OverGives
  <2>4. m \in DOMAIN rest
    BY <1>2, OverGives
  <2> HIDE DEF split, rest
  <2>5. /\ m \in DOMAIN split => Over(split, rest).models = split.models
        /\ m \notin DOMAIN split => Over(split, rest).models = rest.models
    BY <2>4, OverGives
  <2>. QED  BY <2>1, <2>2, <2>3, <2>5 DEF split
<1>7. CASE m \in DOMAIN flags
  <2>1. Resolved.models = Clean(flags.models) /\ InForce = flags.models
    BY <1>3, <1>4, <1>5, <1>6, <1>7 DEF InForce, Silent, Listing
  <2>. QED  BY <1>1, <1>7, <2>1, CleanTwice
<1>8. CASE m \notin DOMAIN flags /\ m \in DOMAIN env
  <2>1. Resolved.models = Clean(env.models) /\ InForce = env.models
    BY <1>3, <1>4, <1>5, <1>6, <1>8 DEF InForce, Silent, Listing
  <2>. QED  BY <1>1, <1>8, <2>1, CleanTwice
<1>9. CASE m \notin DOMAIN flags /\ m \notin DOMAIN env /\ m \in DOMAIN file
  BY <1>3, <1>6, <1>9 DEF InForce, Silent, Listing
<1>10. CASE m \notin DOMAIN flags /\ m \notin DOMAIN env /\ m \notin DOMAIN file
  BY <1>3, <1>6, <1>10 DEF InForce, Silent, Listing
<1>. QED  BY <1>7, <1>8, <1>9, <1>10

(* A worker that is not registered offers nothing.                             *)
LEMMA NothingOffered ==
  ASSUME registered.models = {}
  PROVE  OffersWhatItHas
BY DEF OffersWhatItHas

(* Before the first process starts nothing is registered.                      *)
LEMMA LaunchStart == LaunchInit => LaunchInv
<1>. SUFFICES ASSUME LaunchInit PROVE LaunchInv
  OBVIOUS
<1>1. registered.models = {}
  BY DEF LaunchInit, NotRegistered
<1>. QED  BY <1>1, NothingOffered
          DEF LaunchInit, LaunchInv, LaunchTyped, ConfigSound, ProcessStates, NotRegistered

(* main and resolve_wildcard_models run before there is a link; the end of a *)
(* session and of the process leave nothing registered.                      *)
LEMMA UnregisteredKeeps ==
  ASSUME LaunchInv,
         ReadConfig \/ WildcardResolved \/ WildcardKept \/ SessionEnds \/ ShutdownSignal
  PROVE  LaunchInv'
<1>1. /\ input' = input /\ process' \in {"resolving", "backoff", "exited"}
      /\ registered' = registered \/ registered' = NotRegistered
  BY DEF ReadConfig, WildcardResolved, WildcardKept, SessionEnds, ShutdownSignal
<1>2. registered'.models = {}
      /\ registered' = [models |-> registered'.models, warnings |-> registered'.warnings]
  <2>1. NotRegistered.models = {}
        /\ NotRegistered = [models |-> NotRegistered.models, warnings |-> NotRegistered.warnings]
    BY DEF NotRegistered
  <2>2. registered' # NotRegistered => process \in {"off", "exited", "resolving"}
    BY DEF ReadConfig, WildcardResolved, WildcardKept, SessionEnds, ShutdownSignal
  <2>. QED  BY <1>1, <2>1, <2>2 DEF LaunchInv, LaunchTyped
<1>3. LaunchTyped'
  <2>1. resolved' \subseteq listed'
    BY DEF LaunchInv, LaunchTyped, ReadConfig, WildcardResolved, WildcardKept, SessionEnds,
           ShutdownSignal
  <2>. QED  BY <1>1, <1>2, <2>1 DEF LaunchInv, LaunchTyped, ProcessStates
<1>4. Resolved' = Resolved
  BY <1>1 DEF Resolved, SplitArguments, Arguments
<1>5. ConfigSound'
  <2>1. CASE ReadConfig
    BY <1>4, <2>1 DEF ReadConfig, ConfigSound
  <2>2. CASE WildcardResolved
    <3>1. resolved' = backend /\ backend # {} /\ config' = [config EXCEPT !.models = backend]
      BY <2>2 DEF WildcardResolved, InsteadOfWildcard
    <3>. QED  BY <3>1 DEF ConfigSound
  <2>3. CASE WildcardKept \/ SessionEnds \/ ShutdownSignal
    BY <1>4, <2>3 DEF LaunchInv, ConfigSound, WildcardKept, SessionEnds, ShutdownSignal
  <2>. QED  BY <2>1, <2>2, <2>3
<1>6. OffersWhatItHas'
  BY <1>2 DEF OffersWhatItHas
<1>. QED  BY <1>3, <1>5, <1>6 DEF LaunchInv

(* A registration offers the list in force or what was found instead of its    *)
(* wildcard.                                                                 *)
LEMMA RegisterKeeps ==
  ASSUME LaunchInv, Register
  PROVE  LaunchInv'
<1>1. /\ UNCHANGED <<input, config, resolved, listed>> /\ process = "backoff"
      /\ process' = "connected"
      /\ registered' = [models |-> Clean(config.models),
                        warnings |-> registration_warnings(Clean(config.models))]
  BY DEF Register
<1>2. registered'.models = Clean(config.models)
      /\ registered' = [models |-> registered'.models, warnings |-> registered'.warnings]
  BY <1>1
<1>3. Resolved' = Resolved /\ InForce' = InForce
  BY <1>1 DEF Resolved, SplitArguments, Arguments, InForce
<1>4. LaunchTyped' /\ ConfigSound'
  BY <1>1, <1>2, <1>3 DEF LaunchInv, LaunchTyped, ConfigSound, ProcessStates
<1>5. OffersWhatItHas'
  <2>1. CASE resolved = {}
    <3>1. Clean(config.models) = Clean(InForce)
      BY <1>1, <2>1, ResolvedIsInForce DEF LaunchInv, LaunchTyped, ConfigSound
    <3>2. Clean(InForce) \subseteq Clean(InForce \cup listed)
      BY CleanGrows
    <3>. QED  BY <1>1, <1>2, <1>3, <2>1, <3>1, <3>2 DEF OffersWhatItHas
  <2>2. CASE resolved # {}
    <3>1. config.models = resolved /\ resolved \subseteq listed
      BY <1>1, <2>2 DEF LaunchInv, LaunchTyped, ConfigSound
    <3>2. Clean(resolved) \subseteq Clean(listed) /\ Clean(resolved) \subseteq Clean(InForce \cup listed)
      BY <3>1, CleanGrows
    <3>. QED  BY <1>1, <1>2, <1>3, <3>1, <3>2 DEF OffersWhatItHas
  <2>. QED  BY <2>1, <2>2
<1>. QED  BY <1>4, <1>5 DEF LaunchInv

(* A refresh offers what the backend lists now.                                *)
LEMMA RefreshKeeps ==
  ASSUME LaunchInv, RefreshAnswered
  PROVE  LaunchInv'
<1>1. /\ UNCHANGED <<input, config, resolved>> /\ process = "refreshing"
      /\ process' = "connected" /\ listed' = listed \cup backend
      /\ registered' = [registered EXCEPT !.models = Clean(backend)]
  BY DEF RefreshAnswered
<1>2. registered'.models = Clean(backend)
      /\ registered' = [models |-> registered'.models, warnings |-> registered'.warnings]
  <2>1. registered = [models |-> registered.models, warnings |-> registered.warnings]
    BY DEF LaunchInv, LaunchTyped
  <2> DEFINE models == registered.models  warnings == registered.warnings  found == Clean(backend)
  <2>2. registered' = [[models |-> models, warnings |-> warnings] EXCEPT !.models = found]
    BY <1>1, <2>1
  <2> HIDE DEF models, warnings, found
  <2>3. registered' = [models |-> found, warnings |-> warnings]
    BY <2>2
  <2>4. registered'.models = found /\ registered'.warnings = warnings
    BY <2>3
  <2>. QED  BY <2>3, <2>4 DEF found
<1>3. Resolved' = Resolved /\ InForce' = InForce
  BY <1>1 DEF Resolved, SplitArguments, Arguments, InForce
<1>4. LaunchTyped' /\ ConfigSound'
  BY <1>1, <1>2, <1>3 DEF LaunchInv, LaunchTyped, ConfigSound, ProcessStates
<1>5. Clean(backend) \subseteq Clean(listed') /\ Clean(backend) \subseteq Clean(InForce \cup listed')
  <2>1. backend \subseteq listed' /\ backend \subseteq InForce \cup listed'
    BY <1>1
  <2>. QED  BY <2>1, CleanGrows
<1>6. OffersWhatItHas'
  BY <1>2, <1>3, <1>5 DEF OffersWhatItHas
<1>. QED  BY <1>4, <1>6 DEF LaunchInv

(* So the registry never offers more.                                          *)
LEMMA LaunchInvariance == LaunchSpec => []LaunchInv
<1>1. ASSUME LaunchInv, LaunchNext PROVE LaunchInv'
  <2>1. CASE RefreshAsked \/ BackendChanges
    <3>1. /\ UNCHANGED <<input, config, registered, resolved, listed>>
          /\ process' # process => process = "connected" /\ process' = "refreshing"
      BY <2>1 DEF RefreshAsked, BackendChanges
    <3>2. Resolved' = Resolved /\ InForce' = InForce
      BY <3>1 DEF Resolved, SplitArguments, Arguments, InForce
    <3>3. LaunchTyped' /\ ConfigSound'
      BY <1>1, <3>1, <3>2 DEF LaunchInv, LaunchTyped, ConfigSound, ProcessStates
    <3>4. OffersWhatItHas'
      BY <1>1, <3>1, <3>2 DEF LaunchInv, OffersWhatItHas
    <3>. QED  BY <3>3, <3>4 DEF LaunchInv
  <2>. QED  BY <1>1, <2>1, UnregisteredKeeps, RegisterKeeps, RefreshKeeps DEF LaunchNext
<1>2. ASSUME LaunchInv, UNCHANGED launchVars PROVE LaunchInv'
  <2>1. UNCHANGED <<input, process, config, registered, resolved, listed>>
    BY <1>2 DEF launchVars
  <2>2. Resolved' = Resolved /\ InForce' = InForce
    BY <2>1 DEF Resolved, SplitArguments, Arguments, InForce
  <2>. QED  BY <1>2, <2>1, <2>2 DEF LaunchInv, LaunchTyped, ConfigSound, OffersWhatItHas
<1>. QED  BY <1>1, <1>2, LaunchStart, PTL DEF LaunchSpec

(* Over reconnections and refreshes, a worker's name offers only models that   *)
(* the list in force names or the backend listed to the process, and the      *)
(* wildcard only when the list in force has one the launch found no models    *)
(* for, or the backend lists it.                                             *)
THEOREM WorkersOfferWhatTheyHave == LaunchSpec => []OffersWhatItHas
BY LaunchInvariance, PTL DEF LaunchInv
=============================================================================
