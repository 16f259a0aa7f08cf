------------------------------ MODULE WorkerAuth ------------------------------
(***************************************************************************)
(* authenticate_connection of worker_socket.rs: what happens to a worker's   *)
(* connection before it may register, with the limiter of failed attempts    *)
(* and the key table of ApiKeyStore.                                        *)
(*                                                                          *)
(* The limiter's record is locked by each of its three functions and by      *)
(* nothing in between: an attempt reads the clock, waits for the record,      *)
(* releases it, waits for the key table, reads the clock and waits for the   *)
(* record again.  One client identity is modelled; the record has an entry   *)
(* for each, and they do not touch.  The limiter and the attempts are the     *)
(* memory of one server process, Server, and end with it.                    *)
(***************************************************************************)
EXTENDS ApiKeyStore, Integers

CONSTANTS
  Server,       \* the replica the client connects to
  Attempts,     \* connections of the client in progress at once
  Threshold,    \* AUTH_FAILURE_THRESHOLD
  Cooldown,     \* AUTH_RATE_LIMIT_COOLDOWN
  MaxTime,      \* bound: the clock
  MaxConnects   \* bound: connections

ASSUME AuthAssumption ==
  /\ Server \in Replicas
  /\ IsFiniteSet(Attempts)
  /\ Threshold \in Nat \ {0} /\ Cooldown \in Nat \ {0}
  /\ MaxTime \in Nat /\ MaxConnects \in Nat

VARIABLES
  now,       \* Instant::now()
  entry,     \* failed_auth_by_client
  attempt,   \* where each connection is, and the clock as it last read it
  connects,  \* connections made
  prolonged  \* a failure timed before the end of a block was recorded after it

authVars == <<now, entry, attempt, connects, prolonged>>
vars == <<storeVars, authVars>>

Never == -1
NoEntry == [failures |-> 0, last_failed_at |-> Never, blocked_until |-> Never]
Idle == [step |-> "idle", at |-> 0, secret |-> "none"]

(* A secret a worker may present: none, a provider's static secret, a key, or  *)
(* something else.                                                           *)
Secrets == {"none", "static", "other"} \cup Keys

(* WorkerSocketProviderConfig, or a provider the server does not have.        *)
ProviderStatus == {"enabled", "disabled", "unknown"}

(* A connection names a provider and presents a secret in a header, in the     *)
(* query, or in both; the header's is taken.                                 *)
ConnectRequest == [provider : ProviderStatus, header : Secrets, query : Secrets]

presented_secret(request) ==
  IF request.header # "none" THEN request.header ELSE request.query

(* A static secret is one only for a provider that is enabled; otherwise it    *)
(* is looked for among the keys like any other.                              *)
Credential(request) ==
  IF presented_secret(request) = "static" /\ request.provider # "enabled" THEN "other"
  ELSE presented_secret(request)

Init ==
  /\ StoreInit
  /\ now = 0 /\ entry = NoEntry /\ connects = 0 /\ prolonged = FALSE
  /\ attempt = [a \in Attempts |-> Idle]

Tick ==
  /\ now < MaxTime /\ now' = now + 1
  /\ UNCHANGED <<storeVars, entry, attempt, connects, prolonged>>

Move(a, step, at) == attempt' = [attempt EXCEPT ![a].step = step, ![a].at = at]
End(a) == attempt' = [attempt EXCEPT ![a] = Idle]

Connect(a, request) ==
  /\ attempt[a].step = "idle" /\ connects < MaxConnects
  /\ connects' = connects + 1
  /\ attempt' = [attempt EXCEPT ![a] = [step |-> "limiter", at |-> now,
                                              secret |-> Credential(request)]]
  /\ UNCHANGED <<storeVars, now, entry, prolonged>>

(* A variant: the client is blocked one failure late.                         *)
BlockedLoosely(t) == entry.failures > Threshold /\ entry.blocked_until > t

(* entry.blocked_until > now, at the clock the attempt has read               *)
Blocked(t) == entry.blocked_until > t

(* client_is_rate_limited, which forgets an entry that has cooled down.       *)
Limited(a) ==
  /\ attempt[a].step = "limiter" /\ Blocked(attempt[a].at)
  /\ End(a)
  /\ UNCHANGED <<storeVars, now, entry, connects, prolonged>>

NextStep(secret) ==
  CASE secret = "none" -> "idle" [] secret = "static" -> "clear" [] OTHER -> "lookup"

Pass(a) ==
  /\ attempt[a].step = "limiter" /\ ~Blocked(attempt[a].at)
  /\ entry' = IF entry # NoEntry /\ attempt[a].at - entry.last_failed_at > Cooldown
              THEN NoEntry ELSE entry
  /\ prolonged' = (prolonged /\ entry' # NoEntry)
  /\ LET step == NextStep(attempt[a].secret)
     IN IF step = "idle" THEN End(a) ELSE Move(a, step, 0)
  /\ UNCHANGED <<storeVars, now, connects>>

(* validate_key; an error of the store counts as a wrong secret.              *)
Lookup(a) ==
  /\ attempt[a].step = "lookup"
  /\ \/ Unlocked /\ attempt[a].secret \in Keys /\ Accepted(attempt[a].secret)
        /\ Move(a, "clear", 0)
     \/ Unlocked /\ ~(attempt[a].secret \in Keys /\ Accepted(attempt[a].secret))
        /\ Move(a, "record", now)
     \/ database /\ Move(a, "record", now)
  /\ UNCHANGED <<storeVars, now, entry, connects, prolonged>>

Ended(t) == entry.blocked_until # Never /\ entry.blocked_until <= t

(* record_failed_auth: the entry starts again after its block, or after a     *)
(* pause longer than the cooldown.                                           *)
StartsAgain(t) ==
  \/ entry = NoEntry
  \/ Ended(t)
  \/ t - entry.last_failed_at > Cooldown

Prolongs(t) == ~StartsAgain(t) /\ (prolonged \/ Ended(now))

Record(a) ==
  /\ attempt[a].step = "record"
  /\ LET t == attempt[a].at
         failures == IF StartsAgain(t) THEN 1 ELSE entry.failures + 1
         until == IF StartsAgain(t) THEN Never ELSE entry.blocked_until
     IN entry' = [failures |-> failures, last_failed_at |-> t,
                  blocked_until |-> IF failures >= Threshold THEN t + Cooldown ELSE until]
  /\ prolonged' = Prolongs(attempt[a].at)
  /\ End(a)
  /\ UNCHANGED <<storeVars, now, connects>>

(* clear_failed_auth, and the connection is upgraded.                         *)
Clear(a) ==
  /\ attempt[a].step = "clear"
  /\ entry' = NoEntry /\ End(a) /\ prolonged' = FALSE
  /\ UNCHANGED <<storeVars, now, connects>>

AuthNext ==
  \E a \in Attempts :
    \/ \E request \in ConnectRequest : Connect(a, request)
    \/ Limited(a) \/ Pass(a) \/ Lookup(a) \/ Record(a) \/ Clear(a)

Up == replica[Server] = "up"

(* The process ends, and its connections and its limiter with it.             *)
Forget ==
  /\ entry' = NoEntry /\ attempt' = [a \in Attempts |-> Idle] /\ prolonged' = FALSE
  /\ UNCHANGED <<now, connects>>

Next ==
  \/ Tick
  \/ Up /\ AuthNext
  \/ StoreNext /\ IF Up /\ ~Up' THEN Forget ELSE UNCHANGED authVars

Spec == Init /\ [][Next]_vars

-----------------------------------------------------------------------------
(* Every variable keeps its shape, and the table lock is held by the replica   *)
(* whose import is in its transaction, by one at most.                       *)
AuthTypeOK ==
  /\ rows \in Seq([key : Keys, revoked : BOOLEAN]) /\ known \subseteq Keys
  /\ database \in BOOLEAN /\ bootstrapped \in BOOLEAN
  /\ replica \in [Replicas -> {"down", "importing", "locked", "found", "absent", "up"}]
  /\ lock = {p \in Replicas : replica[p] \in {"locked", "found", "absent"}}
  /\ Cardinality(lock) <= 1
  /\ starts \in 0..MaxStarts /\ now \in 0..MaxTime /\ connects \in 0..MaxConnects
  /\ entry \in [failures : Nat, last_failed_at : Int, blocked_until : Int]
  /\ attempt \in [Attempts -> [step : {"idle", "limiter", "lookup", "record", "clear"},
                              at : 0..MaxTime, secret : Secrets]]
  /\ prolonged \in BOOLEAN

(* The client is blocked exactly when its entry has counted Threshold         *)
(* failures, for Cooldown after the last of them, in whatever order the        *)
(* attempts reach the record and however old the clocks are they have read.   *)
BlockedAtThreshold ==
  /\ entry.blocked_until # Never <=> entry.failures >= Threshold
  /\ entry.blocked_until # Never => entry.blocked_until = entry.last_failed_at + Cooldown

(* The limiter is read before the key table is asked and the failure recorded *)
(* after, so attempts begun together all get a try; but only those: while the *)
(* client is blocked, no more than Threshold secrets and one for each other   *)
(* attempt have been or will be tried.  This needs that no attempt waits for  *)
(* the record's mutex across the end of a block (it reads the clock first).   *)
TriesBounded ==
  entry.blocked_until > now /\ ~prolonged =>
    entry.failures + Cardinality({a \in Attempts : attempt[a].step \in {"lookup", "record"}})
      <= Threshold + Cardinality(Attempts) - 1
=============================================================================
