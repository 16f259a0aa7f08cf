----------------------------- MODULE ApiKeyStore -----------------------------
(***************************************************************************)
(* The relay server's keys (api_keys.rs), from the start of a server          *)
(* (build_api_key_store) on: with a database, the table its replicas share   *)
(* (PostgresApiKeyStore), into which every replica that starts imports the   *)
(* bootstrap key, if one is configured; without, a map in the memory of the  *)
(* one process there is (InMemoryApiKeyStore).                              *)
(*                                                                          *)
(* create_key, validate_key and revoke_key are one statement each.  An       *)
(* import is a transaction of several: it takes the table's SHARE ROW        *)
(* EXCLUSIVE lock, which every statement that writes waits for, and what it   *)
(* inserts is seen when it commits.  No constraint of the table keeps two    *)
(* rows from having the same hash.                                          *)
(***************************************************************************)
EXTENDS Naturals, FiniteSets, Sequences

CONSTANTS
  Replicas,         \* server processes
  Keys,             \* raw keys; a row keeps the hash
  Bootstrap,        \* MODELRELAY_BOOTSTRAP_API_KEY
  MaxRows,          \* bound: rows ever written
  MaxStarts         \* bound: starts of replicas

ASSUME StoreAssumption ==
  /\ Bootstrap \in Keys /\ MaxRows \in Nat /\ MaxStarts \in Nat

VARIABLES
  database,     \* DATABASE_URL is set
  bootstrapped, \* MODELRELAY_BOOTSTRAP_API_KEY is set
  rows,         \* the rows of server_api_keys, or the map's entries, in the order of insertion
  lock,         \* the replicas that hold the table lock
  replica,      \* where each replica is in its start
  starts,       \* how often a replica has started
  known         \* ghost: the keys that ever had a row

storeVars == <<database, bootstrapped, rows, lock, replica, starts, known>>
configuration == <<database, bootstrapped>>

Row(k) == [key |-> k, revoked |-> FALSE]

StoreInit ==
  /\ rows = <<>> /\ lock = {}
  /\ replica = [p \in Replicas |-> "down"] /\ starts = 0
  /\ database \in BOOLEAN /\ bootstrapped \in BOOLEAN /\ known = {}

Unlocked == lock = {}
RowsOf(k) == {i \in DOMAIN rows : rows[i].key = k}
ActiveRows(k) == {i \in RowsOf(k) : ~rows[i].revoked}
Accepted(k) == ActiveRows(k) # {}

-----------------------------------------------------------------------------
(* The admin API of a server that is up: a fresh key, and a key revoked by     *)
(* its row's id.                                                             *)

Serving == \E p \in Replicas : replica[p] = "up"

Insert(k) == rows' = Append(rows, Row(k)) /\ known' = known \cup {k}

Revoke(i) == rows' = [rows EXCEPT ![i].revoked = TRUE] /\ UNCHANGED known

(* generate_api_key never makes the same key twice, nor the bootstrap key.   *)
Fresh(k) == k # Bootstrap /\ k \notin known

CreateKey(k) ==
  /\ database /\ Serving /\ Unlocked
  /\ Fresh(k) /\ Len(rows) < MaxRows
  /\ Insert(k)
  /\ UNCHANGED <<configuration, lock, replica, starts>>

RevokeKey(i) ==
  /\ database /\ Serving /\ Unlocked
  /\ i \in DOMAIN rows /\ ~rows[i].revoked
  /\ Revoke(i)
  /\ UNCHANGED <<configuration, lock, replica, starts>>

(* The map's RwLock is held for the whole of each call.                      *)
CreateInMemory(k) ==
  /\ ~database /\ Serving
  /\ Fresh(k) /\ Len(rows) < MaxRows
  /\ Insert(k)
  /\ UNCHANGED <<configuration, lock, replica, starts>>

RevokeInMemory(i) ==
  /\ ~database /\ Serving
  /\ i \in DOMAIN rows
  /\ Revoke(i)
  /\ UNCHANGED <<configuration, lock, replica, starts>>

-----------------------------------------------------------------------------
(* ensure_imported_key                                                       *)

Goto(p, step) == replica' = [replica EXCEPT ![p] = step]

(* build_api_key_store, with a database ...                                  *)
Start(p) ==
  /\ database /\ replica[p] = "down" /\ starts < MaxStarts
  /\ starts' = starts + 1
  /\ Goto(p, IF bootstrapped THEN "importing" ELSE "up")
  /\ UNCHANGED <<configuration, rows, lock, known>>

(* ... and without, where there is one process; a bootstrap key makes it      *)
(* panic.                                                                    *)
StartInMemory(p) ==
  /\ ~database /\ (\A q \in Replicas : replica[q] = "down") /\ starts < MaxStarts
  /\ starts' = starts + 1
  /\ IF bootstrapped THEN UNCHANGED replica ELSE Goto(p, "up")
  /\ UNCHANGED <<configuration, rows, lock, known>>

(* A variant: the transaction starts with the SELECT.                        *)
LockTableNot(p) ==
  /\ replica[p] = "importing"
  /\ lock' = lock \cup {p} /\ Goto(p, "locked")
  /\ UNCHANGED <<configuration, rows, starts, known>>

LockTable(p) ==
  /\ replica[p] = "importing" /\ Unlocked
  /\ lock' = lock \cup {p} /\ Goto(p, "locked")
  /\ UNCHANGED <<configuration, rows, starts, known>>

(* A variant: only rows that are not revoked are looked for.                  *)
FindActive(p) ==
  /\ replica[p] = "locked"
  /\ IF ActiveRows(Bootstrap) # {} THEN Goto(p, "found") ELSE Goto(p, "absent")
  /\ UNCHANGED <<configuration, rows, lock, starts, known>>

(* The SELECT prefers a row that is not revoked.  A revoked key fails the     *)
(* start, and the transaction is rolled back.                                *)
Find(p) ==
  /\ replica[p] = "locked"
  /\ \/ Accepted(Bootstrap) /\ Goto(p, "found") /\ UNCHANGED lock
     \/ RowsOf(Bootstrap) = {} /\ Goto(p, "absent") /\ UNCHANGED lock
     \/ RowsOf(Bootstrap) # {} /\ ~Accepted(Bootstrap) /\ Goto(p, "down") /\ lock' = lock \ {p}
  /\ UNCHANGED <<configuration, rows, starts, known>>

(* The INSERT, if there was no row, and the COMMIT that shows it and ends     *)
(* the lock.                                                                 *)
Commit(p) ==
  /\ replica[p] \in {"found", "absent"}
  /\ IF replica[p] = "absent" THEN Insert(Bootstrap) ELSE UNCHANGED <<rows, known>>
  /\ lock' = lock \ {p} /\ Goto(p, "up")
  /\ UNCHANGED <<configuration, starts>>

(* The process dies, or a statement fails: what it inserted is rolled back,    *)
(* and what it had in memory is gone.                                        *)
Die(p) ==
  /\ replica[p] # "down" /\ Goto(p, "down") /\ lock' = lock \ {p}
  /\ rows' = IF database THEN rows ELSE <<>>
  /\ UNCHANGED <<configuration, starts, known>>

StoreNext ==
  \/ \E k \in Keys : CreateKey(k) \/ CreateInMemory(k)
  \/ \E i \in DOMAIN rows : RevokeKey(i) \/ RevokeInMemory(i)
  \/ \E p \in Replicas :
       \/ Start(p) \/ StartInMemory(p)
       \/ LockTable(p) \/ Find(p) \/ Commit(p) \/ Die(p)

-----------------------------------------------------------------------------
(* However many replicas start at once, die while they import and start       *)
(* again, a key is in at most one row, so that revoking its row revokes it.   *)
OneRowPerKey == \A k \in Keys : Cardinality(RowsOf(k)) <= 1

(* A key that was revoked, or lost with the memory it was in, is not accepted *)
(* again, not even because a replica that is configured with it starts.       *)
RevokedForGood ==
  [][\A k \in known : ~Accepted(k) => ~Accepted(k)']_storeVars
=============================================================================
