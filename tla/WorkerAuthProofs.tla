--------------------------- MODULE WorkerAuthProofs ---------------------------
(***************************************************************************)
(* Proofs about WorkerAuth and the key table under it, for any number of     *)
(* replicas, keys, rows, starts and attempts, and for any threshold and      *)
(* cooldown.                                                                *)
(***************************************************************************)
EXTENDS WorkerAuth, FiniteSetTheorems, TLAPS

USE DEF configuration

(* A replica that has found no row for the bootstrap key keeps the others     *)
(* from inserting one, and a key that ever had a row in the database has it   *)
(* still.                                                                    *)
StoreTyped ==
  /\ rows \in Seq([key : Keys, revoked : BOOLEAN]) /\ known \subseteq Keys
  /\ database \in BOOLEAN /\ bootstrapped \in BOOLEAN
  /\ replica \in [Replicas -> {"down", "importing", "locked", "found", "absent", "up"}]
  /\ starts \in 0..MaxStarts

LockSound ==
  /\ lock = {p \in Replicas : replica[p] \in {"locked", "found", "absent"}}
  /\ \A p, q \in lock : p = q

ImportSound ==
  \A p \in Replicas :
    /\ replica[p] \in {"importing", "locked", "found", "absent"} => database
    /\ replica[p] = "absent" => RowsOf(Bootstrap) = {}

RowsSound ==
  /\ \A i, j \in DOMAIN rows : rows[i].key = rows[j].key => i = j
  /\ \A i \in DOMAIN rows : rows[i].key \in known
  /\ database => \A k \in known : RowsOf(k) # {}

StoreInv == StoreTyped /\ LockSound /\ ImportSound /\ RowsSound

-----------------------------------------------------------------------------
(* The table. *)

(* What inserting a key without rows does to the rows of each key.            *)
LEMMA Inserted ==
  ASSUME StoreInv, NEW k \in Keys, RowsOf(k) = {}, Insert(k), UNCHANGED database
  PROVE  /\ RowsSound'
         /\ rows' \in Seq([key : Keys, revoked : BOOLEAN]) /\ known' \subseteq Keys
         /\ \A x \in Keys \ {k} : /\ RowsOf(x)' = RowsOf(x)
                                  /\ Accepted(x)' <=> Accepted(x)
<1>1. /\ rows \in Seq([key : Keys, revoked : BOOLEAN])
      /\ rows' = Append(rows, Row(k)) /\ Row(k) \in [key : Keys, revoked : BOOLEAN]
      /\ Row(k).key = k /\ known' = known \cup {k} /\ known \subseteq Keys
  BY DEF StoreInv, StoreTyped, Insert, Row
<1>. DEFINE n == Len(rows) + 1
<1>2. /\ rows' \in Seq([key : Keys, revoked : BOOLEAN])
      /\ DOMAIN rows = 1..Len(rows) /\ DOMAIN rows' = 1..n /\ Len(rows) \in Nat
      /\ rows'[n] = Row(k) /\ \A i \in DOMAIN rows : rows'[i] = rows[i]
  BY <1>1
<1>3. DOMAIN rows' = DOMAIN rows \cup {n} /\ n \notin DOMAIN rows
  BY <1>2
<1>4. \A i \in DOMAIN rows : rows[i].key # k
  BY DEF RowsOf
<1>. HIDE DEF n
<1>5. \A i, j \in DOMAIN rows' : rows'[i].key = rows'[j].key => i = j
  BY <1>1, <1>2, <1>3, <1>4 DEF StoreInv, RowsSound
<1>6. \A i \in DOMAIN rows' : rows'[i].key \in known'
  BY <1>1, <1>2, <1>3 DEF StoreInv, RowsSound
<1>7. ASSUME NEW x \in Keys \ {k}
      PROVE  RowsOf(x)' = RowsOf(x) /\ (Accepted(x)' <=> Accepted(x))
  <2>1. RowsOf(x)' = RowsOf(x)
    BY <1>1, <1>2, <1>3 DEF RowsOf
  <2>2. ActiveRows(x)' = ActiveRows(x)
    BY <1>2, <2>1 DEF ActiveRows, RowsOf
  <2>. QED  BY <2>1, <2>2 DEF Accepted
<1>8. RowsOf(k)' # {}
  BY <1>1, <1>2, <1>3 DEF RowsOf
<1>9. database' => \A x \in known' : RowsOf(x)' # {}
  BY <1>1, <1>7, <1>8 DEF StoreInv, RowsSound
<1>. QED  BY <1>1, <1>2, <1>5, <1>6, <1>7, <1>9 DEF RowsSound

(* A fresh key has no rows.                                                  *)
LEMMA FreshHasNone ==
  ASSUME StoreInv, NEW k \in Keys, Fresh(k)
  PROVE  RowsOf(k) = {}
BY DEF StoreInv, RowsSound, RowsOf, Fresh

LEMMA Revoked ==
  ASSUME StoreInv, NEW i \in DOMAIN rows, Revoke(i)
  PROVE  /\ rows' \in Seq([key : Keys, revoked : BOOLEAN]) /\ known' = known
         /\ DOMAIN rows' = DOMAIN rows
         /\ \A j \in DOMAIN rows : rows'[j].key = rows[j].key
         /\ \A k \in Keys : /\ RowsOf(k)' = RowsOf(k)
                            /\ Accepted(k)' => Accepted(k)
<1>5. /\ rows \in Seq([key : Keys, revoked : BOOLEAN]) /\ known' = known
      /\ rows' = [rows EXCEPT ![i].revoked = TRUE]
  BY DEF StoreInv, StoreTyped, Revoke
<1>6. rows[i] \in [key : Keys, revoked : BOOLEAN]
  <2>1. rows \in Seq([key : Keys, revoked : BOOLEAN]) /\ i \in 1..Len(rows)
    BY <1>5
  <2>2. ASSUME NEW S, NEW s \in Seq(S), NEW j \in 1..Len(s) PROVE s[j] \in S
    OBVIOUS
  <2>. QED  BY <2>1, <2>2
<1>1. /\ rows \in Seq([key : Keys, revoked : BOOLEAN]) /\ known' = known
      /\ rows' = [rows EXCEPT ![i].revoked = TRUE]
      /\ rows[i] \in [key : Keys, revoked : BOOLEAN]
  BY <1>5, <1>6
<1>2. [rows[i] EXCEPT !.revoked = TRUE] \in [key : Keys, revoked : BOOLEAN]
      /\ rows' = [rows EXCEPT ![i] = [rows[i] EXCEPT !.revoked = TRUE]]
  BY <1>1
<1>3. rows' \in Seq([key : Keys, revoked : BOOLEAN]) /\ DOMAIN rows' = DOMAIN rows
  BY <1>1, <1>2
<1>4. \A j \in DOMAIN rows : /\ rows'[j].key = rows[j].key
                             /\ ~rows'[j].revoked => ~rows[j].revoked
  <2>1. DOMAIN rows = 1..Len(rows)
    BY <1>1
  <2>2. \A j \in DOMAIN rows :
          rows'[j] = IF j = i THEN [rows[i] EXCEPT !.revoked = TRUE] ELSE rows[j]
    BY <1>1, <2>1
  <2>3. /\ [rows[i] EXCEPT !.revoked = TRUE].key = rows[i].key
        /\ [rows[i] EXCEPT !.revoked = TRUE].revoked
    BY <1>1
  <2>. QED  BY <2>2, <2>3
<1>. QED  BY <1>1, <1>3, <1>4 DEF RowsOf, ActiveRows, Accepted

-----------------------------------------------------------------------------
LEMMA StoreStart == StoreInit => StoreInv
BY StoreAssumption DEF StoreInit, StoreInv, StoreTyped, LockSound, ImportSound, RowsSound, RowsOf

(* A step of the store, and what it does to a key that is not accepted.       *)
LEMMA StoreStep ==
  ASSUME StoreInv, StoreNext
  PROVE  StoreInv' /\ \A k \in known : ~Accepted(k) => ~Accepted(k)'
<1>. StoreTyped /\ LockSound /\ ImportSound /\ RowsSound
  BY DEF StoreInv
<1>. known \subseteq Keys
  BY DEF StoreTyped
<1>1. ASSUME NEW k \in Keys, CreateKey(k) \/ CreateInMemory(k)
      PROVE  StoreInv' /\ \A x \in known : ~Accepted(x) => ~Accepted(x)'
  <2>1. /\ Fresh(k) /\ Insert(k) /\ UNCHANGED <<database, bootstrapped, lock, replica, starts>>
    BY <1>1 DEF CreateKey, CreateInMemory
  <2>2. RowsOf(k) = {} /\ k # Bootstrap /\ k \notin known
    BY <2>1, FreshHasNone DEF Fresh
  <2>3. RowsOf(Bootstrap)' = RowsOf(Bootstrap)
    BY <2>1, <2>2, Inserted, StoreAssumption
  <2>4. StoreTyped' /\ RowsSound' /\ LockSound'
    BY <2>1, <2>2, Inserted DEF StoreTyped, LockSound
  <2>5. ImportSound'
    BY <2>1, <2>3 DEF ImportSound
  <2>. QED  BY <2>1, <2>2, <2>4, <2>5, Inserted DEF StoreInv
<1>2. ASSUME NEW i \in DOMAIN rows, RevokeKey(i) \/ RevokeInMemory(i)
      PROVE  StoreInv' /\ \A x \in known : ~Accepted(x) => ~Accepted(x)'
  <2>1. Revoke(i) /\ UNCHANGED <<database, bootstrapped, lock, replica, starts>>
    BY <1>2 DEF RevokeKey, RevokeInMemory
  <2>2. /\ rows' \in Seq([key : Keys, revoked : BOOLEAN]) /\ known' = known
        /\ DOMAIN rows' = DOMAIN rows
        /\ \A j \in DOMAIN rows : rows'[j].key = rows[j].key
        /\ \A k \in Keys : RowsOf(k)' = RowsOf(k) /\ (Accepted(k)' => Accepted(k))
    BY <2>1, Revoked
  <2>3. StoreTyped' /\ LockSound'
    BY <2>1, <2>2 DEF StoreTyped, LockSound
  <2>4. ImportSound' /\ RowsSound'
    BY <2>1, <2>2, StoreAssumption DEF ImportSound, RowsSound
  <2>. QED  BY <2>2, <2>3, <2>4 DEF StoreInv
<1>3. ASSUME NEW p \in Replicas, UNCHANGED <<database, bootstrapped, rows, known>>,
             StoreTyped' /\ LockSound' /\ ImportSound'
      PROVE  StoreInv' /\ \A x \in known : ~Accepted(x) => ~Accepted(x)'
  <2>1. \A k \in Keys : RowsOf(k)' = RowsOf(k) /\ (Accepted(k)' <=> Accepted(k))
    BY <1>3 DEF RowsOf, ActiveRows, Accepted
  <2>2. RowsSound'
    BY <1>3, <2>1 DEF RowsSound
  <2>. QED  BY <1>3, <2>1, <2>2 DEF StoreInv
<1>4. ASSUME NEW p \in Replicas,
             Start(p) \/ StartInMemory(p) \/ LockTable(p) \/ Find(p)
      PROVE  StoreInv' /\ \A x \in known : ~Accepted(x) => ~Accepted(x)'
  <2>1. UNCHANGED <<database, bootstrapped, rows, known>> /\ RowsOf(Bootstrap)' = RowsOf(Bootstrap)
    BY <1>4 DEF Start, StartInMemory, LockTable, Find, RowsOf
  <2>2. StoreTyped'
    BY <1>4, <2>1, StoreAssumption DEF Start, StartInMemory, LockTable, Find, Goto, StoreTyped
  <2>3. LockSound'
    <3>1. CASE Start(p) \/ StartInMemory(p)
      BY <1>4, <3>1 DEF Start, StartInMemory, Goto, LockSound, StoreTyped
    <3>2. CASE LockTable(p)
      BY <3>2 DEF LockTable, Unlocked, Goto, LockSound, StoreTyped
    <3>3. CASE Find(p)
      BY <3>3 DEF Find, Goto, LockSound, StoreTyped
    <3>. QED  BY <1>4, <3>1, <3>2, <3>3
  <2>4. ImportSound'
    BY <1>4, <2>1 DEF Start, StartInMemory, LockTable, Find, Goto, ImportSound, StoreTyped
  <2>. QED  BY <1>3, <2>1, <2>2, <2>3, <2>4
<1>5. ASSUME NEW p \in Replicas, Commit(p)
      PROVE  StoreInv' /\ \A x \in known : ~Accepted(x) => ~Accepted(x)'
  <2>1. UNCHANGED <<database, bootstrapped, starts>> /\ database
    BY <1>5 DEF Commit, ImportSound
  <2>2. replica' = [replica EXCEPT ![p] = "up"] /\ lock' = lock \ {p} /\ p \in lock
    BY <1>5 DEF Commit, Goto, LockSound
  <2>3. LockSound'
    BY <2>2 DEF LockSound, StoreTyped
  <2>4. ImportSound'
    <3>1. \A q \in Replicas : replica'[q] # "absent"
      BY <2>2 DEF LockSound, StoreTyped
    <3>. QED  BY <2>1, <2>2, <3>1 DEF ImportSound, StoreTyped
  <2>5. CASE replica[p] = "absent"
    <3>1. Insert(Bootstrap) /\ RowsOf(Bootstrap) = {} /\ Bootstrap \in Keys
      BY <1>5, <2>5, StoreAssumption DEF Commit, ImportSound
    <3>2. Bootstrap \notin known
      BY <2>1, <3>1 DEF RowsSound
    <3>3. StoreTyped' /\ RowsSound'
      BY <2>1, <2>2, <3>1, Inserted DEF StoreTyped
    <3>4. \A x \in Keys \ {Bootstrap} : Accepted(x)' <=> Accepted(x)
      BY <2>1, <3>1, Inserted
    <3>. QED  BY <2>3, <2>4, <3>2, <3>3, <3>4 DEF StoreInv
  <2>6. CASE replica[p] # "absent"
    <3>1. UNCHANGED <<rows, known>>
      BY <1>5, <2>6 DEF Commit
    <3>2. StoreTyped'
      BY <2>1, <2>2, <3>1 DEF StoreTyped
    <3>. QED  BY <1>3, <2>1, <2>3, <2>4, <3>1, <3>2
  <2>. QED  BY <2>5, <2>6
<1>6. ASSUME NEW p \in Replicas, Die(p)
      PROVE  StoreInv' /\ \A x \in known : ~Accepted(x) => ~Accepted(x)'
  <2>1. /\ UNCHANGED <<database, bootstrapped, starts, known>>
        /\ replica' = [replica EXCEPT ![p] = "down"] /\ lock' = lock \ {p}
    BY <1>6 DEF Die, Goto
  <2>2. LockSound'
    BY <2>1 DEF LockSound, StoreTyped
  <2>3. CASE database
    <3>1. rows' = rows
      BY <1>6, <2>3 DEF Die
    <3>2. StoreTyped'
      BY <2>1, <3>1 DEF StoreTyped
    <3>3. ImportSound'
      BY <2>1, <3>1 DEF ImportSound, StoreTyped, RowsOf
    <3>. QED  BY <1>3, <2>1, <2>2, <3>1, <3>2, <3>3
  <2>4. CASE ~database
    <3>1. rows' = <<>>
      BY <1>6, <2>4 DEF Die
    <3>2. StoreTyped' /\ RowsSound'
      BY <2>1, <2>4, <3>1 DEF StoreTyped, RowsSound
    <3>3. ImportSound'
      BY <2>1, <2>4 DEF ImportSound, StoreTyped
    <3>4. \A x \in known : ~Accepted(x)'
      BY <3>1 DEF Accepted, ActiveRows, RowsOf
    <3>. QED  BY <2>2, <3>2, <3>3, <3>4 DEF StoreInv
  <2>. QED  BY <2>3, <2>4
<1>. QED  BY <1>1, <1>2, <1>4, <1>5, <1>6 DEF StoreNext

(* Steps of the connections leave the store alone.                            *)
LEMMA StoreAlways ==
  ASSUME StoreInv, [Next]_vars
  PROVE  StoreInv' /\ (\A k \in known : ~Accepted(k) => ~Accepted(k)')
<1>1. ASSUME UNCHANGED storeVars
      PROVE  StoreInv' /\ (\A k \in known : ~Accepted(k) => ~Accepted(k)')
  BY <1>1 DEF storeVars, StoreInv, StoreTyped, LockSound, ImportSound, RowsSound, RowsOf,
              ActiveRows, Accepted
<1>2. StoreNext \/ UNCHANGED storeVars
  BY DEF Next, vars, Tick, AuthNext, Connect, Limited, Pass, Lookup, Record, Clear
<1>. QED  BY <1>1, <1>2, StoreStep

LEMMA StoreInvariance == Spec => []StoreInv
<1>1. Init => StoreInv
  BY StoreStart DEF Init
<1>2. StoreInv /\ [Next]_vars => StoreInv'
  BY StoreAlways
<1>. QED  BY <1>1, <1>2, PTL DEF Spec

(* However many replicas import the bootstrap key at once, die and start       *)
(* again, no key gets a second row, so revoking its row revokes the key        *)
(* (api_keys.rs: the table lock, and the look for revoked rows too).           *)
THEOREM KeysHaveOneRow == Spec => []OneRowPerKey
<1>1. ASSUME StoreInv, NEW k \in Keys PROVE Cardinality(RowsOf(k)) <= 1
  <2>1. \A i, j \in RowsOf(k) : i = j
    BY <1>1 DEF StoreInv, RowsSound, RowsOf
  <2>2. RowsOf(k) = {} \/ \E i : RowsOf(k) = {i}
    BY <2>1
  <2>. QED  BY <2>2, FS_EmptySet, FS_Singleton
<1>2. StoreInv => OneRowPerKey
  BY <1>1 DEF OneRowPerKey
<1>. QED  BY <1>2, StoreInvariance, PTL

(* A key that was revoked, or lost with the memory it was in, is not accepted *)
(* again: neither creating a key nor a start configured with it brings it      *)
(* back.                                                                     *)
THEOREM RevokedKeysStayRevoked == Spec => RevokedForGood
<1>1. StoreInv /\ [Next]_vars => [\A k \in known : ~Accepted(k) => ~Accepted(k)']_storeVars
  BY StoreAlways
<1>. QED  BY <1>1, StoreInvariance, PTL DEF Spec, RevokedForGood

-----------------------------------------------------------------------------
(* The limiter. *)

EntryTyped ==
  /\ now \in 0..MaxTime /\ connects \in 0..MaxConnects
  /\ entry \in [failures : Nat, last_failed_at : Int, blocked_until : Int]
  /\ attempt \in [Attempts -> [step : {"idle", "limiter", "lookup", "record", "clear"},
                              at : 0..MaxTime, secret : Secrets]]
  /\ prolonged \in BOOLEAN

AuthInv == StoreInv /\ EntryTyped /\ BlockedAtThreshold

LEMMA CredentialTyped ==
  ASSUME NEW request \in ConnectRequest
  PROVE  Credential(request) \in Secrets
<1>1. request.header \in Secrets /\ request.query \in Secrets /\ "other" \in Secrets
  BY DEF ConnectRequest, Secrets
<1>. QED  BY <1>1 DEF Credential, presented_secret

LEMMA AuthStart == Init => AuthInv
<1>. SUFFICES ASSUME Init PROVE EntryTyped /\ BlockedAtThreshold
  BY StoreStart DEF Init, AuthInv
<1>1. EntryTyped
  <2>1. 0 \in 0..MaxTime /\ 0 \in 0..MaxConnects /\ "none" \in Secrets
    BY AuthAssumption DEF Secrets
  <2>2. NoEntry \in [failures : Nat, last_failed_at : Int, blocked_until : Int]
    BY DEF NoEntry, Never
  <2>3. Idle \in [step : {"idle", "limiter", "lookup", "record", "clear"},
                 at : 0..MaxTime, secret : Secrets]
    BY <2>1 DEF Idle
  <2>. QED  BY <2>1, <2>2, <2>3 DEF Init, EntryTyped
<1>2. BlockedAtThreshold
  BY AuthAssumption DEF Init, BlockedAtThreshold, NoEntry, Never
<1>. QED  BY <1>1, <1>2

(* An attempt that moves keeps its shape.                                     *)
LEMMA Moved ==
  ASSUME EntryTyped, NEW a \in Attempts,
         NEW step \in {"idle", "limiter", "lookup", "record", "clear"}, NEW at \in 0..MaxTime,
         Move(a, step, at) \/ End(a)
  PROVE  attempt' \in [Attempts -> [step : {"idle", "limiter", "lookup", "record", "clear"},
                                   at : 0..MaxTime, secret : Secrets]]
<1>. DEFINE T == [step : {"idle", "limiter", "lookup", "record", "clear"},
                  at : 0..MaxTime, secret : Secrets]
<1>1. attempt \in [Attempts -> T] /\ 0 \in 0..MaxTime /\ "none" \in Secrets
  BY AuthAssumption DEF EntryTyped, Secrets
<1>2. Idle \in T
  BY <1>1 DEF Idle
<1>3. CASE End(a)
  BY <1>1, <1>2, <1>3 DEF End
<1>4. CASE Move(a, step, at)
  <2>1. attempt[a] \in T
    BY <1>1
  <2>2. [[attempt[a] EXCEPT !.step = step] EXCEPT !.at = at] \in T
    BY <2>1
  <2>3. attempt' = [attempt EXCEPT ![a] = [[attempt[a] EXCEPT !.step = step] EXCEPT !.at = at]]
    BY <1>1, <1>4 DEF Move
  <2>. QED  BY <1>1, <2>2, <2>3
<1>. QED  BY <1>3, <1>4

LEMMA RecordedEntry ==
  ASSUME EntryTyped, BlockedAtThreshold, NEW a \in Attempts, Record(a)
  PROVE  /\ entry' \in [failures : Nat, last_failed_at : Int, blocked_until : Int]
         /\ BlockedAtThreshold'
<1>1. /\ attempt[a].at \in 0..MaxTime /\ entry.failures \in Nat
      /\ entry.last_failed_at \in Int /\ entry.blocked_until \in Int
  BY DEF EntryTyped
<1>2. Threshold \in Nat \ {0} /\ Cooldown \in Nat \ {0} /\ MaxTime \in Nat
  BY AuthAssumption
<1>. DEFINE t == attempt[a].at
            failures == IF StartsAgain(t) THEN 1 ELSE entry.failures + 1
            until == IF StartsAgain(t) THEN Never ELSE entry.blocked_until
            block == IF failures >= Threshold THEN t + Cooldown ELSE until
<1>3. entry' = [failures |-> failures, last_failed_at |-> t, blocked_until |-> block]
  BY DEF Record
<1>4. t \in 0..MaxTime /\ failures \in Nat /\ until \in Int /\ block \in Int
  BY <1>1, <1>2 DEF Never
<1>5. failures < Threshold => until = Never
  <2>1. CASE StartsAgain(t)
    BY <2>1
  <2>2. CASE ~StartsAgain(t)
    <3>1. failures = entry.failures + 1 /\ until = entry.blocked_until
      BY <2>2
    <3>2. entry.blocked_until # Never => entry.failures >= Threshold
      BY DEF BlockedAtThreshold
    <3>. QED  BY <1>1, <1>2, <3>1, <3>2
  <2>. QED  BY <2>1, <2>2
<1>. HIDE DEF failures, until
<1>6. /\ block # Never <=> failures >= Threshold
      /\ block # Never => block = t + Cooldown
  BY <1>1, <1>2, <1>4, <1>5 DEF Never
<1>7. entry' \in [failures : Nat, last_failed_at : Int, blocked_until : Int]
  BY <1>2, <1>3, <1>4
<1>8. entry'.failures = failures /\ entry'.last_failed_at = t /\ entry'.blocked_until = block
  BY <1>3
<1>. QED  BY <1>6, <1>7, <1>8 DEF BlockedAtThreshold

LEMMA NoEntryFits ==
  /\ NoEntry \in [failures : Nat, last_failed_at : Int, blocked_until : Int]
  /\ entry' = NoEntry => BlockedAtThreshold'
BY AuthAssumption DEF NoEntry, Never, BlockedAtThreshold

LEMMA AuthStep ==
  ASSUME EntryTyped, BlockedAtThreshold, NEW a \in Attempts,
         \/ \E request \in ConnectRequest : Connect(a, request)
         \/ Limited(a) \/ Pass(a) \/ Lookup(a) \/ Record(a) \/ Clear(a)
  PROVE  EntryTyped' /\ BlockedAtThreshold'
<1>. DEFINE T == [step : {"idle", "limiter", "lookup", "record", "clear"},
                  at : 0..MaxTime, secret : Secrets]
<1>0. /\ now \in 0..MaxTime /\ 0 \in 0..MaxTime /\ attempt[a] \in T
      /\ attempt \in [Attempts -> T] /\ prolonged \in BOOLEAN
      /\ entry \in [failures : Nat, last_failed_at : Int, blocked_until : Int]
  BY AuthAssumption DEF EntryTyped
<1>1. CASE \E request \in ConnectRequest : Connect(a, request)
  <2>1. PICK request \in ConnectRequest : Connect(a, request)
    BY <1>1
  <2>2. [step |-> "limiter", at |-> now, secret |-> Credential(request)] \in T
    BY <1>0, CredentialTyped
  <2>3. attempt' \in [Attempts -> T]
    BY <1>0, <2>1, <2>2 DEF Connect
  <2>4. connects' \in 0..MaxConnects /\ UNCHANGED <<now, entry, prolonged>>
    BY <2>1, AuthAssumption DEF Connect, EntryTyped
  <2>. QED  BY <2>3, <2>4 DEF EntryTyped, BlockedAtThreshold
<1>2. CASE Limited(a)
  <2>1. attempt' \in [Attempts -> T]
    BY <1>0, <1>2, Moved DEF Limited
  <2>. QED  BY <1>2, <2>1 DEF Limited, EntryTyped, BlockedAtThreshold
<1>3. CASE Pass(a)
  <2>1. attempt' \in [Attempts -> T]
    BY <1>0, <1>3, Moved DEF Pass, NextStep
  <2>2. entry' \in {entry, NoEntry} /\ prolonged' \in BOOLEAN /\ UNCHANGED <<now, connects>>
    BY <1>3 DEF Pass
  <2>3. EntryTyped'
    BY <2>1, <2>2, NoEntryFits DEF EntryTyped
  <2>4. BlockedAtThreshold'
    BY <2>2, NoEntryFits DEF BlockedAtThreshold
  <2>. QED  BY <2>3, <2>4
<1>4. CASE Lookup(a)
  <2>1. attempt' \in [Attempts -> T]
    BY <1>0, <1>4, Moved DEF Lookup
  <2>. QED  BY <1>4, <2>1 DEF Lookup, EntryTyped, BlockedAtThreshold
<1>5. CASE Record(a)
  <2>1. attempt' \in [Attempts -> T]
    BY <1>0, <1>5, Moved DEF Record
  <2>2. prolonged' \in BOOLEAN /\ UNCHANGED <<now, connects>>
    BY <1>5 DEF Record, Prolongs
  <2>. QED  BY <1>5, <2>1, <2>2, RecordedEntry DEF EntryTyped
<1>6. CASE Clear(a)
  <2>1. attempt' \in [Attempts -> T]
    BY <1>0, <1>6, Moved DEF Clear
  <2>. QED  BY <1>6, <2>1, NoEntryFits DEF Clear, EntryTyped
<1>. QED  BY <1>1, <1>2, <1>3, <1>4, <1>5, <1>6

LEMMA AuthInvStep ==
  ASSUME AuthInv, [Next]_vars
  PROVE  AuthInv'
<1>. SUFFICES EntryTyped' /\ BlockedAtThreshold'
  BY StoreAlways DEF AuthInv
<1>. EntryTyped /\ BlockedAtThreshold
  BY DEF AuthInv
<1>1. CASE Tick
  <2>1. now' \in 0..MaxTime /\ UNCHANGED <<entry, attempt, connects, prolonged>>
    BY <1>1, AuthAssumption DEF Tick, EntryTyped
  <2>. QED  BY <2>1 DEF EntryTyped, BlockedAtThreshold
<1>2. CASE AuthNext
  BY <1>2, AuthStep DEF AuthNext
<1>3. CASE UNCHANGED authVars
  BY <1>3 DEF authVars, EntryTyped, BlockedAtThreshold
<1>4. CASE Forget
  <2>1. Idle \in [step : {"idle", "limiter", "lookup", "record", "clear"},
                 at : 0..MaxTime, secret : Secrets]
    BY AuthAssumption DEF Idle, Secrets
  <2>. QED  BY <1>4, <2>1, NoEntryFits DEF Forget, EntryTyped
<1>. QED  BY <1>1, <1>2, <1>3, <1>4 DEF Next, vars

LEMMA AuthInvariance == Spec => []AuthInv
<1>1. AuthInv /\ [Next]_vars => AuthInv'
  BY AuthInvStep
<1>. QED  BY <1>1, AuthStart, PTL DEF Spec

(* Every variable keeps its shape, and at most one import holds the table.     *)
THEOREM AuthTypeCorrect == Spec => []AuthTypeOK
<1>1. ASSUME LockSound PROVE Cardinality(lock) <= 1
  <2>1. lock = {} \/ \E p : lock = {p}
    BY <1>1, ZenonT(30) DEF LockSound
  <2>2. Cardinality(lock) = 0 \/ Cardinality(lock) = 1
    BY <2>1, FS_EmptySet, FS_Singleton
  <2>. QED  BY <2>2
<1>2. AuthInv => AuthTypeOK
  BY <1>1 DEF AuthInv, StoreInv, StoreTyped, LockSound, EntryTyped, AuthTypeOK
<1>. QED  BY <1>2, AuthInvariance, PTL

(* A client is blocked exactly when its entry counts Threshold failures, for   *)
(* Cooldown after the last of them, whatever the order in which the attempts  *)
(* of one client read the clock, the keys and the entry.                      *)
THEOREM BlockedExactlyAtThreshold == Spec => []BlockedAtThreshold
<1>1. AuthInv => BlockedAtThreshold
  BY DEF AuthInv
<1>. QED  BY <1>1, AuthInvariance, PTL

-----------------------------------------------------------------------------
(* The tries. *)

Trying == {a \in Attempts : attempt[a].step \in {"lookup", "record"}}

ClocksSound == \A a \in Attempts : attempt[a].at <= now

(* The bound holds whenever no failure has been recorded across the end of a   *)
(* block and no block has ended under an entry that still counts it.         *)
TriesSound ==
  ~prolonged /\ ~Ended(now) =>
    entry.failures + Cardinality(Trying) <= Threshold + Cardinality(Attempts) - 1

TriesInv == AuthInv /\ ClocksSound /\ TriesSound

LEMMA TryingCounts ==
  ASSUME NEW S \in SUBSET Attempts
  PROVE  /\ IsFiniteSet(S) /\ Cardinality(S) \in Nat /\ Cardinality(Attempts) \in Nat
         /\ Cardinality(S) <= Cardinality(Attempts)
         /\ \A a \in Attempts : a \notin S => Cardinality(S) <= Cardinality(Attempts) - 1
         /\ \A a \in S : Cardinality(S \ {a}) = Cardinality(S) - 1
<1>1. IsFiniteSet(Attempts)
  BY AuthAssumption
<1>2. IsFiniteSet(S) /\ Cardinality(S) <= Cardinality(Attempts)
  BY <1>1, FS_Subset
<1>3. Cardinality(S) \in Nat /\ Cardinality(Attempts) \in Nat
  BY <1>1, <1>2, FS_CardinalityType
<1>4. \A a \in S : Cardinality(S \ {a}) = Cardinality(S) - 1
  BY <1>2, FS_RemoveElement
<1>5. ASSUME NEW a \in Attempts, a \notin S PROVE Cardinality(S) <= Cardinality(Attempts) - 1
  <2>1. S \in SUBSET (Attempts \ {a}) /\ IsFiniteSet(Attempts \ {a})
    BY <1>1, <1>5, FS_RemoveElement
  <2>2. Cardinality(S) <= Cardinality(Attempts \ {a})
    BY <2>1, FS_Subset
  <2>3. Cardinality(Attempts \ {a}) = Cardinality(Attempts) - 1
    BY <1>1, FS_RemoveElement
  <2>. QED  BY <2>2, <2>3
<1>. QED  BY <1>2, <1>3, <1>4, <1>5

(* An entry below the threshold leaves room for every attempt.                 *)
LEMMA BelowThreshold ==
  ASSUME (EntryTyped /\ BlockedAtThreshold)', entry'.blocked_until = Never
  PROVE  TriesSound'
<1>1. entry'.failures < Threshold /\ entry'.failures \in Nat /\ Threshold \in Nat
  BY AuthAssumption DEF BlockedAtThreshold, EntryTyped
<1>2. Trying' \in SUBSET Attempts
  BY DEF Trying
<1>3. /\ Cardinality(Trying') \in Nat /\ Cardinality(Attempts) \in Nat
      /\ Cardinality(Trying') <= Cardinality(Attempts)
  BY <1>2, TryingCounts
<1>4. entry'.failures + Cardinality(Trying') <= Threshold + Cardinality(Attempts) - 1
  BY <1>1, <1>3
<1>. QED  BY <1>4 DEF TriesSound

(* The clock an attempt holds is never ahead of the process's.                *)
LEMMA ClocksStep ==
  ASSUME EntryTyped, ClocksSound, [Next]_vars
  PROVE  ClocksSound'
<1>1. /\ now \in 0..MaxTime /\ MaxTime \in Nat
      /\ attempt \in [Attempts -> [step : {"idle", "limiter", "lookup", "record", "clear"},
                                   at : 0..MaxTime, secret : Secrets]]
  BY AuthAssumption DEF EntryTyped
<1>2. CASE Tick
  <2>1. attempt' = attempt /\ now' = now + 1
    BY <1>2 DEF Tick
  <2>2. ASSUME NEW a \in Attempts PROVE attempt[a].at <= now + 1
    <3>1. attempt[a].at \in Nat /\ attempt[a].at <= now /\ now \in Nat
      BY <1>1 DEF ClocksSound
    <3>. QED  BY <3>1
  <2>. QED  BY <2>1, <2>2 DEF ClocksSound
<1>3. CASE UNCHANGED <<now, attempt>>
  BY <1>3 DEF ClocksSound
<1>4. CASE Forget
  BY <1>1, <1>4 DEF Forget, Idle, ClocksSound
<1>5. ASSUME NEW a \in Attempts,
             \/ \E request \in ConnectRequest : Connect(a, request)
             \/ Limited(a) \/ Pass(a) \/ Lookup(a) \/ Record(a) \/ Clear(a)
      PROVE  ClocksSound'
  <2>1. now' = now /\ 0 <= now /\ now <= now
    BY <1>1, <1>5 DEF Connect, Limited, Pass, Lookup, Record, Clear
  <2>2. \A b \in Attempts \ {a} : attempt'[b] = attempt[b]
    BY <1>1, <1>5 DEF Connect, Limited, Pass, Lookup, Record, Clear, Move, End
  <2>3. attempt'[a].at \in {0, now}
    BY <1>1, <1>5 DEF Connect, Limited, Pass, Lookup, Record, Clear, Move, End, Idle
  <2>. QED  BY <2>1, <2>2, <2>3 DEF ClocksSound
<1>. QED  BY <1>2, <1>3, <1>4, <1>5 DEF Next, AuthNext, authVars, vars

LEMMA RecordTries ==
  ASSUME EntryTyped, BlockedAtThreshold, TriesSound, NEW a \in Attempts, Record(a)
  PROVE  TriesSound'
<1>1. /\ entry.failures \in Nat /\ Threshold \in Nat \ {0}
      /\ attempt \in [Attempts -> [step : {"idle", "limiter", "lookup", "record", "clear"},
                                   at : 0..MaxTime, secret : Secrets]]
  BY AuthAssumption DEF EntryTyped
<1>2. a \in Trying /\ Trying' = Trying \ {a}
  BY <1>1 DEF Trying, Record, End, Idle
<1>3. Trying \in SUBSET Attempts /\ a \notin Trying' /\ Trying' \in SUBSET Attempts
  BY <1>2 DEF Trying
<1>4. /\ Cardinality(Trying) \in Nat /\ Cardinality(Attempts) \in Nat
      /\ Cardinality(Trying') \in Nat
      /\ Cardinality(Trying') = Cardinality(Trying) - 1
      /\ Cardinality(Trying') <= Cardinality(Attempts) - 1
  BY <1>2, <1>3, TryingCounts
<1>5. /\ entry'.failures = IF StartsAgain(attempt[a].at) THEN 1 ELSE entry.failures + 1
      /\ prolonged' = Prolongs(attempt[a].at)
  BY DEF Record
<1>6. CASE StartsAgain(attempt[a].at)
  <2>1. entry'.failures = 1
    BY <1>5, <1>6
  <2>2. entry'.failures + Cardinality(Trying') <= Threshold + Cardinality(Attempts) - 1
    BY <1>1, <1>4, <2>1
  <2>. QED  BY <2>2 DEF TriesSound
<1>7. CASE ~StartsAgain(attempt[a].at)
  <2>1. entry'.failures = entry.failures + 1
    BY <1>5, <1>7
  <2>2. ~prolonged' => ~prolonged /\ ~Ended(now)
    BY <1>5, <1>7 DEF Prolongs
  <2>3. ASSUME ~prolonged /\ ~Ended(now)
        PROVE  entry'.failures + Cardinality(Trying') <= Threshold + Cardinality(Attempts) - 1
    <3>1. entry.failures + Cardinality(Trying) <= Threshold + Cardinality(Attempts) - 1
      BY <2>3 DEF TriesSound
    <3>. QED  BY <1>1, <1>4, <2>1, <3>1
  <2>. QED  BY <2>2, <2>3 DEF TriesSound
<1>. QED  BY <1>6, <1>7

LEMMA TriesStep ==
  ASSUME TriesInv, [Next]_vars
  PROVE  TriesSound'
<1>. AuthInv' /\ AuthInv
  BY AuthInvStep DEF TriesInv
<1>1. /\ EntryTyped /\ BlockedAtThreshold /\ (EntryTyped /\ BlockedAtThreshold)'
      /\ ClocksSound /\ TriesSound /\ Threshold \in Nat \ {0}
  BY AuthAssumption DEF AuthInv, TriesInv
<1>2. /\ attempt \in [Attempts -> [step : {"idle", "limiter", "lookup", "record", "clear"},
                                   at : 0..MaxTime, secret : Secrets]]
      /\ now \in Nat /\ now' \in Nat /\ entry.failures \in Nat
      /\ entry.blocked_until \in Int /\ entry'.blocked_until \in Int
  BY <1>1, AuthAssumption DEF EntryTyped
<1>4. ASSUME UNCHANGED <<entry, prolonged>>, Trying' \subseteq Trying, now' >= now
      PROVE  TriesSound'
  <2>1. Ended(now) => Ended(now)'
    BY <1>2, <1>4 DEF Ended, Never
  <2>2. /\ Cardinality(Trying') <= Cardinality(Trying) /\ Cardinality(Trying') \in Nat
        /\ Cardinality(Trying) \in Nat /\ Cardinality(Attempts) \in Nat
    <3>1. Trying \in SUBSET Attempts /\ Trying' \in SUBSET Attempts /\ Trying' \in SUBSET Trying
      BY <1>4 DEF Trying
    <3>2. IsFiniteSet(Trying) /\ Cardinality(Trying) \in Nat
          /\ Cardinality(Trying') \in Nat /\ Cardinality(Attempts) \in Nat
      BY <3>1, TryingCounts
    <3>3. Cardinality(Trying') <= Cardinality(Trying)
      BY <3>1, <3>2, FS_Subset
    <3>. QED  BY <3>2, <3>3
  <2>3. ASSUME entry.failures + Cardinality(Trying) <= Threshold + Cardinality(Attempts) - 1
        PROVE  entry.failures + Cardinality(Trying') <= Threshold + Cardinality(Attempts) - 1
    BY <1>1, <1>2, <2>2, <2>3
  <2>. QED  BY <1>1, <1>4, <2>1, <2>3 DEF TriesSound
<1>5. ASSUME entry' = NoEntry PROVE TriesSound'
  <2>1. entry'.blocked_until = Never
    BY <1>5 DEF NoEntry
  <2>. QED  BY <1>1, <2>1, BelowThreshold
<1>6. CASE Tick \/ UNCHANGED authVars
  <2>1. UNCHANGED <<entry, prolonged, attempt>> /\ now' >= now
    BY <1>2, <1>6 DEF Tick, authVars
  <2>. QED  BY <1>4, <2>1 DEF Trying
<1>7. CASE Forget
  BY <1>5, <1>7 DEF Forget
<1>8. ASSUME NEW a \in Attempts,
             (\E request \in ConnectRequest : Connect(a, request)) \/ Limited(a) \/ Lookup(a)
      PROVE  TriesSound'
  <2>1. UNCHANGED <<entry, prolonged, now>> /\ now >= now
    BY <1>2, <1>8 DEF Connect, Limited, Lookup
  <2>2. \A b \in Attempts \ {a} : attempt'[b] = attempt[b]
    BY <1>2, <1>8 DEF Connect, Limited, Lookup, Move, End
  <2>3. attempt'[a].step \in {"lookup", "record"} => attempt[a].step \in {"lookup", "record"}
    BY <1>2, <1>8 DEF Connect, Limited, Lookup, Move, End, Idle
  <2>4. Trying' \subseteq Trying
    BY <2>2, <2>3 DEF Trying
  <2>. QED  BY <1>4, <2>1, <2>4
<1>9. ASSUME NEW a \in Attempts, Pass(a) PROVE TriesSound'
  <2>1. CASE entry' = NoEntry
    BY <1>5, <2>1
  <2>2. CASE entry' = entry
    <3>1. /\ attempt[a].at <= now /\ attempt[a].at \in Nat /\ now' = now
          /\ ~(entry.blocked_until > attempt[a].at)
      BY <1>1, <1>2, <1>9, AuthAssumption DEF Pass, Blocked, ClocksSound
    <3>2. entry.blocked_until <= now
      BY <1>2, <3>1
    <3>3. CASE entry.blocked_until = Never
      BY <1>1, <2>2, <3>3, BelowThreshold
    <3>4. CASE entry.blocked_until # Never
      <4>1. Ended(now)'
        BY <2>2, <3>1, <3>2, <3>4 DEF Ended
      <4>. QED  BY <4>1 DEF TriesSound
    <3>. QED  BY <3>3, <3>4
  <2>. QED  BY <1>9, <2>1, <2>2 DEF Pass
<1>10. ASSUME NEW a \in Attempts, Clear(a) PROVE TriesSound'
  BY <1>5, <1>10 DEF Clear
<1>11. ASSUME NEW a \in Attempts, Record(a) PROVE TriesSound'
  BY <1>1, <1>11, RecordTries
<1>. QED  BY <1>6, <1>7, <1>8, <1>9, <1>10, <1>11 DEF Next, AuthNext, vars

(* Attempts begun together all get a try, and only those: while a client is    *)
(* blocked, at most Threshold secrets and one for each other attempt have     *)
(* been or will be tried, unless a failure was recorded across the end of a   *)
(* block.                                                                    *)
THEOREM TriesAreBounded == Spec => []TriesBounded
<1>1. Init => TriesInv
  <2>. SUFFICES ASSUME Init PROVE TriesInv
    OBVIOUS
  <2>1. AuthInv /\ ClocksSound
    BY AuthStart DEF Init, Idle, ClocksSound
  <2>2. entry.failures = 0 /\ Trying = {}
    BY DEF Init, NoEntry, Idle, Trying
  <2>3. Cardinality(Trying) = 0 /\ Cardinality(Attempts) \in Nat /\ Threshold \in Nat \ {0}
    BY <2>2, FS_EmptySet, FS_CardinalityType, AuthAssumption
  <2>. QED  BY <2>1, <2>2, <2>3 DEF TriesInv, TriesSound
<1>2. TriesInv /\ [Next]_vars => TriesInv'
  <2>. SUFFICES ASSUME TriesInv, [Next]_vars PROVE TriesInv'
    OBVIOUS
  <2>. QED  BY AuthInvStep, TriesStep, ClocksStep DEF TriesInv, AuthInv
<1>3. TriesInv => TriesBounded
  <2>. SUFFICES ASSUME TriesInv, entry.blocked_until > now, ~prolonged
                PROVE  entry.failures + Cardinality(Trying)
                         <= Threshold + Cardinality(Attempts) - 1
    BY DEF TriesBounded, Trying
  <2>1. entry.blocked_until \in Int /\ now \in Nat
    BY AuthAssumption DEF TriesInv, AuthInv, EntryTyped
  <2>2. ~Ended(now)
    BY <2>1 DEF Ended
  <2>. QED  BY <2>2 DEF TriesInv, TriesSound
<1>. QED  BY <1>1, <1>2, <1>3, PTL DEF Spec
=============================================================================
