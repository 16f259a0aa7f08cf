--------------------------- MODULE ContractProofs ---------------------------
(***************************************************************************)
(* Proofs about the harnesses of the contract tests, for every value of    *)
(* their constants: that the dispatch harness keeps every request in one   *)
(* place, no worker above its slots and each queue in order, and that it   *)
(* implements the server's lifecycle but for its chunks; that the heartbeat *)
(* harness lets equally loaded workers take turns; that the registration   *)
(* harness bounds the wrong secrets it looks at and acknowledges a         *)
(* worker's models faithfully; that the response harness keeps streams     *)
(* within their limit.                                                     *)
(***************************************************************************)
EXTENDS ContractTests, SeqFilterProofs, FiniteSetTheorems

-----------------------------------------------------------------------------
(* The turns of equally loaded workers.                                      *)

BeatRecord ==
  [models : SUBSET BeatModels, max_concurrent : Nat, reported_load : Nat, age : Nat]

TurnsTyped ==
  /\ order \in Seq(BeatId) /\ NoRepeats(order)
  /\ beats \in [BeatId -> BeatRecord]
  /\ cursor \in [BeatModels -> Nat]
  /\ passed \in [BeatModels -> [BeatId -> Nat]]

(* How often the worker at position i of n may have been passed over: once    *)
(* for each position between it and the position chosen last, going back from *)
(* there and around the end; not at all when that position is past the end.   *)
TurnsMissed(last, n, i) ==
  IF last > n THEN 0 ELSE IF i <= last THEN last - i ELSE last + n - i

TurnsInv ==
  /\ TurnsTyped
  /\ \A m \in BeatModels : \A i \in DOMAIN order :
       passed[m][order[i]] <= TurnsMissed(cursor[m], Len(order), i)

(* A non-empty set of positions has a first one. *)
LEMMA FirstPosition ==
  ASSUME NEW S \in SUBSET Nat, S # {}
  PROVE  LeastPosition(S) \in S /\ \A j \in S : LeastPosition(S) <= j
BY LeastNatural DEF LeastPosition

(* Among the workers that can take a request there are least loaded ones. *)
LEMMA SomeAreTied ==
  ASSUME TurnsTyped, NEW m \in BeatModels, EligibleBeats(m) # {}
  PROVE  TiedBeats(m) # {} /\ TiedBeats(m) \subseteq DOMAIN order
<1>. DEFINE E == EligibleBeats(m)
            load(i) == beats[order[i]].reported_load
            L == {load(i) : i \in E}
<1>1. E \subseteq DOMAIN order /\ DOMAIN order \subseteq Nat
  BY DEF EligibleBeats, TurnsTyped
<1>2. \A i \in E : load(i) \in Nat
  BY <1>1 DEF TurnsTyped, BeatRecord
<1>3. L \in SUBSET Nat /\ L # {}
  <2>1. \A i \in E : load(i) \in L
    OBVIOUS
  <2>2. \A l \in L : l \in Nat
    BY <1>2
  <2>3. E # {}
    OBVIOUS
  <2>. HIDE DEF L, E
  <2>. QED  BY <2>1, <2>2, <2>3
<1>4. PICK least \in L : \A l \in L : least <= l
  <2>. HIDE DEF L
  <2>. QED  BY <1>3, LeastNatural
<1>5. PICK i \in E : load(i) = least
  BY <1>4
<1>6. i \in TiedBeats(m)
  BY <1>4, <1>5 DEF TiedBeats
<1>. QED  BY <1>1, <1>6 DEF TiedBeats

(* The position chosen is the first tied one after the last, or the first.    *)
LEMMA ChosenPosition ==
  ASSUME TurnsTyped, NEW m \in BeatModels, EligibleBeats(m) # {}
  PROVE  LET i == AfterCursor(m) IN
         /\ i \in TiedBeats(m)
         /\ \A j \in TiedBeats(m) :
              \/ i > cursor[m] /\ (j > cursor[m] => i <= j)
              \/ j <= cursor[m] /\ i <= j
<1>. DEFINE T == TiedBeats(m)
            ahead == {i \in T : i > cursor[m]}
<1>1. T # {} /\ T \in SUBSET Nat /\ cursor[m] \in Nat
  BY SomeAreTied DEF TurnsTyped
<1>2. AfterCursor(m) = LeastPosition(IF ahead # {} THEN ahead ELSE T)
  BY DEF AfterCursor
<1>3. CASE ahead # {}
  <2>1. LeastPosition(ahead) \in ahead /\ \A j \in ahead : LeastPosition(ahead) <= j
    BY <1>1, <1>3, FirstPosition
  <2>. QED  BY <1>1, <1>2, <1>3, <2>1
<1>4. CASE ahead = {}
  <2>1. LeastPosition(T) \in T /\ \A j \in T : LeastPosition(T) <= j
    <3>. HIDE DEF T
    <3>. QED  BY <1>1, FirstPosition
  <2>2. \A j \in T : j <= cursor[m]
    BY <1>1, <1>4
  <2>. QED  BY <1>1, <1>2, <1>4, <2>1, <2>2
<1>. QED  BY <1>3, <1>4

(* The arithmetic of a turn: choosing position i, after the last one when a   *)
(* tied position is, moves every other tied position j one nearer its turn.   *)
LEMMA OneTurnMore ==
  ASSUME NEW n \in Nat, NEW last \in Nat, NEW i \in 1..n, NEW j \in 1..n, i # j,
         \/ i > last /\ (j > last => i <= j)
         \/ j <= last /\ i <= j
  PROVE  TurnsMissed(last, n, j) + 1 <= TurnsMissed(i, n, j)
BY DEF TurnsMissed

(* Nobody has a negative number of turns to miss, and a worker more at the    *)
(* end takes none from the others.                                           *)
LEMMA TurnsLeft ==
  ASSUME NEW n \in Nat, NEW last \in Nat, NEW i \in 1..n
  PROVE  /\ TurnsMissed(last, n, i) \in Nat /\ TurnsMissed(last, n, i) < n
         /\ TurnsMissed(last, n, i) <= TurnsMissed(last, n + 1, i)
BY DEF TurnsMissed

(* With nobody registered nobody was passed over.                            *)
LEMMA TurnsStart == HarnessInit => TurnsInv
<1>. SUFFICES ASSUME HarnessInit PROVE TurnsInv
  OBVIOUS
<1>1. NoBeat \in BeatRecord
  BY DEF NoBeat, BeatRecord
<1>. QED  BY <1>1 DEF HarnessInit, TurnsInv, TurnsTyped, NoRepeats

(* A worker registers at the end of the order, with no turn missed.           *)
LEMMA RegisterKeepsTurns ==
  ASSUME TurnsInv, NEW ms \in SUBSET BeatModels, NEW slots \in BeatSlots,
         HeartbeatRegister(ms, slots)
  PROVE  TurnsInv'
<1>. USE DEF TurnsInv, TurnsTyped
<1>. DEFINE w == CHOOSE w \in BeatId \ Beating : \A v \in BeatId \ Beating : w <= v
            n == Len(order)
            beat == [NoBeat EXCEPT !.models = ms,
                       !.max_concurrent = IF slots = 0 THEN 1 ELSE slots]
<1>1. w \in BeatId /\ w \notin Members(order)
  <2>1. BeatId \ Beating # {} /\ BeatId \ Beating \in SUBSET Nat
    <3>1. Beating \subseteq BeatId
      BY DEF Beating, ToSet
    <3>2. Beating # BeatId
      BY DEF HeartbeatRegister
    <3>3. BeatId \subseteq Nat
      BY DEF BeatId
    <3>. QED  BY <3>1, <3>2, <3>3
  <2>2. \E v \in BeatId \ Beating : \A u \in BeatId \ Beating : v <= u
    <3>. HIDE DEF Beating
    <3>. DEFINE free == BeatId \ Beating
    <3>1. free # {} /\ free \in SUBSET Nat
      BY <2>1
    <3>2. \E v \in free : \A u \in free : v <= u
      <4>. HIDE DEF free
      <4>. QED  BY <3>1, LeastNatural
    <3>. QED  BY <3>2
  <2>3. w \in BeatId \ Beating
    BY <2>2
  <2>. QED  BY <2>3 DEF Beating, ToSet, Members
<1>2. beat \in BeatRecord
  BY HarnessAssumption DEF NoBeat, BeatRecord
<1>3. /\ order' = Append(order, w) /\ beats' = [beats EXCEPT ![w] = beat]
      /\ passed' = [m \in BeatModels |-> [passed[m] EXCEPT ![w] = 0]] /\ cursor' = cursor
  BY Zenon DEF HeartbeatRegister
<1>. HIDE DEF w, beat
<1>4. /\ order' \in Seq(BeatId) /\ Len(order') = n + 1 /\ n \in Nat
      /\ \A i \in DOMAIN order' :
           (i \in DOMAIN order /\ order'[i] = order[i]) \/ (i = n + 1 /\ order'[i] = w)
  <2>1. order \in Seq(BeatId)
    OBVIOUS
  <2>. HIDE DEF TurnsInv, TurnsTyped
  <2>. QED  BY <1>1, <1>3, <2>1
<1>5. NoRepeats(order')
  BY <1>1, <1>4 DEF NoRepeats, Members
<1>6. TurnsTyped'
  BY <1>1, <1>2, <1>3, <1>4, <1>5
<1>7. ASSUME NEW m \in BeatModels, NEW i \in DOMAIN order'
      PROVE  passed'[m][order'[i]] <= TurnsMissed(cursor[m], n + 1, i)
  <2>1. i \in 1..(n + 1) /\ cursor[m] \in Nat
    BY <1>4
  <2>2. TurnsMissed(cursor[m], n + 1, i) \in Nat
    BY <1>4, <2>1, TurnsLeft
  <2>3. CASE order'[i] = w
    <3>1. passed'[m][w] = 0
      BY <1>1, <1>3
    <3>. QED  BY <2>2, <2>3, <3>1
  <2>4. CASE order'[i] # w
    <3>1. i \in DOMAIN order /\ order'[i] = order[i] /\ i \in 1..n
      BY <1>4, <2>4
    <3>2. passed'[m][order[i]] = passed[m][order[i]] /\ passed[m][order[i]] \in Nat
      BY <1>1, <1>3, <2>4, <3>1
    <3>3. /\ TurnsMissed(cursor[m], n, i) <= TurnsMissed(cursor[m], n + 1, i)
          /\ TurnsMissed(cursor[m], n, i) \in Nat
      BY <1>4, <2>1, <3>1, TurnsLeft
    <3>4. passed[m][order[i]] <= TurnsMissed(cursor[m], n, i)
      BY <3>1
    <3>. HIDE DEF TurnsInv, TurnsTyped
    <3>. QED  BY <2>2, <3>1, <3>2, <3>3, <3>4
  <2>. QED  BY <2>3, <2>4
<1>. QED  BY <1>3, <1>4, <1>6, <1>7

(* When a silent worker is removed the others begin to count anew.            *)
LEMMA ExpiryKeepsTurns ==
  ASSUME TurnsInv, ExpireStaleWorkers PROVE TurnsInv'
<1>. USE DEF TurnsInv, TurnsTyped
<1>1. order' \in Seq(BeatId) /\ NoRepeats(order')
  BY WithoutProperties DEF ExpireStaleWorkers
<1>2. beats' \in [BeatId -> BeatRecord] /\ cursor' = cursor
  BY DEF ExpireStaleWorkers, NoBeat, BeatRecord
<1>3. CASE order' = order
  BY <1>1, <1>2, <1>3 DEF ExpireStaleWorkers
<1>4. CASE order' # order
  <2>1. passed' = [m \in BeatModels |-> [w \in BeatId |-> 0]]
    BY <1>4 DEF ExpireStaleWorkers
  <2>2. \A m \in BeatModels, i \in DOMAIN order' :
          passed'[m][order'[i]] = 0 /\ TurnsMissed(cursor[m], Len(order'), i) \in Nat
    BY <1>1, <2>1, TurnsLeft
  <2>3. passed' \in [BeatModels -> [BeatId -> Nat]]
    BY <2>1
  <2>. QED  BY <1>1, <1>2, <2>2, <2>3
<1>. QED  BY <1>3, <1>4

(* A request takes the next tied worker of its model; the others miss a turn. *)
LEMMA SubmitKeepsTurns ==
  ASSUME TurnsInv, NEW m \in BeatModels, HeartbeatSubmit(m)
  PROVE  TurnsInv'
<1>. USE DEF TurnsInv, TurnsTyped
<1>. DEFINE c == AfterCursor(m)
            n == Len(order)
            tied == {order[j] : j \in TiedBeats(m)}
<1>1. /\ EligibleBeats(m) # {} /\ order' = order
      /\ beats' = [beats EXCEPT ![order[c]].reported_load = @ + 1]
      /\ cursor' = [cursor EXCEPT ![m] = c]
      /\ passed' = [passed EXCEPT ![m] = [w \in BeatId |->
                      IF w \in tied \ {order[c]} THEN passed[m][w] + 1 ELSE 0]]
  BY DEF HeartbeatSubmit
<1>2. /\ c \in TiedBeats(m) /\ TiedBeats(m) \subseteq DOMAIN order
      /\ \A j \in TiedBeats(m) : \/ c > cursor[m] /\ (j > cursor[m] => c <= j)
                                 \/ j <= cursor[m] /\ c <= j
  BY <1>1, SomeAreTied, ChosenPosition
<1>. HIDE DEF c
<1>3. c \in 1..n /\ n \in Nat /\ DOMAIN order = 1..n /\ order[c] \in BeatId
  BY <1>2
<1>4. TurnsTyped'
  <2>1. beats' \in [BeatId -> BeatRecord]
    <3>1. beats[order[c]] \in BeatRecord
      BY <1>3
    <3>. DEFINE more == beats[order[c]].reported_load + 1
    <3>2. more \in Nat
      <4>. HIDE DEF TurnsInv, TurnsTyped
      <4>1. beats[order[c]].reported_load \in Nat
        BY <3>1 DEF BeatRecord
      <4>. QED  BY <4>1
    <3>3. beats' = [beats EXCEPT ![order[c]] = [beats[order[c]] EXCEPT !.reported_load = more]]
      <4>1. PICK w \in BeatId : w = order[c]
        BY <1>3
      <4>2. beats' = [beats EXCEPT ![w].reported_load = @ + 1]
        BY <1>1, <4>1
      <4>3. beats' = [beats EXCEPT ![w] = [beats[w] EXCEPT !.reported_load = more]]
        BY <4>1, <4>2
      <4>. QED  BY <4>1, <4>3
    <3>. HIDE DEF more
    <3>5. [beats[order[c]] EXCEPT !.reported_load = more] \in BeatRecord
      BY <3>1, <3>2 DEF BeatRecord
    <3>4. beats \in [BeatId -> BeatRecord] /\ order[c] \in BeatId
      BY <1>3
    <3>. HIDE DEF TurnsInv, TurnsTyped
    <3>. QED  BY <3>3, <3>4, <3>5
  <2>2. cursor' \in [BeatModels -> Nat]
    BY <1>1, <1>3
  <2>3. passed' \in [BeatModels -> [BeatId -> Nat]]
    <3>. HIDE DEF tied
    <3>. QED  BY <1>1
  <2>. QED  BY <1>1, <2>1, <2>2, <2>3
<1>5. ASSUME NEW k \in BeatModels, NEW i \in 1..n
      PROVE  passed'[k][order[i]] <= TurnsMissed(cursor'[k], n, i)
  <2>1. CASE k # m
    BY <1>1, <1>3, <2>1
  <2>2. CASE k = m
    <3>1. cursor'[k] = c /\ order[i] \in BeatId
          /\ passed'[k][order[i]] = IF order[i] \in tied \ {order[c]}
                                    THEN passed[m][order[i]] + 1 ELSE 0
      <4>. HIDE DEF tied
      <4>. QED  BY <1>1, <1>3, <2>2
    <3>2. TurnsMissed(c, n, i) \in Nat
      BY <1>3, TurnsLeft
    <3>3. CASE order[i] \notin tied \ {order[c]}
      BY <3>1, <3>2, <3>3
    <3>4. CASE order[i] \in tied \ {order[c]}
      <4>1. i \in TiedBeats(m) /\ i # c
        BY <1>2, <1>3, <3>4 DEF NoRepeats
      <4>2. TurnsMissed(cursor[m], n, i) + 1 <= TurnsMissed(c, n, i)
        <5>1. cursor[m] \in Nat
          OBVIOUS
        <5>2. \/ c > cursor[m] /\ (i > cursor[m] => c <= i)
              \/ i <= cursor[m] /\ c <= i
          BY <1>2, <4>1
        <5>. QED  BY <1>3, <4>1, <5>1, <5>2, OneTurnMore
      <4>3. passed[m][order[i]] <= TurnsMissed(cursor[m], n, i) /\ passed[m][order[i]] \in Nat
        BY <1>3
      <4>4. TurnsMissed(cursor[m], n, i) \in Nat
        BY <1>3, TurnsLeft
      <4>5. passed'[k][order[i]] = passed[m][order[i]] + 1
        BY <3>1, <3>4
      <4>. HIDE DEF TurnsInv, TurnsTyped
      <4>. QED  BY <3>1, <3>2, <4>2, <4>3, <4>4, <4>5
    <3>. QED  BY <3>3, <3>4
  <2>. QED  BY <2>1, <2>2
<1>. QED  BY <1>1, <1>3, <1>4, <1>5

(* No operation of the heartbeat harness passes a worker over more often than*)
(* there are positions between it and the cursor.                            *)
LEMMA TurnsStep == TurnsInv /\ [HarnessNext]_harnessVars => TurnsInv'
<1>. SUFFICES ASSUME TurnsInv, [HarnessNext]_harnessVars PROVE TurnsInv'
  OBVIOUS
<1>1. ASSUME UNCHANGED heartbeatVars PROVE TurnsInv'
  BY <1>1 DEF TurnsInv, TurnsTyped, heartbeatVars
<1>2. ASSUME NEW w \in BeatId, NEW load \in 0..MaxReport, ReceivePong(w, load) PROVE TurnsInv'
  <2>1. beats \in [BeatId -> BeatRecord] /\ load \in Nat
    BY HarnessAssumption DEF TurnsInv, TurnsTyped
  <2>2. [beats[w] EXCEPT !.reported_load = load, !.age = 0] \in BeatRecord
    BY <2>1 DEF BeatRecord
  <2>3. beats' = [beats EXCEPT ![w] = [beats[w] EXCEPT !.reported_load = load, !.age = 0]]
    BY <1>2, <2>1 DEF ReceivePong
  <2>4. beats' \in [BeatId -> BeatRecord] /\ UNCHANGED <<order, cursor, passed>>
    BY <1>2, <2>1, <2>2, <2>3 DEF ReceivePong
  <2>. QED  BY <2>4 DEF TurnsInv, TurnsTyped
<1>3. ASSUME HeartbeatTick PROVE TurnsInv'
  <2>1. \A w \in BeatId : beats[w] \in BeatRecord
    BY DEF TurnsInv, TurnsTyped
  <2>2. \A w \in BeatId : [beats[w] EXCEPT !.age = @ + 1] \in BeatRecord
    BY <2>1 DEF BeatRecord
  <2>3. beats' \in [BeatId -> BeatRecord] /\ UNCHANGED <<order, cursor, passed>>
    BY <1>3, <2>1, <2>2 DEF HeartbeatTick
  <2>. QED  BY <2>3 DEF TurnsInv, TurnsTyped
<1>. QED
  BY <1>1, <1>2, <1>3, RegisterKeepsTurns, ExpiryKeepsTurns, SubmitKeepsTurns
  DEF HarnessNext, HeartbeatNext, RegistrationNext, AcknowledgeNext, ResponseNext, harnessVars

(* Equally loaded workers take turns, however many there are and whatever     *)
(* they report: since no removal, a worker that stays among the least loaded  *)
(* for a model is passed over at most once for each other worker.             *)
THEOREM NobodyIsPassedOver == HarnessSpec => []NobodyPassedOver
<1>1. TurnsInv => NobodyPassedOver
  <2>. SUFFICES ASSUME TurnsInv, NEW m \in BeatModels, NEW i \in DOMAIN order
                PROVE  passed[m][order[i]] < Len(order)
    BY DEF NobodyPassedOver
  <2>1. /\ passed[m][order[i]] \in Nat /\ Len(order) \in Nat
        /\ passed[m][order[i]] <= TurnsMissed(cursor[m], Len(order), i)
    BY DEF TurnsInv, TurnsTyped
  <2>2. /\ TurnsMissed(cursor[m], Len(order), i) \in Nat
        /\ TurnsMissed(cursor[m], Len(order), i) < Len(order)
    BY TurnsLeft DEF TurnsInv, TurnsTyped
  <2>. QED  BY <2>1, <2>2
<1>. QED  BY <1>1, TurnsStart, TurnsStep, PTL DEF HarnessSpec

-----------------------------------------------------------------------------
(* The wrong secrets of a client.                                            *)

(* What the limiter keeps of a client against the wrong secrets it looked at  *)
(* within the window: it has counted each, forgets none before all of them    *)
(* have left the window, and blocks the client at the threshold.              *)
FailuresCounted(c) ==
  LET entry == failedAuth[c]
  IN
  /\ recent[c] \in Seq(Nat) /\ Len(recent[c]) <= entry.failed /\ entry.failed <= FailThreshold
  /\ entry.limited <= entry.expires /\ entry.expires <= FailWindow
  /\ entry.failed = FailThreshold => entry.limited > 0 /\ entry.limited = entry.expires
  /\ \A i \in DOMAIN recent[c] :
       recent[c][i] < FailWindow /\ FailWindow <= recent[c][i] + entry.expires

RegistrationInv ==
  /\ failedAuth \in [Clients -> [failed : Nat, limited : Nat, expires : Nat]]
  /\ DOMAIN recent = Clients
  /\ \A c \in Clients : FailuresCounted(c)

(* A client without an entry has no failure counted and is not blocked.       *)
LEMMA NothingFailed ==
  /\ NoFailures \in [failed : Nat, limited : Nat, expires : Nat]
  /\ NoFailures.failed = 0 /\ NoFailures.limited = 0 /\ NoFailures.expires = 0
BY DEF NoFailures

(* A wrong secret is looked at only while the client is not blocked.          *)
LEMMA WrongSecretCounted ==
  ASSUME RegistrationInv, NEW c \in Clients, NEW request, ConnectWrongly(c, request)
  PROVE  RegistrationInv'
<1>. DEFINE f == failedAuth[c].failed
            l == failedAuth[c].limited
            x == failedAuth[c].expires
            old == recent[c]
            fresh == Append(old, 0)
            n == IF f + 1 >= FailThreshold THEN FailWindow ELSE l
            entry == [failed |-> f + 1, expires |-> FailWindow, limited |-> n]
<1>1. /\ failedAuth' = [failedAuth EXCEPT ![c] = entry]
      /\ recent' = [recent EXCEPT ![c] = fresh]
      /\ ~(l > 0)
  BY DEF ConnectWrongly, LooksAtSecret, client_is_rate_limited, record_failed_auth
<1>2. /\ f \in Nat /\ l \in Nat /\ x \in Nat /\ old \in Seq(Nat)
      /\ Len(old) <= f /\ f <= FailThreshold /\ l <= x /\ x <= FailWindow
      /\ f = FailThreshold => l > 0
      /\ \A i \in DOMAIN old : old[i] < FailWindow /\ FailWindow <= old[i] + x
  BY DEF RegistrationInv, FailuresCounted
<1>3. FailThreshold \in Nat /\ FailThreshold > 0 /\ FailWindow \in Nat /\ FailWindow > 0
  BY HarnessAssumption
<1>. HIDE DEF f, l, x, old
<1>4. f + 1 \in Nat /\ f + 1 <= FailThreshold /\ n \in Nat /\ n <= FailWindow
      /\ (f + 1 = FailThreshold => n = FailWindow)
  BY <1>1, <1>2, <1>3
<1>5. /\ fresh \in Seq(Nat) /\ Len(fresh) <= f + 1
      /\ \A i \in DOMAIN fresh : fresh[i] < FailWindow /\ FailWindow <= fresh[i] + FailWindow
  BY <1>2, <1>3
<1>. HIDE DEF n, fresh
<1>6. /\ failedAuth'[c] = entry /\ recent'[c] = fresh
      /\ \A d \in Clients : d # c => failedAuth'[d] = failedAuth[d] /\ recent'[d] = recent[d]
      /\ failedAuth' \in [Clients -> [failed : Nat, limited : Nat, expires : Nat]]
      /\ DOMAIN recent' = Clients
  BY <1>1, <1>3, <1>4 DEF RegistrationInv
<1>7. /\ entry.failed = f + 1 /\ entry.limited = n /\ entry.expires = FailWindow
  OBVIOUS
<1>. HIDE DEF entry
<1>8. FailuresCounted(c)'
  BY <1>3, <1>4, <1>5, <1>6, <1>7 DEF FailuresCounted
<1>9. \A d \in Clients : d # c => FailuresCounted(d)'
  BY <1>6 DEF RegistrationInv, FailuresCounted
<1>. QED  BY <1>6, <1>8, <1>9 DEF RegistrationInv

(* The right secret clears the client's entry.                               *)
LEMMA RightSecretClears ==
  ASSUME RegistrationInv, NEW c \in Clients, NEW request, ConnectRightly(c, request)
  PROVE  RegistrationInv'
<1>1. /\ failedAuth' = [failedAuth EXCEPT ![c] = NoFailures]
      /\ recent' = [recent EXCEPT ![c] = <<>>]
  BY DEF ConnectRightly
<1>2. FailThreshold \in Nat /\ FailThreshold > 0 /\ FailWindow \in Nat
  BY HarnessAssumption
<1>3. /\ failedAuth'[c] = NoFailures /\ recent'[c] = <<>>
      /\ \A d \in Clients : d # c => failedAuth'[d] = failedAuth[d] /\ recent'[d] = recent[d]
      /\ failedAuth' \in [Clients -> [failed : Nat, limited : Nat, expires : Nat]]
      /\ DOMAIN recent' = Clients
  BY <1>1 DEF RegistrationInv, NoFailures
<1>4. FailuresCounted(c)'
  BY <1>2, <1>3 DEF FailuresCounted, NoFailures
<1>5. \A d \in Clients : d # c => FailuresCounted(d)'
  BY <1>3 DEF RegistrationInv, FailuresCounted
<1>. QED  BY <1>3, <1>4, <1>5 DEF RegistrationInv

(* When time passes failures leave the window no later than the entry goes.   *)
LEMMA TickCounted ==
  ASSUME RegistrationInv, RegistrationTick
  PROVE  RegistrationInv'
<1>1. FailThreshold \in Nat /\ FailThreshold > 0 /\ FailWindow \in Nat /\ FailWindow > 0
  BY HarnessAssumption
<1>2. ASSUME NEW c \in Clients
      PROVE  /\ FailuresCounted(c)'
             /\ failedAuth'[c] \in [failed : Nat, limited : Nat, expires : Nat]
  <2>. DEFINE e == failedAuth[c]
              f == e.failed
              l == e.limited
              x == e.expires
              old == recent[c]
              aged == [i \in DOMAIN old |-> old[i] + 1]
              kept == Without(aged, {FailWindow})
  <2>1. /\ failedAuth'[c] = IF x <= 1 THEN NoFailures
                            ELSE [e EXCEPT !.expires = x - 1,
                                           !.limited = IF l = 0 THEN 0 ELSE l - 1]
        /\ recent'[c] = kept
    BY DEF RegistrationTick
  <2>2. /\ f \in Nat /\ l \in Nat /\ x \in Nat /\ old \in Seq(Nat)
        /\ Len(old) <= f /\ f <= FailThreshold /\ l <= x /\ x <= FailWindow
        /\ f = FailThreshold => l > 0 /\ l = x
        /\ \A i \in DOMAIN old : old[i] < FailWindow /\ FailWindow <= old[i] + x
        /\ e \in [failed : Nat, limited : Nat, expires : Nat]
    BY DEF RegistrationInv, FailuresCounted
  <2>. HIDE DEF f, l, x, old
  <2>3. /\ aged \in Seq(Nat) /\ Len(aged) = Len(old)
        /\ \A i \in DOMAIN aged : aged[i] <= FailWindow /\ FailWindow <= aged[i] + x - 1
    <3>0. old \in [1..Len(old) -> Nat] /\ Len(old) \in Nat /\ DOMAIN old = 1..Len(old)
      BY <2>2
    <3>1. aged \in Seq(Nat) /\ Len(aged) = Len(old) /\ DOMAIN aged = DOMAIN old
      <4>1. aged \in [1..Len(old) -> Nat]
        BY <3>0
      <4>. HIDE DEF aged
      <4>. QED  BY <3>0, <4>1
    <3>2. \A i \in DOMAIN aged : aged[i] = old[i] + 1 /\ old[i] \in Nat
      BY <2>2
    <3>. HIDE DEF aged
    <3>3. ASSUME NEW i \in DOMAIN aged
          PROVE  aged[i] <= FailWindow /\ FailWindow <= aged[i] + x - 1
      <4>1. /\ aged[i] = old[i] + 1 /\ old[i] \in Nat
            /\ old[i] < FailWindow /\ FailWindow <= old[i] + x
        BY <2>2, <3>1, <3>2
      <4>. QED  BY <1>1, <2>2, <4>1
    <3>. QED  BY <3>1, <3>3
  <2>. HIDE DEF aged
  <2>4. kept \in Seq(Nat) /\ Len(kept) <= Len(aged) /\ Members(kept) = Members(aged) \ {FailWindow}
    BY <2>3, WithoutProperties
  <2>. HIDE DEF kept
  <2>5. \A i \in DOMAIN kept : kept[i] < FailWindow /\ FailWindow <= kept[i] + x - 1
    <3>1. \A a \in Members(aged) : a <= FailWindow /\ FailWindow <= a + x - 1 /\ a \in Nat
      BY <2>3 DEF Members
    <3>2. \A i \in DOMAIN kept : kept[i] \in Members(aged) /\ kept[i] # FailWindow
      BY <2>4 DEF Members
    <3>. QED  BY <1>1, <3>1, <3>2
  <2>6. CASE x <= 1
    <3>1. DOMAIN kept = {}
      BY <1>1, <2>2, <2>4, <2>5, <2>6
    <3>2. Len(kept) = 0
      BY <2>4, <3>1
    <3>3. failedAuth'[c] = NoFailures
      BY <2>1, <2>6
    <3>4. /\ failedAuth'[c].failed = 0 /\ failedAuth'[c].limited = 0
          /\ failedAuth'[c].expires = 0
          /\ failedAuth'[c] \in [failed : Nat, limited : Nat, expires : Nat]
      BY <3>3, NothingFailed
    <3>5. recent'[c] \in Seq(Nat) /\ Len(recent'[c]) = 0 /\ DOMAIN recent'[c] = {}
      BY <2>1, <2>4, <3>1, <3>2
    <3>. QED  BY <1>1, <3>4, <3>5 DEF FailuresCounted
  <2>7. CASE ~(x <= 1)
    <3>. DEFINE less == IF l = 0 THEN 0 ELSE l - 1
                next == [e EXCEPT !.expires = x - 1, !.limited = less]
    <3>1. /\ less \in Nat /\ x - 1 \in Nat /\ less <= x - 1 /\ x - 1 <= FailWindow
          /\ f = FailThreshold => less > 0 /\ less = x - 1
          /\ Len(kept) \in Nat /\ Len(kept) <= f
      BY <1>1, <2>2, <2>3, <2>4, <2>7
    <3>2. failedAuth'[c] = next
      BY <2>1, <2>7
    <3>. HIDE DEF less
    <3>3. next.failed = f /\ next.limited = less /\ next.expires = x - 1
          /\ next \in [failed : Nat, limited : Nat, expires : Nat]
      BY <2>2, <3>1 DEF f
    <3>4. \A i \in DOMAIN kept : kept[i] < FailWindow /\ FailWindow <= kept[i] + (x - 1)
      <4>1. \A i \in DOMAIN kept : kept[i] \in Nat
        BY <2>4
      <4>. QED  BY <1>1, <2>2, <2>5, <4>1
    <3>. HIDE DEF next
    <3>. QED  BY <2>1, <2>2, <2>4, <3>1, <3>2, <3>3, <3>4 DEF FailuresCounted
  <2>. QED  BY <2>6, <2>7
<1>3. DOMAIN recent' = Clients /\ DOMAIN failedAuth' = Clients
      /\ failedAuth' = [c \in Clients |-> failedAuth'[c]]
  BY DEF RegistrationTick
<1>. QED  BY <1>2, <1>3 DEF RegistrationInv

(* No client has failed yet.                                                 *)
LEMMA RegistrationStart == HarnessInit => RegistrationInv
<1>. SUFFICES ASSUME HarnessInit PROVE RegistrationInv
  OBVIOUS
<1>1. FailThreshold \in Nat /\ FailThreshold > 0 /\ FailWindow \in Nat
  BY HarnessAssumption
<1>2. /\ failedAuth \in [Clients -> [failed : Nat, limited : Nat, expires : Nat]]
      /\ DOMAIN recent = Clients
      /\ \A c \in Clients : failedAuth[c] = NoFailures /\ recent[c] = <<>>
  BY DEF HarnessInit, NoFailures
<1>3. ASSUME NEW c \in Clients PROVE FailuresCounted(c)
  <2>1. /\ failedAuth[c].failed = 0 /\ failedAuth[c].limited = 0
        /\ failedAuth[c].expires = 0
    BY <1>2, NothingFailed
  <2>2. recent[c] \in Seq(Nat) /\ Len(recent[c]) = 0 /\ DOMAIN recent[c] = {}
    <3>1. recent[c] = <<>>
      BY <1>2
    <3>. QED  BY <3>1
  <2>. QED  BY <1>1, <2>1, <2>2 DEF FailuresCounted
<1>. QED  BY <1>2, <1>3 DEF RegistrationInv

(* No connection makes the registration harness lose count of wrong secrets. *)
LEMMA RegistrationStep ==
  RegistrationInv /\ [HarnessNext]_harnessVars => RegistrationInv'
<1>. SUFFICES ASSUME RegistrationInv, [HarnessNext]_harnessVars PROVE RegistrationInv'
  OBVIOUS
<1>1. ASSUME UNCHANGED <<failedAuth, recent>> PROVE RegistrationInv'
  BY <1>1 DEF RegistrationInv, FailuresCounted
<1>2. CASE RegistrationNext
  BY <1>2, WrongSecretCounted, RightSecretClears, TickCounted DEF RegistrationNext
<1>3. CASE HeartbeatNext \/ AcknowledgeNext \/ ResponseNext \/ UNCHANGED harnessVars
  <2>1. UNCHANGED <<failedAuth, recent>>
    BY <1>3 DEF HeartbeatNext, AcknowledgeNext, ResponseNext, ExchangeText, harnessVars,
                registrationVars
  <2>. QED  BY <1>1, <2>1
<1>. QED  BY <1>2, <1>3 DEF HarnessNext

(* However wrong and right secrets, other requests and the clock interleave,  *)
(* a client has the registration harness look at no more than the threshold   *)
(* of wrong secrets within one window, unless a right one comes in between.   *)
THEOREM WrongSecretsAreBounded == HarnessSpec => []WrongSecretsBounded
<1>1. RegistrationInv => WrongSecretsBounded
  <2>. SUFFICES ASSUME RegistrationInv, NEW c \in Clients PROVE Len(recent[c]) <= FailThreshold
    BY DEF WrongSecretsBounded
  <2>. DEFINE n == Len(recent[c])
              f == failedAuth[c].failed
  <2>1. n \in Nat /\ f \in Nat /\ n <= f /\ f <= FailThreshold /\ FailThreshold \in Nat
    BY HarnessAssumption DEF RegistrationInv, FailuresCounted
  <2>. HIDE DEF n, f
  <2>2. n <= FailThreshold
    BY <2>1
  <2>. QED  BY <2>2 DEF n
<1>. QED  BY <1>1, RegistrationStart, RegistrationStep, PTL DEF HarnessSpec

-----------------------------------------------------------------------------
(* The acknowledged models.                                                  *)

Lists == [models : Seq(STRING), truncated : BOOLEAN]

(* What the sanitizer makes of one more name. *)
Sanitized(done, raw) ==
  IF done.truncated \/ TrimmedName[raw] = "" \/ Contains(done.models, TrimmedName[raw]) THEN done
  ELSE IF Len(done.models) = MaxNames THEN [done EXCEPT !.truncated = TRUE]
  ELSE [done EXCEPT !.models = Append(@, TrimmedName[raw])]

NothingSanitized == [models |-> <<>>, truncated |-> FALSE]

LEMMA SanitizedTyped ==
  ASSUME NEW done \in Lists, NEW raw \in Names
  PROVE  Sanitized(done, raw) \in Lists
<1>1. TrimmedName[raw] \in STRING
  BY HarnessAssumption
<1>2. CASE Sanitized(done, raw) = done
  BY <1>2
<1>3. CASE Sanitized(done, raw) = [done EXCEPT !.truncated = TRUE]
  BY <1>3 DEF Lists
<1>4. CASE Sanitized(done, raw) = [done EXCEPT !.models = Append(@, TrimmedName[raw])]
  <2>1. Append(done.models, TrimmedName[raw]) \in Seq(STRING)
    BY <1>1 DEF Lists
  <2>2. Sanitized(done, raw) = [done EXCEPT !.models = Append(done.models, TrimmedName[raw])]
    BY <1>4
  <2>. QED  BY <2>1, <2>2 DEF Lists
<1>. QED  BY <1>2, <1>3, <1>4 DEF Sanitized

(* What is accepted of a list: a function of its prefixes, its value on the whole. *)
LEMMA AcceptedOfPrefixes ==
  ASSUME NEW s \in Seq(Names)
  PROVE  \E h \in [0..Len(s) -> Lists] :
           /\ h[0] = NothingSanitized
           /\ \A k \in 1..Len(s) : h[k] = Sanitized(h[k - 1], s[k])
           /\ Accepted(s) = h[Len(s)]
<1>. DEFINE n == Len(s)
            Eq(g) == g = [S \in SUBSET DOMAIN s |->
                            IF S = {} THEN NothingSanitized
                            ELSE LET i == CHOOSE x \in S : \A y \in S : x >= y
                                 IN  Sanitized(g[S \ {i}], s[i])]
            iter == CHOOSE g : Eq(g)
            G == [i \in 1..n |-> [v \in Lists |-> Sanitized(v, s[i])]]
<1>1. Accepted(s) = iter[DOMAIN s]
  BY DEF Accepted, FoldLeft, MapThenFoldSet, Max, Sanitized, NothingSanitized
<1>2. n \in Nat /\ DOMAIN s = 1..n /\ \A i \in 1..n : s[i] \in Names
  OBVIOUS
<1>3. G \in [1..n -> [Lists -> Lists]]
  BY <1>2, SanitizedTyped
<1>. HIDE DEF n
<1>0. NothingSanitized \in Lists
  BY DEF NothingSanitized, Lists
<1>4. PICK g \in [SUBSET (1..n) -> Lists] : FoldsUp(g, NothingSanitized, G, n)
  <2>. HIDE DEF G
  <2>. QED  BY <1>0, <1>2, <1>3, FoldExists
<1>5. Eq(g)
  <2>1. ASSUME NEW S \in SUBSET (1..n), S # {}
        PROVE  G[EndOf(S)][g[S \ {EndOf(S)}]] = Sanitized(g[S \ {EndOf(S)}], s[EndOf(S)])
    <3>1. EndOf(S) \in 1..n
      BY <1>2, <2>1, EndIsThere
    <3>2. g[S \ {EndOf(S)}] \in Lists
      BY <1>4
    <3>. QED  BY <3>1, <3>2
  <2>. HIDE DEF G
  <2>2. g = [S \in SUBSET (1..n) |->
               IF S = {} THEN NothingSanitized ELSE Sanitized(g[S \ {EndOf(S)}], s[EndOf(S)])]
    BY <1>4, <2>1 DEF FoldsUp
  <2>. QED  BY <1>2, <2>2 DEF EndOf
<1>6. Eq(iter)
  <2>. HIDE DEF Eq
  <2>. QED  BY <1>5
<1>. HIDE DEF iter
<1>7. FoldsOver(iter, NothingSanitized, G, n, Lists)
  <2>1. ASSUME NEW S \in SUBSET (1..n)
        PROVE  iter[S] = IF S = {} THEN NothingSanitized
                         ELSE Sanitized(iter[S \ {EndOf(S)}], s[EndOf(S)])
    BY <1>2, <1>6 DEF EndOf
  <2>2. ASSUME NEW S \in SUBSET (1..n), S # {}, iter[S \ {EndOf(S)}] \in Lists
        PROVE  iter[S] = G[EndOf(S)][iter[S \ {EndOf(S)}]]
    <3>1. EndOf(S) \in 1..n
      BY <1>2, <2>2, EndIsThere
    <3>. QED  BY <3>1, <2>1, <2>2
  <2>. HIDE DEF G
  <2>. QED  BY <2>1, <2>2 DEF FoldsOver
<1>8. PICK h \in [0..n -> Lists] : RunsThrough(h, iter, NothingSanitized, G, n)
  <2>. HIDE DEF G
  <2>. QED  BY <1>0, <1>2, <1>3, <1>7, FoldOfPrefixes
<1>9. \A k \in 1..n : h[k] = Sanitized(h[k - 1], s[k])
  <2>1. \A k \in 1..n : k - 1 \in 0..n
    BY <1>2
  <2>. QED  BY <2>1, <1>8 DEF RunsThrough
<1>. QED  BY <1>1, <1>2, <1>8, <1>9 DEF n, RunsThrough

(* The names a worker is to get from the first k it sent, and the position    *)
(* each was sent at first.                                                   *)
Wanted(s, k) == {TrimmedName[s[i]] : i \in 1..k} \ {""}
SentFirst(s, name) ==
  CHOOSE i \in DOMAIN s : TrimmedName[s[i]] = name /\ \A j \in 1..(i - 1) : TrimmedName[s[j]] # name

(* A wanted name was sent first at one of the positions it is wanted from. *)
LEMMA FirstSent ==
  ASSUME NEW s \in Seq(Names), NEW k \in 0..Len(s), NEW name \in Wanted(s, k)
  PROVE  /\ SentFirst(s, name) \in 1..k
         /\ TrimmedName[s[SentFirst(s, name)]] = name
         /\ \A j \in 1..(SentFirst(s, name) - 1) : TrimmedName[s[j]] # name
<1>. DEFINE T == {i \in 1..k : TrimmedName[s[i]] = name}
<1>1. DOMAIN s = 1..Len(s) /\ Len(s) \in Nat /\ k \in Nat
  OBVIOUS
<1>2. T # {} /\ T \in SUBSET Nat
  <2>1. \E i \in 1..k : TrimmedName[s[i]] = name
    BY DEF Wanted
  <2>. QED  BY <2>1, <1>1
<1>3. PICK i \in T : \A j \in T : i <= j
  <2>. HIDE DEF T
  <2>. QED  BY <1>2, LeastNatural
<1>4. /\ i \in DOMAIN s /\ TrimmedName[s[i]] = name
      /\ \A j \in 1..(i - 1) : TrimmedName[s[j]] # name
  BY <1>1, <1>3
<1>. DEFINE f == SentFirst(s, name)
<1>5. f \in DOMAIN s /\ TrimmedName[s[f]] = name /\ \A j \in 1..(f - 1) : TrimmedName[s[j]] # name
  BY <1>4 DEF SentFirst
<1>. HIDE DEF f
<1>6. f <= i
  <2>1. ~(i \in 1..(f - 1))
    BY <1>4, <1>5
  <2>. QED  BY <2>1, <1>1, <1>3, <1>5
<1>7. f \in 1..k
  BY <1>1, <1>3, <1>5, <1>6
<1>. QED  BY <1>5, <1>7 DEF f

(* What is accepted of the first k names: the distinct wanted ones in the     *)
(* order they were sent, all of them or the first MaxNames and a warning.     *)
Faithful(s, k, done) ==
  /\ NoRepeats(done.models) /\ Members(done.models) \subseteq Wanted(s, k)
  /\ Len(done.models) <= MaxNames
  /\ \A i, j \in DOMAIN done.models :
       i < j => SentFirst(s, done.models[i]) < SentFirst(s, done.models[j])
  /\ \A name \in Wanted(s, k) \ Members(done.models) : \A m \in Members(done.models) :
       SentFirst(s, m) < SentFirst(s, name)
  /\ done.truncated <=> Members(done.models) # Wanted(s, k)

(* One more name keeps it. *)
LEMMA FaithfulStep ==
  ASSUME NEW s \in Seq(Names), NEW k \in 1..Len(s), NEW done \in Lists, Faithful(s, k - 1, done)
  PROVE  Faithful(s, k, Sanitized(done, s[k]))
<1>. DEFINE name == TrimmedName[s[k]]
            M == Members(done.models)
            next == Sanitized(done, s[k])
<1>1. /\ k - 1 \in 0..Len(s) /\ k \in 0..Len(s) /\ k \in Nat /\ Len(s) \in Nat
      /\ DOMAIN s = 1..Len(s)
  OBVIOUS
<1>2. Wanted(s, k) = Wanted(s, k - 1) \cup ({name} \ {""})
  <2>1. 1..k = 1..(k - 1) \cup {k}
    BY <1>1
  <2>. QED  BY <2>1 DEF Wanted
<1>3. \A m \in Wanted(s, k - 1) : SentFirst(s, m) \in 1..(k - 1)
  BY <1>1, FirstSent
<1>4. ASSUME name # "", name \notin Wanted(s, k - 1) PROVE SentFirst(s, name) = k
  <2>1. name \in Wanted(s, k)
    BY <1>2, <1>4
  <2>2. SentFirst(s, name) \in 1..k /\ TrimmedName[s[SentFirst(s, name)]] = name
    BY <2>1, <1>1, FirstSent
  <2>3. SentFirst(s, name) \notin 1..(k - 1)
    BY <2>2, <1>4 DEF Wanted
  <2>. QED  BY <2>2, <2>3, <1>1
<1>5. /\ NoRepeats(done.models) /\ M \subseteq Wanted(s, k - 1) /\ Len(done.models) <= MaxNames
      /\ \A i, j \in DOMAIN done.models :
           i < j => SentFirst(s, done.models[i]) < SentFirst(s, done.models[j])
      /\ \A x \in Wanted(s, k - 1) \ M : \A m \in M : SentFirst(s, m) < SentFirst(s, x)
      /\ done.truncated <=> M # Wanted(s, k - 1)
      /\ done.models \in Seq(STRING) /\ done.truncated \in BOOLEAN /\ Len(done.models) \in Nat
      /\ DOMAIN done.models = 1..Len(done.models)
  BY DEF Faithful, Lists
<1>6. Contains(done.models, name) <=> name \in M
  BY <1>5 DEF Contains, Members
<1>7. \A m \in M : SentFirst(s, m) < k
  BY <1>1, <1>3, <1>5
<1>. HIDE DEF M
<1>8. CASE done.truncated \/ name = "" \/ name \in M
  <2>1. next = done
    BY <1>6, <1>8 DEF Sanitized
  <2>2. ASSUME NEW x \in Wanted(s, k) \ M, NEW m \in M PROVE SentFirst(s, m) < SentFirst(s, x)
    <3>1. CASE x \in Wanted(s, k - 1)
      BY <3>1, <1>5
    <3>2. CASE x \notin Wanted(s, k - 1)
      BY <3>2, <1>2, <1>4, <1>7
    <3>. QED  BY <3>1, <3>2
  <2>3. done.truncated <=> M # Wanted(s, k)
    BY <1>2, <1>5, <1>8
  <2>4. M \subseteq Wanted(s, k)
    BY <1>2, <1>5
  <2>5. Faithful(s, k, done)
    BY <2>2, <2>3, <2>4, <1>5, Zenon DEF Faithful, M
  <2>. QED  BY <2>1, <2>5
<1>9. CASE ~(done.truncated \/ name = "" \/ name \in M)
  <2>. DEFINE yes == TRUE
  <2>0. M = Wanted(s, k - 1) /\ SentFirst(s, name) = k /\ Wanted(s, k) = M \cup {name}
    BY <1>2, <1>4, <1>5, <1>9
  <2>1. CASE Len(done.models) = MaxNames
    <3>1. next = [models |-> done.models, truncated |-> yes]
      BY <2>1, <1>6, <1>9 DEF Sanitized, Lists
    <3>2. next.models = done.models /\ next.truncated
      BY <3>1
    <3>3. \A x \in Wanted(s, k) \ M : \A m \in M : SentFirst(s, m) < SentFirst(s, x)
      BY <2>0, <1>7
    <3>4. M \subseteq Wanted(s, k) /\ M # Wanted(s, k)
      BY <2>0, <1>9
    <3>. HIDE DEF next
    <3>5. next.truncated <=> M # Wanted(s, k)
      BY <3>2, <3>4
    <3>6. next.models = done.models /\ M = Members(next.models)
      BY <3>2 DEF M
    <3>7. /\ NoRepeats(next.models) /\ Len(next.models) <= MaxNames
          /\ \A i, j \in DOMAIN next.models :
               i < j => SentFirst(s, next.models[i]) < SentFirst(s, next.models[j])
      BY <3>6, <1>5
    <3>8. Faithful(s, k, next)
      BY <3>3, <3>4, <3>5, <3>6, <3>7, Zenon DEF Faithful
    <3>. QED  BY <3>8 DEF next
  <2>2. CASE Len(done.models) # MaxNames
    <3>. DEFINE t == Append(done.models, name)
    <3>1. next = [models |-> t, truncated |-> done.truncated]
      BY <2>2, <1>6, <1>9 DEF Sanitized, Lists
    <3>2. next.models = t /\ next.truncated = done.truncated
      BY <3>1
    <3>3. name \in STRING /\ MaxNames \in Nat
      BY HarnessAssumption
    <3>. HIDE DEF next, name
    <3>4. t = done.models \o <<name>> /\ Members(t) = M \cup {name} /\ NoRepeats(t)
      <4>1. name \notin M
        BY <1>9
      <4>2. name \notin Members(done.models) /\ done.models \in Seq(STRING) /\ name \in STRING
        BY <4>1, <3>3, <1>5 DEF M
      <4>3. /\ Append(done.models, name) = done.models \o <<name>>
            /\ Members(done.models \o <<name>>) = Members(done.models) \cup {name}
            /\ NoRepeats(done.models \o <<name>>)
        BY <4>2, <1>5, AddedLast
      <4>. QED  BY <4>3 DEF M
    <3>5. /\ Len(t) = Len(done.models) + 1 /\ DOMAIN t = 1..(Len(done.models) + 1)
          /\ t[Len(done.models) + 1] = name
          /\ \A i \in 1..Len(done.models) : t[i] = done.models[i]
      BY <1>5, <3>3
    <3>. HIDE DEF t
    <3>6. Len(t) <= MaxNames
      BY <3>3, <3>5, <2>2, <1>5
    <3>7. ASSUME NEW i \in DOMAIN t, NEW j \in DOMAIN t, i < j
          PROVE  SentFirst(s, t[i]) < SentFirst(s, t[j])
      <4>1. i \in 1..Len(done.models) /\ t[i] = done.models[i]
        BY <3>5, <3>7, <1>5
      <4>2. CASE j = Len(done.models) + 1
        <5>1. t[j] = name /\ t[i] \in M
          BY <4>1, <4>2, <3>5, <1>5 DEF M, Members
        <5>. QED  BY <5>1, <2>0, <1>7
      <4>3. CASE j # Len(done.models) + 1
        <5>1. j \in 1..Len(done.models) /\ t[j] = done.models[j]
          BY <4>3, <3>5, <1>5
        <5>. QED  BY <4>1, <5>1, <3>7, <1>5
      <4>. QED  BY <4>2, <4>3
    <3>8. Wanted(s, k) \ Members(t) = {} /\ Members(t) = Wanted(s, k)
      BY <3>4, <2>0
    <3>9. ~next.truncated
      BY <3>2, <1>9
    <3>10. NoRepeats(t)
      BY <3>4
    <3>11. next.truncated <=> Members(t) # Wanted(s, k)
      BY <3>8, <3>9
    <3>12. /\ NoRepeats(next.models) /\ Len(next.models) <= MaxNames
           /\ \A i, j \in DOMAIN next.models :
                i < j => SentFirst(s, next.models[i]) < SentFirst(s, next.models[j])
           /\ Wanted(s, k) \ Members(next.models) = {} /\ Members(next.models) = Wanted(s, k)
           /\ next.truncated <=> Members(next.models) # Wanted(s, k)
      BY <3>2, <3>6, <3>7, <3>8, <3>10, <3>11
    <3>13. Faithful(s, k, next)
      BY <3>12, Zenon DEF Faithful
    <3>. QED  BY <3>13 DEF next, name
  <2>. QED  BY <2>1, <2>2
<1>. QED  BY <1>8, <1>9 DEF next

(* What is accepted of a list is faithful to it. *)
LEMMA AcceptedIsFaithful ==
  ASSUME NEW s \in Seq(Names)
  PROVE  Accepted(s) \in Lists /\ Faithful(s, Len(s), Accepted(s))
<1>. DEFINE n == Len(s)
<1>0. n \in Nat
  OBVIOUS
<1>1. PICK h \in [0..n -> Lists] :
        /\ h[0] = NothingSanitized /\ \A k \in 1..n : h[k] = Sanitized(h[k - 1], s[k])
        /\ Accepted(s) = h[n]
  BY AcceptedOfPrefixes
<1>. DEFINE T == {k \in 0..n : ~Faithful(s, k, h[k])}
<1>2. SUFFICES ASSUME T # {} PROVE FALSE
  <2>1. Faithful(s, n, h[n]) \/ n \in T
    BY <1>0
  <2>2. h[n] \in Lists
    BY <1>0, <1>1
  <2>. HIDE DEF T
  <2>. QED  BY <1>1, <2>1, <2>2
<1>3. PICK k \in T : \A j \in T : k <= j
  <2>1. T \in SUBSET Nat
    BY <1>0
  <2>. HIDE DEF T
  <2>. QED  BY <1>2, <2>1, LeastNatural
<1>4. k \in 0..n /\ ~Faithful(s, k, h[k])
  OBVIOUS
<1>5. CASE k = 0
  <2>1. Wanted(s, 0) = {}
    BY DEF Wanted
  <2>. DEFINE none == <<>>
  <2>2. h[0].models = none /\ ~h[0].truncated
    BY <1>1 DEF NothingSanitized
  <2>3. Members(none) = {} /\ NoRepeats(none) /\ Len(none) = 0 /\ DOMAIN none = {}
    BY SmallSequences
  <2>. HIDE DEF none
  <2>4. Faithful(s, 0, h[0])
    BY <2>1, <2>2, <2>3, HarnessAssumption DEF Faithful
  <2>. QED  BY <2>4, <1>4, <1>5
<1>6. CASE k # 0
  <2>1. k \in 1..n /\ k - 1 \in 0..n /\ ~(k <= k - 1)
    BY <1>0, <1>4, <1>6
  <2>2. Faithful(s, k - 1, h[k - 1])
    <3>1. k - 1 \notin T
      <4>. HIDE DEF T
      <4>. QED  BY <1>3, <2>1
    <3>. QED  BY <2>1, <3>1
  <2>3. h[k - 1] \in Lists /\ h[k] = Sanitized(h[k - 1], s[k])
    BY <1>1, <2>1
  <2>4. Faithful(s, k, Sanitized(h[k - 1], s[k]))
    BY <2>1, <2>2, <2>3, FaithfulStep
  <2>. QED  BY <2>3, <2>4, <1>4
<1>. QED  BY <1>5, <1>6

(* The last acknowledgement is the one of the list it answers. *)
AckInv ==
  \E s \in Seq(Names) : ack = [sent |-> s, models |-> Accepted(s).models,
                               truncated |-> Accepted(s).truncated]

(* Nothing is accepted of an empty list. *)
LEMMA AckStart == HarnessInit => AckInv
<1>1. <<>> \in Seq(Names) /\ Len(<<>>) = 0
  OBVIOUS
<1>2. Accepted(<<>>) = NothingSanitized
  <2>. DEFINE e == <<>>
  <2>1. e \in Seq(Names) /\ Len(e) = 0
    OBVIOUS
  <2>. HIDE DEF e
  <2>2. PICK h : h[0] = NothingSanitized /\ Accepted(e) = h[Len(e)]
    BY <2>1, AcceptedOfPrefixes
  <2>3. Accepted(e) = NothingSanitized
    BY <2>1, <2>2
  <2>. QED  BY <2>3 DEF e
<1>. DEFINE no == FALSE
<1>3. Accepted(<<>>) = [models |-> <<>>, truncated |-> no]
  BY <1>2 DEF NothingSanitized
<1>4. ASSUME HarnessInit PROVE ack = [sent |-> <<>>, models |-> <<>>, truncated |-> no]
  BY <1>4 DEF HarnessInit, NoAck
<1>. HIDE DEF no
<1>5. Accepted(<<>>).models = <<>> /\ Accepted(<<>>).truncated = no
  BY <1>3
<1>. QED  BY <1>1, <1>4, <1>5 DEF AckInv

(* Every exchange leaves the acknowledgement of the list it was sent. *)
LEMMA AckStep == AckInv /\ [HarnessNext]_harnessVars => AckInv'
<1>. SUFFICES ASSUME AckInv, [HarnessNext]_harnessVars PROVE AckInv'
  OBVIOUS
<1>1. CASE UNCHANGED ack
  BY <1>1 DEF AckInv
<1>2. ASSUME NEW n \in 1..MaxAdvertised, NEW sent \in [1..n -> Names], ExchangeText(sent)
      PROVE  AckInv'
  <2>1. sent \in Seq(Names)
    BY HarnessAssumption
  <2>2. ack' = [sent |-> sent, models |-> Accepted(sent).models,
                truncated |-> Accepted(sent).truncated]
    BY <1>2 DEF ExchangeText
  <2>. QED  BY <2>1, <2>2 DEF AckInv
<1>. QED  BY <1>1, <1>2
          DEF HarnessNext, harnessVars, registrationVars, HeartbeatNext, RegistrationNext,
              AcknowledgeNext, ResponseNext, ConnectWrongly, ConnectRightly, RegistrationTick

(* The acknowledged list is that of the distinct names that are not blank, in *)
(* the order they were sent, cut at the limit; and the worker is warned       *)
(* exactly when one of them was left out.                                    *)
THEOREM AcknowledgementsAreFaithful == HarnessSpec => []AckIsFaithful
<1>1. ASSUME AckInv PROVE AckIsFaithful
  <2>1. PICK s \in Seq(Names) : ack = [sent |-> s, models |-> Accepted(s).models,
                                       truncated |-> Accepted(s).truncated]
    BY <1>1 DEF AckInv
  <2>. DEFINE done == Accepted(s)
              wanted == {TrimmedName[ack.sent[i]] : i \in DOMAIN ack.sent} \ {""}
              kept == ToSet(ack.models)
              first(name) == CHOOSE i \in DOMAIN ack.sent :
                               /\ TrimmedName[ack.sent[i]] = name
                               /\ \A j \in 1..(i - 1) : TrimmedName[ack.sent[j]] # name
  <2>2. done \in Lists /\ Faithful(s, Len(s), done)
    BY AcceptedIsFaithful
  <2>. HIDE DEF done
  <2>3. ack.sent = s /\ ack.models = done.models /\ ack.truncated = done.truncated
    BY <2>1 DEF done
  <2>4. kept = Members(done.models)
    BY <2>3 DEF ToSet, Members
  <2>5. wanted = Wanted(s, Len(s))
    <3>1. DOMAIN s = 1..Len(s)
      OBVIOUS
    <3>. QED  BY <2>3, <3>1 DEF Wanted
  <2>6. Len(ack.models) = Cardinality(kept)
    BY <2>2, <2>3, <2>4, LengthIsCardinality DEF Faithful, Lists
  <2>7. \A name : first(name) = SentFirst(s, name)
    BY <2>3 DEF SentFirst
  <2>. HIDE DEF kept, wanted, first
  <2>8. /\ kept \subseteq wanted /\ Len(ack.models) <= MaxNames
        /\ \A name \in wanted \ kept : \A k \in kept : first(k) < first(name)
    BY <2>2, <2>3, <2>4, <2>5, <2>7 DEF Faithful
  <2>9. \A i, j \in DOMAIN ack.models : i < j => first(ack.models[i]) < first(ack.models[j])
    BY <2>2, <2>3, <2>7 DEF Faithful
  <2>10. ack.truncated <=> kept # wanted
    BY <2>2, <2>3, <2>4, <2>5, Zenon DEF Faithful
  <2>. QED  BY <2>6, <2>8, <2>9, <2>10 DEF AckIsFaithful, kept, wanted, first
<1>. QED  BY <1>1, AckStart, AckStep, PTL DEF HarnessSpec

-----------------------------------------------------------------------------
(* The bytes forwarded of a stream.                                          *)

Total(sizes) == FoldLeft(LAMBDA a, b : a + b, 0, sizes)

(* What a total is: a function of the prefixes, its value on the whole. *)
LEMMA TotalOfPrefixes ==
  ASSUME NEW s \in Seq(Nat)
  PROVE  \E h \in [0..Len(s) -> Nat] :
           /\ h[0] = 0 /\ \A k \in 1..Len(s) : h[k] = h[k - 1] + s[k]
           /\ Total(s) = h[Len(s)]
<1>. DEFINE n == Len(s)
            Eq(g) == g = [S \in SUBSET DOMAIN s |->
                            IF S = {} THEN 0
                            ELSE LET i == CHOOSE x \in S : \A y \in S : x >= y
                                 IN  g[S \ {i}] + s[i]]
            iter == CHOOSE g : Eq(g)
            G == [i \in 1..n |-> [v \in Nat |-> v + s[i]]]
<1>1. Total(s) = iter[DOMAIN s]
  BY DEF Total, FoldLeft, MapThenFoldSet, Max
<1>2. n \in Nat /\ DOMAIN s = 1..n /\ \A i \in 1..n : s[i] \in Nat
  OBVIOUS
<1>3. G \in [1..n -> [Nat -> Nat]]
  BY <1>2
<1>. HIDE DEF n
<1>0. 0 \in Nat
  OBVIOUS
<1>4. PICK g \in [SUBSET (1..n) -> Nat] : FoldsUp(g, 0, G, n)
  <2>. HIDE DEF G
  <2>. QED  BY <1>0, <1>2, <1>3, FoldExists
<1>5. Eq(g)
  <2>1. ASSUME NEW S \in SUBSET (1..n), S # {}
        PROVE  G[EndOf(S)][g[S \ {EndOf(S)}]] = g[S \ {EndOf(S)}] + s[EndOf(S)]
    <3>1. EndOf(S) \in 1..n
      BY <1>2, <2>1, EndIsThere
    <3>2. g[S \ {EndOf(S)}] \in Nat
      BY <1>4
    <3>. QED  BY <3>1, <3>2
  <2>. HIDE DEF G
  <2>2. g = [S \in SUBSET (1..n) |->
               IF S = {} THEN 0 ELSE g[S \ {EndOf(S)}] + s[EndOf(S)]]
    BY <1>4, <2>1 DEF FoldsUp
  <2>. QED  BY <1>2, <2>2 DEF EndOf
<1>6. Eq(iter)
  <2>. HIDE DEF Eq
  <2>. QED  BY <1>5
<1>. HIDE DEF iter
<1>7. FoldsOver(iter, 0, G, n, Nat)
  <2>1. ASSUME NEW S \in SUBSET (1..n)
        PROVE  iter[S] = IF S = {} THEN 0 ELSE iter[S \ {EndOf(S)}] + s[EndOf(S)]
    BY <1>2, <1>6 DEF EndOf
  <2>2. ASSUME NEW S \in SUBSET (1..n), S # {}, iter[S \ {EndOf(S)}] \in Nat
        PROVE  iter[S] = G[EndOf(S)][iter[S \ {EndOf(S)}]]
    <3>1. EndOf(S) \in 1..n
      BY <1>2, <2>2, EndIsThere
    <3>. QED  BY <3>1, <2>1, <2>2
  <2>. HIDE DEF G
  <2>. QED  BY <2>1, <2>2 DEF FoldsOver
<1>8. PICK h \in [0..n -> Nat] : RunsThrough(h, iter, 0, G, n)
  <2>. HIDE DEF G
  <2>. QED  BY <1>0, <1>2, <1>3, <1>7, FoldOfPrefixes
<1>9. \A k \in 1..n : h[k] = h[k - 1] + s[k]
  <2>1. \A k \in 1..n : k - 1 \in 0..n
    BY <1>2
  <2>. QED  BY <2>1, <1>8 DEF RunsThrough
<1>. QED  BY <1>1, <1>2, <1>8, <1>9 DEF n, RunsThrough

(* One size more adds it to the total, which starts at 0. *)
LEMMA TotalOfOneMore ==
  /\ Total(<<>>) = 0
  /\ \A s \in Seq(Nat) : \A x \in Nat : Total(s) \in Nat /\ Total(Append(s, x)) = Total(s) + x
<1>1. Total(<<>>) = 0
  <2>. DEFINE e == <<>>
  <2>1. e \in Seq(Nat) /\ Len(e) = 0
    OBVIOUS
  <2>. HIDE DEF e
  <2>2. PICK h \in [0..Len(e) -> Nat] : h[0] = 0 /\ Total(e) = h[Len(e)]
    BY <2>1, TotalOfPrefixes
  <2>3. Total(e) = 0
    BY <2>1, <2>2
  <2>. QED  BY <2>3 DEF e
<1>2. ASSUME NEW s \in Seq(Nat), NEW x \in Nat
      PROVE  Total(s) \in Nat /\ Total(Append(s, x)) = Total(s) + x
  <2>. DEFINE t == Append(s, x)
              n == Len(s)
  <2>1. /\ t \in Seq(Nat) /\ n \in Nat /\ Len(t) = n + 1 /\ t[n + 1] = x
        /\ \A i \in 1..n : t[i] = s[i]
    OBVIOUS
  <2>. HIDE DEF t
  <2>2. PICK h \in [0..n -> Nat] :
          /\ h[0] = 0 /\ \A k \in 1..n : h[k] = h[k - 1] + s[k]
          /\ Total(s) = h[n]
    BY TotalOfPrefixes
  <2>3. PICK g \in [0..Len(t) -> Nat] :
          /\ g[0] = 0 /\ \A k \in 1..Len(t) : g[k] = g[k - 1] + t[k]
          /\ Total(t) = g[Len(t)]
    BY <2>1, TotalOfPrefixes
  <2>. HIDE DEF n
  <2>4. g[n] = h[n]
    <3>. DEFINE T == {i \in 0..n : g[i] # h[i]}
    <3>0. g[n] # h[n] => n \in T
      BY <2>1
    <3>1. SUFFICES ASSUME T # {} PROVE FALSE
      BY <3>0
    <3>2. PICK i \in T : \A j \in T : i <= j
      <4>1. T \in SUBSET Nat
        BY <2>1
      <4>. HIDE DEF T
      <4>. QED  BY <3>1, <4>1, LeastNatural
    <3>3. CASE i = 0
      BY <3>3, <2>2, <2>3
    <3>4. CASE i # 0
      <4>1. i \in 1..n /\ i - 1 \in 0..n /\ ~(i <= i - 1) /\ i \in 1..Len(t)
        BY <2>1, <3>4
      <4>2. i - 1 \notin T
        <5>. HIDE DEF T
        <5>. QED  BY <3>2, <4>1
      <4>. QED  BY <4>1, <4>2, <2>1, <2>2, <2>3
    <3>. QED  BY <3>3, <3>4
  <2>5. Total(s) \in Nat
    BY <2>1, <2>2
  <2>6. Total(t) = g[n] + x
    <3>1. n + 1 \in 1..Len(t) /\ (n + 1) - 1 = n
      BY <2>1
    <3>. QED  BY <3>1, <2>1, <2>3
  <2>. QED  BY <2>2, <2>4, <2>5, <2>6 DEF t
<1>. QED  BY <1>1, <1>2

(* A request's bytes are those of its forwarded chunks, within the limit; one *)
(* ended for its size is not active.                                         *)
StreamInv ==
  /\ stream = [active |-> stream.active, forwarded |-> stream.forwarded,
               bytes |-> stream.bytes, outcome |-> stream.outcome]
  /\ stream.forwarded \in Seq(Nat)
  /\ stream.bytes = Total(stream.forwarded) /\ stream.bytes <= MaxBytes
  /\ stream.outcome = "oversized" => ~stream.active

LEMMA StreamStart == HarnessInit => StreamInv
BY TotalOfOneMore, HarnessAssumption DEF HarnessInit, StreamInv, NoStream

(* Every action of the response harness keeps it. *)
LEMMA StreamStep == StreamInv /\ [HarnessNext]_harnessVars => StreamInv'
<1>. SUFFICES ASSUME StreamInv, [HarnessNext]_harnessVars PROVE StreamInv'
  OBVIOUS
<1>. DEFINE yes == TRUE
            no == FALSE
<1>1. CASE UNCHANGED stream
  BY <1>1 DEF StreamInv
<1>2. CASE StartRequest
  <2>1. stream' = [active |-> yes, forwarded |-> <<>>, bytes |-> 0, outcome |-> "none"]
    BY <1>2 DEF StartRequest, NoStream
  <2>. HIDE DEF yes
  <2>. QED  BY <2>1, TotalOfOneMore, HarnessAssumption DEF StreamInv
<1>3. CASE DeliverComplete
  <2>1. stream' = [active |-> no, forwarded |-> stream.forwarded, bytes |-> stream.bytes,
                   outcome |-> "complete"]
    BY <1>3 DEF DeliverComplete, StreamInv
  <2>. HIDE DEF no
  <2>. QED  BY <2>1 DEF StreamInv
<1>4. ASSUME NEW size \in ChunkSizes, DeliverChunk(size) PROVE StreamInv'
  <2>1. size \in Nat /\ MaxBytes \in Nat
    BY HarnessAssumption
  <2>2. /\ Total(stream.forwarded) \in Nat
        /\ Total(Append(stream.forwarded, size)) = Total(stream.forwarded) + size
    BY <2>1, TotalOfOneMore DEF StreamInv
  <2>3. CASE stream.bytes + size > MaxBytes
    <3>1. stream' = [active |-> no, forwarded |-> stream.forwarded, bytes |-> stream.bytes,
                     outcome |-> "oversized"]
      BY <1>4, <2>3 DEF DeliverChunk, CheckThenForward, StreamInv
    <3>2. ~no
      OBVIOUS
    <3>. HIDE DEF no
    <3>. QED  BY <3>1, <3>2 DEF StreamInv
  <2>4. CASE ~(stream.bytes + size > MaxBytes)
    <3>1. stream' = [active |-> stream.active, forwarded |-> Append(stream.forwarded, size),
                     bytes |-> stream.bytes + size, outcome |-> stream.outcome]
      BY <1>4, <2>4 DEF DeliverChunk, CheckThenForward, StreamInv
    <3>. QED  BY <3>1, <2>1, <2>2, <2>4 DEF StreamInv
  <2>. QED  BY <2>3, <2>4
<1>. QED  BY <1>1, <1>2, <1>3, <1>4
          DEF HarnessNext, harnessVars, HeartbeatNext, RegistrationNext, AcknowledgeNext,
              ResponseNext

(* What was forwarded of a stream never exceeds the limit, and one that was   *)
(* ended for its size has no completion.                                     *)
THEOREM StreamsAreLimited == HarnessSpec => []StreamWithinLimit
<1>1. StreamInv => StreamWithinLimit
  BY DEF StreamInv, StreamWithinLimit, Total
<1>. QED  BY <1>1, StreamStart, StreamStep, PTL DEF HarnessSpec

-----------------------------------------------------------------------------
(* The dispatch harness: what a worker's batch takes from the queue.          *)

(* A finite set of positions is empty or has a last one. *)
LEMMA LastPosition ==
  ASSUME NEW n \in Nat, NEW T \in SUBSET (1..n), T # {}
  PROVE  \E m \in T : \A k \in T : k <= m
BY EndIsThere

(* Of a set of positions, those with at most k of them up to there are at     *)
(* most k: all of them lie at or before the last.                            *)
LEMMA FirstFew ==
  ASSUME NEW n \in Nat, NEW C \in SUBSET (1..n), NEW k \in Nat
  PROVE  LET T == {i \in C : Cardinality({j \in C : j <= i}) <= k}
         IN  IsFiniteSet(T) /\ Cardinality(T) \in Nat /\ Cardinality(T) <= k
<1>. DEFINE T == {i \in C : Cardinality({j \in C : j <= i}) <= k}
<1>1. IsFiniteSet(1..n)
  BY FS_Interval
<1>2. IsFiniteSet(C) /\ \A S \in SUBSET C : IsFiniteSet(S)
  BY <1>1, FS_Subset
<1>3. T \in SUBSET C
  OBVIOUS
<1>4. IsFiniteSet(T) /\ Cardinality(T) \in Nat
  <2>. HIDE DEF T
  <2>. QED  BY <1>2, <1>3, FS_CardinalityType
<1>5. ASSUME T = {} PROVE Cardinality(T) <= k
  <2>1. Cardinality({}) = 0
    BY FS_EmptySet
  <2>. HIDE DEF T
  <2>. QED  BY <1>4, <1>5, <2>1
<1>6. ASSUME T # {} PROVE Cardinality(T) <= k
  <2>1. PICK m \in T : \A i \in T : i <= m
    <3>. HIDE DEF T
    <3>. QED  BY <1>3, <1>6, LastPosition
  <2>. DEFINE upto == {j \in C : j <= m}
  <2>2. Cardinality(upto) <= k
    BY <2>1
  <2>3. T \in SUBSET upto /\ upto \in SUBSET C
    BY <1>3, <2>1
  <2>. HIDE DEF T, upto
  <2>4. Cardinality(T) <= Cardinality(upto) /\ Cardinality(upto) \in Nat
    BY <1>2, <2>3, FS_Subset, FS_CardinalityType
  <2>. QED  BY <1>4, <2>2, <2>4
<1>. QED  BY <1>4, <1>5, <1>6

(* A batch of at most n holds queued requests the worker has a model for, and *)
(* with a request every earlier one for the same model.                       *)
LEMMA BatchProperties ==
  ASSUME NEW ws, NEW w, NEW n \in Nat,
         provider_queues[ws[w].provider] \in Seq(RequestId),
         NoRepeats(provider_queues[ws[w].provider])
  PROVE  LET queue == provider_queues[ws[w].provider]
             batch == Batch(ws, w, n)
         IN  /\ batch \in Seq(RequestId) /\ NoRepeats(batch) /\ Len(batch) <= n
             /\ Members(batch) \subseteq Members(queue)
             /\ \A i, j \in DOMAIN queue :
                  /\ i < j /\ active[queue[i]].model = active[queue[j]].model
                  /\ queue[j] \in Members(batch)
                  => queue[i] \in Members(batch)
<1>. DEFINE queue == provider_queues[ws[w].provider]
            C == {i \in DOMAIN queue : active[queue[i]].model \in ws[w].models}
            upto(i) == {j \in C : j <= i}
            T == {i \in C : Cardinality(upto(i)) <= n}
            X == {queue[i] : i \in DOMAIN queue \ T}
            kept == KeptIndices(queue, X)
            batch == Batch(ws, w, n)
<1>1. /\ queue \in Seq(RequestId) /\ NoRepeats(queue) /\ Len(queue) \in Nat
      /\ DOMAIN queue = 1..Len(queue) /\ C \in SUBSET (1..Len(queue)) /\ T \subseteq C
  OBVIOUS
<1>2. batch = Without(queue, X)
  BY DEF Batch
<1>3. /\ batch \in Seq(RequestId) /\ Members(batch) = Members(queue) \ X /\ NoRepeats(batch)
  <2>. HIDE DEF X, queue, batch
  <2>. QED  BY <1>1, <1>2, WithoutProperties
<1>4. kept = T
  BY <1>1 DEF KeptIndices, NoRepeats
<1>5. IsFiniteSet(T) /\ Cardinality(T) \in Nat /\ Cardinality(T) <= n
  <2>. HIDE DEF C, queue
  <2>. QED  BY <1>1, FirstFew
<1>6. Len(batch) = Cardinality(T)
  <2>1. batch = [a \in 1..Cardinality(T) |-> queue[Enumeration(kept)[a]]]
    BY <1>2, <1>4 DEF Without
  <2>2. batch \in [1..Len(batch) -> RequestId] /\ Len(batch) \in Nat
    BY <1>3
  <2>. HIDE DEF T, batch, queue, kept
  <2>3. 1..Len(batch) = 1..Cardinality(T)
    BY <2>1, <2>2
  <2>. QED  BY <1>5, <2>2, <2>3
<1>7. ASSUME NEW i \in DOMAIN queue, NEW j \in DOMAIN queue, i < j,
             active[queue[i]].model = active[queue[j]].model, queue[j] \in Members(batch)
      PROVE  queue[i] \in Members(batch)
  <2>1. j \in T
    BY <1>3, <1>7
  <2>2. i \in C
    BY <1>7, <2>1
  <2>3. upto(i) \in SUBSET upto(j) /\ upto(j) \in SUBSET (1..Len(queue))
    <3>1. C \subseteq 1..Len(queue) /\ i \in 1..Len(queue) /\ j \in 1..Len(queue) /\ i < j
      BY <1>1, <1>7
    <3>2. \A k \in C : k <= i => k <= j
      <4>. HIDE DEF C, queue
      <4>. QED  BY <3>1
    <3>3. C \in SUBSET (1..Len(queue))
      BY <3>1
    <3>. HIDE DEF C
    <3>. QED  BY <3>2, <3>3
  <2>4. IsFiniteSet(upto(j))
    <3>1. IsFiniteSet(1..Len(queue))
      <4>. HIDE DEF queue
      <4>. QED  BY <1>1, FS_Interval
    <3>. HIDE DEF upto, queue
    <3>. QED  BY <2>3, <3>1, FS_Subset
  <2>5. Cardinality(upto(i)) <= Cardinality(upto(j)) /\ Cardinality(upto(j)) \in Nat
        /\ Cardinality(upto(i)) \in Nat
    <3>. HIDE DEF upto
    <3>. QED  BY <2>3, <2>4, FS_Subset, FS_CardinalityType
  <2>6. Cardinality(upto(j)) <= n
    BY <2>1
  <2>7. i \in T
    <3>1. Cardinality(upto(i)) <= n
      <4>. HIDE DEF upto
      <4>. QED  BY <2>5, <2>6
    <3>. QED  BY <2>2, <3>1
  <2>8. queue[i] \notin X
    <3>. HIDE DEF T
    <3>. QED  BY <1>1, <1>7, <2>7 DEF NoRepeats
  <2>. QED  BY <1>3, <1>7, <2>8 DEF Members
<1>. HIDE DEF batch, queue
<1>8. Len(batch) <= n
  BY <1>5, <1>6
<1>. QED  BY <1>3, <1>7, <1>8 DEF batch, queue

-----------------------------------------------------------------------------
(* The invariant of the dispatch harness.                                     *)

WorkerRecord ==
  [provider : Providers \cup {"none"}, models : SUBSET Models, max_concurrent : Nat,
   in_flight : Seq(RequestId), is_draining : BOOLEAN, deadline : Int]

ActiveRecord ==
  [state : {"none", "queued", "in_flight", "done"}, provider : Providers \cup {"none"},
   model : Models \cup {"none"}, queued_at : Nat, requeue_count : Nat,
   worker : WorkerId \cup {NoWorker}]

EventRecord == [kind : {"failure", "complete", "chunk"}, by : WorkerId \cup {NoWorker}]

DispatchTyped ==
  /\ now_tick \in 0..MaxTime
  /\ next_request_id \in 1..(MaxRequests + 1) /\ next_worker_id \in 1..(MaxWorkers + 1)
  /\ worker_order \in Seq(WorkerId) /\ NoRepeats(worker_order)
  /\ workers \in [WorkerId -> WorkerRecord]
  /\ provider_queues \in [Providers -> Seq(RequestId)]
  /\ active \in [RequestId -> ActiveRecord]
  /\ canceled_requests \subseteq RequestId
  /\ events \in [RequestId -> Seq(EventRecord)]

(* A registered worker's id was drawn and its provider exists; a worker holds *)
(* no request twice and no more than its slots, and none once it is gone.     *)
WorkerSound(w) ==
  /\ w \in Registered => w < next_worker_id /\ workers[w].provider \in Providers
  /\ w \notin Registered => workers[w].in_flight = <<>>
  /\ NoRepeats(workers[w].in_flight)
  /\ Len(workers[w].in_flight) <= workers[w].max_concurrent

(* A request stands where its record says and nowhere else: in the queue of   *)
(* its provider, or with one worker, of the same provider.                    *)
RequestSound(r) ==
  /\ \A p \in Providers :
       r \in Members(provider_queues[p]) <=> active[r].state = "queued" /\ active[r].provider = p
  /\ \A w \in WorkerId :
       r \in InFlight(w) <=> active[r].state = "in_flight" /\ active[r].worker = w
  /\ active[r].state = "queued" => active[r].provider \in Providers
  /\ active[r].state = "in_flight" =>
       active[r].worker \in WorkerId /\ active[r].provider = workers[active[r].worker].provider

(* Ids not drawn yet name nothing.                                           *)
IdSound(r) ==
  /\ r >= next_request_id => active[r] = Blank /\ events[r] = <<>>
  /\ r < next_request_id => active[r].state # "none"

DispatchInv ==
  /\ DispatchTyped
  /\ \A p \in Providers : NoRepeats(provider_queues[p])
  /\ \A w \in WorkerId : WorkerSound(w)
  /\ \A r \in RequestId : RequestSound(r) /\ IdSound(r)

(* The invariant gives what the runs check.                                   *)
LEMMA DispatchInvGives == DispatchInv => ContractTypeOK /\ CapacityKept
<1>. SUFFICES ASSUME DispatchInv PROVE ContractTypeOK /\ CapacityKept
  OBVIOUS
<1>. USE DEF DispatchInv, DispatchTyped
<1>1. Registered \subseteq WorkerId
  BY DEF Registered, Members
<1>2. ASSUME NEW p \in Providers
      PROVE  Members(provider_queues[p]) =
               {r \in RequestId : active[r].state = "queued" /\ active[r].provider = p}
  <2>1. Members(provider_queues[p]) \subseteq RequestId
    BY DEF Members
  <2>. QED  BY <2>1 DEF RequestSound
<1>3. ASSUME NEW w \in WorkerId
      PROVE  /\ NoRepeats(workers[w].in_flight)
             /\ InFlight(w) = {r \in RequestId : active[r].state = "in_flight" /\ active[r].worker = w}
             /\ InFlight(w) # {} => w \in Registered
  <2>1. workers[w].in_flight \in Seq(RequestId)
    BY DEF WorkerRecord
  <2>2. InFlight(w) \subseteq RequestId
    BY <2>1 DEF InFlight, Members
  <2>3. w \notin Registered => InFlight(w) = {}
    BY SmallSequences DEF WorkerSound, InFlight
  <2>. QED  BY <2>2, <2>3 DEF WorkerSound, RequestSound
<1>4. CapacityKept
  BY <1>1 DEF CapacityKept, WorkerSound
<1>. QED  BY <1>1, <1>2, <1>3, <1>4 DEF ContractTypeOK

(* Records that the actions build are of their kind.                          *)
LEMMA RecordsTyped ==
  /\ NoSuchWorker = [provider |-> "none", models |-> {}, max_concurrent |-> 1,
                     in_flight |-> <<>>, is_draining |-> TRUE, deadline |-> None]
  /\ NoSuchWorker \in WorkerRecord
  /\ \A reg \in Registrations : NewWorker(reg) \in WorkerRecord
  /\ Blank \in ActiveRecord
  /\ \A kind \in {"failure", "complete", "chunk"}, w \in WorkerId \cup {NoWorker} :
       Event(kind, w) \in EventRecord /\ Event(kind, w).kind = kind /\ Event(kind, w).by = w
<1>1. NoSuchWorker = [provider |-> "none", models |-> {}, max_concurrent |-> 1,
                      in_flight |-> <<>>, is_draining |-> TRUE, deadline |-> None]
  <2>. DEFINE reg == [provider |-> "none", models |-> {}, max_concurrent |-> 1]
  <2>1. reg.provider = "none" /\ reg.models = {} /\ reg.max_concurrent = 1
    OBVIOUS
  <2>2. NoSuchWorker = [NewWorker(reg) EXCEPT !.is_draining = TRUE]
    BY DEF NoSuchWorker
  <2>. HIDE DEF reg
  <2>3. NewWorker(reg) = [provider |-> "none", models |-> {}, max_concurrent |-> 1,
                          in_flight |-> <<>>, is_draining |-> FALSE, deadline |-> None]
    BY <2>1 DEF NewWorker
  <2>. DEFINE yes == TRUE
              no == FALSE
  <2>4. NoSuchWorker = [[provider |-> "none", models |-> {}, max_concurrent |-> 1,
                         in_flight |-> <<>>, is_draining |-> no, deadline |-> None]
                        EXCEPT !.is_draining = yes]
    BY <2>2, <2>3, Zenon
  <2>. HIDE DEF yes, no
  <2>5. NoSuchWorker = [provider |-> "none", models |-> {}, max_concurrent |-> 1,
                        in_flight |-> <<>>, is_draining |-> yes, deadline |-> None]
    BY <2>4
  <2>. QED  BY <2>5, Zenon DEF yes
<1>2. NoSuchWorker \in WorkerRecord
  <2>1. None \in Int /\ <<>> \in Seq(RequestId) /\ {} \in SUBSET Models /\ 1 \in Nat
    BY DEF None
  <2>. QED  BY <1>1, <2>1 DEF WorkerRecord
<1>3. ASSUME NEW reg \in Registrations PROVE NewWorker(reg) \in WorkerRecord
  <2>. DEFINE slots == IF reg.max_concurrent = 0 THEN 1 ELSE reg.max_concurrent
  <2>1. reg.provider \in Providers /\ reg.models \subseteq Models /\ slots \in Nat
    <3>1. /\ reg.provider \in Providers /\ reg.models \subseteq Models
          /\ reg.max_concurrent \in Nat
      BY ContractAssumption
    <3>. QED  BY <3>1
  <2>2. NewWorker(reg) = [provider |-> reg.provider, models |-> reg.models,
                          max_concurrent |-> slots, in_flight |-> <<>>, is_draining |-> FALSE,
                          deadline |-> None]
    BY DEF NewWorker
  <2>. HIDE DEF slots
  <2>. QED  BY <2>1, <2>2 DEF WorkerRecord, None
<1>4. Blank \in ActiveRecord
  BY DEF Blank, ActiveRecord
<1>5. \A kind \in {"failure", "complete", "chunk"}, w \in WorkerId \cup {NoWorker} :
        Event(kind, w) \in EventRecord /\ Event(kind, w).kind = kind /\ Event(kind, w).by = w
  BY DEF Event, EventRecord
<1>. QED  BY <1>1, <1>2, <1>3, <1>4, <1>5

(* The dispatch harness starts with nothing anywhere.                        *)
LEMMA DispatchStart == Init => DispatchInv
<1>. SUFFICES ASSUME Init PROVE DispatchInv
  OBVIOUS
<1>1. DispatchTyped
  BY ContractAssumption, RecordsTyped DEF Init, DispatchTyped, NoRepeats
<1>2. \A w \in WorkerId : /\ workers[w].in_flight = <<>> /\ workers[w].max_concurrent = 1
                          /\ w \notin Registered
  BY RecordsTyped, SmallSequences DEF Init, Registered
<1>3. \A r \in RequestId : active[r] = Blank /\ active[r].state = "none"
  BY DEF Init, Blank
<1>e. NoRepeats(<<>>) /\ Members(<<>>) = {} /\ Len(<<>>) = 0
  BY SmallSequences
<1>4. ASSUME NEW w \in WorkerId PROVE WorkerSound(w)
  <2>1. workers[w].in_flight = <<>> /\ workers[w].max_concurrent = 1 /\ w \notin Registered
    BY <1>2
  <2>2. Len(workers[w].in_flight) = 0 /\ NoRepeats(workers[w].in_flight)
    BY <1>e, <2>1
  <2>. QED  BY <2>1, <2>2 DEF WorkerSound
<1>5. ASSUME NEW r \in RequestId PROVE RequestSound(r) /\ IdSound(r)
  <2>1. active[r] = Blank /\ active[r].state = "none" /\ events[r] = <<>>
    BY <1>3 DEF Init
  <2>2. \A p \in Providers : Members(provider_queues[p]) = {}
    BY <1>e DEF Init
  <2>3. \A w \in WorkerId : InFlight(w) = {}
    BY <1>e, <1>2 DEF InFlight
  <2>4. r \in Nat /\ r >= 1 /\ next_request_id = 1
    BY DEF Init, RequestId
  <2>5. RequestSound(r)
    BY <2>1, <2>2, <2>3 DEF RequestSound
  <2>. QED  BY <2>1, <2>4, <2>5 DEF IdSound
<1>6. \A p \in Providers : NoRepeats(provider_queues[p])
  BY SmallSequences DEF Init
<1>. QED  BY <1>1, <1>4, <1>5, <1>6 DEF DispatchInv

(* The fields of the records, and what members are.                           *)
LEMMA DispatchFields ==
  ASSUME DispatchTyped
  PROVE  /\ \A w \in WorkerId :
              /\ workers[w] \in WorkerRecord /\ workers[w].in_flight \in Seq(RequestId)
              /\ workers[w].max_concurrent \in Nat /\ workers[w].models \subseteq Models
              /\ InFlight(w) \subseteq RequestId
         /\ \A r \in RequestId :
              /\ active[r] \in ActiveRecord /\ active[r].requeue_count \in Nat
              /\ active[r].state \in {"none", "queued", "in_flight", "done"}
         /\ \A p \in Providers : Members(provider_queues[p]) \subseteq RequestId
         /\ Registered \subseteq WorkerId
BY DEF DispatchTyped, WorkerRecord, ActiveRecord, InFlight, Members, Registered

(* What a request's record becomes when it is done with, taken or requeued.   *)
DoneWith(record) == [Blank EXCEPT !.state = "done", !.requeue_count = record.requeue_count]
TakenBy(record, w) == [record EXCEPT !.state = "in_flight", !.worker = w]
Again(record) ==
  [record EXCEPT !.state = "queued", !.worker = NoWorker, !.requeue_count = @ + 1]

(* Each of the three changes only what it says.                              *)
LEMMA RecordMoves ==
  ASSUME NEW record \in ActiveRecord
  PROVE  /\ DoneWith(record) \in ActiveRecord /\ DoneWith(record).state = "done"
         /\ DoneWith(record).worker = NoWorker
         /\ DoneWith(record).requeue_count = record.requeue_count
         /\ \A w \in WorkerId :
              /\ TakenBy(record, w) \in ActiveRecord /\ TakenBy(record, w).state = "in_flight"
              /\ TakenBy(record, w).worker = w
              /\ TakenBy(record, w).provider = record.provider
              /\ TakenBy(record, w).model = record.model
              /\ TakenBy(record, w).requeue_count = record.requeue_count
         /\ Again(record) \in ActiveRecord /\ Again(record).state = "queued"
         /\ Again(record).worker = NoWorker /\ Again(record).provider = record.provider
         /\ Again(record).requeue_count = record.requeue_count + 1
<1>1. record.requeue_count \in Nat
  BY DEF ActiveRecord
<1>2. /\ DoneWith(record) \in ActiveRecord /\ DoneWith(record).state = "done"
      /\ DoneWith(record).worker = NoWorker
      /\ DoneWith(record).requeue_count = record.requeue_count
  BY <1>1 DEF ActiveRecord, Blank, DoneWith
<1>3. ASSUME NEW w \in WorkerId
      PROVE  /\ TakenBy(record, w) \in ActiveRecord /\ TakenBy(record, w).state = "in_flight"
             /\ TakenBy(record, w).worker = w
             /\ TakenBy(record, w).provider = record.provider
             /\ TakenBy(record, w).model = record.model
             /\ TakenBy(record, w).requeue_count = record.requeue_count
  BY DEF ActiveRecord, TakenBy
<1>4. /\ Again(record) \in ActiveRecord /\ Again(record).state = "queued"
      /\ Again(record).worker = NoWorker /\ Again(record).provider = record.provider
      /\ Again(record).requeue_count = record.requeue_count + 1
  <2>. DEFINE n == record.requeue_count + 1
  <2>1. n \in Nat
    BY <1>1
  <2>2. Again(record) = [record EXCEPT !.state = "queued", !.worker = NoWorker,
                                       !.requeue_count = n]
    BY DEF Again
  <2>. HIDE DEF n
  <2>3. /\ Again(record) \in ActiveRecord /\ Again(record).state = "queued"
        /\ Again(record).worker = NoWorker /\ Again(record).provider = record.provider
        /\ Again(record).requeue_count = n
    BY <2>1, <2>2 DEF ActiveRecord
  <2>. QED  BY <2>3 DEF n
<1>. QED  BY <1>2, <1>3, <1>4

(* Requests that are done with leave the table; the others' records stay.     *)
LEMMA DoneProperties ==
  ASSUME DispatchTyped, NEW S
  PROVE  /\ Done(S) \in [RequestId -> ActiveRecord]
         /\ \A r \in RequestId :
              /\ Done(S)[r].requeue_count = active[r].requeue_count
              /\ r \in S => Done(S)[r].state = "done" /\ Done(S)[r].worker = NoWorker
              /\ r \notin S => Done(S)[r] = active[r]
<1>1. ASSUME NEW r \in RequestId
      PROVE  /\ Done(S)[r] \in ActiveRecord
             /\ Done(S)[r].requeue_count = active[r].requeue_count
             /\ r \in S => Done(S)[r].state = "done" /\ Done(S)[r].worker = NoWorker
             /\ r \notin S => Done(S)[r] = active[r]
  <2>1. active[r] \in ActiveRecord
    BY DispatchFields
  <2>2. Done(S)[r] = IF r \in S THEN DoneWith(active[r]) ELSE active[r]
    BY DEF Done, DoneWith
  <2>3. /\ DoneWith(active[r]) \in ActiveRecord /\ DoneWith(active[r]).state = "done"
        /\ DoneWith(active[r]).worker = NoWorker
        /\ DoneWith(active[r]).requeue_count = active[r].requeue_count
    BY <2>1, RecordMoves
  <2>. QED  BY <2>1, <2>2, <2>3
<1>2. Done(S) = [r \in RequestId |-> Done(S)[r]]
  BY DEF Done
<1>3. Done(S) \in [RequestId -> ActiveRecord]
  <2>. DEFINE done == Done(S)
  <2>1. done = [r \in RequestId |-> done[r]] /\ \A r \in RequestId : done[r] \in ActiveRecord
    BY <1>1, <1>2
  <2>. HIDE DEF done
  <2>2. done \in [RequestId -> ActiveRecord]
    BY <2>1
  <2>. QED  BY <2>2 DEF done
<1>. QED  BY <1>1, <1>3

(* When workers are removed the others stay as they were.                     *)
LEMMA WorkersLeave ==
  ASSUME DispatchInv, NEW gone \in SUBSET WorkerId, RemoveWorkers(gone),
         UNCHANGED next_worker_id
  PROVE  /\ worker_order' \in Seq(WorkerId) /\ NoRepeats(worker_order')
         /\ workers' \in [WorkerId -> WorkerRecord]
         /\ \A w \in WorkerId :
              /\ WorkerSound(w)'
              /\ w \in gone => InFlight(w)' = {}
              /\ w \notin gone => workers'[w] = workers[w] /\ InFlight(w)' = InFlight(w)
<1>. USE DEF DispatchInv, DispatchTyped
<1>1. /\ worker_order' \in Seq(WorkerId) /\ NoRepeats(worker_order')
      /\ Members(worker_order') = Registered \ gone
  BY WithoutProperties DEF RemoveWorkers, Registered
<1>2. \A w \in WorkerId : workers'[w] = IF w \in gone THEN NoSuchWorker ELSE workers[w]
  BY DEF RemoveWorkers
<1>3. workers' \in [WorkerId -> WorkerRecord]
  BY RecordsTyped DEF RemoveWorkers
<1>4. NoSuchWorker.in_flight = <<>> /\ NoSuchWorker.max_concurrent = 1
  BY RecordsTyped
<1>5. NoRepeats(<<>>) /\ Members(<<>>) = {} /\ Len(<<>>) = 0
  BY SmallSequences
<1>. HIDE DEF DispatchTyped
<1>6. ASSUME NEW w \in WorkerId
      PROVE  /\ WorkerSound(w)'
             /\ w \in gone => InFlight(w)' = {}
             /\ w \notin gone => workers'[w] = workers[w] /\ InFlight(w)' = InFlight(w)
  <2>1. CASE w \in gone
    <3>1. workers'[w].in_flight = <<>> /\ workers'[w].max_concurrent = 1 /\ w \notin Registered'
      BY <1>1, <1>2, <1>4, <2>1 DEF Registered
    <3>2. Len(workers'[w].in_flight) <= workers'[w].max_concurrent
      BY <1>5, <3>1
    <3>. QED  BY <1>5, <2>1, <3>1, <3>2 DEF WorkerSound, InFlight
  <2>2. CASE w \notin gone
    <3>1. workers'[w] = workers[w] /\ (w \in Registered' <=> w \in Registered)
      BY <1>1, <1>2, <2>2 DEF Registered
    <3>. QED  BY <2>2, <3>1 DEF WorkerSound, InFlight
  <2>. QED  BY <2>1, <2>2
<1>. QED  BY <1>1, <1>3, <1>6

(* Taking requests out of the table, the queues and the lists together keeps  *)
(* every other in its place.                                                 *)
LEMMA RequestsLeave ==
  ASSUME DispatchInv, NEW S \in SUBSET RequestId, active' = Done(S),
         UNCHANGED next_request_id,
         \A r \in S : active[r].state \in {"queued", "in_flight"},
         \A p \in Providers : Members(provider_queues'[p]) = Members(provider_queues[p]) \ S,
         \A w \in WorkerId : InFlight(w)' = InFlight(w) \ S,
         \A w \in WorkerId : InFlight(w)' # {} => workers'[w].provider = workers[w].provider,
         \A r \in RequestId \ S : events'[r] = events[r]
  PROVE  /\ active' \in [RequestId -> ActiveRecord]
         /\ \A r \in RequestId : RequestSound(r)' /\ IdSound(r)'
<1>. USE DEF DispatchInv
<1>1. active' \in [RequestId -> ActiveRecord]
  BY DoneProperties
<1>2. ASSUME NEW r \in RequestId PROVE RequestSound(r)' /\ IdSound(r)'
  <2>0. RequestSound(r) /\ IdSound(r)
    OBVIOUS
  <2>1. CASE r \in S
    <3>1. active'[r].state = "done"
      BY <2>1, DoneProperties
    <3>2. RequestSound(r)'
      BY <2>1, <3>1 DEF RequestSound
    <3>3. r < next_request_id
      <4>1. active[r].state # "none"
        BY <2>1
      <4>2. r \in Nat /\ next_request_id \in Nat
        BY DEF DispatchTyped, RequestId
      <4>3. ~(r >= next_request_id)
        BY <2>0, <4>1 DEF IdSound, Blank
      <4>. QED  BY <4>2, <4>3
    <3>4. ~(r >= next_request_id)
      BY <3>3 DEF DispatchTyped, RequestId
    <3>. QED  BY <3>1, <3>2, <3>4 DEF IdSound
  <2>2. CASE r \notin S
    <3>1. active'[r] = active[r] /\ events'[r] = events[r]
      BY <2>2, DoneProperties
    <3>2. /\ \A p \in Providers : r \in Members(provider_queues'[p]) <=> r \in Members(provider_queues[p])
          /\ \A w \in WorkerId : r \in InFlight(w)' <=> r \in InFlight(w)
      BY <2>2
    <3>3. ASSUME active[r].state = "in_flight"
          PROVE  workers'[active[r].worker].provider = workers[active[r].worker].provider
      <4>1. active[r].worker \in WorkerId /\ r \in InFlight(active[r].worker)
        BY <2>0, <3>3 DEF RequestSound
      <4>. QED  BY <2>2, <4>1
    <3>4. RequestSound(r)'
      BY <2>0, <3>1, <3>2, <3>3 DEF RequestSound
    <3>. QED  BY <2>0, <3>1, <3>4 DEF IdSound
  <2>. QED  BY <2>1, <2>2
<1>. QED  BY <1>1, <1>2

(* Giving worker w, whose list was shortened by S, up to n queued requests    *)
(* keeps every request in its place and the worker within its slots.          *)
LEMMA DispatchKeeps ==
  ASSUME DispatchInv, NEW w \in Registered, NEW S \in SUBSET RequestId, NEW n \in Nat,
         NEW ws \in [WorkerId -> WorkerRecord], NEW as \in [RequestId -> ActiveRecord],
         \A v \in WorkerId : v # w => ws[v] = workers[v],
         /\ ws[w].provider = workers[w].provider
         /\ ws[w].max_concurrent = workers[w].max_concurrent
         /\ NoRepeats(ws[w].in_flight) /\ Members(ws[w].in_flight) = InFlight(w) \ S
         /\ Len(ws[w].in_flight) <= workers[w].max_concurrent,
         S \subseteq InFlight(w),
         \A r \in RequestId : /\ r \notin S => as[r] = active[r] /\ events'[r] = events[r]
                              /\ r \in S => as[r].state = "done",
         Dispatch(ws, as, w, n), UNCHANGED <<worker_order, next_request_id, next_worker_id>>
  PROVE  /\ workers' \in [WorkerId -> WorkerRecord] /\ active' \in [RequestId -> ActiveRecord]
         /\ provider_queues' \in [Providers -> Seq(RequestId)]
         /\ \A p \in Providers : NoRepeats(provider_queues'[p])
         /\ \A v \in WorkerId : WorkerSound(v)'
         /\ \A r \in RequestId : RequestSound(r)' /\ IdSound(r)'
<1>. DEFINE k == IF n <= Room(ws, w) THEN n ELSE Room(ws, w)
            batch == Batch(ws, w, k)
            p == workers[w].provider
            B == Members(batch)
            room == ws[w].max_concurrent - Len(ws[w].in_flight)
<1>. USE DEF DispatchInv
<1>1. w \in WorkerId /\ p \in Providers /\ WorkerSound(w)
  BY DispatchFields DEF WorkerSound
<1>2. /\ ws[w] \in WorkerRecord /\ ws[w].in_flight \in Seq(RequestId)
      /\ ws[w].max_concurrent \in Nat /\ room \in Nat
  <2>1. ws[w] \in WorkerRecord
    BY <1>1
  <2>2. ws[w].in_flight \in Seq(RequestId) /\ ws[w].max_concurrent \in Nat
    BY <2>1 DEF WorkerRecord
  <2>3. Len(ws[w].in_flight) <= ws[w].max_concurrent
    OBVIOUS
  <2>. HIDE DEF DispatchInv
  <2>. QED  BY <2>1, <2>2, <2>3
<1>3. k \in Nat /\ k <= room
  <2>1. Room(ws, w) = IF ws[w].is_draining THEN 0 ELSE room
    BY DEF Room
  <2>2. Room(ws, w) \in Nat /\ Room(ws, w) <= room
    <3>. HIDE DEF room
    <3>1. CASE ws[w].is_draining
      BY <1>2, <2>1, <3>1
    <3>2. CASE ~ws[w].is_draining
      BY <1>2, <2>1, <3>2
    <3>. QED  BY <3>1, <3>2
  <2>. HIDE DEF room
  <2>. QED  BY <1>2, <2>2
<1>4. /\ provider_queues[p] \in Seq(RequestId) /\ NoRepeats(provider_queues[p])
      /\ provider_queues \in [Providers -> Seq(RequestId)]
  BY <1>1 DEF DispatchTyped
<1>5. batch \in Seq(RequestId) /\ NoRepeats(batch) /\ Len(batch) <= k
      /\ B \subseteq Members(provider_queues[p])
  <2>. HIDE DEF k
  <2>. QED  BY <1>3, <1>4, BatchProperties
<1>6. /\ workers' = [ws EXCEPT ![w].in_flight = @ \o batch]
      /\ active' = [r \in RequestId |->
                      IF r \in B THEN [as[r] EXCEPT !.state = "in_flight", !.worker = w] ELSE as[r]]
      /\ provider_queues' = [provider_queues EXCEPT ![p] = Without(@, B)]
  BY DEF Dispatch
<1>. HIDE DEF k, batch
<1>7. \A r \in B : /\ r \in RequestId /\ r \notin S /\ as[r] = active[r]
                   /\ active[r].state = "queued" /\ active[r].provider = p
  <2>. SUFFICES ASSUME NEW r \in B
                PROVE  /\ r \in RequestId /\ r \notin S /\ as[r] = active[r]
                       /\ active[r].state = "queued" /\ active[r].provider = p
    OBVIOUS
  <2>1. r \in RequestId /\ r \in Members(provider_queues[p])
    BY <1>1, <1>5, DispatchFields
  <2>2. active[r].state = "queued" /\ active[r].provider = p
    BY <1>1, <2>1 DEF RequestSound
  <2>3. r \notin InFlight(w)
    BY <1>1, <2>1, <2>2 DEF RequestSound
  <2>. QED  BY <2>1, <2>2, <2>3
<1>. DEFINE list == ws[w].in_flight \o batch
<1>8. /\ list \in Seq(RequestId) /\ NoRepeats(list)
      /\ Members(list) = (InFlight(w) \ S) \cup B
      /\ Len(list) <= workers[w].max_concurrent
  <2>1. Members(ws[w].in_flight) \cap B = {}
    <3>1. \A r \in B : r \notin InFlight(w)
      BY <1>1, <1>7 DEF RequestSound
    <3>. QED  BY <3>1
  <2>2. list \in Seq(RequestId) /\ Len(list) = Len(ws[w].in_flight) + Len(batch)
        /\ Len(batch) \in Nat /\ Len(ws[w].in_flight) \in Nat
    BY <1>2, <1>5
  <2>3. NoRepeats(list) /\ Members(list) = (InFlight(w) \ S) \cup B
    <3>. HIDE DEF DispatchInv
    <3>. QED  BY <1>2, <1>5, <2>1, JoinProperties
  <2>4. Len(list) <= workers[w].max_concurrent
    <3>1. Len(batch) <= workers[w].max_concurrent - Len(ws[w].in_flight)
          /\ workers[w].max_concurrent \in Nat
      BY <1>2, <1>3, <1>5, <2>2
    <3>. HIDE DEF list, DispatchInv
    <3>. QED  BY <2>2, <3>1
  <2>. QED  BY <2>2, <2>3, <2>4
<1>9. workers'[w] = [ws[w] EXCEPT !.in_flight = list] /\ workers' = [ws EXCEPT ![w] = workers'[w]]
  BY <1>1, <1>6
<1>. HIDE DEF list
<1>10. /\ workers'[w] \in WorkerRecord /\ workers'[w].in_flight = list
       /\ workers'[w].provider = p /\ workers'[w].max_concurrent = workers[w].max_concurrent
  BY <1>2, <1>8, <1>9 DEF WorkerRecord
<1>11. workers' \in [WorkerId -> WorkerRecord] /\ \A v \in WorkerId : v # w => workers'[v] = workers[v]
  <2>. HIDE DEF DispatchInv, p
  <2>. QED  BY <1>1, <1>9, <1>10
<1>12. ASSUME NEW v \in WorkerId
       PROVE  /\ WorkerSound(v)'
              /\ InFlight(v)' = IF v = w THEN (InFlight(w) \ S) \cup B ELSE InFlight(v)
              /\ workers'[v].provider = workers[v].provider
  <2>1. CASE v = w
    <3>1. w \in Registered' /\ next_worker_id' = next_worker_id
      BY DEF Registered
    <3>. QED  BY <1>1, <1>8, <1>10, <2>1, <3>1 DEF WorkerSound, InFlight
  <2>2. CASE v # w
    <3>1. workers'[v] = workers[v] /\ WorkerSound(v) /\ worker_order' = worker_order
      BY <1>11, <2>2
    <3>. QED  BY <2>2, <3>1 DEF WorkerSound, InFlight, Registered
  <2>. QED  BY <2>1, <2>2
<1>13. Without(provider_queues[p], B) \in Seq(RequestId)
       /\ NoRepeats(Without(provider_queues[p], B))
       /\ Members(Without(provider_queues[p], B)) = Members(provider_queues[p]) \ B
  <2>. HIDE DEF p, B, DispatchInv
  <2>. QED  BY <1>4, WithoutProperties
<1>14. ASSUME NEW q \in Providers
       PROVE  /\ NoRepeats(provider_queues'[q]) /\ provider_queues'[q] \in Seq(RequestId)
              /\ Members(provider_queues'[q]) = Members(provider_queues[q]) \ B
  <2>1. CASE q = p
    BY <1>1, <1>4, <1>6, <1>13, <2>1
  <2>2. CASE q # p
    <3>1. provider_queues'[q] = provider_queues[q]
      BY <1>4, <1>6, <2>2
    <3>2. \A r \in B : r \notin Members(provider_queues[q])
      <4>1. \A r \in B : RequestSound(r) /\ active[r].provider # q
        BY <1>7, <2>2
      <4>. HIDE DEF B, p, DispatchInv
      <4>. QED  BY <4>1 DEF RequestSound
    <3>. QED  BY <1>4, <3>1, <3>2
  <2>. QED  BY <2>1, <2>2
<1>15. provider_queues' \in [Providers -> Seq(RequestId)]
  <2>. HIDE DEF B, p, DispatchInv
  <2>. QED  BY <1>1, <1>4, <1>6, <1>13
<1>16. \A r \in RequestId :
         /\ active'[r] \in ActiveRecord
         /\ r \in B => /\ active'[r].state = "in_flight" /\ active'[r].worker = w
                       /\ active'[r].provider = p
         /\ r \notin B => active'[r] = as[r]
  <2>. SUFFICES ASSUME NEW r \in RequestId
                PROVE  /\ active'[r] \in ActiveRecord
                       /\ r \in B => /\ active'[r].state = "in_flight" /\ active'[r].worker = w
                                     /\ active'[r].provider = p
                       /\ r \notin B => active'[r] = as[r]
    OBVIOUS
  <2>1. as[r] \in ActiveRecord /\ (r \in B => as[r].provider = p)
    BY <1>7
  <2>2. active'[r] = IF r \in B THEN TakenBy(as[r], w) ELSE as[r]
    BY <1>6 DEF TakenBy
  <2>. HIDE DEF B, p, DispatchInv
  <2>3. /\ TakenBy(as[r], w) \in ActiveRecord /\ TakenBy(as[r], w).state = "in_flight"
        /\ TakenBy(as[r], w).worker = w /\ TakenBy(as[r], w).provider = as[r].provider
    BY <1>1, <2>1, RecordMoves
  <2>4. CASE r \in B
    <3>1. active'[r] = TakenBy(as[r], w)
      BY <2>2, <2>4
    <3>. QED  BY <2>1, <2>3, <2>4, <3>1
  <2>5. CASE r \notin B
    BY <2>1, <2>2, <2>5
  <2>. QED  BY <2>4, <2>5
<1>17. active' \in [RequestId -> ActiveRecord]
  <2>. HIDE DEF B
  <2>. QED  BY <1>6, <1>16
<1>18. ASSUME NEW r \in RequestId PROVE RequestSound(r)' /\ IdSound(r)'
  <2>0. RequestSound(r) /\ IdSound(r)
    OBVIOUS
  <2>. HIDE DEF p, B, DispatchInv
  <2>n. r \in Nat /\ next_request_id \in Nat
    BY DEF DispatchTyped, RequestId, DispatchInv
  <2>1. CASE r \in B
    <3>1. active[r].state = "queued"
      BY <1>7, <2>1
    <3>2. ~(r >= next_request_id)
      BY <2>0, <3>1 DEF IdSound, Blank
    <3>3. RequestSound(r)'
      <4>1. active'[r].state = "in_flight" /\ active'[r].worker = w /\ active'[r].provider = p
        BY <1>16, <2>1
      <4>2. \A q \in Providers : r \notin Members(provider_queues'[q])
        BY <1>14, <2>1
      <4>3. \A v \in WorkerId : r \in InFlight(v)' <=> v = w
        <5>1. \A v \in WorkerId : r \notin InFlight(v)
          BY <2>0, <3>1 DEF RequestSound
        <5>. QED  BY <1>12, <2>1, <5>1
      <4>. QED  BY <1>1, <1>10, <4>1, <4>2, <4>3 DEF RequestSound
    <3>. QED  BY <1>16, <2>1, <3>2, <3>3 DEF IdSound
  <2>2. CASE r \in S
    <3>1. active'[r].state = "done" /\ r \notin B
      BY <1>7, <1>16, <2>2
    <3>2. active[r].state = "in_flight" /\ active[r].worker = w
      BY <1>1, <2>0, <2>2 DEF RequestSound
    <3>3. ~(r >= next_request_id)
      BY <2>0, <3>2 DEF IdSound, Blank
    <3>4. \A v \in WorkerId : r \notin InFlight(v)'
      <4>1. \A v \in WorkerId : v # w => r \notin InFlight(v)
        BY <2>0, <3>2 DEF RequestSound
      <4>. QED  BY <1>12, <2>2, <3>1, <4>1
    <3>5. \A q \in Providers : r \notin Members(provider_queues'[q])
      <4>1. \A q \in Providers : r \notin Members(provider_queues[q])
        BY <2>0, <3>2 DEF RequestSound
      <4>. QED  BY <1>14, <4>1
    <3>6. RequestSound(r)'
      BY <3>1, <3>4, <3>5 DEF RequestSound
    <3>. QED  BY <3>1, <3>3, <3>6 DEF IdSound
  <2>3. CASE r \notin B /\ r \notin S
    <3>1. active'[r] = active[r] /\ events'[r] = events[r]
      BY <1>16, <2>3
    <3>2. /\ \A q \in Providers : r \in Members(provider_queues'[q]) <=> r \in Members(provider_queues[q])
          /\ \A v \in WorkerId : r \in InFlight(v)' <=> r \in InFlight(v)
      BY <1>12, <1>14, <2>3
    <3>. QED  BY <1>12, <2>0, <3>1, <3>2 DEF RequestSound, IdSound
  <2>. QED  BY <2>1, <2>2, <2>3
<1>. QED  BY <1>11, <1>12, <1>14, <1>15, <1>17, <1>18

(* Appending an absent member. *)
LEMMA AppendedLast ==
  ASSUME NEW S, NEW s \in Seq(S), NEW x \in S, NoRepeats(s), x \notin Members(s)
  PROVE  /\ Append(s, x) \in Seq(S) /\ NoRepeats(Append(s, x))
         /\ Members(Append(s, x)) = Members(s) \cup {x}
         /\ Len(Append(s, x)) = Len(s) + 1
<1>1. /\ Append(s, x) = s \o <<x>> /\ Members(s \o <<x>>) = Members(s) \cup {x}
      /\ NoRepeats(s \o <<x>>)
  BY AddedLast
<1>2. Append(s, x) \in Seq(S) /\ Len(Append(s, x)) = Len(s) + 1
  OBVIOUS
<1>. QED  BY <1>1, <1>2

(* A failed or answered request's client hears one event more.                *)
LEMMA EventsTyped ==
  ASSUME DispatchTyped, NEW S,
         events' = [r \in RequestId |-> IF r \in S THEN Append(events[r], Event("failure", NoWorker))
                                        ELSE events[r]]
  PROVE  /\ events' \in [RequestId -> Seq(EventRecord)]
         /\ \A r \in RequestId : r \notin S => events'[r] = events[r]
<1>1. Event("failure", NoWorker) \in EventRecord
  BY RecordsTyped
<1>. QED  BY <1>1 DEF DispatchTyped

(* A registered worker gets the next id and starts with nothing.              *)
LEMMA RegisterKeeps ==
  ASSUME DispatchInv, NEW reg \in Registrations, RegisterWorker(reg)
  PROVE  DispatchInv'
<1>. USE DEF DispatchInv
<1>0. next_worker_id \in Nat
  BY DEF DispatchTyped
<1>. PICK w \in Nat : w = next_worker_id
  BY <1>0
<1>1. /\ w <= MaxWorkers /\ next_worker_id' = w + 1
      /\ worker_order' = Append(worker_order, w)
      /\ workers' = [workers EXCEPT ![w] = NewWorker(reg)]
      /\ UNCHANGED <<now_tick, next_request_id, provider_queues, active, canceled_requests, events>>
  BY DEF RegisterWorker
<1>2. w \in WorkerId /\ w \in Nat /\ w + 1 \in 1..(MaxWorkers + 1)
  BY <1>1, ContractAssumption DEF DispatchTyped, WorkerId
<1>3. w \notin Registered
  BY <1>2 DEF WorkerSound
<1>4. /\ worker_order' \in Seq(WorkerId) /\ NoRepeats(worker_order')
      /\ Members(worker_order') = Registered \cup {w}
  <2>1. worker_order \in Seq(WorkerId) /\ NoRepeats(worker_order)
    BY DEF DispatchTyped
  <2>2. w \notin Members(worker_order)
    BY <1>3 DEF Registered
  <2>. HIDE DEF DispatchInv
  <2>. QED  BY <1>1, <1>2, <2>1, <2>2, AppendedLast DEF Registered
<1>5. /\ NewWorker(reg) \in WorkerRecord /\ NewWorker(reg).in_flight = <<>>
      /\ NewWorker(reg).provider \in Providers
  <2>1. NewWorker(reg).in_flight = <<>> /\ NewWorker(reg).provider = reg.provider
    BY DEF NewWorker
  <2>2. reg.provider \in Providers
    BY ContractAssumption
  <2>. QED  BY <2>1, <2>2, RecordsTyped
<1>6. /\ workers' \in [WorkerId -> WorkerRecord] /\ workers'[w] = NewWorker(reg)
      /\ \A v \in WorkerId : v # w => workers'[v] = workers[v]
  BY <1>1, <1>2, <1>5 DEF DispatchTyped
<1>7. NoRepeats(<<>>) /\ Members(<<>>) = {} /\ Len(<<>>) = 0
  BY SmallSequences
<1>8. ASSUME NEW v \in WorkerId
      PROVE  WorkerSound(v)' /\ InFlight(v)' = InFlight(v)
  <2>1. CASE v = w
    <3>1. workers[w].in_flight = <<>>
      BY <1>2, <1>3 DEF WorkerSound
    <3>2. w \in Registered' /\ w < next_worker_id'
      BY <1>1, <1>2, <1>4 DEF Registered
    <3>3. workers'[w].max_concurrent \in Nat
      BY <1>5, <1>6 DEF WorkerRecord
    <3>4. Len(workers'[w].in_flight) <= workers'[w].max_concurrent
      BY <1>5, <1>6, <1>7, <3>3
    <3>. QED  BY <1>5, <1>6, <1>7, <2>1, <3>1, <3>2, <3>4 DEF WorkerSound, InFlight
  <2>2. CASE v # w
    <3>1. workers'[v] = workers[v] /\ (v \in Registered' <=> v \in Registered) /\ WorkerSound(v)
      BY <1>4, <1>6, <2>2 DEF Registered
    <3>2. v \in Nat /\ (v < next_worker_id => v < next_worker_id')
      BY <1>1, <1>2 DEF WorkerId
    <3>. QED  BY <3>1, <3>2 DEF WorkerSound, InFlight
  <2>. QED  BY <2>1, <2>2
<1>9. ASSUME NEW r \in RequestId PROVE RequestSound(r)' /\ IdSound(r)'
  <2>1. RequestSound(r) /\ IdSound(r)
    OBVIOUS
  <2>2. active[r].state = "in_flight" =>
          workers'[active[r].worker].provider = workers[active[r].worker].provider
    <3>. SUFFICES ASSUME active[r].state = "in_flight"
                  PROVE  workers'[active[r].worker].provider = workers[active[r].worker].provider
      OBVIOUS
    <3>1. active[r].worker \in WorkerId /\ r \in InFlight(active[r].worker)
      BY <2>1 DEF RequestSound
    <3>2. InFlight(w) = {}
      BY <1>2, <1>3, <1>7 DEF WorkerSound, InFlight
    <3>. QED  BY <1>6, <3>1, <3>2
  <2>. QED  BY <1>1, <1>8, <2>1, <2>2 DEF RequestSound, IdSound
<1>10. DispatchTyped'
  BY <1>1, <1>2, <1>4, <1>6 DEF DispatchTyped
<1>. QED  BY <1>1, <1>8, <1>9, <1>10

(* What a step leaves of the bookkeeping of time, ids and clients' events.    *)
LEMMA RestTyped ==
  ASSUME DispatchInv, UNCHANGED <<now_tick, next_request_id, next_worker_id>>,
         worker_order' \in Seq(WorkerId), NoRepeats(worker_order'),
         workers' \in [WorkerId -> WorkerRecord], active' \in [RequestId -> ActiveRecord],
         provider_queues' \in [Providers -> Seq(RequestId)],
         events' \in [RequestId -> Seq(EventRecord)], canceled_requests' \subseteq RequestId,
         \A p \in Providers : NoRepeats(provider_queues'[p]),
         \A w \in WorkerId : WorkerSound(w)',
         \A r \in RequestId : RequestSound(r)' /\ IdSound(r)'
  PROVE  DispatchInv'
BY DEF DispatchInv, DispatchTyped

(* New models, and requests for them. *)
LEMMA UpdateKeeps ==
  ASSUME DispatchInv, NEW w \in WorkerId, NEW ms \in SUBSET Models, UpdateWorkerModels(w, ms)
  PROVE  DispatchInv'
<1>. DEFINE ws == [workers EXCEPT ![w].models = ms]
            n == workers[w].max_concurrent
<1>1. /\ w \in Registered /\ Dispatch(ws, active, w, n)
      /\ UNCHANGED <<now_tick, next_request_id, next_worker_id, worker_order, canceled_requests, events>>
  BY DEF UpdateWorkerModels
<1>2. /\ workers[w] \in WorkerRecord /\ n \in Nat /\ workers \in [WorkerId -> WorkerRecord]
      /\ active \in [RequestId -> ActiveRecord] /\ WorkerSound(w) /\ InFlight(w) \subseteq RequestId
  BY DispatchFields DEF DispatchInv, DispatchTyped
<1>3. ws[w] = [workers[w] EXCEPT !.models = ms] /\ ws = [workers EXCEPT ![w] = ws[w]]
  BY <1>2
<1>4. /\ ws[w] \in WorkerRecord /\ ws[w].in_flight = workers[w].in_flight
      /\ ws[w].provider = workers[w].provider /\ ws[w].max_concurrent = n
  BY <1>2, <1>3 DEF WorkerRecord
<1>. HIDE DEF ws
<1>5. ws \in [WorkerId -> WorkerRecord] /\ \A v \in WorkerId : v # w => ws[v] = workers[v]
  BY <1>2, <1>3, <1>4
<1>6. /\ NoRepeats(ws[w].in_flight) /\ Members(ws[w].in_flight) = InFlight(w) \ {}
      /\ Len(ws[w].in_flight) <= workers[w].max_concurrent
  BY <1>2, <1>4 DEF WorkerSound, InFlight
<1>7. {} \in SUBSET RequestId /\ {} \subseteq InFlight(w)
  OBVIOUS
<1>8. \A r \in RequestId : /\ r \notin {} => active[r] = active[r] /\ events'[r] = events[r]
                           /\ r \in {} => active[r].state = "done"
  BY <1>1
<1>. HIDE DEF n
<1>9. /\ workers' \in [WorkerId -> WorkerRecord] /\ active' \in [RequestId -> ActiveRecord]
      /\ provider_queues' \in [Providers -> Seq(RequestId)]
      /\ \A p \in Providers : NoRepeats(provider_queues'[p])
      /\ \A v \in WorkerId : WorkerSound(v)'
      /\ \A r \in RequestId : RequestSound(r)' /\ IdSound(r)'
  BY <1>1, <1>2, <1>4, <1>5, <1>6, <1>7, <1>8, DispatchKeeps DEF n
<1>. QED  BY <1>1, <1>9, RestTyped DEF DispatchInv, DispatchTyped

(* One more request for a worker.                                            *)
LEMMA NextKeeps ==
  ASSUME DispatchInv, NEW w \in WorkerId, DispatchNextForWorker(w)
  PROVE  DispatchInv'
<1>1. /\ w \in Registered /\ Dispatch(workers, active, w, 1)
      /\ UNCHANGED <<now_tick, next_request_id, next_worker_id, worker_order, canceled_requests, events>>
  BY DEF DispatchNextForWorker
<1>2. /\ workers \in [WorkerId -> WorkerRecord] /\ active \in [RequestId -> ActiveRecord]
      /\ WorkerSound(w)
  BY DEF DispatchInv, DispatchTyped
<1>3. /\ NoRepeats(workers[w].in_flight) /\ Members(workers[w].in_flight) = InFlight(w) \ {}
      /\ Len(workers[w].in_flight) <= workers[w].max_concurrent
      /\ {} \in SUBSET RequestId /\ {} \subseteq InFlight(w) /\ 1 \in Nat
  BY <1>2 DEF WorkerSound, InFlight
<1>4. \A r \in RequestId : /\ r \notin {} => active[r] = active[r] /\ events'[r] = events[r]
                           /\ r \in {} => active[r].state = "done"
  BY <1>1
<1>5. /\ workers' \in [WorkerId -> WorkerRecord] /\ active' \in [RequestId -> ActiveRecord]
      /\ provider_queues' \in [Providers -> Seq(RequestId)]
      /\ \A p \in Providers : NoRepeats(provider_queues'[p])
      /\ \A v \in WorkerId : WorkerSound(v)'
      /\ \A r \in RequestId : RequestSound(r)' /\ IdSound(r)'
  BY <1>1, <1>2, <1>3, <1>4, DispatchKeeps
<1>. QED  BY <1>1, <1>5, RestTyped DEF DispatchInv, DispatchTyped

(* The worker chosen for a request can take it.                               *)
LEMMA ChosenIsEligible ==
  ASSUME DispatchTyped, NEW p \in Providers, NEW m \in Models, Eligible(p, m) # {}
  PROVE  Chosen(p, m) \in Eligible(p, m) /\ Eligible(p, m) \subseteq DOMAIN worker_order
<1>. DEFINE E == Eligible(p, m)
            L == {LoadAt(i) : i \in E}
            tied == {i \in E : \A j \in E : LoadAt(i) <= LoadAt(j)}
            after == {i \in tied : i > selection_cursors[<<p, m>>]}
            first(S) == CHOOSE i \in S : \A j \in S : i <= j
<1>1. E \subseteq DOMAIN worker_order /\ DOMAIN worker_order \subseteq Nat
  BY DEF Eligible, DispatchTyped
<1>2. \A i \in E : LoadAt(i) \in Nat
  <2>. SUFFICES ASSUME NEW i \in E PROVE LoadAt(i) \in Nat
    OBVIOUS
  <2>1. worker_order[i] \in WorkerId
    BY <1>1 DEF DispatchTyped
  <2>2. workers[worker_order[i]].in_flight \in Seq(RequestId)
    BY <2>1, DispatchFields
  <2>. QED  BY <2>2 DEF LoadAt
<1>3. PICK least \in L : \A l \in L : least <= l
  <2>1. L \in SUBSET Nat /\ L # {}
    <3>. HIDE DEF E
    <3>1. \A l \in L : l \in Nat
      BY <1>2
    <3>2. E # {}
      BY DEF E
    <3>. QED  BY <3>1, <3>2
  <2>. HIDE DEF L
  <2>. QED  BY <2>1, LeastNatural
<1>4. PICK i \in E : LoadAt(i) = least
  BY <1>3
<1>5. i \in tied
  BY <1>3, <1>4
<1>6. \A S : S \subseteq tied /\ S # {} => first(S) \in S
  <2>. SUFFICES ASSUME NEW S, S \subseteq tied, S # {} PROVE first(S) \in S
    OBVIOUS
  <2>1. S \in SUBSET Nat
    BY <1>1
  <2>. HIDE DEF tied
  <2>2. \E k \in S : \A j \in S : k <= j
    BY <2>1, LeastNatural
  <2>. QED  BY <2>2
<1>7. Chosen(p, m) = IF after # {} THEN first(after) ELSE first(tied)
  BY DEF Chosen
<1>8. after \subseteq tied /\ tied \subseteq E
  OBVIOUS
<1>. HIDE DEF first, after, tied, E
<1>9. Chosen(p, m) \in tied
  BY <1>5, <1>6, <1>7, <1>8
<1>. QED  BY <1>1, <1>8, <1>9 DEF E

(* A submitted request gets the next id, which names nothing yet; it goes to  *)
(* a worker with room, is refused, or is queued.                              *)
LEMMA SubmitKeeps ==
  ASSUME DispatchInv, NEW p \in Providers, NEW m \in Models, SubmitRequest(p, m)
  PROVE  DispatchInv'
<1>. USE DEF DispatchInv
<1>0. next_request_id \in Nat
  BY DEF DispatchTyped
<1>. PICK r \in Nat : r = next_request_id
  BY <1>0
<1>. DEFINE record == [Blank EXCEPT !.provider = p, !.model = m, !.queued_at = now_tick]
            waiting == [record EXCEPT !.state = "queued"]
            refused == [Blank EXCEPT !.state = "done"]
<1>1. /\ r <= MaxRequests /\ next_request_id' = r + 1
      /\ UNCHANGED <<now_tick, next_worker_id, worker_order, canceled_requests>>
  BY DEF SubmitRequest
<1>2. /\ r \in RequestId /\ r \in Nat /\ r + 1 \in 1..(MaxRequests + 1)
      /\ active[r] = Blank /\ events[r] = <<>> /\ now_tick \in Nat
  <2>1. r \in RequestId /\ r \in Nat /\ r + 1 \in 1..(MaxRequests + 1) /\ now_tick \in Nat
    BY <1>1, ContractAssumption DEF DispatchTyped, RequestId
  <2>2. IdSound(r) /\ r >= next_request_id
    BY <2>1
  <2>. QED  BY <2>1, <2>2 DEF IdSound
<1>3. /\ \A q \in Providers : r \notin Members(provider_queues[q])
      /\ \A v \in WorkerId : r \notin InFlight(v)
  <2>1. RequestSound(r) /\ active[r].state = "none"
    BY <1>2 DEF Blank
  <2>. QED  BY <2>1 DEF RequestSound
<1>4. \A q \in RequestId : q # r => (q >= next_request_id' <=> q >= next_request_id)
                                    /\ (q < next_request_id' <=> q < next_request_id)
  BY <1>1, <1>2 DEF RequestId
<1>5. /\ waiting \in ActiveRecord /\ waiting.state = "queued" /\ waiting.provider = p
      /\ refused \in ActiveRecord /\ refused.state = "done"
      /\ record \in ActiveRecord /\ record.provider = p
  BY <1>2 DEF Blank, ActiveRecord
<1>6. /\ workers \in [WorkerId -> WorkerRecord] /\ active \in [RequestId -> ActiveRecord]
      /\ provider_queues \in [Providers -> Seq(RequestId)]
      /\ events \in [RequestId -> Seq(EventRecord)] /\ canceled_requests \subseteq RequestId
      /\ worker_order \in Seq(WorkerId) /\ NoRepeats(worker_order)
  BY DEF DispatchTyped
<1>7. ASSUME workers' \in [WorkerId -> WorkerRecord], active' \in [RequestId -> ActiveRecord],
             provider_queues' \in [Providers -> Seq(RequestId)],
             events' \in [RequestId -> Seq(EventRecord)],
             \A q \in Providers : NoRepeats(provider_queues'[q]),
             \A v \in WorkerId : WorkerSound(v)',
             RequestSound(r)', active'[r].state # "none",
             \A q \in RequestId : q # r =>
               /\ active'[q] = active[q] /\ events'[q] = events[q]
               /\ \A s \in Providers : q \in Members(provider_queues'[s]) <=> q \in Members(provider_queues[s])
               /\ \A v \in WorkerId : q \in InFlight(v)' <=> q \in InFlight(v),
             \A v \in WorkerId : workers'[v].provider = workers[v].provider
      PROVE  DispatchInv'
  <2>1. DispatchTyped'
    BY <1>1, <1>2, <1>6, <1>7 DEF DispatchTyped
  <2>2. ASSUME NEW q \in RequestId PROVE RequestSound(q)' /\ IdSound(q)'
    <3>1. CASE q = r
      <4>1. q < next_request_id' /\ ~(q >= next_request_id')
        BY <1>1, <1>2, <3>1
      <4>. QED  BY <1>7, <3>1, <4>1 DEF IdSound
    <3>2. CASE q # r
      <4>1. RequestSound(q) /\ IdSound(q)
        OBVIOUS
      <4>2. RequestSound(q)'
        BY <1>7, <3>2, <4>1 DEF RequestSound
      <4>3. IdSound(q)'
        BY <1>4, <1>7, <3>2, <4>1 DEF IdSound
      <4>. QED  BY <4>2, <4>3
    <3>. QED  BY <3>1, <3>2
  <2>. QED  BY <1>7, <2>1, <2>2
<1>8. ASSUME Eligible(p, m) # {}, NEW w, w = worker_order[Chosen(p, m)],
             workers' = [workers EXCEPT ![w].in_flight = Append(@, r)],
             active' = [active EXCEPT ![r] = [record EXCEPT !.state = "in_flight", !.worker = w]],
             UNCHANGED <<provider_queues, events>>
      PROVE  DispatchInv'
  <2>. DEFINE list == Append(workers[w].in_flight, r)
              taken == [record EXCEPT !.state = "in_flight", !.worker = w]
  <2>1. /\ Chosen(p, m) \in Eligible(p, m) /\ Chosen(p, m) \in DOMAIN worker_order
        /\ w \in WorkerId /\ w \in Registered
    BY <1>6, <1>8, ChosenIsEligible DEF Registered, Members
  <2>2. workers[w].provider = p /\ Room(workers, w) > 0
    BY <1>8, <2>1 DEF Eligible
  <2>3. WorkerSound(w) /\ workers[w] \in WorkerRecord
        /\ workers[w].in_flight \in Seq(RequestId) /\ workers[w].max_concurrent \in Nat
    BY <2>1, DispatchFields
  <2>4. Len(workers[w].in_flight) + 1 <= workers[w].max_concurrent
    <3>1. workers[w].max_concurrent - Len(workers[w].in_flight) > 0
      <4>1. Room(workers, w) = IF workers[w].is_draining THEN 0
                               ELSE workers[w].max_concurrent - Len(workers[w].in_flight)
        BY DEF Room
      <4>. HIDE DEF DispatchInv
      <4>2. CASE workers[w].is_draining
        BY <2>2, <4>1, <4>2
      <4>3. CASE ~workers[w].is_draining
        BY <2>2, <4>1, <4>3
      <4>. QED  BY <4>2, <4>3
    <3>2. Len(workers[w].in_flight) \in Nat
      BY <2>3
    <3>. HIDE DEF DispatchInv
    <3>. QED  BY <2>3, <3>1, <3>2
  <2>5. /\ list \in Seq(RequestId) /\ NoRepeats(list) /\ Members(list) = InFlight(w) \cup {r}
        /\ Len(list) <= workers[w].max_concurrent
    <3>1. NoRepeats(workers[w].in_flight) /\ r \notin Members(workers[w].in_flight)
      BY <1>3, <2>1, <2>3 DEF WorkerSound, InFlight
    <3>2. list \in Seq(RequestId) /\ Len(list) = Len(workers[w].in_flight) + 1
      BY <1>2, <2>3
    <3>3. NoRepeats(list) /\ Members(list) = InFlight(w) \cup {r}
      BY <1>2, <2>3, <3>1, AppendedLast DEF InFlight
    <3>. HIDE DEF list, DispatchInv
    <3>. QED  BY <2>4, <3>2, <3>3
  <2>6. workers'[w] = [workers[w] EXCEPT !.in_flight = list]
        /\ workers' = [workers EXCEPT ![w] = workers'[w]]
    BY <1>6, <1>8, <2>1
  <2>. HIDE DEF list
  <2>7. /\ workers'[w] \in WorkerRecord /\ workers'[w].in_flight = list
        /\ workers'[w].provider = p /\ workers'[w].max_concurrent = workers[w].max_concurrent
    BY <2>2, <2>3, <2>5, <2>6 DEF WorkerRecord
  <2>8. workers' \in [WorkerId -> WorkerRecord] /\ \A v \in WorkerId : v # w => workers'[v] = workers[v]
    <3>. HIDE DEF DispatchInv
    <3>. QED  BY <1>6, <2>1, <2>6, <2>7
  <2>9. ASSUME NEW v \in WorkerId
        PROVE  /\ WorkerSound(v)' /\ workers'[v].provider = workers[v].provider
               /\ InFlight(v)' = IF v = w THEN InFlight(w) \cup {r} ELSE InFlight(v)
    <3>1. CASE v = w
      BY <1>1, <2>1, <2>2, <2>3, <2>5, <2>7, <3>1 DEF WorkerSound, InFlight, Registered
    <3>2. CASE v # w
      <4>1. workers'[v] = workers[v] /\ WorkerSound(v)
        BY <2>8, <3>2
      <4>. QED  BY <1>1, <3>2, <4>1 DEF WorkerSound, InFlight, Registered
    <3>. QED  BY <3>1, <3>2
  <2>10. /\ taken \in ActiveRecord /\ taken.state = "in_flight" /\ taken.worker = w
         /\ taken.provider = p
    BY <1>2, <2>1 DEF Blank, ActiveRecord
  <2>a. active' = [active EXCEPT ![r] = taken]
    BY <1>8
  <2>. HIDE DEF taken
  <2>11. active' \in [RequestId -> ActiveRecord] /\ active'[r] = taken
         /\ \A q \in RequestId : q # r => active'[q] = active[q]
    BY <1>2, <1>6, <2>10, <2>a
  <2>12. RequestSound(r)'
    <3>1. \A v \in WorkerId : r \in InFlight(v)' <=> v = w
      BY <1>3, <2>1, <2>9
    <3>2. \A q \in Providers : r \notin Members(provider_queues'[q])
      BY <1>3, <1>8
    <3>. HIDE DEF DispatchInv
    <3>. QED  BY <2>1, <2>7, <2>10, <2>11, <3>1, <3>2 DEF RequestSound
  <2>13. \A q \in RequestId : q # r =>
           /\ \A s \in Providers : q \in Members(provider_queues'[s]) <=> q \in Members(provider_queues[s])
           /\ \A v \in WorkerId : q \in InFlight(v)' <=> q \in InFlight(v)
    BY <1>8, <2>9
  <2>14. \A q \in Providers : NoRepeats(provider_queues'[q])
    BY <1>8
  <2>. QED  BY <1>6, <1>7, <1>8, <2>8, <2>9, <2>10, <2>11, <2>12, <2>13, <2>14
<1>9. CASE /\ active' = [active EXCEPT ![r].state = "done"]
           /\ events' = [events EXCEPT ![r] = <<Event("failure", NoWorker)>>]
           /\ UNCHANGED <<workers, provider_queues>>
  <2>1. active' = [active EXCEPT ![r] = refused]
    BY <1>2, <1>6, <1>9
  <2>2. <<Event("failure", NoWorker)>> \in Seq(EventRecord)
    BY RecordsTyped
  <2>. HIDE DEF refused
  <2>3. /\ active' \in [RequestId -> ActiveRecord] /\ active'[r] = refused
        /\ events' \in [RequestId -> Seq(EventRecord)]
        /\ \A q \in RequestId : q # r => active'[q] = active[q] /\ events'[q] = events[q]
    BY <1>2, <1>5, <1>6, <1>9, <2>1, <2>2
  <2>4. \A v \in WorkerId : WorkerSound(v)' /\ (WorkerSound(v) => InFlight(v)' = InFlight(v))
    BY <1>1, <1>9 DEF WorkerSound, InFlight, Registered
  <2>5. \A v \in WorkerId : InFlight(v)' = InFlight(v)
    BY <1>9 DEF InFlight
  <2>6. RequestSound(r)'
    BY <1>3, <1>5, <1>9, <2>3, <2>5 DEF RequestSound
  <2>. QED  BY <1>5, <1>6, <1>7, <1>9, <2>3, <2>4, <2>5, <2>6
<1>10. CASE /\ active' = [active EXCEPT ![r] = waiting]
            /\ provider_queues' = [provider_queues EXCEPT ![p] = Append(@, r)]
            /\ UNCHANGED <<workers, events>>
  <2>. HIDE DEF waiting
  <2>1. /\ active' \in [RequestId -> ActiveRecord] /\ active'[r] = waiting
        /\ \A q \in RequestId : q # r => active'[q] = active[q]
    BY <1>2, <1>5, <1>6, <1>10
  <2>2. /\ Append(provider_queues[p], r) \in Seq(RequestId)
        /\ NoRepeats(Append(provider_queues[p], r))
        /\ Members(Append(provider_queues[p], r)) = Members(provider_queues[p]) \cup {r}
    <3>1. provider_queues[p] \in Seq(RequestId) /\ NoRepeats(provider_queues[p])
      BY <1>6
    <3>. HIDE DEF DispatchInv
    <3>. QED  BY <1>2, <1>3, <3>1, AppendedLast
  <2>3. ASSUME NEW s \in Providers
        PROVE  /\ provider_queues'[s] \in Seq(RequestId) /\ NoRepeats(provider_queues'[s])
               /\ Members(provider_queues'[s]) =
                    IF s = p THEN Members(provider_queues[p]) \cup {r} ELSE Members(provider_queues[s])
    BY <1>6, <1>10, <2>2
  <2>4. provider_queues' \in [Providers -> Seq(RequestId)]
    BY <1>6, <1>10, <2>2
  <2>5. \A v \in WorkerId : WorkerSound(v)'
    BY <1>1, <1>10 DEF WorkerSound, Registered
  <2>6. \A v \in WorkerId : InFlight(v)' = InFlight(v)
    BY <1>10 DEF InFlight
  <2>7. RequestSound(r)'
    BY <1>3, <1>5, <2>1, <2>3, <2>6 DEF RequestSound
  <2>8. \A q \in RequestId : q # r => \A s \in Providers :
           q \in Members(provider_queues'[s]) <=> q \in Members(provider_queues[s])
    BY <2>3
  <2>. QED  BY <1>5, <1>6, <1>7, <1>10, <2>1, <2>3, <2>4, <2>5, <2>6, <2>7, <2>8
<1>11. CASE Eligible(p, m) # {}
  <2>. DEFINE w == worker_order[Chosen(p, m)]
  <2>1. /\ workers' = [workers EXCEPT ![w].in_flight = Append(@, r)]
        /\ active' = [active EXCEPT ![r] = [record EXCEPT !.state = "in_flight", !.worker = w]]
        /\ UNCHANGED <<provider_queues, events>>
    BY <1>11 DEF SubmitRequest
  <2>. HIDE DEF record
  <2>. QED  BY <1>8, <1>11, <2>1
<1>12. CASE Eligible(p, m) = {}
  BY <1>9, <1>10, <1>12 DEF SubmitRequest
<1>. QED  BY <1>11, <1>12

(* An answered request leaves; its worker takes the next one, or, when it is  *)
(* draining and this was its last, leaves too.                               *)
LEMMA FinishKeeps ==
  ASSUME DispatchInv, NEW w \in WorkerId, NEW r \in RequestId, FinishRequest(w, r)
  PROVE  DispatchInv'
<1>. USE DEF DispatchInv
<1>1. /\ w \in Registered /\ r \in InFlight(w)
      /\ events' = [events EXCEPT ![r] = Append(@, Event("complete", w))]
      /\ UNCHANGED <<now_tick, next_request_id, next_worker_id, canceled_requests>>
  BY DEF FinishRequest
<1>2. /\ events' \in [RequestId -> Seq(EventRecord)]
      /\ \A q \in RequestId : q # r => events'[q] = events[q]
  <2>1. Event("complete", w) \in EventRecord
    BY RecordsTyped
  <2>. QED  BY <1>1, <2>1 DEF DispatchTyped
<1>3. active[r].state = "in_flight" /\ active[r].worker = w /\ WorkerSound(w)
  BY <1>1 DEF RequestSound
<1>4. CASE /\ InFlight(w) = {r} /\ RemoveWorkers({w}) /\ active' = Done({r})
           /\ UNCHANGED provider_queues
  <2>1. /\ worker_order' \in Seq(WorkerId) /\ NoRepeats(worker_order')
        /\ workers' \in [WorkerId -> WorkerRecord]
        /\ \A v \in WorkerId :
             /\ WorkerSound(v)'
             /\ v \in {w} => InFlight(v)' = {}
             /\ v \notin {w} => workers'[v] = workers[v] /\ InFlight(v)' = InFlight(v)
    BY <1>1, <1>4, WorkersLeave
  <2>2. \A v \in WorkerId : InFlight(v)' = InFlight(v) \ {r}
    <3>1. \A v \in WorkerId : v # w => r \notin InFlight(v)
      BY <1>3 DEF RequestSound
    <3>. QED  BY <1>4, <2>1, <3>1
  <2>3. \A p \in Providers : r \notin Members(provider_queues[p])
    BY <1>3 DEF RequestSound
  <2>4. \A p \in Providers : Members(provider_queues'[p]) = Members(provider_queues[p]) \ {r}
    BY <1>4, <2>3
  <2>5. \A v \in WorkerId : InFlight(v)' # {} => workers'[v].provider = workers[v].provider
    BY <2>1
  <2>6. \A q \in RequestId \ {r} : events'[q] = events[q]
    BY <1>2
  <2>7. {r} \in SUBSET RequestId /\ \A q \in {r} : active[q].state \in {"queued", "in_flight"}
    BY <1>3
  <2>8. /\ active' \in [RequestId -> ActiveRecord]
        /\ \A q \in RequestId : RequestSound(q)' /\ IdSound(q)'
    <3>. HIDE DEF DispatchInv
    <3>. QED  BY <1>1, <1>4, <2>2, <2>4, <2>5, <2>6, <2>7, RequestsLeave
  <2>9. provider_queues' \in [Providers -> Seq(RequestId)]
        /\ \A p \in Providers : NoRepeats(provider_queues'[p])
    BY <1>4 DEF DispatchTyped
  <2>10. canceled_requests' \subseteq RequestId
    BY <1>1 DEF DispatchTyped
  <2>. QED  BY <1>1, <1>2, <2>1, <2>8, <2>9, <2>10, RestTyped
<1>5. CASE /\ Dispatch([workers EXCEPT ![w].in_flight = Without(@, {r})], Done({r}), w, 1)
           /\ UNCHANGED worker_order
  <2>. DEFINE ws == [workers EXCEPT ![w].in_flight = Without(@, {r})]
              list == Without(workers[w].in_flight, {r})
  <2>1. /\ workers[w] \in WorkerRecord /\ workers[w].in_flight \in Seq(RequestId)
        /\ workers[w].max_concurrent \in Nat /\ workers \in [WorkerId -> WorkerRecord]
    BY DispatchFields DEF DispatchTyped
  <2>2. /\ list \in Seq(RequestId) /\ NoRepeats(list) /\ Members(list) = InFlight(w) \ {r}
        /\ Len(list) <= workers[w].max_concurrent
    <3>1. /\ list \in Seq(RequestId) /\ NoRepeats(list) /\ Members(list) = InFlight(w) \ {r}
          /\ Len(list) <= Len(workers[w].in_flight)
      BY <1>3, <2>1, WithoutProperties DEF WorkerSound, InFlight
    <3>2. Len(workers[w].in_flight) <= workers[w].max_concurrent
      BY <1>3 DEF WorkerSound
    <3>3. Len(workers[w].in_flight) \in Nat /\ Len(list) \in Nat
      BY <2>1, <3>1
    <3>. HIDE DEF list, DispatchInv
    <3>. QED  BY <2>1, <3>1, <3>2, <3>3
  <2>3. ws[w] = [workers[w] EXCEPT !.in_flight = list] /\ ws = [workers EXCEPT ![w] = ws[w]]
    BY <2>1
  <2>. HIDE DEF list
  <2>4. /\ ws[w] \in WorkerRecord /\ ws[w].in_flight = list
        /\ ws[w].provider = workers[w].provider /\ ws[w].max_concurrent = workers[w].max_concurrent
    BY <2>1, <2>2, <2>3 DEF WorkerRecord
  <2>5. Dispatch(ws, Done({r}), w, 1)
    BY <1>5
  <2>. HIDE DEF ws
  <2>6. ws \in [WorkerId -> WorkerRecord] /\ \A v \in WorkerId : v # w => ws[v] = workers[v]
    BY <2>1, <2>3, <2>4
  <2>7. Done({r}) \in [RequestId -> ActiveRecord]
        /\ \A q \in RequestId : /\ q \notin {r} => Done({r})[q] = active[q] /\ events'[q] = events[q]
                                /\ q \in {r} => Done({r})[q].state = "done"
    BY <1>2, DoneProperties
  <2>8. {r} \in SUBSET RequestId /\ {r} \subseteq InFlight(w) /\ 1 \in Nat
    BY <1>1
  <2>9. /\ workers' \in [WorkerId -> WorkerRecord] /\ active' \in [RequestId -> ActiveRecord]
        /\ provider_queues' \in [Providers -> Seq(RequestId)]
        /\ \A p \in Providers : NoRepeats(provider_queues'[p])
        /\ \A v \in WorkerId : WorkerSound(v)'
        /\ \A q \in RequestId : RequestSound(q)' /\ IdSound(q)'
    <3>. DEFINE S == {r}
                as == Done(S)
    <3>1. /\ S \in SUBSET RequestId /\ S \subseteq InFlight(w) /\ 1 \in Nat
          /\ as \in [RequestId -> ActiveRecord] /\ ws \in [WorkerId -> WorkerRecord]
          /\ Dispatch(ws, as, w, 1) /\ w \in Registered
      BY <1>1, <2>5, <2>6, <2>7, <2>8
    <3>2. \A q \in RequestId : /\ q \notin S => as[q] = active[q] /\ events'[q] = events[q]
                               /\ q \in S => as[q].state = "done"
      BY <2>7
    <3>3. /\ ws[w].provider = workers[w].provider
          /\ ws[w].max_concurrent = workers[w].max_concurrent
          /\ NoRepeats(ws[w].in_flight) /\ Members(ws[w].in_flight) = InFlight(w) \ S
          /\ Len(ws[w].in_flight) <= workers[w].max_concurrent
      BY <2>2, <2>4
    <3>4. UNCHANGED <<worker_order, next_request_id, next_worker_id>>
      BY <1>1, <1>5
    <3>. HIDE DEF DispatchInv, S, as
    <3>. QED  BY <2>6, <3>1, <3>2, <3>3, <3>4, DispatchKeeps
  <2>10. /\ canceled_requests' \subseteq RequestId
         /\ worker_order' \in Seq(WorkerId) /\ NoRepeats(worker_order')
    BY <1>1, <1>5 DEF DispatchTyped
  <2>. QED  BY <1>1, <1>2, <2>9, <2>10, RestTyped
<1>. QED  BY <1>4, <1>5 DEF FinishRequest

(* A shutdown moves only flags and deadlines.                                *)
LEMMA BeginKeeps ==
  ASSUME DispatchInv, BeginGracefulShutdown PROVE DispatchInv'
<1>. USE DEF DispatchInv
<1>1. UNCHANGED <<now_tick, next_request_id, next_worker_id, worker_order, provider_queues,
                  active, canceled_requests, events>>
  BY DEF BeginGracefulShutdown
<1>2. ASSUME NEW w \in WorkerId
      PROVE  /\ workers'[w] \in WorkerRecord /\ workers'[w].in_flight = workers[w].in_flight
             /\ workers'[w].provider = workers[w].provider
             /\ workers'[w].max_concurrent = workers[w].max_concurrent
  <2>. DEFINE drained == [workers[w] EXCEPT !.is_draining = TRUE, !.deadline = now_tick + DrainTicks]
              late == now_tick + DrainTicks
  <2>1. workers[w] \in WorkerRecord /\ late \in Int
    BY ContractAssumption DEF DispatchTyped
  <2>2. drained = [workers[w] EXCEPT !.is_draining = TRUE, !.deadline = late]
    OBVIOUS
  <2>3. workers'[w] = IF w \in Registered THEN drained ELSE workers[w]
    BY DEF BeginGracefulShutdown
  <2>. HIDE DEF late, drained
  <2>4. /\ drained \in WorkerRecord /\ drained.in_flight = workers[w].in_flight
        /\ drained.provider = workers[w].provider /\ drained.max_concurrent = workers[w].max_concurrent
    BY <2>1, <2>2 DEF WorkerRecord
  <2>. QED  BY <2>1, <2>3, <2>4
<1>3. workers' \in [WorkerId -> WorkerRecord]
  <2>1. workers' = [w \in WorkerId |-> workers'[w]]
    BY DEF BeginGracefulShutdown
  <2>. QED  BY <1>2, <2>1
<1>4. \A w \in WorkerId : WorkerSound(w)' /\ InFlight(w)' = InFlight(w)
  BY <1>1, <1>2 DEF WorkerSound, Registered, InFlight
<1>5. \A r \in RequestId : RequestSound(r)' /\ IdSound(r)'
  <2>. SUFFICES ASSUME NEW r \in RequestId PROVE RequestSound(r)' /\ IdSound(r)'
    OBVIOUS
  <2>1. RequestSound(r) /\ IdSound(r)
    OBVIOUS
  <2>. HIDE DEF DispatchInv
  <2>. QED  BY <1>1, <1>2, <1>4, <2>1 DEF RequestSound, IdSound
<1>. QED  BY <1>1, <1>3, <1>4, <1>5, RestTyped DEF DispatchTyped

(* Failing the requests of some workers that leave, and some queued ones.     *)
LEMMA FailingKeeps ==
  ASSUME DispatchInv, NEW gone \in SUBSET WorkerId, RemoveWorkers(gone),
         NEW Q \in SUBSET RequestId, FailAll(Q \cup UNION {InFlight(w) : w \in gone}),
         \A r \in Q : active[r].state = "queued",
         provider_queues' \in [Providers -> Seq(RequestId)],
         \A p \in Providers : /\ NoRepeats(provider_queues'[p])
                              /\ Members(provider_queues'[p]) = Members(provider_queues[p]) \ Q,
         UNCHANGED <<now_tick, next_request_id, next_worker_id, canceled_requests>>
  PROVE  DispatchInv'
<1>. USE DEF DispatchInv
<1>. DEFINE held == UNION {InFlight(w) : w \in gone}
            S == Q \cup held
<1>1. /\ worker_order' \in Seq(WorkerId) /\ NoRepeats(worker_order')
      /\ workers' \in [WorkerId -> WorkerRecord]
      /\ \A v \in WorkerId :
           /\ WorkerSound(v)'
           /\ v \in gone => InFlight(v)' = {}
           /\ v \notin gone => workers'[v] = workers[v] /\ InFlight(v)' = InFlight(v)
  BY WorkersLeave
<1>2. \A r \in held : /\ r \in RequestId /\ active[r].state = "in_flight"
                      /\ active[r].worker \in gone
  <2>. SUFFICES ASSUME NEW w \in gone, NEW r \in InFlight(w)
                PROVE  r \in RequestId /\ active[r].state = "in_flight" /\ active[r].worker \in gone
    OBVIOUS
  <2>1. r \in RequestId
    BY DispatchFields
  <2>. QED  BY <2>1 DEF RequestSound
<1>3. S \in SUBSET RequestId /\ \A r \in S : active[r].state \in {"queued", "in_flight"}
  <2>. HIDE DEF held
  <2>. QED  BY <1>2
<1>4. active' = Done(S) /\ events' \in [RequestId -> Seq(EventRecord)]
      /\ \A r \in RequestId \ S : events'[r] = events[r]
  <2>1. events' = [r \in RequestId |-> IF r \in S THEN Append(events[r], Event("failure", NoWorker))
                                       ELSE events[r]]
    BY DEF FailAll
  <2>2. active' = Done(S)
    BY DEF FailAll
  <2>. HIDE DEF S
  <2>. QED  BY <2>1, <2>2, EventsTyped
<1>5. \A p \in Providers : Members(provider_queues'[p]) = Members(provider_queues[p]) \ S
  <2>. SUFFICES ASSUME NEW p \in Providers
                PROVE  Members(provider_queues'[p]) = Members(provider_queues[p]) \ S
    OBVIOUS
  <2>1. \A r \in held : r \notin Members(provider_queues[p])
    <3>. HIDE DEF held
    <3>. QED  BY <1>2 DEF RequestSound
  <2>. HIDE DEF held
  <2>. QED  BY <2>1
<1>6. \A w \in WorkerId : InFlight(w)' = InFlight(w) \ S
  <2>. SUFFICES ASSUME NEW w \in WorkerId PROVE InFlight(w)' = InFlight(w) \ S
    OBVIOUS
  <2>1. CASE w \in gone
    BY <1>1, <2>1
  <2>2. CASE w \notin gone
    <3>1. \A r \in S : r \notin InFlight(w)
      <4>1. \A r \in held : r \notin InFlight(w)
        <5>. HIDE DEF held
        <5>. QED  BY <1>2, <2>2 DEF RequestSound
      <4>2. \A r \in Q : r \notin InFlight(w)
        BY DEF RequestSound
      <4>. QED  BY <4>1, <4>2
    <3>. HIDE DEF S
    <3>. QED  BY <1>1, <2>2, <3>1
  <2>. QED  BY <2>1, <2>2
<1>7. \A w \in WorkerId : InFlight(w)' # {} => workers'[w].provider = workers[w].provider
  BY <1>1
<1>8. /\ active' \in [RequestId -> ActiveRecord]
      /\ \A q \in RequestId : RequestSound(q)' /\ IdSound(q)'
  <2>. HIDE DEF DispatchInv, S
  <2>. QED  BY <1>3, <1>4, <1>5, <1>6, <1>7, RequestsLeave
<1>9. canceled_requests' \subseteq RequestId
  BY DEF DispatchTyped
<1>. QED  BY <1>1, <1>4, <1>8, <1>9, RestTyped

(* Workers whose shutdown ran out are removed and their requests failed.      *)
LEMMA ExpireKeeps ==
  ASSUME DispatchInv, ExpireGracefulShutdown PROVE DispatchInv'
<1>. DEFINE expiring == {w \in Registered : workers[w].is_draining /\ workers[w].deadline <= now_tick}
            held == UNION {InFlight(w) : w \in expiring}
<1>1. /\ FailAll(held) /\ RemoveWorkers(expiring)
      /\ UNCHANGED <<now_tick, next_request_id, next_worker_id, provider_queues, canceled_requests>>
  BY DEF ExpireGracefulShutdown
<1>2. expiring \in SUBSET WorkerId
  BY DispatchFields DEF DispatchInv
<1>. HIDE DEF expiring
<1>3. FailAll({} \cup held)
  <2>1. {} \cup held = held
    OBVIOUS
  <2>. HIDE DEF held
  <2>. QED  BY <1>1, <2>1
<1>4. provider_queues' \in [Providers -> Seq(RequestId)]
      /\ \A p \in Providers : /\ NoRepeats(provider_queues'[p])
                              /\ Members(provider_queues'[p]) = Members(provider_queues[p]) \ {}
  BY <1>1 DEF DispatchInv, DispatchTyped
<1>5. {} \in SUBSET RequestId /\ \A r \in {} : active[r].state = "queued"
  OBVIOUS
<1>. QED  BY <1>1, <1>2, <1>3, <1>4, <1>5, FailingKeeps

(* A provider's queue and workers go, and all its requests fail.             *)
LEMMA DeleteKeeps ==
  ASSUME DispatchInv, NEW p \in Providers, DeleteProvider(p) PROVE DispatchInv'
<1>. USE DEF DispatchInv
<1>. DEFINE theirs == {w \in Registered : workers[w].provider = p}
            Q == Members(provider_queues[p])
<1>1. /\ FailAll(Q \cup UNION {InFlight(w) : w \in theirs}) /\ RemoveWorkers(theirs)
      /\ provider_queues' = [provider_queues EXCEPT ![p] = <<>>]
      /\ UNCHANGED <<now_tick, next_request_id, next_worker_id, canceled_requests>>
  BY DEF DeleteProvider
<1>2. theirs \in SUBSET WorkerId /\ Q \in SUBSET RequestId
  BY DispatchFields
<1>3. \A r \in Q : active[r].state = "queued" /\ active[r].provider = p
  BY <1>2 DEF RequestSound
<1>4. ASSUME NEW q \in Providers
      PROVE  /\ NoRepeats(provider_queues'[q])
             /\ Members(provider_queues'[q]) = Members(provider_queues[q]) \ Q
  <2>1. CASE q = p
    <3>1. provider_queues'[q] = <<>>
      BY <1>1, <2>1 DEF DispatchTyped
    <3>. QED  BY <2>1, <3>1, SmallSequences
  <2>2. CASE q # p
    <3>1. provider_queues'[q] = provider_queues[q]
      BY <1>1, <2>2 DEF DispatchTyped
    <3>2. \A r \in Q : r \notin Members(provider_queues[q])
      <4>. HIDE DEF Q
      <4>. QED  BY <1>2, <1>3, <2>2 DEF RequestSound
    <3>. QED  BY <3>1, <3>2
  <2>. QED  BY <2>1, <2>2
<1>5. provider_queues' \in [Providers -> Seq(RequestId)]
  BY <1>1 DEF DispatchTyped
<1>. HIDE DEF theirs, Q, DispatchInv
<1>. QED  BY <1>1, <1>2, <1>3, <1>4, <1>5, FailingKeeps

(* Requests that leave the queues while the workers stay as they are.         *)
LEMMA QueuedLeave ==
  ASSUME DispatchInv, NEW S \in SUBSET RequestId, \A r \in S : active[r].state = "queued",
         active' = Done(S), events' \in [RequestId -> Seq(EventRecord)],
         \A r \in RequestId \ S : events'[r] = events[r],
         provider_queues' \in [Providers -> Seq(RequestId)],
         \A p \in Providers : /\ NoRepeats(provider_queues'[p])
                              /\ Members(provider_queues'[p]) = Members(provider_queues[p]) \ S,
         canceled_requests' \subseteq RequestId,
         UNCHANGED <<now_tick, next_request_id, next_worker_id, worker_order, workers>>
  PROVE  DispatchInv'
<1>. USE DEF DispatchInv
<1>1. \A w \in WorkerId : InFlight(w)' = InFlight(w) /\ InFlight(w) = InFlight(w) \ S
  <2>1. \A w \in WorkerId : \A r \in S : r \notin InFlight(w)
    BY DEF RequestSound
  <2>2. \A w \in WorkerId : InFlight(w)' = InFlight(w)
    BY DEF InFlight
  <2>. QED  BY <2>1, <2>2
<1>2. \A w \in WorkerId : InFlight(w)' = InFlight(w) \ S
  BY <1>1
<1>3. /\ active' \in [RequestId -> ActiveRecord]
      /\ \A q \in RequestId : RequestSound(q)' /\ IdSound(q)'
  <2>1. \A r \in S : active[r].state \in {"queued", "in_flight"}
    OBVIOUS
  <2>. HIDE DEF DispatchInv
  <2>. QED  BY <1>2, <2>1, RequestsLeave
<1>4. \A w \in WorkerId : WorkerSound(w)'
  BY DEF WorkerSound, Registered
<1>. QED  BY <1>3, <1>4, RestTyped DEF DispatchTyped

(* A cancelled request leaves the queue, or is marked.                        *)
LEMMA CancelKeeps ==
  ASSUME DispatchInv, NEW r \in RequestId, CancelRequest(r) PROVE DispatchInv'
<1>. USE DEF DispatchInv
<1>1. /\ canceled_requests' \subseteq RequestId
      /\ events' \in [RequestId -> Seq(EventRecord)]
      /\ UNCHANGED <<now_tick, next_request_id, next_worker_id, worker_order, workers, events>>
  BY DEF CancelRequest, DispatchTyped
<1>2. CASE /\ active[r].state = "queued" /\ active' = Done({r})
           /\ provider_queues' = [provider_queues EXCEPT ![active[r].provider] = Without(@, {r})]
  <2>. PICK p \in Providers : p = active[r].provider
    BY <1>2 DEF RequestSound
  <2>1. /\ Without(provider_queues[p], {r}) \in Seq(RequestId)
        /\ NoRepeats(Without(provider_queues[p], {r}))
        /\ Members(Without(provider_queues[p], {r})) = Members(provider_queues[p]) \ {r}
    <3>1. provider_queues[p] \in Seq(RequestId) /\ NoRepeats(provider_queues[p])
      BY DEF DispatchTyped
    <3>. HIDE DEF DispatchInv
    <3>. QED  BY <3>1, WithoutProperties
  <2>2. provider_queues' \in [Providers -> Seq(RequestId)]
    BY <1>2, <2>1 DEF DispatchTyped
  <2>3. ASSUME NEW q \in Providers
        PROVE  /\ NoRepeats(provider_queues'[q])
               /\ Members(provider_queues'[q]) = Members(provider_queues[q]) \ {r}
    <3>1. CASE q = p
      BY <1>2, <2>1, <3>1 DEF DispatchTyped
    <3>2. CASE q # p
      <4>1. provider_queues'[q] = provider_queues[q] /\ r \notin Members(provider_queues[q])
        BY <1>2, <3>2 DEF DispatchTyped, RequestSound
      <4>. QED  BY <4>1
    <3>. QED  BY <3>1, <3>2
  <2>4. {r} \in SUBSET RequestId /\ \A q \in {r} : active[q].state = "queued"
    BY <1>2
  <2>5. \A q \in RequestId \ {r} : events'[q] = events[q]
    BY <1>1
  <2>. HIDE DEF DispatchInv
  <2>. QED  BY <1>1, <1>2, <2>2, <2>3, <2>4, <2>5, QueuedLeave
<1>3. CASE UNCHANGED <<active, provider_queues>>
  <2>1. \A w \in WorkerId : WorkerSound(w)' /\ InFlight(w)' = InFlight(w)
    BY <1>1 DEF WorkerSound, Registered, InFlight
  <2>2. ASSUME NEW q \in RequestId PROVE RequestSound(q)' /\ IdSound(q)'
    <3>1. RequestSound(q) /\ IdSound(q)
      OBVIOUS
    <3>. HIDE DEF DispatchInv
    <3>. QED  BY <1>1, <1>3, <2>1, <3>1 DEF RequestSound, IdSound
  <2>. QED  BY <1>1, <1>3, <2>1, <2>2, RestTyped DEF DispatchTyped
<1>. QED  BY <1>2, <1>3 DEF CancelRequest

(* A chunk is one event more for its client.                                  *)
LEMMA ChunkKeeps ==
  ASSUME DispatchInv, NEW r \in RequestId, DeliverWorkerChunk(r) PROVE DispatchInv'
<1>. USE DEF DispatchInv
<1>1. /\ active[r].state \in {"queued", "in_flight"}
      /\ events' = [events EXCEPT ![r] = Append(@, Event("chunk", NoWorker))]
      /\ UNCHANGED <<now_tick, next_request_id, next_worker_id, worker_order, workers,
                     provider_queues, active, canceled_requests>>
  BY DEF DeliverWorkerChunk
<1>2. Event("chunk", NoWorker) \in EventRecord
  BY RecordsTyped
<1>3. events' \in [RequestId -> Seq(EventRecord)] /\ \A q \in RequestId : q # r => events'[q] = events[q]
  BY <1>1, <1>2 DEF DispatchTyped
<1>4. \A w \in WorkerId : WorkerSound(w)' /\ InFlight(w)' = InFlight(w)
  BY <1>1 DEF WorkerSound, Registered, InFlight
<1>5. ASSUME NEW q \in RequestId PROVE RequestSound(q)' /\ IdSound(q)'
  <2>1. RequestSound(q) /\ IdSound(q)
    OBVIOUS
  <2>2. RequestSound(q)'
    <3>. HIDE DEF DispatchInv
    <3>. QED  BY <1>1, <1>4, <2>1 DEF RequestSound
  <2>3. q = r => ~(r >= next_request_id)
    BY <1>1, <2>1 DEF IdSound, Blank
  <2>. HIDE DEF DispatchInv
  <2>. QED  BY <1>1, <1>3, <2>1, <2>2, <2>3 DEF IdSound
<1>. QED  BY <1>1, <1>3, <1>4, <1>5, RestTyped DEF DispatchTyped

(* Time alone changes nothing else.                                          *)
LEMMA AdvanceKeeps ==
  ASSUME DispatchInv, AdvanceTime PROVE DispatchInv'
<1>. USE DEF DispatchInv
<1>1. now_tick' \in 0..MaxTime
  BY ContractAssumption DEF AdvanceTime, DispatchTyped
<1>2. UNCHANGED <<next_request_id, next_worker_id, worker_order, workers, provider_queues, active,
                  canceled_requests, events>>
  BY DEF AdvanceTime
<1>. QED  BY <1>1, <1>2 DEF DispatchTyped, WorkerSound, RequestSound, IdSound, Registered, InFlight

(* Requests that waited too long leave all queues.                            *)
LEMMA TimeoutKeeps ==
  ASSUME DispatchInv, ExpireQueueTimeouts PROVE DispatchInv'
<1>. USE DEF DispatchInv
<1>. DEFINE S == {r \in RequestId : active[r].state = "queued" /\ TimedOut(r)}
<1>1. /\ FailAll(S) /\ provider_queues' = [p \in Providers |-> Without(provider_queues[p], S)]
      /\ UNCHANGED <<now_tick, next_request_id, next_worker_id, worker_order, workers, canceled_requests>>
  BY DEF ExpireQueueTimeouts
<1>2. S \in SUBSET RequestId /\ \A r \in S : active[r].state = "queued"
  OBVIOUS
<1>. HIDE DEF S
<1>3. /\ active' = Done(S) /\ events' \in [RequestId -> Seq(EventRecord)]
      /\ \A r \in RequestId \ S : events'[r] = events[r]
  <2>1. events' = [r \in RequestId |-> IF r \in S THEN Append(events[r], Event("failure", NoWorker))
                                       ELSE events[r]]
    BY <1>1 DEF FailAll
  <2>. QED  BY <1>1, <2>1, EventsTyped DEF FailAll
<1>4. ASSUME NEW p \in Providers
      PROVE  /\ provider_queues'[p] \in Seq(RequestId) /\ NoRepeats(provider_queues'[p])
             /\ Members(provider_queues'[p]) = Members(provider_queues[p]) \ S
  <2>1. provider_queues[p] \in Seq(RequestId) /\ NoRepeats(provider_queues[p])
    BY DEF DispatchTyped
  <2>2. provider_queues'[p] = Without(provider_queues[p], S)
    BY <1>1
  <2>. HIDE DEF DispatchInv
  <2>. QED  BY <2>1, <2>2, WithoutProperties
<1>5. provider_queues' \in [Providers -> Seq(RequestId)]
  BY <1>1, <1>4
<1>6. canceled_requests' \subseteq RequestId
  BY <1>1 DEF DispatchTyped
<1>. HIDE DEF DispatchInv
<1>. QED  BY <1>1, <1>2, <1>3, <1>4, <1>5, <1>6, QueuedLeave

(* When a worker is lost its requests go back to the front of their queue in  *)
(* order, except those that were cancelled or retried too often.              *)
LEMMA DisconnectKeeps ==
  ASSUME DispatchInv, NEW w \in WorkerId, DisconnectWorker(w) PROVE DispatchInv'
<1>. USE DEF DispatchInv
<1>. DEFINE list == workers[w].in_flight
            lost == Lost(w)
            requeued == Without(list, lost)
            R == Members(requeued)
<1>. PICK p \in Providers : p = workers[w].provider
  BY DEF DisconnectWorker, WorkerSound
<1>1. /\ w \in Registered
      /\ active' = [r \in RequestId |-> IF r \in R THEN Again(active[r]) ELSE Done(lost)[r]]
      /\ events' = [r \in RequestId |-> IF r \in lost THEN Append(events[r], Event("failure", NoWorker))
                                        ELSE events[r]]
      /\ provider_queues' = [provider_queues EXCEPT ![p] = requeued \o @]
      /\ RemoveWorkers({w})
      /\ UNCHANGED <<now_tick, next_request_id, next_worker_id, canceled_requests>>
  BY DEF DisconnectWorker, Again
<1>2. /\ requeued \in Seq(RequestId) /\ NoRepeats(requeued) /\ R = InFlight(w) \ lost
      /\ lost \subseteq InFlight(w) /\ InFlight(w) \subseteq RequestId
  <2>1. list \in Seq(RequestId) /\ NoRepeats(list) /\ InFlight(w) \subseteq RequestId
    BY DispatchFields DEF WorkerSound
  <2>2. lost \subseteq InFlight(w)
    BY DEF Lost
  <2>3. Members(list) = InFlight(w)
    BY DEF InFlight
  <2>. HIDE DEF list, lost, DispatchInv
  <2>. QED  BY <2>1, <2>2, <2>3, WithoutProperties
<1>. HIDE DEF requeued, lost
<1>3. \A r \in InFlight(w) : /\ active[r].state = "in_flight" /\ active[r].worker = w
                             /\ active[r].provider = p /\ ~(r >= next_request_id)
                             /\ \A q \in Providers : r \notin Members(provider_queues[q])
  <2>. SUFFICES ASSUME NEW r \in InFlight(w)
                PROVE  /\ active[r].state = "in_flight" /\ active[r].worker = w
                       /\ active[r].provider = p /\ ~(r >= next_request_id)
                       /\ \A q \in Providers : r \notin Members(provider_queues[q])
    OBVIOUS
  <2>1. RequestSound(r) /\ IdSound(r)
    BY <1>2
  <2>2. active[r].state = "in_flight" /\ active[r].worker = w /\ active[r].provider = p
    BY <2>1 DEF RequestSound
  <2>. HIDE DEF DispatchInv
  <2>3. ~(r >= next_request_id)
    BY <2>1, <2>2 DEF IdSound, Blank
  <2>. QED  BY <2>1, <2>2, <2>3 DEF RequestSound
<1>4. /\ worker_order' \in Seq(WorkerId) /\ NoRepeats(worker_order')
      /\ workers' \in [WorkerId -> WorkerRecord]
      /\ \A v \in WorkerId :
           /\ WorkerSound(v)'
           /\ v \in {w} => InFlight(v)' = {}
           /\ v \notin {w} => workers'[v] = workers[v] /\ InFlight(v)' = InFlight(v)
  BY <1>1, WorkersLeave
<1>5. /\ requeued \o provider_queues[p] \in Seq(RequestId)
      /\ NoRepeats(requeued \o provider_queues[p])
      /\ Members(requeued \o provider_queues[p]) = R \cup Members(provider_queues[p])
  <2>1. provider_queues[p] \in Seq(RequestId) /\ NoRepeats(provider_queues[p])
    BY DEF DispatchTyped
  <2>2. R \cap Members(provider_queues[p]) = {}
    <3>. HIDE DEF R
    <3>. QED  BY <1>2, <1>3
  <2>. HIDE DEF DispatchInv
  <2>. QED  BY <1>2, <2>1, <2>2, JoinProperties
<1>. HIDE DEF R
<1>6. ASSUME NEW q \in Providers
      PROVE  /\ NoRepeats(provider_queues'[q])
             /\ Members(provider_queues'[q]) =
                  IF q = p THEN R \cup Members(provider_queues[p]) ELSE Members(provider_queues[q])
  <2>1. provider_queues'[q] = IF q = p THEN requeued \o provider_queues[p] ELSE provider_queues[q]
    BY <1>1 DEF DispatchTyped
  <2>. QED  BY <1>5, <2>1
<1>7. provider_queues' \in [Providers -> Seq(RequestId)]
  <2>1. provider_queues \in [Providers -> Seq(RequestId)]
    BY DEF DispatchTyped
  <2>. HIDE DEF DispatchInv
  <2>. QED  BY <1>1, <1>5, <2>1
<1>8. ASSUME NEW r \in RequestId
      PROVE  /\ active'[r] \in ActiveRecord
             /\ r \in R => active'[r].state = "queued" /\ active'[r].provider = active[r].provider
             /\ r \in lost => active'[r].state = "done"
             /\ r \notin R /\ r \notin lost => active'[r] = active[r]
  <2>1. active[r] \in ActiveRecord /\ Done(lost) \in [RequestId -> ActiveRecord]
        /\ (r \in lost => Done(lost)[r].state = "done")
        /\ (r \notin lost => Done(lost)[r] = active[r])
    BY DispatchFields, DoneProperties
  <2>2. /\ Again(active[r]) \in ActiveRecord /\ Again(active[r]).state = "queued"
        /\ Again(active[r]).provider = active[r].provider
    BY <2>1, RecordMoves
  <2>3. active'[r] = IF r \in R THEN Again(active[r]) ELSE Done(lost)[r]
    BY <1>1
  <2>. HIDE DEF DispatchInv
  <2>. QED  BY <1>2, <2>1, <2>2, <2>3
<1>9. active' \in [RequestId -> ActiveRecord]
  BY <1>1, <1>8
<1>10. events' \in [RequestId -> Seq(EventRecord)] /\ \A r \in RequestId : r \notin lost => events'[r] = events[r]
  BY <1>1, EventsTyped
<1>11. ASSUME NEW r \in RequestId PROVE RequestSound(r)' /\ IdSound(r)'
  <2>0. RequestSound(r) /\ IdSound(r)
    OBVIOUS
  <2>. HIDE DEF DispatchInv
  <2>1. CASE r \in R
    <3>1. r \in InFlight(w) /\ r \notin lost
      BY <1>2, <2>1
    <3>2. /\ active'[r].state = "queued" /\ active'[r].provider = p
          /\ \A q \in Providers : r \in Members(provider_queues'[q]) <=> q = p
      BY <1>3, <1>6, <1>8, <2>1, <3>1
    <3>3. \A v \in WorkerId : r \notin InFlight(v)'
      BY <1>3, <1>4, <2>0, <3>1 DEF RequestSound
    <3>. QED  BY <1>1, <1>3, <3>1, <3>2, <3>3 DEF RequestSound, IdSound
  <2>2. CASE r \in lost
    <3>1. r \in InFlight(w) /\ r \notin R
      BY <1>2, <2>2
    <3>2. active'[r].state = "done" /\ \A q \in Providers : r \notin Members(provider_queues'[q])
      BY <1>3, <1>6, <1>8, <2>2, <3>1
    <3>3. \A v \in WorkerId : r \notin InFlight(v)'
      BY <1>3, <1>4, <2>0, <3>1 DEF RequestSound
    <3>. QED  BY <1>1, <1>3, <3>1, <3>2, <3>3 DEF RequestSound, IdSound
  <2>3. CASE r \notin R /\ r \notin lost
    <3>1. active'[r] = active[r] /\ events'[r] = events[r] /\ r \notin InFlight(w)
      BY <1>2, <1>8, <1>10, <2>3
    <3>2. \A q \in Providers : r \in Members(provider_queues'[q]) <=> r \in Members(provider_queues[q])
      BY <1>6, <2>3
    <3>3. \A v \in WorkerId : r \in InFlight(v)' <=> r \in InFlight(v)
      BY <1>4, <3>1
    <3>4. active[r].state = "in_flight" =>
            workers'[active[r].worker].provider = workers[active[r].worker].provider
      BY <1>4, <2>0, <3>1 DEF RequestSound
    <3>5. RequestSound(r)'
      BY <2>0, <3>1, <3>2, <3>3, <3>4 DEF RequestSound
    <3>. QED  BY <1>1, <2>0, <3>1, <3>5 DEF IdSound
  <2>. QED  BY <2>1, <2>2, <2>3
<1>12. canceled_requests' \subseteq RequestId
  BY <1>1 DEF DispatchTyped
<1>. QED  BY <1>1, <1>4, <1>6, <1>7, <1>9, <1>10, <1>11, <1>12, RestTyped

(* Every operation of the dispatch harness keeps its invariant.              *)
LEMMA DispatchStep == DispatchInv /\ [Next]_vars => DispatchInv'
<1>. SUFFICES ASSUME DispatchInv, [Next]_vars PROVE DispatchInv'
  OBVIOUS
<1>1. CASE UNCHANGED vars
  BY <1>1 DEF vars, DispatchInv, DispatchTyped, WorkerSound, RequestSound, IdSound, Registered, InFlight
<1>2. \A reg \in Registrations : reg.models \in SUBSET Models
  BY ContractAssumption
<1>3. ASSUME NEW w \in WorkerId, NEW ms \in {reg.models : reg \in Registrations},
             UpdateWorkerModels(w, ms)
      PROVE  DispatchInv'
  <2>1. ms \in SUBSET Models
    BY <1>2
  <2>. QED  BY <1>3, <2>1, UpdateKeeps
<1>. QED
  BY <1>1, <1>3, RegisterKeeps, SubmitKeeps, NextKeeps, FinishKeeps, BeginKeeps, ExpireKeeps,
     DeleteKeeps, DisconnectKeeps, CancelKeeps, ChunkKeeps, AdvanceKeeps, TimeoutKeeps
  DEF Next

(* So it holds after any sequence of operations.                             *)
LEMMA DispatchAlways == Spec => []DispatchInv
BY DispatchStart, DispatchStep, PTL DEF Spec

(* Over any number of workers and requests the dispatch harness keeps every   *)
(* request in the one place its record names, and no worker above its slots.  *)
THEOREM HarnessKeepsPlaces == Spec => [](ContractTypeOK /\ CapacityKept)
BY DispatchAlways, DispatchInvGives, PTL

-----------------------------------------------------------------------------
(* What the harness promises each request, and the order of its queues.       *)

(* Queued requests B go to worker w, and with a request every earlier one for *)
(* the same model; the others have the record given for them.                *)
Taken(B, w) ==
  /\ \A r \in B : active[r].state = "queued" /\ active'[r] = TakenBy(active[r], w)
  /\ \A p \in Providers : \A i, j \in DOMAIN provider_queues[p] :
       /\ i < j /\ provider_queues[p][j] \in B
       /\ active[provider_queues[p][i]].model = active[provider_queues[p][j]].model
       => provider_queues[p][i] \in B

TakesFor(w, as) ==
  \E B \in SUBSET RequestId : Taken(B, w) /\ \A r \in RequestId \ B : active'[r] = as[r]

(* A worker within its slots has room for some number of requests. *)
LEMMA RoomIsThere ==
  ASSUME NEW ws, NEW w, ws[w].max_concurrent \in Nat, ws[w].in_flight \in Seq(RequestId),
         Len(ws[w].in_flight) <= ws[w].max_concurrent
  PROVE  Room(ws, w) \in Nat
<1>1. ws[w].max_concurrent - Len(ws[w].in_flight) \in Nat
  OBVIOUS
<1>. DEFINE left == ws[w].max_concurrent - Len(ws[w].in_flight)
<1>2. Room(ws, w) = IF ws[w].is_draining THEN 0 ELSE left
  BY DEF Room
<1>. HIDE DEF left
<1>3. CASE ws[w].is_draining
  BY <1>2, <1>3
<1>4. CASE ~ws[w].is_draining
  BY <1>1, <1>2, <1>4 DEF left
<1>. QED  BY <1>3, <1>4

(* Dispatching to worker w, whose list was shortened by S, takes queued       *)
(* requests for it in order and leaves the others the records given for them. *)
LEMMA DispatchMoves ==
  ASSUME DispatchInv, NEW w \in Registered, NEW S \in SUBSET RequestId, NEW n \in Nat,
         NEW ws, NEW as \in [RequestId -> ActiveRecord],
         ws[w].provider = workers[w].provider, Room(ws, w) \in Nat,
         S \subseteq InFlight(w), \A r \in RequestId \ S : as[r] = active[r],
         Dispatch(ws, as, w, n)
  PROVE  TakesFor(w, as)
<1>. DEFINE k == IF n <= Room(ws, w) THEN n ELSE Room(ws, w)
            batch == Batch(ws, w, k)
            B == Members(batch)
            room == Room(ws, w)
<1>1. PICK p \in Providers : p = workers[w].provider
  BY DispatchFields DEF DispatchInv, WorkerSound
<1>2. k \in Nat
  <2>. HIDE DEF room
  <2>1. k = IF n <= room THEN n ELSE room
    BY DEF room
  <2>. HIDE DEF k
  <2>. QED  BY <2>1 DEF room
<1>3. provider_queues[p] \in Seq(RequestId) /\ NoRepeats(provider_queues[p])
  BY DEF DispatchInv, DispatchTyped
<1>. DEFINE queue == provider_queues[p]
<1>4. /\ batch \in Seq(RequestId) /\ B \subseteq Members(queue)
      /\ \A i, j \in DOMAIN queue :
           /\ i < j /\ active[queue[i]].model = active[queue[j]].model
           /\ queue[j] \in Members(batch)
           => queue[i] \in Members(batch)
  <2>1. provider_queues[ws[w].provider] = queue
    BY <1>1
  <2>2. /\ provider_queues[ws[w].provider] \in Seq(RequestId)
        /\ NoRepeats(provider_queues[ws[w].provider])
    BY <1>3, <2>1
  <2>. HIDE DEF k
  <2>3. /\ Batch(ws, w, k) \in Seq(RequestId)
        /\ Members(Batch(ws, w, k)) \subseteq Members(provider_queues[ws[w].provider])
        /\ \A i, j \in DOMAIN provider_queues[ws[w].provider] :
             /\ i < j
             /\ active[provider_queues[ws[w].provider][i]].model =
                  active[provider_queues[ws[w].provider][j]].model
             /\ provider_queues[ws[w].provider][j] \in Members(Batch(ws, w, k))
             => provider_queues[ws[w].provider][i] \in Members(Batch(ws, w, k))
    BY <1>2, <2>2, BatchProperties
  <2>. HIDE DEF queue
  <2>. QED  BY <2>1, <2>3
<1>5. active' = [r \in RequestId |->
                   IF r \in B THEN [as[r] EXCEPT !.state = "in_flight", !.worker = w] ELSE as[r]]
  BY DEF Dispatch
<1>. HIDE DEF batch
<1>6. B \in SUBSET RequestId
  BY <1>4 DEF Members
<1>7. \A r \in B : r \in RequestId /\ active[r].state = "queued" /\ active[r].provider = p
  <2>1. \A r \in RequestId : RequestSound(r)
    BY DEF DispatchInv
  <2>. QED  BY <1>4, <1>6, <2>1 DEF RequestSound
<1>8. \A r \in B : r \notin S
  <2>1. \A r \in S : active[r].state = "in_flight"
    BY DispatchFields DEF DispatchInv, RequestSound
  <2>. QED  BY <1>7, <2>1
<1>. HIDE DEF B
<1>9. \A r \in B : active[r].state = "queued" /\ active'[r] = TakenBy(active[r], w)
  BY <1>5, <1>7, <1>8 DEF TakenBy
<1>10. \A r \in RequestId \ B : active'[r] = as[r]
  BY <1>5
<1>11. ASSUME NEW q \in Providers, NEW i \in DOMAIN provider_queues[q],
              NEW j \in DOMAIN provider_queues[q], i < j, provider_queues[q][j] \in B,
              active[provider_queues[q][i]].model = active[provider_queues[q][j]].model
       PROVE  provider_queues[q][i] \in B
  <2>1. provider_queues[q][j] \in Members(provider_queues[q])
    BY <1>11 DEF Members
  <2>2. provider_queues[q][j] \in RequestId /\ active[provider_queues[q][j]].provider = p
    BY <1>7, <1>11
  <2>3. q = p
    BY <2>1, <2>2 DEF DispatchInv, RequestSound
  <2>. QED  BY <1>4, <1>11, <2>3 DEF B
<1>12. Taken(B, w)
  BY <1>9, <1>11 DEF Taken
<1>. QED  BY <1>6, <1>10, <1>12 DEF TakesFor

(* A step that takes nobody from a queue, or with a request also the earlier  *)
(* ones for its model, serves the queues in order.                           *)
InOrder ==
  \A p \in Providers : \A i, j \in DOMAIN provider_queues[p] :
    LET early == provider_queues[p][i]
        late == provider_queues[p][j]
    IN i < j /\ active[early].model = active[late].model /\ active'[late].state = "in_flight"
         => active'[early].state # "queued"

(* Positions of a queue hold queued requests.                                *)
LEMMA QueuedMembers ==
  ASSUME DispatchInv, NEW p \in Providers, NEW i \in DOMAIN provider_queues[p]
  PROVE  provider_queues[p][i] \in RequestId /\ active[provider_queues[p][i]].state = "queued"
<1>1. provider_queues[p][i] \in RequestId
  BY DEF DispatchInv, DispatchTyped
<1>2. provider_queues[p][i] \in Members(provider_queues[p])
  BY DEF Members
<1>. QED  BY <1>1, <1>2 DEF DispatchInv, RequestSound

(* Operations that take no queued request serve the queues in order.         *)
LEMMA NobodyTaken ==
  ASSUME DispatchInv,
         \A r \in RequestId : active[r].state = "queued" => active'[r].state # "in_flight"
  PROVE  InOrder
BY QueuedMembers DEF InOrder

(* So do those that take queued requests as TakesFor says.                   *)
LEMMA TakenInOrder ==
  ASSUME DispatchInv, NEW w \in WorkerId, NEW as, TakesFor(w, as),
         \A r \in RequestId : active[r].state = "queued" => as[r].state # "in_flight"
  PROVE  InOrder
<1>. PICK B \in SUBSET RequestId : Taken(B, w) /\ \A r \in RequestId \ B : active'[r] = as[r]
  BY DEF TakesFor
<1>. SUFFICES ASSUME NEW p \in Providers,
                     NEW i \in DOMAIN provider_queues[p], NEW j \in DOMAIN provider_queues[p],
                     i < j, active'[provider_queues[p][j]].state = "in_flight",
                     active[provider_queues[p][i]].model = active[provider_queues[p][j]].model
              PROVE  active'[provider_queues[p][i]].state # "queued"
  BY DEF InOrder
<1>1. provider_queues[p][j] \in RequestId /\ active[provider_queues[p][j]].state = "queued"
  BY QueuedMembers
<1>2. provider_queues[p][j] \in B
  BY <1>1
<1>3. provider_queues[p][i] \in B
  BY <1>2 DEF Taken
<1>. PICK early \in RequestId : early = provider_queues[p][i]
  BY <1>3
<1>4. active'[early] = TakenBy(active[early], w) /\ active[early] \in ActiveRecord
  BY <1>3, DispatchFields DEF DispatchInv, Taken
<1>5. TakenBy(active[early], w).state = "in_flight"
  BY <1>4, RecordMoves
<1>. QED  BY <1>4, <1>5

(* Three operations look for queued requests for a worker: new models, a      *)
(* worker asked for by name, and an answer.                                  *)
LEMMA UpdateTakes ==
  ASSUME DispatchInv, NEW w \in WorkerId, NEW ms \in SUBSET Models, UpdateWorkerModels(w, ms)
  PROVE  TakesFor(w, active)
<1>. DEFINE ws == [workers EXCEPT ![w].models = ms]
            n == workers[w].max_concurrent
            S == {}
<1>1. w \in Registered /\ Dispatch(ws, active, w, n)
  BY DEF UpdateWorkerModels
<1>2. /\ workers[w] \in WorkerRecord /\ n \in Nat /\ workers \in [WorkerId -> WorkerRecord]
      /\ active \in [RequestId -> ActiveRecord] /\ WorkerSound(w)
      /\ workers[w].in_flight \in Seq(RequestId)
  BY DispatchFields DEF DispatchInv, DispatchTyped
<1>3. ws[w] = [workers[w] EXCEPT !.models = ms]
  BY <1>2
<1>4. /\ ws[w].in_flight = workers[w].in_flight /\ ws[w].provider = workers[w].provider
      /\ ws[w].max_concurrent = n
  BY <1>2, <1>3 DEF WorkerRecord
<1>. HIDE DEF ws
<1>5. Room(ws, w) \in Nat
  BY <1>2, <1>4, RoomIsThere DEF WorkerSound
<1>6. S \in SUBSET RequestId /\ S \subseteq InFlight(w) /\ \A r \in RequestId \ S : active[r] = active[r]
  OBVIOUS
<1>. HIDE DEF n, S
<1>. QED  BY <1>1, <1>2, <1>4, <1>5, <1>6, DispatchMoves

(* dispatch_next_for_worker takes a request for that worker.                 *)
LEMMA NextTakes ==
  ASSUME DispatchInv, NEW w \in WorkerId, DispatchNextForWorker(w)
  PROVE  TakesFor(w, active)
<1>. DEFINE S == {}
<1>1. w \in Registered /\ Dispatch(workers, active, w, 1)
  BY DEF DispatchNextForWorker
<1>2. /\ active \in [RequestId -> ActiveRecord] /\ WorkerSound(w) /\ 1 \in Nat
      /\ workers[w].in_flight \in Seq(RequestId) /\ workers[w].max_concurrent \in Nat
  BY DispatchFields DEF DispatchInv, DispatchTyped
<1>3. Room(workers, w) \in Nat
  BY <1>2, RoomIsThere DEF WorkerSound
<1>4. S \in SUBSET RequestId /\ S \subseteq InFlight(w) /\ \A r \in RequestId \ S : active[r] = active[r]
  OBVIOUS
<1>. HIDE DEF S
<1>. QED  BY <1>1, <1>2, <1>3, <1>4, DispatchMoves

(* finish_request takes the answered request out, and one for the worker in  *)
(* its place unless the worker leaves.                                       *)
LEMMA FinishTakes ==
  ASSUME DispatchInv, NEW w \in WorkerId, NEW r \in RequestId, FinishRequest(w, r)
  PROVE  /\ active[r].state = "in_flight" /\ active[r].worker = w
         /\ active' = Done({r}) \/ TakesFor(w, Done({r}))
<1>1. w \in Registered /\ r \in InFlight(w)
  BY DEF FinishRequest
<1>2. active[r].state = "in_flight" /\ active[r].worker = w
  BY <1>1 DEF DispatchInv, RequestSound
<1>. DEFINE ws == [workers EXCEPT ![w].in_flight = Without(@, {r})]
            list == Without(workers[w].in_flight, {r})
            S == {r}
            as == Done(S)
<1>3. ASSUME Dispatch(ws, as, w, 1) PROVE TakesFor(w, as)
  <2>1. /\ workers[w] \in WorkerRecord /\ workers[w].in_flight \in Seq(RequestId)
        /\ workers[w].max_concurrent \in Nat /\ workers \in [WorkerId -> WorkerRecord]
        /\ WorkerSound(w)
    BY DispatchFields DEF DispatchInv, DispatchTyped
  <2>2. list \in Seq(RequestId) /\ Len(list) <= workers[w].max_concurrent
    <3>1. list \in Seq(RequestId) /\ Len(list) <= Len(workers[w].in_flight)
      BY <2>1, WithoutProperties DEF WorkerSound
    <3>2. Len(workers[w].in_flight) <= workers[w].max_concurrent
      BY <2>1 DEF WorkerSound
    <3>3. Len(workers[w].in_flight) \in Nat /\ Len(list) \in Nat
      BY <2>1, <3>1
    <3>. HIDE DEF list
    <3>. QED  BY <2>1, <3>1, <3>2, <3>3
  <2>3. ws[w] = [workers[w] EXCEPT !.in_flight = list]
    BY <2>1
  <2>. HIDE DEF list
  <2>4. /\ ws[w].in_flight = list /\ ws[w].provider = workers[w].provider
        /\ ws[w].max_concurrent = workers[w].max_concurrent
    BY <2>1, <2>2, <2>3 DEF WorkerRecord
  <2>. HIDE DEF ws
  <2>5. Room(ws, w) \in Nat
    BY <2>1, <2>2, <2>4, RoomIsThere
  <2>6. as \in [RequestId -> ActiveRecord] /\ \A q \in RequestId \ S : as[q] = active[q]
    BY DoneProperties DEF DispatchInv
  <2>7. S \in SUBSET RequestId /\ S \subseteq InFlight(w) /\ 1 \in Nat
    BY <1>1
  <2>. HIDE DEF S, as
  <2>. QED  BY <1>1, <1>3, <2>4, <2>5, <2>6, <2>7, DispatchMoves
<1>4. active' = as \/ Dispatch(ws, as, w, 1)
  BY DEF FinishRequest
<1>. QED  BY <1>2, <1>3, <1>4

(* No operation takes a request from a queue past an earlier one for the same *)
(* model.                                                                    *)
LEMMA ServedInOrder == DispatchInv /\ Next => InOrder
<1>. SUFFICES ASSUME DispatchInv, Next PROVE InOrder
  OBVIOUS
<1>1. ASSUME NEW S, NEW as, as = Done(S) PROVE \A r \in RequestId :
             active[r].state = "queued" => as[r].state # "in_flight"
  BY <1>1, DoneProperties DEF DispatchInv
<1>2. ASSUME active' = active PROVE InOrder
  BY <1>2, NobodyTaken
<1>3. ASSUME NEW S, active' = Done(S) PROVE InOrder
  BY <1>1, <1>3, NobodyTaken
<1>4. ASSUME NEW w \in WorkerId, NEW ms \in {reg.models : reg \in Registrations},
             UpdateWorkerModels(w, ms)
      PROVE  InOrder
  <2>1. ms \in SUBSET Models
    BY ContractAssumption
  <2>2. TakesFor(w, active)
    BY <1>4, <2>1, UpdateTakes
  <2>. QED  BY <2>2, TakenInOrder
<1>5. ASSUME NEW w \in WorkerId, DispatchNextForWorker(w) PROVE InOrder
  BY <1>5, NextTakes, TakenInOrder
<1>6. ASSUME NEW w \in WorkerId, NEW r \in RequestId, FinishRequest(w, r) PROVE InOrder
  <2>1. active' = Done({r}) \/ TakesFor(w, Done({r}))
    BY <1>6, FinishTakes
  <2>2. ASSUME TakesFor(w, Done({r})) PROVE InOrder
    BY <1>1, <2>2, TakenInOrder
  <2>. QED  BY <1>3, <2>1, <2>2
<1>7. ASSUME NEW p \in Providers, NEW m \in Models, SubmitRequest(p, m) PROVE InOrder
  <2>. PICK r \in Nat : r = next_request_id
    BY DEF DispatchInv, DispatchTyped
  <2>1. \E record : active' = [active EXCEPT ![r] = record]
    BY <1>7 DEF SubmitRequest
  <2>2. r \in RequestId
    BY <1>7, ContractAssumption DEF SubmitRequest, DispatchInv, DispatchTyped, RequestId
  <2>3. active[r].state = "none"
    BY <2>2 DEF DispatchInv, IdSound, Blank
  <2>4. \A q \in RequestId : q # r => active'[q] = active[q]
    BY <2>1 DEF DispatchInv, DispatchTyped
  <2>. QED  BY <2>3, <2>4, NobodyTaken
<1>8. ASSUME NEW w \in WorkerId, DisconnectWorker(w) PROVE InOrder
  <2>. DEFINE R == Members(Without(workers[w].in_flight, Lost(w)))
  <2>1. active' = [r \in RequestId |-> IF r \in R THEN Again(active[r]) ELSE Done(Lost(w))[r]]
    BY <1>8 DEF DisconnectWorker, Again
  <2>. HIDE DEF R
  <2>2. \A r \in RequestId : Again(active[r]).state = "queued"
    BY DispatchFields, RecordMoves DEF DispatchInv
  <2>3. \A r \in RequestId : active[r].state = "queued" => active'[r].state # "in_flight"
    BY <1>1, <2>1, <2>2
  <2>. QED  BY <2>3, NobodyTaken
<1>9. ASSUME NEW reg \in Registrations, RegisterWorker(reg) PROVE InOrder
  BY <1>2, <1>9 DEF RegisterWorker
<1>10. ASSUME NEW r \in RequestId, CancelRequest(r) PROVE InOrder
  BY <1>2, <1>3, <1>10 DEF CancelRequest
<1>11. ASSUME \/ BeginGracefulShutdown \/ AdvanceTime
              \/ \E r \in RequestId : DeliverWorkerChunk(r)
       PROVE  InOrder
  BY <1>2, <1>11 DEF BeginGracefulShutdown, AdvanceTime, DeliverWorkerChunk
<1>12. ASSUME \/ ExpireGracefulShutdown \/ ExpireQueueTimeouts
              \/ \E p \in Providers : DeleteProvider(p)
       PROVE  InOrder
  BY <1>3, <1>12 DEF ExpireGracefulShutdown, ExpireQueueTimeouts, DeleteProvider, FailAll
<1>. QED
  BY <1>4, <1>5, <1>6, <1>7, <1>8, <1>9, <1>10, <1>11, <1>12 DEF Next

(* Whatever the operations, the dispatch harness serves each queue in order:  *)
(* no request goes to a worker while an earlier one for its model waits.     *)
THEOREM HarnessServesInOrder == Spec => QueueServedInOrder
<1>1. DispatchInv /\ [Next]_vars => [InOrder]_vars
  BY ServedInOrder
<1>. QED  BY <1>1, DispatchAlways, PTL DEF Spec, QueueServedInOrder, InOrder

-----------------------------------------------------------------------------
(* The dispatch harness implements RequestLifecycle but for its chunks: what   *)
(* must change in a request's record and in what its client hears for each    *)
(* step.                                                                     *)

Silent(r) == events'[r] = events[r]
Told(r, kind, by) == events'[r] = Append(events[r], Event(kind, by))
SameCount(r) == active'[r].requeue_count = active[r].requeue_count

(* An operation that leaves a request's record and events alone stutters. *)
LEMMA StayStep ==
  ASSUME NEW r \in RequestId, active'[r] = active[r], Silent(r)
  PROVE  Promised!Step(r)
BY DEF Promised!Step, Promised!Stays, Promised!Quiet, Phase, Silent

(* A new request is queued, or goes to a worker at once. *)
LEMMA AcceptStep ==
  ASSUME NEW r \in RequestId, active[r].state = "none", Silent(r), SameCount(r),
         \/ active'[r].state = "queued" /\ active'[r].worker = NoWorker
         \/ active'[r].state = "in_flight" /\ active'[r].worker \in WorkerId
  PROVE  Promised!Step(r)
BY DEF Promised!Step, Promised!Accept, Promised!AcceptAndStart, Promised!Moves, Promised!Quiet,
       Phase, Silent, SameCount, NoWorker

(* A queued request is taken by a worker. *)
LEMMA StartStep ==
  ASSUME NEW r \in RequestId, active[r].state = "queued", Silent(r), NEW w \in WorkerId,
         active[r] \in ActiveRecord, active'[r] = TakenBy(active[r], w)
  PROVE  Promised!Step(r)
<1>1. /\ TakenBy(active[r], w).state = "in_flight" /\ TakenBy(active[r], w).worker = w
      /\ TakenBy(active[r], w).requeue_count = active[r].requeue_count
  BY RecordMoves
<1>. QED
  BY <1>1 DEF Promised!Step, Promised!Start, Promised!Moves, Promised!Quiet, Phase, Silent

(* A request whose client cancelled it leaves its queue. *)
LEMMA DropStep ==
  ASSUME NEW r \in RequestId, active[r].state = "queued", Silent(r), SameCount(r),
         active'[r].state = "done", active'[r].worker = NoWorker, r \in canceled_requests'
  PROVE  Promised!Step(r)
BY DEF Promised!Step, Promised!Drop, Promised!Moves, Promised!Quiet, Phase, Silent, SameCount,
       NoWorker

(* A request in flight goes back to its queue, not too often. *)
LEMMA RequeueStep ==
  ASSUME NEW r \in RequestId, active[r].state = "in_flight", Silent(r),
         active[r] \in ActiveRecord, active'[r] = Again(active[r]),
         ~(active[r].requeue_count >= MaxRequeueCount)
  PROVE  Promised!Step(r)
<1>1. /\ Again(active[r]).state = "queued" /\ Again(active[r]).worker = NoWorker
      /\ Again(active[r]).requeue_count = active[r].requeue_count + 1
  BY RecordMoves
<1>2. active[r].requeue_count \in Nat /\ MaxRequeueCount \in Nat
  BY ContractAssumption DEF ActiveRecord
<1>3. active[r].requeue_count < MaxRequeueCount
  BY <1>2
<1>. QED
  BY <1>1, <1>3 DEF Promised!Step, Promised!Requeue, Promised!Moves, Promised!Quiet, Phase, Silent,
                    NoWorker

(* One event more is what a client hears. *)
LEMMA OneEventMore ==
  ASSUME NEW r \in RequestId, NEW kind \in {"failure", "complete", "chunk"},
         NEW by \in WorkerId \cup {NoWorker}, events[r] \in Seq(EventRecord), Told(r, kind, by)
  PROVE  Promised!Hears(r, kind, by)
<1>1. PICK event \in EventRecord : event = Event(kind, by) /\ event.kind = kind /\ event.by = by
  BY RecordsTyped
<1>2. PICK before \in Seq(EventRecord) : before = events[r]
  OBVIOUS
<1>3. events'[r] = Append(before, event)
  BY <1>1, <1>2 DEF Told
<1>. HIDE DEF EventRecord
<1>4. /\ Len(Append(before, event)) = Len(before) + 1
      /\ SubSeq(Append(before, event), 1, Len(before)) = before
      /\ Append(before, event)[Len(before) + 1] = event
  OBVIOUS
<1>. QED  BY <1>1, <1>2, <1>3, <1>4 DEF Promised!Hears

(* A chunk is heard, from nobody known. *)
LEMMA ChunkStep ==
  ASSUME NEW r \in RequestId, active[r].state \in {"queued", "in_flight"},
         r \notin canceled_requests, events[r] \in Seq(EventRecord), active'[r] = active[r],
         Told(r, "chunk", NoWorker)
  PROVE  HeardOnTrust(r)
<1>1. Promised!Hears(r, "chunk", NoWorker)
  BY OneEventMore
<1>. QED  BY <1>1 DEF HeardOnTrust, Promised!Stays, Phase

(* The worker of a request answers it.                                       *)
LEMMA FinishStep ==
  ASSUME NEW r \in RequestId, active[r].state = "in_flight", active[r].worker \in WorkerId,
         events[r] \in Seq(EventRecord), active'[r].state = "done", active'[r].worker = NoWorker,
         SameCount(r), Told(r, "complete", active[r].worker)
  PROVE  Promised!Step(r)
<1>1. Promised!Hears(r, "complete", active[r].worker)
  BY OneEventMore
<1>. QED
  BY <1>1 DEF Promised!Step, Promised!Finish, Promised!Moves, Phase, SameCount, NoWorker

(* A request fails: refused when it is new, or later. *)
LEMMA FailStep ==
  ASSUME NEW r \in RequestId, active[r].state \in {"none", "queued", "in_flight"},
         events[r] \in Seq(EventRecord), active'[r].state = "done", active'[r].worker = NoWorker,
         SameCount(r), Told(r, "failure", NoWorker)
  PROVE  Promised!Step(r)
<1>1. Promised!Hears(r, "failure", 0)
  BY OneEventMore DEF NoWorker
<1>. QED
  BY <1>1 DEF Promised!Step, Promised!Refuse, Promised!Fail, Promised!Moves, Phase, SameCount,
              NoWorker

(* Failing a set of active requests is a failure of each of them and nothing  *)
(* for the others.                                                           *)
LEMMA FailingSteps ==
  ASSUME DispatchInv, NEW S, FailAll(S),
         \A r \in S : r \in RequestId => active[r].state \in {"queued", "in_flight"}
  PROVE  \A r \in RequestId : Promised!Step(r)
<1>. SUFFICES ASSUME NEW r \in RequestId PROVE Promised!Step(r)
  OBVIOUS
<1>1. events[r] \in Seq(EventRecord)
  BY DEF DispatchInv, DispatchTyped
<1>2. /\ active' = Done(S)
      /\ events'[r] = IF r \in S THEN Append(events[r], Event("failure", NoWorker)) ELSE events[r]
  BY DEF FailAll
<1>3. CASE r \in S
  <2>1. Done(S)[r].state = "done" /\ Done(S)[r].worker = NoWorker
        /\ Done(S)[r].requeue_count = active[r].requeue_count
    BY <1>3, DoneProperties DEF DispatchInv
  <2>2. active[r].state \in {"none", "queued", "in_flight"}
    BY <1>3
  <2>3. active'[r].state = "done" /\ active'[r].worker = NoWorker /\ SameCount(r)
        /\ Told(r, "failure", NoWorker)
    BY <1>2, <1>3, <2>1 DEF SameCount, Told
  <2>. QED  BY <1>1, <2>2, <2>3, FailStep
<1>4. CASE r \notin S
  <2>1. active'[r] = active[r] /\ Silent(r)
    BY <1>2, <1>4, DoneProperties DEF DispatchInv, Silent
  <2>. QED  BY <2>1, StayStep
<1>. QED  BY <1>3, <1>4

(* Requests taken for a worker start; the others have the record given.       *)
LEMMA TakingSteps ==
  ASSUME DispatchInv, NEW w \in WorkerId, NEW as, TakesFor(w, as),
         NEW r \in RequestId, Silent(r), as[r] = active[r]
  PROVE  Promised!Step(r)
<1>. PICK B \in SUBSET RequestId : Taken(B, w) /\ \A q \in RequestId \ B : active'[q] = as[q]
  BY DEF TakesFor
<1>1. CASE r \in B
  <2>1. active[r] \in ActiveRecord
    BY DispatchFields DEF DispatchInv
  <2>2. active[r].state = "queued" /\ active'[r] = TakenBy(active[r], w)
    BY <1>1 DEF Taken
  <2>. QED  BY <2>1, <2>2, StartStep
<1>2. CASE r \notin B
  BY <1>2, StayStep
<1>. QED  BY <1>1, <1>2

(* An answered request is finished by its worker, and others may start there. *)
LEMMA FinishingSteps ==
  ASSUME DispatchInv, NEW w \in WorkerId, NEW r \in RequestId, FinishRequest(w, r)
  PROVE  \A q \in RequestId : Promised!Step(q)
<1>1. /\ active[r].state = "in_flight" /\ active[r].worker = w
      /\ active' = Done({r}) \/ TakesFor(w, Done({r}))
  BY FinishTakes
<1>2. /\ events \in [RequestId -> Seq(EventRecord)]
      /\ events' = [events EXCEPT ![r] = Append(@, Event("complete", w))]
  BY DEF FinishRequest, DispatchInv, DispatchTyped
<1>. DEFINE as == Done({r})
<1>3. /\ as[r].state = "done" /\ as[r].worker = NoWorker
      /\ as[r].requeue_count = active[r].requeue_count
      /\ \A q \in RequestId : q # r => as[q] = active[q]
  BY DoneProperties DEF DispatchInv
<1>. HIDE DEF as
<1>4. active'[r] = as[r]
  <2>1. CASE active' = as
    BY <2>1
  <2>2. CASE TakesFor(w, as)
    BY <1>1, <2>2 DEF TakesFor, Taken
  <2>. QED  BY <1>1, <2>1, <2>2 DEF as
<1>5. Promised!Step(r)
  <2>1. Told(r, "complete", active[r].worker) /\ events[r] \in Seq(EventRecord) /\ SameCount(r)
    BY <1>1, <1>2, <1>3, <1>4 DEF Told, SameCount
  <2>. QED  BY <1>1, <1>3, <1>4, <2>1, FinishStep
<1>6. ASSUME NEW q \in RequestId, q # r PROVE Promised!Step(q)
  <2>1. Silent(q)
    BY <1>2, <1>6 DEF Silent
  <2>2. CASE active' = as
    BY <1>3, <1>6, <2>1, <2>2, StayStep
  <2>3. CASE TakesFor(w, as)
    BY <1>3, <1>6, <2>1, <2>3, TakingSteps
  <2>. QED  BY <1>1, <2>2, <2>3 DEF as
<1>. QED  BY <1>5, <1>6

(* A submitted request is accepted, started or refused; the others stay.      *)
LEMMA SubmittingSteps ==
  ASSUME DispatchInv, NEW p \in Providers, NEW m \in Models, SubmitRequest(p, m)
  PROVE  \A q \in RequestId : Promised!Step(q)
<1>. PICK r \in Nat : r = next_request_id
  BY DEF DispatchInv, DispatchTyped
<1>1. r \in RequestId
  BY ContractAssumption DEF SubmitRequest, DispatchInv, DispatchTyped, RequestId
<1>2. /\ active[r] = Blank /\ events[r] = <<>> /\ active \in [RequestId -> ActiveRecord]
      /\ events \in [RequestId -> Seq(EventRecord)] /\ events[r] \in Seq(EventRecord)
  <2>1. IdSound(r) /\ r >= next_request_id
    BY <1>1 DEF DispatchInv
  <2>. QED  BY <1>1, <2>1 DEF IdSound, DispatchInv, DispatchTyped
<1>3. Blank.state = "none" /\ Blank.requeue_count = 0 /\ Blank.worker = NoWorker
  BY DEF Blank
<1>. DEFINE record == [Blank EXCEPT !.provider = p, !.model = m, !.queued_at = now_tick]
            position == Chosen(p, m)
<1>4. /\ \E new : active' = [active EXCEPT ![r] = new]
      /\ events' = events \/ events' = [events EXCEPT ![r] = <<Event("failure", NoWorker)>>]
  <2>1. \/ /\ active' = [active EXCEPT ![r] = [record EXCEPT !.state = "in_flight",
                                                            !.worker = worker_order[position]]]
           /\ events' = events
        \/ /\ active' = [active EXCEPT ![r].state = "done"]
           /\ events' = [events EXCEPT ![r] = <<Event("failure", NoWorker)>>]
        \/ /\ active' = [active EXCEPT ![r] = [record EXCEPT !.state = "queued"]]
           /\ events' = events
    BY DEF SubmitRequest
  <2>. QED  BY <2>1
<1>5. ASSUME NEW q \in RequestId, q # r PROVE Promised!Step(q)
  <2>1. active'[q] = active[q] /\ Silent(q)
    BY <1>2, <1>4, <1>5 DEF Silent
  <2>. QED  BY <2>1, StayStep
<1>6. CASE Eligible(p, m) # {}
  <2>1. PICK w : w = worker_order[position]
    OBVIOUS
  <2>2. w \in WorkerId
    <3>1. DispatchTyped /\ worker_order \in Seq(WorkerId)
      BY DEF DispatchInv, DispatchTyped
    <3>2. position \in DOMAIN worker_order
      BY <1>6, <3>1, ChosenIsEligible
    <3>. HIDE DEF position
    <3>. QED  BY <2>1, <3>1, <3>2
  <2>. DEFINE taken == [record EXCEPT !.state = "in_flight", !.worker = w]
  <2>3. active' = [active EXCEPT ![r] = taken] /\ UNCHANGED events
    BY <1>6, <2>1 DEF SubmitRequest
  <2>4. taken.state = "in_flight" /\ taken.worker = w /\ taken.requeue_count = 0
    BY DEF Blank
  <2>. HIDE DEF taken
  <2>5. active'[r] = taken /\ Silent(r) /\ SameCount(r)
    BY <1>1, <1>2, <1>3, <2>3, <2>4 DEF Silent, SameCount
  <2>. QED  BY <1>1, <1>2, <1>3, <1>5, <2>2, <2>4, <2>5, AcceptStep
<1>7. CASE Eligible(p, m) = {}
  <2>. DEFINE waiting == [record EXCEPT !.state = "queued"]
              refused == [Blank EXCEPT !.state = "done"]
  <2>1. /\ waiting.state = "queued" /\ waiting.worker = NoWorker /\ waiting.requeue_count = 0
        /\ refused.state = "done" /\ refused.worker = NoWorker /\ refused.requeue_count = 0
    BY DEF Blank
  <2>2. ASSUME active' = [active EXCEPT ![r] = waiting], UNCHANGED events PROVE Promised!Step(r)
    <3>. HIDE DEF waiting
    <3>1. active'[r] = waiting /\ Silent(r) /\ SameCount(r)
      BY <1>1, <1>2, <1>3, <2>1, <2>2 DEF Silent, SameCount
    <3>. QED  BY <1>1, <1>2, <1>3, <2>1, <3>1, AcceptStep
  <2>3. ASSUME active' = [active EXCEPT ![r].state = "done"],
               events' = [events EXCEPT ![r] = <<Event("failure", NoWorker)>>]
        PROVE  Promised!Step(r)
    <3>1. active'[r] = refused
      BY <1>1, <1>2, <2>3
    <3>. HIDE DEF refused
    <3>2. SameCount(r)
      BY <1>2, <1>3, <2>1, <3>1 DEF SameCount
    <3>3. Told(r, "failure", NoWorker)
      <4>1. PICK event : event = Event("failure", NoWorker)
        OBVIOUS
      <4>2. events'[r] = <<event>>
        BY <1>1, <1>2, <2>3, <4>1
      <4>3. Append(<<>>, event) = <<event>>
        OBVIOUS
      <4>. QED  BY <1>2, <4>1, <4>2, <4>3 DEF Told
    <3>. QED  BY <1>1, <1>2, <1>3, <2>1, <3>1, <3>2, <3>3, FailStep
  <2>4. \/ /\ active' = [active EXCEPT ![r].state = "done"]
           /\ events' = [events EXCEPT ![r] = <<Event("failure", NoWorker)>>]
        \/ active' = [active EXCEPT ![r] = waiting] /\ UNCHANGED events
    BY <1>7 DEF SubmitRequest
  <2>. QED  BY <1>5, <2>2, <2>3, <2>4
<1>. QED  BY <1>6, <1>7

(* What a lost worker held is failed or waits again; the others stay.         *)
LEMMA LosingSteps ==
  ASSUME DispatchInv, NEW w \in WorkerId, DisconnectWorker(w)
  PROVE  \A q \in RequestId : Promised!Step(q)
<1>. DEFINE requeued == Without(workers[w].in_flight, Lost(w))
            R == Members(requeued)
            lost == Lost(w)
<1>1. /\ active' = [r \in RequestId |-> IF r \in R THEN Again(active[r]) ELSE Done(lost)[r]]
      /\ events' = [r \in RequestId |-> IF r \in lost THEN Append(events[r], Event("failure", NoWorker))
                                        ELSE events[r]]
  BY DEF DisconnectWorker, Again
<1>2. R = InFlight(w) \ lost /\ lost \subseteq InFlight(w) /\ InFlight(w) \subseteq RequestId
  <2>1. workers[w].in_flight \in Seq(RequestId) /\ NoRepeats(workers[w].in_flight)
        /\ InFlight(w) \subseteq RequestId
    BY DispatchFields DEF DispatchInv, WorkerSound
  <2>2. lost \subseteq InFlight(w)
    BY DEF Lost
  <2>. HIDE DEF lost
  <2>3. R = Members(workers[w].in_flight) \ Lost(w)
    BY <2>1, WithoutProperties
  <2>. QED  BY <2>1, <2>2, <2>3 DEF InFlight, lost
<1>. HIDE DEF R
<1>3. \A r \in InFlight(w) : active[r].state = "in_flight"
  BY <1>2 DEF DispatchInv, RequestSound
<1>4. \A r \in R : ~(active[r].requeue_count >= MaxRequeueCount)
  BY <1>2 DEF Lost
<1>. SUFFICES ASSUME NEW r \in RequestId PROVE Promised!Step(r)
  OBVIOUS
<1>. HIDE DEF lost
<1>5. /\ active[r] \in ActiveRecord /\ events[r] \in Seq(EventRecord)
      /\ Done(lost)[r].requeue_count = active[r].requeue_count
      /\ r \in lost => Done(lost)[r].state = "done" /\ Done(lost)[r].worker = NoWorker
      /\ r \notin lost => Done(lost)[r] = active[r]
  BY DispatchFields, DoneProperties DEF DispatchInv, DispatchTyped
<1>6. CASE r \in R
  <2>1. active'[r] = Again(active[r]) /\ Silent(r) /\ active[r].state = "in_flight"
    BY <1>1, <1>2, <1>3, <1>6 DEF Silent
  <2>. QED  BY <1>4, <1>5, <1>6, <2>1, RequeueStep
<1>7. CASE r \in lost
  <2>1. active'[r] = Done(lost)[r] /\ active[r].state \in {"none", "queued", "in_flight"}
    BY <1>1, <1>2, <1>3, <1>7
  <2>2. Told(r, "failure", NoWorker) /\ SameCount(r)
    BY <1>1, <1>5, <1>7, <2>1 DEF Told, SameCount
  <2>. QED  BY <1>5, <1>7, <2>1, <2>2, FailStep
<1>8. CASE r \notin R /\ r \notin lost
  <2>1. active'[r] = active[r] /\ Silent(r)
    BY <1>1, <1>5, <1>8 DEF Silent
  <2>. QED  BY <2>1, StayStep
<1>. QED  BY <1>6, <1>7, <1>8

(* A cancelled request is dropped from its queue, or only marked.             *)
LEMMA CancellingSteps ==
  ASSUME DispatchInv, NEW r \in RequestId, CancelRequest(r)
  PROVE  \A q \in RequestId : Promised!Step(q)
<1>. SUFFICES ASSUME NEW q \in RequestId PROVE Promised!Step(q)
  OBVIOUS
<1>1. UNCHANGED events /\ r \in canceled_requests' /\ Silent(q)
  BY DEF CancelRequest, Silent
<1>2. CASE active[r].state = "queued" /\ active' = Done({r})
  <2>1. CASE q = r
    <3>1. active'[q].state = "done" /\ active'[q].worker = NoWorker /\ SameCount(q)
      BY <1>2, <2>1, DoneProperties DEF DispatchInv, SameCount
    <3>. QED  BY <1>1, <1>2, <2>1, <3>1, DropStep
  <2>2. CASE q # r
    <3>1. active'[q] = active[q]
      BY <1>2, <2>2, DoneProperties DEF DispatchInv
    <3>. QED  BY <1>1, <3>1, StayStep
  <2>. QED  BY <2>1, <2>2
<1>3. CASE active' = active
  BY <1>1, <1>3, StayStep
<1>. QED  BY <1>2, <1>3 DEF CancelRequest

(* A chunk is heard by its client, and by nobody else.                       *)
LEMMA ChunkSteps ==
  ASSUME DispatchInv, NEW r \in RequestId, DeliverWorkerChunk(r)
  PROVE  \A q \in RequestId : HeardOnTrust(q) \/ Promised!Step(q)
<1>. SUFFICES ASSUME NEW q \in RequestId PROVE HeardOnTrust(q) \/ Promised!Step(q)
  OBVIOUS
<1>1. /\ active[r].state \in {"queued", "in_flight"} /\ UNCHANGED active
      /\ r \notin canceled_requests
      /\ events' = [events EXCEPT ![r] = Append(@, Event("chunk", NoWorker))]
  BY DEF DeliverWorkerChunk
<1>2. events \in [RequestId -> Seq(EventRecord)]
  BY DEF DispatchInv, DispatchTyped
<1>3. CASE q = r
  <2>1. Told(r, "chunk", NoWorker) /\ events[r] \in Seq(EventRecord)
    BY <1>1, <1>2 DEF Told
  <2>. QED  BY <1>1, <1>3, <2>1, ChunkStep
<1>4. CASE q # r
  <2>1. Silent(q)
    BY <1>1, <1>2, <1>4 DEF Silent
  <2>. QED  BY <1>1, <2>1, StayStep
<1>. QED  BY <1>3, <1>4

(* Every operation of the harness moves every request along its lifecycle.    *)
LEMMA HarnessSteps ==
  DispatchInv /\ [Next]_vars => \A r \in RequestId : HeardOnTrust(r) \/ Promised!Step(r)
<1>. DEFINE Steps == \A r \in RequestId : HeardOnTrust(r) \/ Promised!Step(r)
<1>. SUFFICES ASSUME DispatchInv, [Next]_vars PROVE Steps
  OBVIOUS
<1>1. ASSUME UNCHANGED <<active, events>> PROVE Steps
  BY <1>1, StayStep DEF Silent
<1>2. ASSUME UNCHANGED events, NEW w \in WorkerId, TakesFor(w, active) PROVE Steps
  BY <1>2, TakingSteps DEF Silent
<1>3. ASSUME NEW w \in WorkerId, NEW ms \in {reg.models : reg \in Registrations},
             UpdateWorkerModels(w, ms)
      PROVE  Steps
  <2>1. ms \in SUBSET Models
    BY ContractAssumption
  <2>2. TakesFor(w, active) /\ UNCHANGED events
    BY <1>3, <2>1, UpdateTakes DEF UpdateWorkerModels
  <2>. HIDE DEF Steps
  <2>. QED  BY <1>2, <2>2
<1>4. ASSUME NEW w \in WorkerId, DispatchNextForWorker(w) PROVE Steps
  <2>1. TakesFor(w, active) /\ UNCHANGED events
    BY <1>4, NextTakes DEF DispatchNextForWorker
  <2>. HIDE DEF Steps
  <2>. QED  BY <1>2, <2>1
<1>5. ASSUME NEW w \in WorkerId, NEW r \in RequestId, FinishRequest(w, r) PROVE Steps
  BY <1>5, FinishingSteps
<1>6. ASSUME NEW p \in Providers, NEW m \in Models, SubmitRequest(p, m) PROVE Steps
  BY <1>6, SubmittingSteps
<1>7. ASSUME NEW w \in WorkerId, DisconnectWorker(w) PROVE Steps
  BY <1>7, LosingSteps
<1>8. ASSUME NEW r \in RequestId, CancelRequest(r) PROVE Steps
  BY <1>8, CancellingSteps
<1>9. ASSUME NEW r \in RequestId, DeliverWorkerChunk(r) PROVE Steps
  BY <1>9, ChunkSteps
<1>10. ASSUME ExpireGracefulShutdown PROVE Steps
  <2>. DEFINE S == UNION {InFlight(w) :
                     w \in {v \in Registered : workers[v].is_draining /\ workers[v].deadline <= now_tick}}
  <2>1. FailAll(S)
    BY <1>10 DEF ExpireGracefulShutdown
  <2>2. \A r \in S : r \in RequestId => active[r].state \in {"queued", "in_flight"}
    BY DispatchFields DEF DispatchInv, RequestSound
  <2>. HIDE DEF S
  <2>. QED  BY <2>1, <2>2, FailingSteps
<1>11. ASSUME NEW p \in Providers, DeleteProvider(p) PROVE Steps
  <2>. DEFINE H == UNION {InFlight(w) : w \in {v \in Registered : workers[v].provider = p}}
              S == Members(provider_queues[p]) \cup H
  <2>1. FailAll(S)
    BY <1>11 DEF DeleteProvider
  <2>2. \A r \in H : r \in RequestId => active[r].state = "in_flight"
    BY DispatchFields DEF DispatchInv, RequestSound
  <2>3. \A r \in Members(provider_queues[p]) : r \in RequestId => active[r].state = "queued"
    BY DEF DispatchInv, RequestSound
  <2>. HIDE DEF H
  <2>4. \A r \in S : r \in RequestId => active[r].state \in {"queued", "in_flight"}
    BY <2>2, <2>3
  <2>. HIDE DEF S
  <2>. QED  BY <2>1, <2>4, FailingSteps
<1>12. ASSUME ExpireQueueTimeouts PROVE Steps
  <2>. DEFINE S == {r \in RequestId : active[r].state = "queued" /\ TimedOut(r)}
  <2>1. FailAll(S)
    BY <1>12 DEF ExpireQueueTimeouts
  <2>2. \A r \in S : r \in RequestId => active[r].state \in {"queued", "in_flight"}
    OBVIOUS
  <2>. HIDE DEF S
  <2>. QED  BY <2>1, <2>2, FailingSteps
<1>13. ASSUME \/ \E reg \in Registrations : RegisterWorker(reg)
              \/ BeginGracefulShutdown \/ AdvanceTime \/ UNCHANGED vars
       PROVE  Steps
  <2>1. UNCHANGED <<active, events>>
    BY <1>13 DEF RegisterWorker, BeginGracefulShutdown, AdvanceTime, vars
  <2>. HIDE DEF Steps
  <2>. QED  BY <1>1, <2>1
<1>. HIDE DEF Steps
<1>. QED
  BY <1>3, <1>4, <1>5, <1>6, <1>7, <1>8, <1>9, <1>10, <1>11, <1>12, <1>13 DEF Next

(* What a client hears in a step: nothing, or an event that is no chunk of a  *)
(* worker.                                                                   *)
NoChunkOfAWorker(r) ==
  \/ Silent(r)
  \/ \E heard \in Seq(EventRecord), event \in EventRecord :
       /\ events'[r] = Append(heard, event)
       /\ event.kind = "chunk" => event.by = NoWorker

(* Nothing of the kind is the chunk the server's clients hear.               *)
LEMMA NotStreamed ==
  ASSUME DispatchInv, NEW r \in RequestId, NoChunkOfAWorker(r)
  PROVE  ~Promised!Stream(r)
<1>. SUFFICES ASSUME Promised!Stream(r) PROVE FALSE
  OBVIOUS
<1>1. Phase(r) = "running" /\ Promised!Hears(r, "chunk", active[r].worker)
  BY DEF Promised!Stream
<1>2. active[r].worker \in WorkerId
  BY <1>1 DEF Phase, DispatchInv, RequestSound
<1>3. active[r].worker # NoWorker
  BY <1>2 DEF WorkerId, NoWorker
<1>4. events[r] \in Seq(EventRecord)
  BY DEF DispatchInv, DispatchTyped
<1>5. CASE Silent(r)
  <2>1. Len(events[r]) = Len(events[r]) + 1
    BY <1>1, <1>5 DEF Promised!Hears, Silent
  <2>2. Len(events[r]) \in Nat
    BY <1>4
  <2>. QED  BY <2>1, <2>2
<1>6. CASE ~Silent(r)
  <2>1. PICK heard \in Seq(EventRecord), event \in EventRecord :
               /\ events'[r] = Append(heard, event)
               /\ event.kind = "chunk" => event.by = NoWorker
    BY <1>6 DEF NoChunkOfAWorker
  <2>2. Append(heard, event)[Len(Append(heard, event))] = event
    <3>. HIDE DEF EventRecord
    <3>. QED  OBVIOUS
  <2>3. event.kind = "chunk" /\ event.by = active[r].worker
    BY <1>1, <2>1, <2>2 DEF Promised!Hears
  <2>. QED  BY <1>3, <2>1, <2>3
<1>. QED  BY <1>5, <1>6

(* An event that is appended for a request is one of these; those whose        *)
(* requests fail or are answered hear no chunk.                              *)
LEMMA AppendedEvents ==
  ASSUME DispatchInv, NEW S, NEW kind \in {"failure", "complete", "chunk"},
         NEW by \in WorkerId \cup {NoWorker}, kind = "chunk" => by = NoWorker,
         events' = [r \in RequestId |-> IF r \in S THEN Append(events[r], Event(kind, by))
                                       ELSE events[r]]
  PROVE  \A r \in RequestId : NoChunkOfAWorker(r)
<1>. SUFFICES ASSUME NEW r \in RequestId PROVE NoChunkOfAWorker(r)
  OBVIOUS
<1>1. events[r] \in Seq(EventRecord)
  BY DEF DispatchInv, DispatchTyped
<1>2. Event(kind, by) \in EventRecord /\ Event(kind, by).kind = kind /\ Event(kind, by).by = by
  BY RecordsTyped
<1>. QED  BY <1>1, <1>2 DEF NoChunkOfAWorker, Silent

(* No operation passes on a chunk of the worker that has the request: the      *)
(* harness does not ask who sends one.                                       *)
LEMMA NobodyStreams == DispatchInv /\ [Next]_vars => \A r \in RequestId : ~Promised!Stream(r)
<1>. DEFINE Unstreamed == \A r \in RequestId : NoChunkOfAWorker(r)
<1>. SUFFICES ASSUME DispatchInv, [Next]_vars PROVE Unstreamed
  BY NotStreamed
<1>1. events \in [RequestId -> Seq(EventRecord)]
  BY DEF DispatchInv, DispatchTyped
<1>2. ASSUME UNCHANGED events PROVE Unstreamed
  BY <1>2 DEF NoChunkOfAWorker, Silent
<1>3. ASSUME NEW S, FailAll(S) PROVE Unstreamed
  BY <1>3, AppendedEvents DEF FailAll
<1>4. ASSUME NEW w \in WorkerId, NEW r \in RequestId, FinishRequest(w, r) PROVE Unstreamed
  <2>1. events' = [q \in RequestId |-> IF q \in {r} THEN Append(events[q], Event("complete", w))
                                       ELSE events[q]]
    BY <1>1, <1>4 DEF FinishRequest
  <2>. QED  BY <2>1, AppendedEvents
<1>5. ASSUME NEW w \in WorkerId, DisconnectWorker(w) PROVE Unstreamed
  <2>1. events' = [q \in RequestId |->
                     IF q \in Lost(w) THEN Append(events[q], Event("failure", NoWorker))
                     ELSE events[q]]
    BY <1>5 DEF DisconnectWorker
  <2>. QED  BY <2>1, AppendedEvents
<1>6. ASSUME NEW r \in RequestId, DeliverWorkerChunk(r) PROVE Unstreamed
  <2>1. events' = [q \in RequestId |-> IF q \in {r} THEN Append(events[q], Event("chunk", NoWorker))
                                       ELSE events[q]]
    BY <1>1, <1>6 DEF DeliverWorkerChunk
  <2>. QED  BY <2>1, AppendedEvents
<1>7. ASSUME NEW p \in Providers, NEW m \in Models, SubmitRequest(p, m) PROVE Unstreamed
  <2>1. \/ UNCHANGED events
        \/ events' = [events EXCEPT ![next_request_id] = <<Event("failure", NoWorker)>>]
    BY <1>7 DEF SubmitRequest
  <2>2. PICK event \in EventRecord : event = Event("failure", NoWorker) /\ event.kind = "failure"
    BY RecordsTyped
  <2>3. <<>> \in Seq(EventRecord) /\ <<event>> = Append(<<>>, event)
    OBVIOUS
  <2>4. ASSUME events' = [events EXCEPT ![next_request_id] = <<event>>],
               NEW r \in RequestId
        PROVE  NoChunkOfAWorker(r)
    <3>1. CASE r = next_request_id
      BY <1>1, <2>2, <2>3, <2>4, <3>1 DEF NoChunkOfAWorker
    <3>2. CASE r # next_request_id
      BY <1>1, <2>4, <3>2 DEF NoChunkOfAWorker, Silent
    <3>. QED  BY <3>1, <3>2
  <2>. QED  BY <1>2, <2>1, <2>2, <2>4
<1>8. ASSUME \/ ExpireGracefulShutdown \/ ExpireQueueTimeouts
             \/ \E p \in Providers : DeleteProvider(p)
      PROVE  Unstreamed
  <2>1. \E S : FailAll(S)
    BY <1>8 DEF ExpireGracefulShutdown, ExpireQueueTimeouts, DeleteProvider
  <2>. HIDE DEF Unstreamed
  <2>. QED  BY <1>3, <2>1
<1>9. ASSUME \/ \E reg \in Registrations : RegisterWorker(reg)
             \/ \E w \in WorkerId, ms \in {reg.models : reg \in Registrations} :
                  UpdateWorkerModels(w, ms)
             \/ \E w \in WorkerId : DispatchNextForWorker(w)
             \/ \E r \in RequestId : CancelRequest(r)
             \/ BeginGracefulShutdown \/ AdvanceTime \/ UNCHANGED vars
      PROVE  Unstreamed
  <2>1. UNCHANGED events
    BY <1>9 DEF RegisterWorker, UpdateWorkerModels, DispatchNextForWorker, CancelRequest,
                BeginGracefulShutdown, AdvanceTime, vars
  <2>. HIDE DEF Unstreamed
  <2>. QED  BY <1>2, <2>1
<1>. HIDE DEF Unstreamed
<1>. QED  BY <1>4, <1>5, <1>6, <1>7, <1>8, <1>9 DEF Next

(* A cancelled request stays cancelled.                                      *)
LEMMA CancelledStay == [Next]_vars => canceled_requests \subseteq canceled_requests'
BY ZenonT(30)
DEF Next, vars, RegisterWorker, UpdateWorkerModels, SubmitRequest, DispatchNextForWorker,
    FinishRequest, BeginGracefulShutdown, ExpireGracefulShutdown, DeleteProvider,
    DisconnectWorker, CancelRequest, DeliverWorkerChunk, AdvanceTime, ExpireQueueTimeouts

(* The contract tests' harness makes each request the promises the server     *)
(* makes - started, retried at most the bounded number of times, answered by  *)
(* the worker that has it, ended by one final event unless it was canceled    *)
(* while it waited - but for its chunks: those it takes on trust, from        *)
(* anybody, for a request that waits too, and never for a canceled one.       *)
THEOREM HarnessImplementsLifecycleOnTrust == Spec => ImplementsLifecycleOnTrust
<1>1. Init => Promised!LifecycleInit
  BY DEF Init, Promised!LifecycleInit, Phase, Blank, NoWorker
<1>2. DispatchInv /\ [Next]_vars => [LifecycleOnTrust]_(Promised!lifecycleVars)
  BY HarnessSteps, NobodyStreams, CancelledStay DEF LifecycleOnTrust, LifecycleStep
<1>. QED
  BY <1>1, <1>2, DispatchAlways, PTL DEF Spec, ImplementsLifecycleOnTrust

-----------------------------------------------------------------------------
(* The harnesses side by side.                                               *)

(* A behaviour of the harnesses side by side is one of each of them. *)
LEMMA EachHarness == ContractSpec => Spec /\ HarnessSpec
<1>1. ContractInit => Init /\ HarnessInit
  BY DEF ContractInit
<1>2. [ContractNext]_contractVars => [Next]_vars /\ [HarnessNext]_harnessVars
  <2>. SUFFICES ASSUME [ContractNext]_contractVars
                PROVE  [Next]_vars /\ [HarnessNext]_harnessVars
    OBVIOUS
  <2>1. CASE UNCHANGED contractVars
    <3>1. UNCHANGED vars /\ UNCHANGED harnessVars
      BY <2>1 DEF contractVars
    <3>. QED  BY <3>1
  <2>2. CASE ContractNext
    <3>1. \/ Next /\ UNCHANGED harnessVars
          \/ UNCHANGED vars /\ HarnessNext
      BY <2>2 DEF ContractNext, HarnessNext
    <3>. QED  BY <3>1
  <2>. QED  BY <2>1, <2>2
<1>. QED  BY <1>1, <1>2, PTL DEF ContractSpec, Spec, HarnessSpec

(* Each harness keeps what it has consistent and within its limit, whatever   *)
(* the limits are: places and slots, wrong secrets, acknowledged models, a    *)
(* stream's bytes.                                                           *)
THEOREM HarnessLimitsAreKept == ContractSpec => []LimitsKept
BY EachHarness, HarnessKeepsPlaces, WrongSecretsAreBounded, AcknowledgementsAreFaithful,
   StreamsAreLimited, PTL DEF LimitsKept
=============================================================================
