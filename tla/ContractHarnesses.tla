-------------------------- MODULE ContractHarnesses --------------------------
(***************************************************************************)
(* The other harnesses of the contract tests: HeartbeatHarness (selection by *)
(* reported load, expiry of silent workers), RegistrationHarness (the        *)
(* limiter of failed authentications and the sanitized acknowledgement) and  *)
(* ResponseHarness (streams with a size limit).  Each is a plain struct with *)
(* its own state; they are put together here because none uses another.     *)
(*                                                                          *)
(* Clocks are kept as ages and remaining times, worker and request ids are   *)
(* reused once nothing mentions them, and one provider is enough, for the    *)
(* harnesses never compare two.                                             *)
(***************************************************************************)
EXTENDS SeqFilter, SequencesExt

CONSTANTS
  BeatModels, BeatSlots,    \* what workers advertise and ask for
  StaleAfter,               \* stale_after_ticks
  MaxBeats, MaxReport,      \* bounds: workers registered at once, reported load
  Clients, FailThreshold, FailWindow,   \* FAILED_AUTH_RATE_LIMIT_*
  ProviderConfigs,          \* the providers: worker_secret, enabled
  ConnectRequests,          \* provider, header_secret, query_secret ("none" for no secret)
  Names,                    \* raw model names
  TrimmedName,              \* what str::trim makes of each, "" when blank
  MaxNames, MaxAdvertised,  \* MAX_MODELS_PER_WORKER; bound: names in a register message
  MaxBytes, ChunkSizes, MaxForwarded    \* max_stream_bytes; bound: chunks of a stream

ASSUME HarnessAssumption ==
  /\ BeatSlots \subseteq Nat /\ StaleAfter \in Nat /\ MaxBeats \in Nat /\ MaxReport \in Nat
  /\ FailThreshold \in Nat \ {0} /\ FailWindow \in Nat \ {0}
  /\ TrimmedName \in [Names -> STRING] /\ MaxNames \in Nat /\ MaxAdvertised \in Nat
  /\ MaxBytes \in Nat /\ ChunkSizes \subseteq Nat /\ MaxForwarded \in Nat

BeatId == 1..MaxBeats

VARIABLES
  order,      \* HeartbeatHarness::worker_order
  beats,      \* its workers: models, max_concurrent, reported_load, ticks since the last pong
  cursor,     \* its selection_cursors, 0 for none
  passed,     \* ghost: how often in a row each worker was tied for a model and not taken
  failedAuth, \* RegistrationHarness: each client's entry, with remaining times
  recent,     \* ghost: the ages of a client's wrong secrets since its last success
  ack,        \* the last register_ack
  stream      \* ResponseHarness: a request

heartbeatVars == <<order, beats, cursor, passed>>
registrationVars == <<failedAuth, recent, ack>>
harnessVars == <<heartbeatVars, registrationVars, stream>>

NoBeat == [models |-> {}, max_concurrent |-> 1, reported_load |-> 0, age |-> 0]
NoFailures == [failed |-> 0, limited |-> 0, expires |-> 0]
NoAck == [sent |-> <<>>, models |-> <<>>, truncated |-> FALSE]
NoStream == [active |-> FALSE, forwarded |-> <<>>, bytes |-> 0, outcome |-> "none"]

HarnessInit ==
  /\ order = <<>> /\ beats = [w \in BeatId |-> NoBeat]
  /\ cursor = [m \in BeatModels |-> 0]
  /\ passed = [m \in BeatModels |-> [w \in BeatId |-> 0]]
  /\ failedAuth = [c \in Clients |-> NoFailures] /\ recent = [c \in Clients |-> <<>>]
  /\ ack = NoAck /\ stream = NoStream

-----------------------------------------------------------------------------
(* HeartbeatHarness.                                                         *)

Beating == ToSet(order)
is_stale(w) == beats[w].age >= StaleAfter

HeartbeatRegister(models, max_concurrent) ==
  /\ Beating # BeatId
  /\ LET w == CHOOSE w \in BeatId \ Beating : \A v \in BeatId \ Beating : w <= v
     IN /\ order' = Append(order, w)
        /\ beats' = [beats EXCEPT ![w] = [NoBeat EXCEPT !.models = models,
                       !.max_concurrent = IF max_concurrent = 0 THEN 1 ELSE max_concurrent]]
        /\ passed' = [m \in BeatModels |-> [passed[m] EXCEPT ![w] = 0]]
  /\ UNCHANGED cursor

ReceivePong(w, load) ==
  /\ w \in Beating
  /\ beats' = [beats EXCEPT ![w].reported_load = load, ![w].age = 0]
  /\ UNCHANGED <<order, cursor, passed>>

HeartbeatTick ==
  /\ beats' = [w \in BeatId |-> IF w \in Beating /\ ~is_stale(w)
                                THEN [beats[w] EXCEPT !.age = @ + 1] ELSE beats[w]]
  /\ UNCHANGED <<order, cursor, passed>>

(* The positions after a removed worker move up; the cursors do not.          *)
ExpireStaleWorkers ==
  /\ order' = Without(order, {w \in BeatId : is_stale(w)})
  /\ beats' = [w \in BeatId |-> IF w \in Beating /\ is_stale(w) THEN NoBeat ELSE beats[w]]
  /\ passed' = IF order' = order THEN passed ELSE [m \in BeatModels |-> [w \in BeatId |-> 0]]
  /\ UNCHANGED cursor

EligibleBeats(m) ==
  {i \in DOMAIN order :
     LET w == beats[order[i]]
     IN m \in w.models /\ w.reported_load < w.max_concurrent /\ ~is_stale(order[i])}

TiedBeats(m) ==
  {i \in EligibleBeats(m) : \A j \in EligibleBeats(m) :
     beats[order[i]].reported_load <= beats[order[j]].reported_load}

LeastPosition(S) == CHOOSE i \in S : \A j \in S : i <= j

(* A variant: the worker chosen last is not skipped.                          *)
FromCursor(m) ==
  LET ahead == {i \in TiedBeats(m) : i >= cursor[m]}
  IN LeastPosition(IF ahead # {} THEN ahead ELSE TiedBeats(m))

(* find_eligible_worker_id                                                    *)
AfterCursor(m) ==
  LET ahead == {i \in TiedBeats(m) : i > cursor[m]}
  IN LeastPosition(IF ahead # {} THEN ahead ELSE TiedBeats(m))

(* submit_request; without a worker nothing changes.                          *)
HeartbeatSubmit(m) ==
  LET i == AfterCursor(m)
      tied == {order[j] : j \in TiedBeats(m)}
  IN
  /\ EligibleBeats(m) # {}
  /\ beats' = [beats EXCEPT ![order[i]].reported_load = @ + 1]
  /\ cursor' = [cursor EXCEPT ![m] = i]
  /\ passed' = [passed EXCEPT ![m] = [w \in BeatId |->
                  IF w \in tied \ {order[i]} THEN passed[m][w] + 1 ELSE 0]]
  /\ UNCHANGED order

HeartbeatNext ==
  /\ \/ \E models \in SUBSET BeatModels, n \in BeatSlots : HeartbeatRegister(models, n)
     \/ \E w \in BeatId, load \in 0..MaxReport : ReceivePong(w, load)
     \/ HeartbeatTick \/ ExpireStaleWorkers
     \/ \E m \in BeatModels : HeartbeatSubmit(m)
  /\ UNCHANGED <<registrationVars, stream>>

-----------------------------------------------------------------------------
(* RegistrationHarness.                                                      *)

client_is_rate_limited(c) == failedAuth[c].limited > 0

record_failed_auth(c) ==
  LET failed == failedAuth[c].failed + 1
  IN failedAuth' = [failedAuth EXCEPT ![c] =
       [failed |-> failed, expires |-> FailWindow,
        limited |-> IF failed >= FailThreshold THEN FailWindow ELSE failedAuth[c].limited]]

presented_secret(request) ==
  IF request.header_secret # "none" THEN request.header_secret ELSE request.query_secret

(* connect looks at a secret only after the limiter and the provider: what is  *)
(* refused before changes nothing.                                           *)
LooksAtSecret(c, request) ==
  /\ ~client_is_rate_limited(c)
  /\ request.provider \in DOMAIN ProviderConfigs /\ ProviderConfigs[request.provider].enabled
  /\ presented_secret(request) # "none"

IsRightSecret(request) ==
  presented_secret(request) = ProviderConfigs[request.provider].worker_secret

ConnectWrongly(c, request) ==
  /\ LooksAtSecret(c, request) /\ ~IsRightSecret(request)
  /\ record_failed_auth(c)
  /\ recent' = [recent EXCEPT ![c] = Append(@, 0)]
  /\ UNCHANGED ack

ConnectRightly(c, request) ==
  /\ LooksAtSecret(c, request) /\ IsRightSecret(request)
  /\ failedAuth' = [failedAuth EXCEPT ![c] = NoFailures]
  /\ recent' = [recent EXCEPT ![c] = <<>>]
  /\ UNCHANGED ack

(* advance_time, with expire_failed_auth_rate_limits.                         *)
RegistrationTick ==
  /\ failedAuth' = [c \in Clients |->
       LET e == failedAuth[c]
       IN IF e.expires <= 1 THEN NoFailures
          ELSE [e EXCEPT !.expires = @ - 1, !.limited = IF @ = 0 THEN 0 ELSE @ - 1]]
  /\ recent' = [c \in Clients |->
       Without([i \in DOMAIN recent[c] |-> recent[c][i] + 1], {FailWindow})]
  /\ UNCHANGED ack

(* RegisterMessage::sanitized, the model list: trimmed, blanks and repeated   *)
(* names skipped; the first name beyond the limit ends it with a warning.     *)
Accepted(sent) ==
  FoldLeft(LAMBDA done, raw :
             LET name == TrimmedName[raw]
             IN IF done.truncated \/ name = "" \/ Contains(done.models, name) THEN done
                ELSE IF Len(done.models) = MaxNames THEN [done EXCEPT !.truncated = TRUE]
                ELSE [done EXCEPT !.models = Append(@, name)],
           [models |-> <<>>, truncated |-> FALSE], sent)

(* exchange_text                                                              *)
ExchangeText(sent) ==
  /\ ack' = [sent |-> sent, models |-> Accepted(sent).models, truncated |-> Accepted(sent).truncated]
  /\ UNCHANGED <<failedAuth, recent>>

RegistrationNext ==
  /\ \/ \E c \in Clients, request \in ConnectRequests :
          ConnectWrongly(c, request) \/ ConnectRightly(c, request)
     \/ RegistrationTick
  /\ UNCHANGED <<heartbeatVars, stream>>

AcknowledgeNext ==
  /\ ack = NoAck
  /\ \E n \in 1..MaxAdvertised : \E sent \in [1..n -> Names] : ExchangeText(sent)
  /\ UNCHANGED <<heartbeatVars, stream>>

-----------------------------------------------------------------------------
(* ResponseHarness.                                                          *)

StartRequest ==
  /\ ~stream.active
  /\ stream' = [NoStream EXCEPT !.active = TRUE]

CheckThenForward(size) ==
  LET total == stream.bytes + size
  IN stream' = IF total > MaxBytes
               THEN [stream EXCEPT !.active = FALSE, !.outcome = "oversized"]
               ELSE [stream EXCEPT !.bytes = total, !.forwarded = Append(@, size)]

(* deliver_response_chunk                                                     *)
DeliverChunk(size) ==
  /\ stream.active /\ Len(stream.forwarded) < MaxForwarded
  /\ CheckThenForward(size)

(* deliver_response_complete                                                  *)
DeliverComplete ==
  /\ stream.active
  /\ stream' = [stream EXCEPT !.active = FALSE, !.outcome = "complete"]

ResponseNext ==
  /\ StartRequest \/ DeliverComplete \/ \E size \in ChunkSizes : DeliverChunk(size)
  /\ UNCHANGED <<heartbeatVars, registrationVars>>

HarnessNext == HeartbeatNext \/ RegistrationNext \/ AcknowledgeNext \/ ResponseNext

HarnessSpec == HarnessInit /\ [][HarnessNext]_harnessVars

-----------------------------------------------------------------------------
(* Properties.                                                               *)

(* Equally loaded workers take turns: a worker that stays among the least     *)
(* loaded for a model is passed over at most once for each other worker, new  *)
(* ones included, as long as none is removed.                                *)
NobodyPassedOver ==
  \A m \in BeatModels : \A i \in DOMAIN order : passed[m][order[i]] < Len(order)

(* Within one window a client's wrong secrets are looked at FailThreshold     *)
(* times and no more, unless it presents the right one in between.            *)
WrongSecretsBounded == \A c \in Clients : Len(recent[c]) <= FailThreshold

(* The acknowledged list is that of the distinct names that are not blank, in *)
(* the order they were sent, cut at the limit; and the worker is warned       *)
(* exactly when one of them was left out.                                    *)
AckIsFaithful ==
  LET wanted == {TrimmedName[ack.sent[i]] : i \in DOMAIN ack.sent} \ {""}
      kept == ToSet(ack.models)
      first(name) == CHOOSE i \in DOMAIN ack.sent :
                       /\ TrimmedName[ack.sent[i]] = name
                       /\ \A j \in 1..(i - 1) : TrimmedName[ack.sent[j]] # name
  IN
  /\ kept \subseteq wanted /\ Len(ack.models) = Cardinality(kept) /\ Len(ack.models) <= MaxNames
  /\ \A i, j \in DOMAIN ack.models : i < j => first(ack.models[i]) < first(ack.models[j])
  /\ \A name \in wanted \ kept : \A k \in kept : first(k) < first(name)
  /\ ack.truncated <=> kept # wanted

(* What was forwarded of a stream never exceeds the limit, and one that was   *)
(* ended for its size has no completion.                                     *)
StreamWithinLimit ==
  /\ stream.bytes = FoldLeft(LAMBDA a, b : a + b, 0, stream.forwarded)
  /\ stream.bytes <= MaxBytes
  /\ stream.outcome = "oversized" => ~stream.active
=============================================================================
