------------------------------ MODULE CloudProofs ------------------------------
(***************************************************************************)
(* Proofs about the cloud service, for any number of customers, requests     *)
(* and keys: billing first, then the browser's session.                      *)
(***************************************************************************)
EXTENDS CloudBilling, CloudSession, SeqFilterProofs

(* Billing: what each part of the state holds, when n keys have been issued.   *)
(* Every key named anywhere is one of them, and the server knows no other.    *)
Issued(n) == 1..n
Named(n) == Issued(n) \cup {NoKey}
KeyRows(n) == [key : Issued(n), user : Users, revoked : BOOLEAN]
HandlerSteps == SqlSteps \cup {"idle", "provision", "revoke"}
Statuses == {"none", "active", "past_due", "canceled"}
SubscriptionRows(n) == [status : Statuses, api_key_id : Named(n)]

DbTyped(n) ==
  /\ users \subseteq Users
  /\ subscriptions \in [Subs -> SubscriptionRows(n)]
  /\ apiKeys \in Seq(KeyRows(n))

ServerTyped ==
  /\ issued \in Nat /\ imported \subseteq Issued(issued)
  /\ server \in [Keys -> {"none", "valid", "revoked"}]
  /\ \A k \in Keys : k > issued => server[k] = "none"

HandlerSound(t, n) ==
  /\ t \in [step : HandlerSteps, event : Events \cup {NoEvent}, key : Named(n)]
  /\ t.step # "idle" => t.event \in Events
  /\ t.step \in {"store_id", "store_key"} => t.key \in Issued(n)

HandlersTyped(n) ==
  handler = [h \in Handlers |-> handler[h]] /\ \A h \in Handlers : HandlerSound(handler[h], n)

AdminTyped(n) ==
  /\ admin \in [step : {"idle", "insert", "revoke", "mark"}, key : Named(n),
                user : Users \cup {"none"}]
  /\ admin.step = "insert" => admin.key \in Issued(n) /\ admin.user \in Users

ToolTyped(n) == tool \in [step : {"idle", "running"}, todo : Seq(Issued(n))]

StripeTyped ==
  /\ stripe \in [Subs -> {"none", "offered", "open", "canceled"}]
  /\ pending \subseteq Events /\ acked \subseteq Events

BoundsTyped == spent \in [Faults -> 0..MaxFaults] /\ scans \in 0..MaxScans

CloudInv ==
  /\ ServerTyped /\ StripeTyped /\ BoundsTyped
  /\ DbTyped(issued) /\ HandlersTyped(issued) /\ AdminTyped(issued) /\ ToolTyped(issued)

-----------------------------------------------------------------------------
LEMMA EventFacts ==
  ASSUME NEW e \in Events
  PROVE  /\ e.sub \in Subs /\ e.status \in Statuses
         /\ FirstStep(e.type) \in SqlSteps \ {"store_id", "store_key"}
<1>1. PICK s \in Subs :
        e \in {Event("checkout", s, "active"), Event("updated", s, "active"),
               Event("updated", s, "past_due"), Event("payment_failed", s, "past_due"),
               Event("deleted", s, "canceled")}
  BY DEF Events
<1>2. CASE e = Event("checkout", s, "active")
  BY <1>2 DEF Event, Statuses, FirstStep, SqlSteps
<1>3. CASE e = Event("updated", s, "active") \/ e = Event("updated", s, "past_due")
  BY <1>3 DEF Event, Statuses, FirstStep, SqlSteps
<1>4. CASE e = Event("payment_failed", s, "past_due")
  BY <1>4 DEF Event, Statuses, FirstStep, SqlSteps
<1>5. CASE e = Event("deleted", s, "canceled")
  BY <1>5 DEF Event, Statuses, FirstStep, SqlSteps
<1>. QED  BY <1>1, <1>2, <1>3, <1>4, <1>5

LEMMA EventMembers ==
  ASSUME NEW s \in Subs
  PROVE  /\ Event("checkout", s, "active") \in Events
         /\ Event("updated", s, "active") \in Events
         /\ Event("updated", s, "past_due") \in Events
         /\ Event("payment_failed", s, "past_due") \in Events
         /\ Event("deleted", s, "canceled") \in Events
BY DEF Events

LEMMA BillingStart == Init => CloudInv
<1>. SUFFICES ASSUME Init PROVE CloudInv
  OBVIOUS
<1>1. /\ NoRow \in SubscriptionRows(issued) /\ HandlerSound(NoHandler, issued)
  BY DEF NoRow, Statuses, SubscriptionRows, Named, HandlerSound, NoHandler, HandlerSteps
<1>2. NoAdmin.step = "idle" /\ AdminTyped(issued)
  BY DEF Init, NoAdmin, AdminTyped, Named
<1>3. ToolTyped(issued)
  BY DEF Init, NoTool, ToolTyped
<1>4. DbTyped(issued)
  BY <1>1, BillingAssumption DEF Init, DbTyped
<1>5. ServerTyped
  BY DEF Init, ServerTyped
<1>6. HandlersTyped(issued)
  BY <1>1 DEF Init, HandlersTyped
<1>7. StripeTyped /\ BoundsTyped
  BY BillingAssumption DEF Init, StripeTyped, BoundsTyped
<1>. QED  BY <1>2, <1>3, <1>4, <1>5, <1>6, <1>7 DEF CloudInv

(* What does not change stays typed when more keys are issued.                *)
LEMMA Kept ==
  ASSUME CloudInv, NEW n \in Nat, n >= issued
  PROVE  DbTyped(n) /\ HandlersTyped(n) /\ AdminTyped(n) /\ ToolTyped(n)
<1>. /\ DbTyped(issued) /\ HandlersTyped(issued) /\ AdminTyped(issued) /\ ToolTyped(issued)
     /\ issued \in Nat
  BY DEF CloudInv, ServerTyped
<1>1. Issued(issued) \subseteq Issued(n) /\ Named(issued) \subseteq Named(n)
  BY DEF Issued, Named
<1>2. KeyRows(issued) \subseteq KeyRows(n)
  BY <1>1 DEF KeyRows
<1>3. SubscriptionRows(issued) \subseteq SubscriptionRows(n)
  BY <1>1 DEF SubscriptionRows
<1>4. ASSUME NEW S, NEW T, S \subseteq T PROVE Seq(S) \subseteq Seq(T)
  BY <1>4
<1>5. DbTyped(n)
  <2>1. Seq(KeyRows(issued)) \subseteq Seq(KeyRows(n))
    BY <1>2, <1>4
  <2>. QED  BY <1>3, <2>1 DEF DbTyped
<1>6. HandlersTyped(n)
  BY <1>1 DEF HandlersTyped, HandlerSound
<1>7. AdminTyped(n)
  BY <1>1 DEF AdminTyped
<1>8. ToolTyped(n)
  <2>1. Seq(Issued(issued)) \subseteq Seq(Issued(n))
    BY <1>1, <1>4
  <2>. QED  BY <2>1 DEF ToolTyped
<1>. QED  BY <1>5, <1>6, <1>7, <1>8

LEMMA FaultsCounted ==
  ASSUME BoundsTyped, UNCHANGED scans, Succeeds \/ \E f \in Faults : Happens(f)
  PROVE  BoundsTyped'
<1>1. CASE Succeeds
  BY <1>1 DEF Succeeds, BoundsTyped
<1>2. ASSUME NEW f \in Faults, Happens(f) PROVE BoundsTyped'
  <2>1. \A g \in Faults : spent[g] \in Nat
    BY BillingAssumption DEF BoundsTyped
  <2>2. spent[f] < MaxFaults
    <3>1. /\ spent["failure"] \in Nat /\ spent["redelivery"] \in Nat /\ spent["request"] \in Nat
          /\ spent["change"] \in Nat /\ spent["loss"] \in Nat
      BY <2>1 DEF Faults
    <3>2. spent["failure"] + spent["redelivery"] + spent["request"] + spent["change"]
            + spent["loss"] < MaxFaults
      BY <1>2 DEF Happens
    <3> DEFINE a == spent["failure"]  b == spent["redelivery"]  c == spent["request"]
               d == spent["change"]  e == spent["loss"]
    <3>3. spent[f] \in {a, b, c, d, e}
      BY DEF Faults
    <3>4. a \in Nat /\ b \in Nat /\ c \in Nat /\ d \in Nat /\ e \in Nat
          /\ a + b + c + d + e < MaxFaults
      BY <3>1, <3>2
    <3> HIDE DEF a, b, c, d, e
    <3>. QED  BY <3>3, <3>4, BillingAssumption
  <2>3. spent' = [spent EXCEPT ![f] = @ + 1]
    BY <1>2 DEF Happens
  <2>4. spent[f] + 1 \in 0..MaxFaults
    BY <2>1, <2>2, BillingAssumption
  <2>. QED  BY <2>3, <2>4 DEF BoundsTyped
<1>. QED  BY <1>1, <1>2

(* A request of Stripe's moves on to what t says.                             *)
LEMMA HandlerMoves ==
  ASSUME NEW n, HandlersTyped(n), NEW h \in Handlers, NEW t, HandlerSound(t, n),
         handler' = [handler EXCEPT ![h] = t]
  PROVE  HandlersTyped(n)'
<1>1. handler' = [g \in Handlers |-> IF g = h THEN t ELSE handler[g]]
  BY DEF HandlersTyped
<1>. QED  BY <1>1 DEF HandlersTyped

(* A request of Stripe's takes a step that issues no key.                      *)
LEMMA QuietHandlerStep ==
  ASSUME CloudInv, NEW h \in Handlers, NEW t, HandlerSound(t, issued),
         handler' = [handler EXCEPT ![h] = t],
         UNCHANGED <<issued, imported, admin, tool, scans>>,
         \/ UNCHANGED server
         \/ \E k : RevokeAtServer(k),
         \/ UNCHANGED stripeSide
         \/ handler[h].event \in Events /\ (Acknowledge(h) \/ Refuse(h)),
         Succeeds \/ Fails,
         users' \subseteq Users, subscriptions' \in [Subs -> SubscriptionRows(issued)],
         apiKeys' \in Seq(KeyRows(issued))
  PROVE  CloudInv'
<1>. /\ ServerTyped /\ StripeTyped /\ BoundsTyped
     /\ DbTyped(issued) /\ HandlersTyped(issued) /\ AdminTyped(issued) /\ ToolTyped(issued)
  BY DEF CloudInv
<1>1. ServerTyped'
  <2>1. CASE UNCHANGED server
    BY <2>1 DEF ServerTyped
  <2>2. ASSUME NEW k, RevokeAtServer(k) PROVE ServerTyped'
    BY <2>2 DEF ServerTyped, RevokeAtServer
  <2>. QED  BY <2>1, <2>2
<1>2. StripeTyped'
  BY DEF StripeTyped, Acknowledge, Refuse, stripeSide
<1>3. BoundsTyped'
  BY FaultsCounted DEF Fails, Faults
<1>4. DbTyped(issued)'
  BY DEF DbTyped
<1>5. HandlersTyped(issued)'
  BY HandlerMoves DEF HandlersTyped
<1>6. AdminTyped(issued)' /\ ToolTyped(issued)'
  BY DEF AdminTyped, ToolTyped
<1>. QED  BY <1>1, <1>2, <1>3, <1>4, <1>5, <1>6 DEF CloudInv

LEMMA GotoSound ==
  ASSUME NEW n, NEW t, HandlerSound(t, n), t.step # "idle", NEW step \in HandlerSteps,
         NEW k \in Named(n), step \in {"store_id", "store_key"} => k \in Issued(n)
  PROVE  HandlerSound([t EXCEPT !.step = step, !.key = k], n)
BY DEF HandlerSound

LEMMA IdleSound ==
  ASSUME NEW n
  PROVE  HandlerSound(NoHandler, n)
BY DEF HandlerSound, NoHandler, HandlerSteps, Named

(* A row of subscriptions is rewritten, or there is none.                     *)
LEMMA RowRewritten ==
  ASSUME NEW n, DbTyped(n), NEW s \in Subs, NEW row \in SubscriptionRows(n),
         subscriptions' = subscriptions \/ subscriptions' = [subscriptions EXCEPT ![s] = row]
  PROVE  subscriptions' \in [Subs -> SubscriptionRows(n)]
BY DEF DbTyped

LEMMA RowsMarked ==
  ASSUME NEW n, DbTyped(n), NEW k, MarkRevoked(k)
  PROVE  apiKeys' \in Seq(KeyRows(n))
<1>1. \A i \in 1..Len(apiKeys) : apiKeys[i] \in KeyRows(n)
  BY DEF DbTyped
<1>2. apiKeys' = [i \in 1..Len(apiKeys) |->
        IF apiKeys[i].key = k THEN [apiKeys[i] EXCEPT !.revoked = TRUE] ELSE apiKeys[i]]
  BY DEF MarkRevoked, DbTyped
<1>3. \A i \in 1..Len(apiKeys) :
        (IF apiKeys[i].key = k THEN [apiKeys[i] EXCEPT !.revoked = TRUE] ELSE apiKeys[i])
          \in KeyRows(n)
  BY <1>1 DEF KeyRows
<1>4. Len(apiKeys) \in Nat
  BY DEF DbTyped
<1>. QED  BY <1>2, <1>3, <1>4

(* handle_checkout_completed, but for the key it asks the server for.         *)
LEMMA CheckoutStep ==
  ASSUME CloudInv, NEW h \in Handlers,
         UpsertUser(h) \/ UpsertSubscription(h) \/ StoreKeyId(h) \/ StoreKey(h)
  PROVE  CloudInv'
<1>. /\ DbTyped(issued) /\ HandlerSound(handler[h], issued)
  BY DEF CloudInv, HandlersTyped
<1>1. /\ handler[h].step # "idle" /\ handler[h].event \in Events /\ Sub(h) \in Subs
      /\ Owner[Sub(h)] \in Users
  <2>1. handler[h].step # "idle"
    BY DEF UpsertUser, UpsertSubscription, StoreKeyId, StoreKey, At
  <2>. QED  BY <2>1, EventFacts, BillingAssumption DEF HandlerSound, Sub
<1>2. {"subscription", "provision", "store_key"} \subseteq HandlerSteps /\ NoKey \in Named(issued)
  BY DEF HandlerSteps, SqlSteps, Named
<1>3. UNCHANGED <<issued, imported, admin, tool, scans, server>> /\ Succeeds
  BY DEF UpsertUser, UpsertSubscription, StoreKeyId, StoreKey, Stay, serverDb
<1>4. CASE UpsertUser(h)
  <2>1. users' \subseteq Users /\ UNCHANGED <<subscriptions, apiKeys, stripeSide>>
    BY <1>1, <1>4 DEF UpsertUser, DbTyped
  <2>2. handler' = [handler EXCEPT ![h] = [@ EXCEPT !.step = "subscription", !.key = NoKey]]
    BY <1>4 DEF UpsertUser, Goto
  <2>3. HandlerSound([handler[h] EXCEPT !.step = "subscription", !.key = NoKey], issued)
    BY <1>1, <1>2, GotoSound
  <2>. QED  BY <1>3, <2>1, <2>2, <2>3, QuietHandlerStep DEF DbTyped
<1>5. CASE UpsertSubscription(h)
  <2>1. subscriptions' = [subscriptions EXCEPT ![Sub(h)] = [@ EXCEPT !.status = "active"]]
        /\ UNCHANGED <<users, apiKeys>>
    BY <1>5 DEF UpsertSubscription
  <2>2. [subscriptions[Sub(h)] EXCEPT !.status = "active"] \in SubscriptionRows(issued)
    BY <1>1 DEF DbTyped, SubscriptionRows, Statuses
  <2>3. subscriptions' \in [Subs -> SubscriptionRows(issued)]
    BY <1>1, <2>1, <2>2, RowRewritten
  <2>4. CASE Goto(h, "provision", NoKey) /\ UNCHANGED stripeSide
    <3>1. HandlerSound([handler[h] EXCEPT !.step = "provision", !.key = NoKey], issued)
      BY <1>1, <1>2, GotoSound
    <3>. QED  BY <1>3, <2>1, <2>3, <2>4, <3>1, QuietHandlerStep DEF DbTyped, Goto
  <2>5. CASE Acknowledge(h)
    <3>1. handler' = [handler EXCEPT ![h] = NoHandler]
      BY <2>5 DEF Acknowledge
    <3>. QED  BY <1>1, <1>3, <2>1, <2>3, <2>5, <3>1, IdleSound, QuietHandlerStep DEF DbTyped
  <2>. QED  BY <1>5, <2>4, <2>5 DEF UpsertSubscription
<1>6. CASE StoreKeyId(h)
  <2>1. handler[h].key \in Issued(issued) /\ handler[h].key \in Named(issued)
    BY <1>6 DEF StoreKeyId, At, HandlerSound, Named
  <2>2. [subscriptions[Sub(h)] EXCEPT !.api_key_id = handler[h].key] \in SubscriptionRows(issued)
    BY <1>1, <2>1 DEF DbTyped, SubscriptionRows
  <2>3. \/ subscriptions' = subscriptions
        \/ subscriptions' = [subscriptions EXCEPT ![Sub(h)] = [@ EXCEPT !.api_key_id = handler[h].key]]
    BY <1>6 DEF StoreKeyId
  <2>4. subscriptions' \in [Subs -> SubscriptionRows(issued)]
    BY <1>1, <2>2, <2>3, RowRewritten
  <2>5. HandlerSound([handler[h] EXCEPT !.step = "store_key", !.key = handler[h].key], issued)
    BY <1>1, <1>2, <2>1, GotoSound
  <2>6. /\ handler' = [handler EXCEPT ![h] = [@ EXCEPT !.step = "store_key", !.key = handler[h].key]]
        /\ UNCHANGED <<users, apiKeys, stripeSide>>
    BY <1>6 DEF StoreKeyId, Goto
  <2>. QED  BY <1>3, <2>4, <2>5, <2>6, QuietHandlerStep DEF DbTyped
<1>7. CASE StoreKey(h)
  <2>1. Row(handler[h].key, Owner[Sub(h)]) \in KeyRows(issued)
    BY <1>1, <1>7 DEF StoreKey, At, HandlerSound, Row, KeyRows
  <2>2. apiKeys' \in Seq(KeyRows(issued)) /\ UNCHANGED <<users, subscriptions>>
    BY <1>7, <2>1 DEF StoreKey, DbTyped
  <2>3. Acknowledge(h) /\ handler' = [handler EXCEPT ![h] = NoHandler]
    BY <1>7 DEF StoreKey, Acknowledge
  <2>. QED  BY <1>1, <1>3, <2>2, <2>3, IdleSound, QuietHandlerStep DEF DbTyped
<1>. QED  BY <1>4, <1>5, <1>6, <1>7

(* The other handlers, and a statement that fails.                            *)
LEMMA SubscriptionStep ==
  ASSUME CloudInv, NEW h \in Handlers,
         \/ SubscriptionUpdated(h) \/ PaymentFailed(h) \/ LookupKey(h) \/ RevokeKey(h)
         \/ RevokeKeyFails(h) \/ MarkKey(h) \/ ClearSubscription(h) \/ HandlerFails(h)
  PROVE  CloudInv'
<1>. /\ DbTyped(issued) /\ HandlerSound(handler[h], issued)
  BY DEF CloudInv, HandlersTyped
<1>1. /\ handler[h].step # "idle" /\ handler[h].event \in Events /\ Sub(h) \in Subs
      /\ handler[h].event.status \in Statuses /\ handler[h].key \in Named(issued)
  <2>1. handler[h].step # "idle"
    BY DEF SubscriptionUpdated, PaymentFailed, LookupKey, RevokeKey, RevokeKeyFails, MarkKey,
           ClearSubscription, HandlerFails, SqlSteps, At
  <2>. QED  BY <2>1, EventFacts DEF HandlerSound, Sub
<1>2. {"clear", "revoke", "mark"} \subseteq HandlerSteps /\ NoKey \in Named(issued)
  BY DEF HandlerSteps, SqlSteps, Named
<1>3. UNCHANGED <<issued, imported, admin, tool, scans>> /\ (Succeeds \/ Fails)
  BY DEF SubscriptionUpdated, PaymentFailed, SetStatus, LookupKey, RevokeKey, RevokeKeyFails,
         MarkKey, ClearSubscription, HandlerFails, Stay, serverDb
<1>4. ASSUME NEW status \in Statuses, SetStatus(h, status) PROVE CloudInv'
  <2>1. [subscriptions[Sub(h)] EXCEPT !.status = status] \in SubscriptionRows(issued)
    BY <1>1, <1>4 DEF DbTyped, SubscriptionRows
  <2>2. \/ subscriptions' = subscriptions
        \/ subscriptions' = [subscriptions EXCEPT ![Sub(h)] = [@ EXCEPT !.status = status]]
    BY <1>4 DEF SetStatus
  <2>3. subscriptions' \in [Subs -> SubscriptionRows(issued)]
    BY <1>1, <2>1, <2>2, RowRewritten
  <2>4. /\ Acknowledge(h) /\ handler' = [handler EXCEPT ![h] = NoHandler]
        /\ UNCHANGED <<users, apiKeys, server>>
    BY <1>4 DEF SetStatus, Acknowledge, serverDb
  <2>. QED  BY <1>1, <1>3, <2>3, <2>4, IdleSound, QuietHandlerStep DEF DbTyped
<1>5. ASSUME NEW step \in {"clear", "revoke", "mark"}, NEW k \in Named(issued), Goto(h, step, k),
             UNCHANGED <<users, subscriptions, stripeSide>>, apiKeys' \in Seq(KeyRows(issued)),
             UNCHANGED server \/ \E j : RevokeAtServer(j)
      PROVE  CloudInv'
  <2>1. HandlerSound([handler[h] EXCEPT !.step = step, !.key = k], issued)
    <3>1. step \in HandlerSteps /\ ~(step \in {"store_id", "store_key"})
      BY <1>2, <1>5
    <3>. QED  BY <1>1, <3>1, GotoSound
  <2>2. handler' = [handler EXCEPT ![h] = [@ EXCEPT !.step = step, !.key = k]]
    BY <1>5 DEF Goto
  <2>. QED  BY <1>3, <1>5, <2>1, <2>2, QuietHandlerStep DEF DbTyped
<1>6. CASE SubscriptionUpdated(h) \/ PaymentFailed(h)
  BY <1>1, <1>4, <1>6 DEF SubscriptionUpdated, PaymentFailed, Statuses
<1>7. CASE LookupKey(h)
  <2>1. subscriptions[Sub(h)].api_key_id \in Named(issued)
    BY <1>1 DEF DbTyped, SubscriptionRows
  <2>2. \E step \in {"clear", "revoke"} : Goto(h, step, subscriptions[Sub(h)].api_key_id)
    BY <1>7 DEF LookupKey
  <2>. QED  BY <1>5, <1>7, <2>1, <2>2 DEF LookupKey, cloudDb, serverDb, DbTyped
<1>8. CASE RevokeKey(h) \/ RevokeKeyFails(h)
  BY <1>1, <1>5, <1>8 DEF RevokeKey, RevokeKeyFails, cloudDb, serverDb, DbTyped
<1>9. CASE MarkKey(h)
  BY <1>1, <1>5, <1>9, RowsMarked DEF MarkKey, serverDb
<1>10. CASE ClearSubscription(h)
  <2>1. [status |-> "canceled", api_key_id |-> NoKey] \in SubscriptionRows(issued)
    BY <1>2 DEF SubscriptionRows, Statuses
  <2>2. subscriptions' \in [Subs -> SubscriptionRows(issued)]
    BY <1>1, <1>10, <2>1, RowRewritten DEF ClearSubscription
  <2>3. /\ Acknowledge(h) /\ handler' = [handler EXCEPT ![h] = NoHandler]
        /\ UNCHANGED <<users, apiKeys, server>>
    BY <1>10 DEF ClearSubscription, Acknowledge, serverDb
  <2>. QED  BY <1>1, <1>3, <2>2, <2>3, IdleSound, QuietHandlerStep DEF DbTyped
<1>11. CASE HandlerFails(h)
  <2>1. /\ Refuse(h) /\ handler' = [handler EXCEPT ![h] = NoHandler]
        /\ UNCHANGED <<users, subscriptions, apiKeys, server>>
    BY <1>11 DEF HandlerFails, Refuse, serverDb, cloudDb
  <2>. QED  BY <1>1, <1>3, <2>1, IdleSound, QuietHandlerStep DEF DbTyped
<1>. QED  BY <1>6, <1>7, <1>8, <1>9, <1>10, <1>11

(* The server issues a key nobody has named yet.                              *)
LEMMA ServerIssues ==
  ASSUME ServerTyped, Issue, UNCHANGED imported
  PROVE  ServerTyped' /\ issued' = issued + 1 /\ issued' \in Nat /\ issued' >= issued
         /\ issued' \in Issued(issued')
<1>1. /\ issued' = issued + 1 /\ issued' \in Nat /\ issued' >= issued
      /\ server' = [server EXCEPT ![issued + 1] = "valid"]
  BY DEF Issue, ServerTyped
<1>2. imported' \subseteq Issued(issued')
  BY <1>1 DEF ServerTyped, Issued
<1>3. server' \in [Keys -> {"none", "valid", "revoked"}]
  BY <1>1 DEF ServerTyped
<1>4. \A k \in Keys : k > issued' => server'[k] = "none"
  BY <1>1 DEF ServerTyped, Keys
<1>. QED  BY <1>1, <1>2, <1>3, <1>4 DEF ServerTyped, Issued

LEMMA ProvisionStep ==
  ASSUME CloudInv, NEW h \in Handlers, Provision(h) \/ ProvisionFails(h)
  PROVE  CloudInv'
<1>. /\ ServerTyped /\ StripeTyped /\ BoundsTyped /\ HandlerSound(handler[h], issued)
  BY DEF CloudInv, HandlersTyped
<1>1. handler[h].step # "idle" /\ handler[h].event \in Events /\ issued \in Nat
  <2>1. handler[h].step # "idle"
    BY DEF Provision, ProvisionFails, At
  <2>. QED  BY <2>1 DEF HandlerSound, ServerTyped
<1>2. /\ ServerTyped' /\ issued' \in Nat /\ issued' >= issued
      /\ Provision(h) => issued' = issued + 1 /\ issued' \in Issued(issued')
  <2>1. CASE Issue
    BY <2>1, ServerIssues DEF Provision, ProvisionFails
  <2>2. CASE UNCHANGED <<server, issued>> /\ ~Provision(h)
    BY <1>1, <2>2 DEF ProvisionFails, ServerTyped
  <2>. QED  BY <2>1, <2>2 DEF Provision, ProvisionFails
<1>3. DbTyped(issued') /\ HandlersTyped(issued') /\ AdminTyped(issued') /\ ToolTyped(issued')
  BY <1>2, Kept
<1>4. UNCHANGED <<cloudDb, admin, tool>> /\ BoundsTyped'
  <2>1. UNCHANGED scans /\ (Succeeds \/ \E f \in Faults : Happens(f))
    BY DEF Provision, ProvisionFails, Stay, Fails, Faults
  <2>. QED  BY <2>1, FaultsCounted DEF Provision, ProvisionFails, Stay
<1>5. DbTyped(issued)' /\ AdminTyped(issued)' /\ ToolTyped(issued)'
  BY <1>3, <1>4 DEF DbTyped, AdminTyped, ToolTyped, cloudDb
<1>6. StripeTyped'
  BY <1>1 DEF Provision, ProvisionFails, Acknowledge, stripeSide, StripeTyped
<1>7. HandlersTyped(issued)'
  <2>1. CASE Provision(h)
    <3>1. handler' = [handler EXCEPT ![h] = [@ EXCEPT !.step = "store_id", !.key = issued']]
      BY <1>2, <2>1 DEF Provision, Goto
    <3>2. HandlerSound([handler[h] EXCEPT !.step = "store_id", !.key = issued'], issued')
      <4>1. HandlerSound(handler[h], issued')
        BY <1>3 DEF HandlersTyped
      <4>2. "store_id" \in HandlerSteps /\ issued' \in Named(issued') /\ issued' \in Issued(issued')
        BY <1>2, <2>1 DEF HandlerSteps, SqlSteps, Named
      <4>. QED  BY <1>1, <4>1, <4>2, GotoSound
    <3>. QED  BY <1>3, <3>1, <3>2, HandlerMoves DEF HandlersTyped
  <2>2. CASE ProvisionFails(h)
    <3>1. handler' = [handler EXCEPT ![h] = NoHandler]
      BY <2>2 DEF ProvisionFails, Acknowledge
    <3>. QED  BY <1>3, <3>1, IdleSound, HandlerMoves DEF HandlersTyped
  <2>. QED  BY <2>1, <2>2
<1>. QED  BY <1>2, <1>4, <1>5, <1>6, <1>7 DEF CloudInv

(* The administrator's requests.                                             *)
LEMMA AdminKeeps ==
  ASSUME CloudInv, AdminStep
  PROVE  CloudInv'
<1>. /\ ServerTyped /\ StripeTyped /\ BoundsTyped
     /\ DbTyped(issued) /\ HandlersTyped(issued) /\ AdminTyped(issued) /\ ToolTyped(issued)
  BY DEF CloudInv
<1>1. /\ UNCHANGED <<handler, tool, stripe, pending, acked, scans, users, subscriptions, imported>>
      /\ Succeeds \/ \E f \in Faults : Happens(f)
  BY DEF AdminStep, GenerateKey, InsertGenerated, AskToRevoke, RevokeAsked, MarkAsked, AdminStay,
         stripeSide, cloudDb, serverDb, Fails, Faults
<1>2. BoundsTyped' /\ StripeTyped'
  BY <1>1, FaultsCounted DEF StripeTyped
<1>3. ASSUME NEW u \in Users, GenerateKey(u) PROVE CloudInv'
  <2>1. ServerTyped' /\ issued' = issued + 1 /\ issued' \in Nat /\ issued' >= issued
        /\ issued' \in Issued(issued')
    BY <1>1, <1>3, ServerIssues DEF GenerateKey
  <2>2. DbTyped(issued') /\ HandlersTyped(issued') /\ AdminTyped(issued') /\ ToolTyped(issued')
    BY <2>1, Kept
  <2>3. AdminTyped(issued)'
    BY <1>3, <2>1 DEF GenerateKey, AdminGoto, AdminTyped, Named
  <2>4. UNCHANGED apiKeys
    BY <1>3 DEF GenerateKey, cloudDb
  <2>5. DbTyped(issued)' /\ HandlersTyped(issued)' /\ ToolTyped(issued)'
    BY <1>1, <2>2, <2>4 DEF DbTyped, HandlersTyped, ToolTyped
  <2>. QED  BY <1>2, <2>1, <2>3, <2>5 DEF CloudInv
<1>4. ASSUME ServerTyped', UNCHANGED issued, apiKeys' \in Seq(KeyRows(issued)),
             AdminTyped(issued)'
      PROVE  CloudInv'
  <2>1. DbTyped(issued)' /\ HandlersTyped(issued)' /\ ToolTyped(issued)'
    BY <1>1, <1>4 DEF DbTyped, HandlersTyped, ToolTyped
  <2>. QED  BY <1>2, <1>4, <2>1 DEF CloudInv
<1>5. /\ NoAdmin.step = "idle" /\ NoAdmin \in [step : {"idle", "insert", "revoke", "mark"},
                                              key : Named(issued), user : Users \cup {"none"}]
      /\ apiKeys \in Seq(KeyRows(issued))
  BY DEF NoAdmin, Named, DbTyped
<1>6. CASE InsertGenerated
  <2>1. Row(admin.key, admin.user) \in KeyRows(issued)
    BY <1>6 DEF InsertGenerated, AdminTyped, Row, KeyRows
  <2>2. apiKeys' \in Seq(KeyRows(issued))
    BY <1>5, <1>6, <2>1 DEF InsertGenerated
  <2>3. ServerTyped' /\ UNCHANGED issued /\ AdminTyped(issued)'
    BY <1>5, <1>6 DEF InsertGenerated, ServerTyped, AdminTyped, serverDb
  <2>. QED  BY <1>4, <2>2, <2>3
<1>7. ASSUME NEW i \in DOMAIN apiKeys, AskToRevoke(i) PROVE CloudInv'
  <2>1. apiKeys[i] \in KeyRows(issued)
    BY <1>5, <1>7
  <2>2. apiKeys[i].key \in Named(issued) /\ apiKeys[i].user \in Users
    BY <2>1 DEF KeyRows, Named
  <2>3. admin' = [step |-> "revoke", key |-> apiKeys[i].key, user |-> apiKeys[i].user]
        /\ UNCHANGED <<server, imported, issued, apiKeys>>
    BY <1>7 DEF AskToRevoke, AdminGoto, serverDb, cloudDb
  <2>4. AdminTyped(issued)' /\ ServerTyped'
    BY <2>2, <2>3 DEF AdminTyped, ServerTyped
  <2>. QED  BY <1>4, <1>5, <2>3, <2>4
<1>8. CASE RevokeAsked
  <2>1. ServerTyped' /\ UNCHANGED <<issued, apiKeys>>
    BY <1>8 DEF RevokeAsked, RevokeAtServer, ServerTyped, cloudDb
  <2>2. AdminTyped(issued)'
    BY <1>8, <2>1 DEF RevokeAsked, AdminGoto, AdminTyped
  <2>. QED  BY <1>4, <1>5, <2>1, <2>2
<1>9. CASE MarkAsked
  <2>1. apiKeys' \in Seq(KeyRows(issued))
    BY <1>5, <1>9, RowsMarked DEF MarkAsked
  <2>2. ServerTyped' /\ UNCHANGED issued /\ AdminTyped(issued)'
    BY <1>5, <1>9 DEF MarkAsked, ServerTyped, AdminTyped, serverDb
  <2>. QED  BY <1>4, <2>1, <2>2
<1>. QED  BY <1>3, <1>6, <1>7, <1>8, <1>9 DEF AdminStep

(* What remains: Stripe, the tool, and a loss of the server's database.  They   *)
(* issue no key.                                                             *)
LEMMA NothingIssued ==
  ASSUME CloudInv, ServerTyped', StripeTyped', BoundsTyped', HandlersTyped(issued)',
         ToolTyped(issued)', UNCHANGED <<cloudDb, issued, admin>>
  PROVE  CloudInv'
BY DEF CloudInv, DbTyped, AdminTyped, cloudDb

LEMMA StripeKeeps ==
  ASSUME CloudInv, StripeStep
  PROVE  CloudInv'
<1>. /\ ServerTyped /\ StripeTyped /\ BoundsTyped /\ HandlersTyped(issued) /\ ToolTyped(issued)
  BY DEF CloudInv
<1>1. PICK s \in Subs :
        \/ Checkout(s) \/ Pay(s) \/ Cancel(s)
        \/ Change(s, "updated", "active") \/ Change(s, "updated", "past_due")
        \/ Change(s, "payment_failed", "past_due")
  BY DEF StripeStep
<1>2. /\ UNCHANGED <<cloudDb, server, imported, issued, handler, admin, tool, scans>>
      /\ Succeeds \/ \E f \in Faults : Happens(f)
  BY <1>1 DEF Checkout, Pay, Cancel, Change, Send, serverDb, Faults
<1>3. BoundsTyped'
  BY <1>2, FaultsCounted
<1>4. stripe' \in [Subs -> {"none", "offered", "open", "canceled"}] /\ acked' = acked
  BY <1>1 DEF Checkout, Pay, Cancel, Change, Send, StripeTyped
<1>5. pending' \subseteq Events
  BY <1>1, EventMembers DEF Checkout, Pay, Cancel, Change, Send, StripeTyped
<1>6. StripeTyped'
  BY <1>4, <1>5 DEF StripeTyped
<1>7. ServerTyped' /\ HandlersTyped(issued)' /\ ToolTyped(issued)'
  BY <1>2 DEF ServerTyped, HandlersTyped, ToolTyped
<1>. QED  BY <1>2, <1>3, <1>6, <1>7, NothingIssued

LEMMA DeliveryKeeps ==
  ASSUME CloudInv, NEW h \in Handlers, NEW e \in pending \cup acked,
         Deliver(h, e) \/ Redeliver(h, e)
  PROVE  CloudInv'
<1>. /\ ServerTyped /\ StripeTyped /\ BoundsTyped /\ HandlersTyped(issued) /\ ToolTyped(issued)
  BY DEF CloudInv
<1> DEFINE t == [step |-> FirstStep(e.type), event |-> e, key |-> NoKey]
<1>1. /\ UNCHANGED <<cloudDb, server, imported, issued, admin, tool, stripe, pending, acked, scans>>
      /\ Succeeds \/ \E f \in Faults : Happens(f)
      /\ handler' = [handler EXCEPT ![h] = t]
  BY DEF Deliver, Redeliver, Begin, serverDb, stripeSide, Faults
<1>2. e \in Events
  BY DEF StripeTyped
<1>3. /\ FirstStep(e.type) \in HandlerSteps /\ NoKey \in Named(issued)
      /\ ~(FirstStep(e.type) \in {"store_id", "store_key"})
  BY <1>2, EventFacts DEF HandlerSteps, Named
<1>4. HandlerSound(t, issued)
  BY <1>2, <1>3 DEF HandlerSound
<1> HIDE DEF t
<1>5. HandlersTyped(issued)'
  BY <1>1, <1>4, HandlerMoves DEF HandlersTyped
<1>6. BoundsTyped' /\ StripeTyped' /\ ServerTyped' /\ ToolTyped(issued)'
  BY <1>1, FaultsCounted DEF StripeTyped, ServerTyped, ToolTyped
<1>. QED  BY <1>1, <1>5, <1>6, NothingIssued

LEMMA ToolKeeps ==
  ASSUME CloudInv, ToolStep \/ LoseServerDatabase
  PROVE  CloudInv'
<1>. /\ ServerTyped /\ StripeTyped /\ BoundsTyped /\ HandlersTyped(issued) /\ ToolTyped(issued)
     /\ DbTyped(issued)
  BY DEF CloudInv
<1>1. UNCHANGED <<cloudDb, issued, handler, admin, stripe, pending, acked>>
  BY DEF ToolStep, ReadActiveKeys, ImportKey, ImportFails, ToolEnds, ToolStay, LoseServerDatabase,
         stripeSide
<1>2. HandlersTyped(issued)' /\ StripeTyped'
  BY <1>1 DEF HandlersTyped, StripeTyped
<1>3. BoundsTyped'
  <2>1. CASE ReadActiveKeys
    BY <2>1, BillingAssumption DEF ReadActiveKeys, Succeeds, BoundsTyped
  <2>2. CASE ~ReadActiveKeys
    <3>1. UNCHANGED scans /\ (Succeeds \/ \E f \in Faults : Happens(f))
      BY <2>2 DEF ToolStep, ImportKey, ImportFails, ToolEnds, LoseServerDatabase, Fails, Faults
    <3>. QED  BY <3>1, FaultsCounted
  <2>. QED  BY <2>1, <2>2
<1>4. tool.todo \in Seq(Issued(issued)) /\ tool.step \in {"idle", "running"}
  BY DEF ToolTyped
<1>5. ASSUME tool.todo # <<>>
      PROVE  Head(tool.todo) \in Issued(issued) /\ Tail(tool.todo) \in Seq(Issued(issued))
  BY <1>4, <1>5
<1>6. CASE ReadActiveKeys
  <2>1. ActiveKeys \in Seq(KeyRows(issued))
    BY WithoutProperties DEF ActiveKeys, DbTyped
  <2>2. [i \in DOMAIN ActiveKeys |-> ActiveKeys[i].key] \in Seq(Issued(issued))
    <3>1. \A i \in 1..Len(ActiveKeys) : ActiveKeys[i] \in KeyRows(issued)
      BY <2>1
    <3>2. \A i \in 1..Len(ActiveKeys) : ActiveKeys[i].key \in Issued(issued)
      BY <3>1 DEF KeyRows
    <3>3. DOMAIN ActiveKeys = 1..Len(ActiveKeys) /\ Len(ActiveKeys) \in Nat
      BY <2>1
    <3>. QED  BY <3>2, <3>3
  <2>3. ToolTyped(issued)'
    BY <1>1, <1>6, <2>2 DEF ReadActiveKeys, ToolTyped
  <2>4. ServerTyped'
    BY <1>1, <1>6 DEF ReadActiveKeys, ServerTyped
  <2>. QED  BY <1>1, <1>2, <1>3, <2>3, <2>4, NothingIssued
<1>7. CASE ImportKey
  <2>1. ToolTyped(issued)'
    BY <1>1, <1>4, <1>5, <1>7 DEF ImportKey, ToolTyped
  <2>2. ServerTyped'
    <3> DEFINE k == Head(tool.todo)
    <3>1. k \in Issued(issued)
      BY <1>5, <1>7 DEF ImportKey
    <3>2. \/ UNCHANGED <<server, imported>>
          \/ server' = [server EXCEPT ![k] = "valid"] /\ imported' = imported \cup {k}
      BY <1>7 DEF ImportKey
    <3> HIDE DEF k
    <3>3. imported' \subseteq Issued(issued) /\ issued \in Nat
      BY <3>1, <3>2 DEF ServerTyped
    <3>4. \A j \in Keys : j > issued => j # k
      BY <3>1, <3>3 DEF Issued, Keys
    <3>5. server' \in [Keys -> {"none", "valid", "revoked"}]
      BY <3>2 DEF ServerTyped
    <3>6. \A j \in Keys : j > issued => server'[j] = "none"
      BY <3>2, <3>4 DEF ServerTyped
    <3>. QED  BY <1>1, <3>3, <3>5, <3>6 DEF ServerTyped
  <2>. QED  BY <1>1, <1>2, <1>3, <2>1, <2>2, NothingIssued
<1>8. CASE ImportFails
  <2>1. PICK rest \in {<<>>, Tail(tool.todo)} : tool' = [tool EXCEPT !.todo = rest]
    BY <1>8 DEF ImportFails
  <2>2. rest \in Seq(Issued(issued))
    <3>1. tool.todo # <<>> /\ <<>> \in Seq(Issued(issued))
      BY <1>8 DEF ImportFails
    <3>. QED  BY <1>5, <3>1
  <2>3. ToolTyped(issued)' /\ ServerTyped'
    BY <1>1, <1>8, <2>1, <2>2 DEF ImportFails, ToolTyped, ServerTyped
  <2>. QED  BY <1>1, <1>2, <1>3, <2>3, NothingIssued
<1>9. CASE ToolEnds
  <2>1. ToolTyped(issued)' /\ ServerTyped'
    BY <1>1, <1>9 DEF ToolEnds, NoTool, ToolTyped, ServerTyped
  <2>. QED  BY <1>1, <1>2, <1>3, <2>1, NothingIssued
<1>10. CASE LoseServerDatabase
  <2>1. ToolTyped(issued)' /\ ServerTyped'
    BY <1>1, <1>10 DEF LoseServerDatabase, ToolTyped, ServerTyped
  <2>. QED  BY <1>1, <1>2, <1>3, <2>1, NothingIssued
<1>. QED  BY <1>6, <1>7, <1>8, <1>9, <1>10 DEF ToolStep

LEMMA BillingInvariance == Spec => []CloudInv
<1>1. ASSUME CloudInv, Next PROVE CloudInv'
  BY <1>1, StripeKeeps, DeliveryKeeps, CheckoutStep, SubscriptionStep, ProvisionStep, AdminKeeps,
     ToolKeeps DEF Next, HandlerStep
<1>2. ASSUME CloudInv, UNCHANGED vars PROVE CloudInv'
  BY <1>2 DEF CloudInv, vars, cloudDb, serverDb, stripeSide, bounds, DbTyped, ServerTyped,
     HandlersTyped, AdminTyped, ToolTyped, StripeTyped, BoundsTyped
<1>. QED  BY <1>1, <1>2, BillingStart, PTL DEF Spec

(* Every key that a table or a request of the cloud service names is one the   *)
(* server has issued.                                                        *)
THEOREM CloudTypeCorrect == Spec => []CloudTypeOK
<1>1. CloudInv => CloudTypeOK
  <2>. SUFFICES ASSUME CloudInv PROVE CloudTypeOK
    OBVIOUS
  <2>1. handler \in [Handlers -> [step : HandlerSteps, event : Events \cup {NoEvent},
                                  key : Named(issued)]]
    BY DEF CloudInv, HandlersTyped, HandlerSound
  <2>. QED  BY <2>1 DEF CloudTypeOK, CloudInv, ServerTyped, StripeTyped, BoundsTyped, DbTyped,
                      AdminTyped, ToolTyped, HandlerSteps, Named, Issued, KeyRows, Statuses,
                      SubscriptionRows
<1>. QED  BY <1>1, BillingInvariance, PTL

(* No step makes the server accept a key again that it has revoked: a key it    *)
(* issues is new, and the tool writes only keys of which the server knows     *)
(* nothing.                                                                  *)
THEOREM RevokedKeysAreNeverAccepted == Spec => RevocationIsFinal
<1>1. ASSUME CloudInv, [Next]_vars, NEW k \in Keys, server[k] = "revoked"
      PROVE  server'[k] # "valid"
  <2>1. /\ ServerTyped /\ issued + 1 # k
    <3>1. ServerTyped
      BY <1>1 DEF CloudInv
    <3>. QED  BY <1>1, <3>1 DEF ServerTyped, Keys
  <2>2. CASE Issue
    BY <1>1, <2>1, <2>2 DEF Issue, ServerTyped
  <2>3. CASE \E j : RevokeAtServer(j)
    BY <1>1, <2>1, <2>3 DEF RevokeAtServer, ServerTyped
  <2>4. CASE ImportKey
    BY <1>1, <2>1, <2>4 DEF ImportKey, AbsentAtServer, ServerTyped
  <2>5. CASE LoseServerDatabase
    BY <1>1, <2>5 DEF LoseServerDatabase
  <2>6. CASE UNCHANGED server
    BY <1>1, <2>6
  <2>7. \/ Issue \/ (\E j : RevokeAtServer(j)) \/ ImportKey \/ LoseServerDatabase
        \/ UNCHANGED server
    <3>1. CASE UNCHANGED vars
      BY <3>1 DEF vars, serverDb
    <3>2. CASE StripeStep
      BY <3>2 DEF StripeStep, Checkout, Pay, Cancel, Change, Send, serverDb
    <3>3. ASSUME NEW h \in Handlers, HandlerStep(h) PROVE <2>7
      BY <3>3 DEF HandlerStep, UpsertUser, UpsertSubscription, Provision, ProvisionFails, StoreKeyId,
                  StoreKey, SubscriptionUpdated, PaymentFailed, SetStatus, LookupKey, RevokeKey,
                  RevokeKeyFails, MarkKey, ClearSubscription, HandlerFails, serverDb
    <3>4. ASSUME NEW h \in Handlers, NEW e \in pending \cup acked, Deliver(h, e) \/ Redeliver(h, e)
          PROVE  UNCHANGED server
      BY <3>4 DEF Deliver, Redeliver, Begin, serverDb
    <3>5. CASE AdminStep
      BY <3>5 DEF AdminStep, GenerateKey, InsertGenerated, AskToRevoke, RevokeAsked, MarkAsked,
                  serverDb
    <3>6. CASE ToolStep
      BY <3>6 DEF ToolStep, ReadActiveKeys, ImportFails, ToolEnds
    <3>. QED  BY <1>1, <3>1, <3>2, <3>3, <3>4, <3>5, <3>6 DEF Next
  <2>. QED  BY <2>2, <2>3, <2>4, <2>5, <2>6, <2>7
<1>2. CloudInv /\ [Next]_vars =>
        [\A k \in Keys : server[k] = "revoked" => server'[k] # "valid"]_vars
  BY <1>1
<1>. QED  BY <1>2, BillingInvariance, PTL DEF Spec, RevocationIsFinal

-----------------------------------------------------------------------------
(* Billing while nothing fails: where the keys are.                           *)

NothingFailed == spent["failure"] = 0 /\ spent["loss"] = 0

Paid(s)     == Event("checkout", s, "active")
Deletion(s) == Event("deleted", s, "canceled")

CheckoutSteps == {"user", "subscription", "provision", "store_id", "store_key"}
DeletionSteps == {"lookup", "revoke", "mark", "clear"}

Asking(h)   == handler[h].step \in {"user", "subscription", "provision"}
Storing(h)  == handler[h].step \in {"store_id", "store_key"}
Revoking(h) == handler[h].step \in {"revoke", "mark"}
Carrying(h) == Storing(h) \/ Revoking(h)

(* A request handles an event Stripe sent, by the steps for its type; no      *)
(* event waits that was acknowledged, and a deletion is sent only of a       *)
(* subscription that was canceled.                                           *)
HandlerKnown(h) ==
  /\ handler[h].step = "idle" => handler[h] = NoHandler
  /\ handler[h].step # "idle" => handler[h].event \in pending \cup acked
  /\ handler[h].step \in CheckoutSteps <=> handler[h].event.type = "checkout"
  /\ handler[h].step \in DeletionSteps <=> handler[h].event.type = "deleted"

EventsKnown ==
  /\ \A h \in Handlers : HandlerKnown(h)
  /\ pending \cap acked = {}
  /\ \A s \in Subs : Deletion(s) \in pending \cup acked => stripe[s] = "canceled"

(* A request that asks for a key or stores one has written its subscription.  *)
RowExists ==
  \A h \in Handlers :
    handler[h].step \in {"provision", "store_id", "store_key"} =>
      AdminConfigured /\ subscriptions[Sub(h)].status # "none"

(* Each subscription is handled once, and once more for every repetition: the *)
(* keys issued and asked for, and the checkouts not begun yet.               *)
Askers == {h \in Handlers : Asking(h)}
NotBegun == {s \in Subs : Paid(s) \notin acked /\ ~InProgress(Paid(s))}

Total == spent["failure"] + spent["redelivery"] + spent["request"] + spent["change"] + spent["loss"]

KeysCounted ==
  /\ IsFiniteSet(Askers) /\ IsFiniteSet(NotBegun)
  /\ issued + Cardinality(Askers) + Cardinality(NotBegun)
       <= Cardinality(Subs) + spent["redelivery"] + spent["request"]
  /\ Total <= MaxFaults

(* The server has forgotten nothing and imported nothing.                     *)
NothingLost ==
  /\ ~AdminConfigured => issued = 0
  /\ imported = {} /\ \A k \in Issued(issued) : server[k] # "none"

(* A subscription holds the key its row names, and those that its requests    *)
(* store or revoke.                                                          *)
CarriedFor(k, s) == \E h \in Handlers : Carrying(h) /\ Sub(h) = s /\ handler[h].key = k
HeldFor(k, s) == subscriptions[s].api_key_id = k \/ CarriedFor(k, s)

HasRow(k) == \E i \in DOMAIN apiKeys : apiKeys[i].key = k
Inserting(k) == admin.step = "insert" /\ admin.key = k

(* A key is held for one subscription, and by its owner.                      *)
HeldOnce ==
  \A k \in Issued(issued), s \in Subs : HeldFor(k, s) =>
    /\ \A t \in Subs : HeldFor(k, t) => t = s
    /\ \A i \in DOMAIN apiKeys : apiKeys[i].key = k => apiKeys[i].user = Owner[s]
    /\ ~Inserting(k)

(* A key to be stored is stored once.                                        *)
StoredOnce ==
  \A h \in Handlers : Storing(h) =>
    /\ ~HasRow(handler[h].key)
    /\ \A g \in Handlers : Storing(g) /\ handler[g].key = handler[h].key => g = h

RevokedNamed == \A h \in Handlers : Revoking(h) => handler[h].key # NoKey

(* The administrator touches only administrators' keys.                      *)
AdminsOwn ==
  /\ admin.step = "insert" => admin.user \in Admins /\ ~HasRow(admin.key)
  /\ admin.step \in {"revoke", "mark"} =>
       \E i \in DOMAIN apiKeys : apiKeys[i].key = admin.key /\ apiKeys[i].user \in Admins

(* Rows are marked only after the server has revoked the key.                 *)
MarkedAreDead ==
  /\ \A h \in Handlers : handler[h].step = "mark" => server[handler[h].key] # "valid"
  /\ admin.step = "mark" => server[admin.key] # "valid"

(* A key that is recorded, or about to be.                                   *)
Expected(k) ==
  Recorded(k) \/ Inserting(k) \/ \E h \in Handlers : Storing(h) /\ handler[h].key = k

ValidAreExpected == \A k \in Keys : server[k] = "valid" => Expected(k)

ExpectedAreValid ==
  (\A s \in Subs : stripe[s] # "canceled") =>
    \A k \in Keys : Expected(k) => server[k] = "valid" \/ (admin.step = "mark" /\ admin.key = k)

(* A customer who has not canceled: what the subscription holds is valid, its *)
(* key has a row or is about to get it, and it has a key once a checkout was  *)
(* acknowledged.                                                             *)
Served(s) == stripe[s] # "canceled" /\ Owner[s] \notin Admins

OwnRow(k, s) == \E i \in DOMAIN apiKeys : apiKeys[i] = Row(k, Owner[s])
AtStoreKey(k, s) ==
  \E h \in Handlers : handler[h].step = "store_key" /\ handler[h].key = k /\ Sub(h) = s

ServedWell(s) ==
  LET key == subscriptions[s].api_key_id
  IN
  /\ \A k \in Keys : HeldFor(k, s) => server[k] = "valid"
  /\ key # NoKey => OwnRow(key, s) \/ AtStoreKey(key, s)
  /\ \A h \in Handlers : handler[h].step = "store_key" /\ Sub(h) = s => key # NoKey
  /\ AdminConfigured /\ Paid(s) \in acked => key # NoKey

PaidAreServed == \A s \in Subs : Served(s) => ServedWell(s)

(* Who handles what, and how many keys there can be.                          *)
FlowSound == EventsKnown /\ RowExists /\ KeysCounted /\ NothingLost

(* Where each key is, and what is known of it.                                *)
KeysPlaced == HeldOnce /\ StoredOnce /\ RevokedNamed /\ AdminsOwn

KeysInv ==
  KeysPlaced /\ MarkedAreDead /\ ValidAreExpected /\ ExpectedAreValid /\ PaidAreServed

(* After a failure a key may be lost or left over: the handlers log it and go *)
(* on.                                                                       *)
FlowInv == NothingFailed => FlowSound /\ KeysInv

-----------------------------------------------------------------------------
(* What the dispatch on the event type makes of each event of Stripe's.       *)
LEMMA EventKinds ==
  ASSUME NEW e \in Events
  PROVE  /\ e.type = "checkout" => e = Paid(e.sub)
         /\ e.type = "deleted" => e = Deletion(e.sub)
         /\ e.status # "none"
         /\ FirstStep(e.type) \in {"user", "update", "lookup", "past_due"}
         /\ FirstStep(e.type) = "user" <=> e.type = "checkout"
         /\ FirstStep(e.type) = "lookup" <=> e.type = "deleted"
<1>1. PICK s \in Subs :
        e \in {Event("checkout", s, "active"), Event("updated", s, "active"),
               Event("updated", s, "past_due"), Event("payment_failed", s, "past_due"),
               Event("deleted", s, "canceled")}
  BY DEF Events
<1>2. CASE e = Event("checkout", s, "active")
  BY <1>2 DEF Event, FirstStep, Paid
<1>3. CASE e = Event("updated", s, "active") \/ e = Event("updated", s, "past_due")
  BY <1>3 DEF Event, FirstStep
<1>4. CASE e = Event("payment_failed", s, "past_due")
  BY <1>4 DEF Event, FirstStep
<1>5. CASE e = Event("deleted", s, "canceled")
  BY <1>5 DEF Event, FirstStep, Deletion
<1>. QED  BY <1>1, <1>2, <1>3, <1>4, <1>5

(* Every step is paid for by at most one fault.                               *)
LEMMA SpentGrows ==
  ASSUME [Next]_vars
  PROVE  UNCHANGED spent \/ \E f \in Faults : Happens(f)
<1>1. CASE UNCHANGED vars
  BY <1>1 DEF vars, bounds
<1>2. CASE StripeStep
  BY <1>2 DEF StripeStep, Checkout, Pay, Cancel, Change, Succeeds, Faults
<1>3. ASSUME NEW h \in Handlers, HandlerStep(h) PROVE UNCHANGED spent \/ Happens("failure")
  BY <1>3 DEF HandlerStep, UpsertUser, UpsertSubscription, Provision, ProvisionFails, StoreKeyId,
              StoreKey, SubscriptionUpdated, PaymentFailed, LookupKey, RevokeKey,
              RevokeKeyFails, MarkKey, ClearSubscription, HandlerFails, Succeeds, Fails
<1>4. ASSUME NEW h \in Handlers, NEW e \in pending \cup acked, Deliver(h, e) \/ Redeliver(h, e)
      PROVE  UNCHANGED spent \/ Happens("redelivery")
  BY <1>4 DEF Deliver, Redeliver, Succeeds
<1>5. CASE AdminStep
  BY <1>5 DEF AdminStep, GenerateKey, InsertGenerated, AskToRevoke, RevokeAsked, MarkAsked,
              Succeeds, Fails, Faults
<1>6. CASE ToolStep \/ LoseServerDatabase
  BY <1>6 DEF ToolStep, ReadActiveKeys, ImportKey, ImportFails, ToolEnds, LoseServerDatabase,
              Succeeds, Fails, Faults
<1>. QED  BY <1>1, <1>2, <1>3, <1>4, <1>5, <1>6 DEF Next, Faults

(* While nothing has failed, nothing fails.                                   *)
LEMMA NothingFailsNow ==
  ASSUME CloudInv, [Next]_vars, NothingFailed'
  PROVE  NothingFailed /\ ~Fails /\ ~LoseServerDatabase
<1>1. \A f \in Faults : spent[f] \in Nat
  BY BillingAssumption DEF CloudInv, BoundsTyped
<1>2. /\ "failure" \in Faults /\ "loss" \in Faults
      /\ spent["failure"] \in Nat /\ spent["loss"] \in Nat
      /\ DOMAIN spent = Faults
  BY <1>1 DEF Faults, CloudInv, BoundsTyped
<1>3. ASSUME NEW f \in Faults, Happens(f)
      PROVE  f \notin {"failure", "loss"} /\ NothingFailed
  <2>1. spent' = [spent EXCEPT ![f] = @ + 1]
    BY <1>3 DEF Happens
  <2>2. spent'["failure"] = 0 /\ spent'["loss"] = 0
    BY DEF NothingFailed
  <2>3. f \notin {"failure", "loss"}
    BY <1>2, <2>1, <2>2
  <2>. QED  BY <1>2, <2>1, <2>2, <2>3 DEF NothingFailed
<1>4. NothingFailed
  BY <1>3, SpentGrows DEF NothingFailed
<1>. QED  BY <1>2, <1>3, <1>4 DEF Fails, LoseServerDatabase

(* A request is elsewhere, or is answered; the others are where they were.    *)
Now(h, step, k) ==
  /\ \A g \in Handlers : g # h => handler'[g] = handler[g]
  /\ handler'[h].step = step /\ handler'[h].key = k /\ handler'[h].event = handler[h].event

Over(h) ==
  /\ \A g \in Handlers : g # h => handler'[g] = handler[g]
  /\ handler'[h] = NoHandler

(* A webhook request goes on, or is answered with a 200.                      *)
LEMMA HandlerGoes ==
  ASSUME CloudInv, NEW h \in Handlers
  PROVE  /\ \A step, k : Goto(h, step, k) => Now(h, step, k)
         /\ Acknowledge(h) => Over(h)
<1>1. /\ handler = [g \in Handlers |-> handler[g]]
      /\ handler[h] \in [step : HandlerSteps, event : Events \cup {NoEvent}, key : Named(issued)]
  BY DEF CloudInv, HandlersTyped, HandlerSound
<1>2. ASSUME NEW step, NEW k, Goto(h, step, k) PROVE Now(h, step, k)
  BY <1>1, <1>2 DEF Goto, Now
<1>3. ASSUME Acknowledge(h) PROVE Over(h)
  BY <1>1, <1>3 DEF Acknowledge, Over
<1>. QED  BY <1>2, <1>3

(* A webhook request in progress has an event, and the event a customer.      *)
LEMMA BusyHandler ==
  ASSUME CloudInv, NEW h \in Handlers, handler[h].step # "idle"
  PROVE  /\ handler[h].event \in Events /\ Sub(h) \in Subs /\ Owner[Sub(h)] \in Users
         /\ handler[h].key \in Named(issued)
BY EventFacts, BillingAssumption DEF CloudInv, HandlersTyped, HandlerSound, Sub

(* The steps of the webhook's handlers, by what they leave to be done.        *)
MovesOn(a, b) ==
  \/ a = "user" /\ b = "subscription"
  \/ a = "subscription" /\ b = "provision" /\ AdminConfigured
  \/ a = "provision" /\ b = "store_id"
  \/ a = "store_id" /\ b = "store_key"
  \/ a = "lookup" /\ b \in {"revoke", "clear"}
  \/ a = "revoke" /\ b = "mark"
  \/ a = "mark" /\ b = "clear"

AnsweredAt(a) ==
  \/ a \in {"store_key", "update", "past_due", "clear"}
  \/ a = "subscription" /\ ~AdminConfigured

(* A step of a webhook request that does not fail goes on to the next step    *)
(* with its event, or acknowledges it; only the provisioning call issues a    *)
(* key.                                                                       *)
LEMMA HandlerForms ==
  ASSUME CloudInv, NEW h \in Handlers, HandlerStep(h), ~Fails
  PROVE  /\ handler[h].step # "idle" /\ UNCHANGED <<admin, imported, spent>>
         /\ \/ AnsweredAt(handler[h].step) /\ Acknowledge(h) /\ Over(h)
            \/ /\ UNCHANGED stripeSide
               /\ \E step, k : MovesOn(handler[h].step, step) /\ Now(h, step, k)
         /\ handler[h].step # "provision" => UNCHANGED issued
<1>1. CASE UpsertUser(h)
  <2>1. Now(h, "subscription", NoKey)
    BY <1>1, HandlerGoes DEF UpsertUser
  <2>. QED  BY <1>1, <2>1 DEF UpsertUser, At, Stay, MovesOn, serverDb, Succeeds
<1>2. CASE UpsertSubscription(h)
  <2>1. CASE AdminConfigured
    <3>1. Now(h, "provision", NoKey)
      BY <1>2, <2>1, HandlerGoes DEF UpsertSubscription
    <3>. QED  BY <1>2, <2>1, <3>1 DEF UpsertSubscription, At, Stay, MovesOn, serverDb, Succeeds
  <2>2. CASE ~AdminConfigured
    <3>1. Over(h)
      BY <1>2, <2>2, HandlerGoes DEF UpsertSubscription
    <3>. QED  BY <1>2, <2>2, <3>1 DEF UpsertSubscription, At, Stay, AnsweredAt, serverDb, Succeeds
  <2>. QED  BY <2>1, <2>2
<1>3. CASE Provision(h)
  <2>1. Now(h, "store_id", issued + 1)
    BY <1>3, HandlerGoes DEF Provision
  <2>. QED  BY <1>3, <2>1 DEF Provision, At, Stay, MovesOn, Succeeds
<1>4. CASE StoreKeyId(h)
  <2>1. Now(h, "store_key", handler[h].key)
    BY <1>4, HandlerGoes DEF StoreKeyId
  <2>. QED  BY <1>4, <2>1 DEF StoreKeyId, At, Stay, MovesOn, serverDb, Succeeds
<1>5. CASE StoreKey(h)
  <2>1. Over(h)
    BY <1>5, HandlerGoes DEF StoreKey
  <2>. QED  BY <1>5, <2>1 DEF StoreKey, At, Stay, AnsweredAt, serverDb, Succeeds
<1>6. CASE SubscriptionUpdated(h) \/ PaymentFailed(h)
  <2>1. Over(h)
    BY <1>6, HandlerGoes DEF SubscriptionUpdated, PaymentFailed, SetStatus
  <2>. QED  BY <1>6, <2>1 DEF SubscriptionUpdated, PaymentFailed, SetStatus, At, Stay, AnsweredAt,
                              serverDb, Succeeds
<1>7. CASE LookupKey(h)
  <2>1. \E step \in {"revoke", "clear"} : Goto(h, step, subscriptions[Sub(h)].api_key_id)
    BY <1>7 DEF LookupKey
  <2>2. \E step \in {"revoke", "clear"} : Now(h, step, subscriptions[Sub(h)].api_key_id)
    BY <2>1, HandlerGoes
  <2>. QED  BY <1>7, <2>2 DEF LookupKey, At, Stay, MovesOn, serverDb, Succeeds
<1>8. CASE RevokeKey(h)
  <2>1. Now(h, "mark", handler[h].key)
    BY <1>8, HandlerGoes DEF RevokeKey
  <2>. QED  BY <1>8, <2>1 DEF RevokeKey, At, Stay, MovesOn, Succeeds
<1>9. CASE MarkKey(h)
  <2>1. Now(h, "clear", handler[h].key)
    BY <1>9, HandlerGoes DEF MarkKey
  <2>. QED  BY <1>9, <2>1 DEF MarkKey, At, Stay, MovesOn, serverDb, Succeeds
<1>10. CASE ClearSubscription(h)
  <2>1. Over(h)
    BY <1>10, HandlerGoes DEF ClearSubscription
  <2>. QED  BY <1>10, <2>1 DEF ClearSubscription, At, Stay, AnsweredAt, serverDb, Succeeds
<1>11. ~ProvisionFails(h) /\ ~RevokeKeyFails(h) /\ ~HandlerFails(h)
  BY DEF ProvisionFails, RevokeKeyFails, HandlerFails
<1>. QED
  BY <1>1, <1>2, <1>3, <1>4, <1>5, <1>6, <1>7, <1>8, <1>9, <1>10, <1>11 DEF HandlerStep

(* What Stripe, the administrator and the tool leave alone.                   *)
LEMMA OthersForms ==
  /\ StripeStep => UNCHANGED <<cloudDb, serverDb, handler, admin, tool>>
  /\ AdminStep => UNCHANGED <<handler, stripeSide, users, subscriptions, imported>>
  /\ ToolStep => UNCHANGED <<cloudDb, issued, handler, admin, stripeSide, spent>> \/ Fails
<1>1. StripeStep => UNCHANGED <<cloudDb, serverDb, handler, admin, tool>>
  BY DEF StripeStep, Checkout, Pay, Cancel, Change, Send
<1>2. AdminStep => UNCHANGED <<handler, stripeSide, users, subscriptions, imported>>
  BY DEF AdminStep, GenerateKey, InsertGenerated, AskToRevoke, RevokeAsked, MarkAsked, AdminStay,
         cloudDb, serverDb
<1>3. ToolStep => UNCHANGED <<cloudDb, issued, handler, admin, stripeSide, spent>> \/ Fails
  BY DEF ToolStep, ReadActiveKeys, ImportKey, ImportFails, ToolEnds, ToolStay, Succeeds
<1>. QED  BY <1>1, <1>2, <1>3

(* A request begins.                                                          *)
LEMMA DeliveryForms ==
  ASSUME CloudInv, NEW h \in Handlers, NEW e \in pending \cup acked,
         Deliver(h, e) \/ Redeliver(h, e)
  PROVE  /\ e \in Events /\ handler[h].step = "idle"
         /\ \A g \in Handlers : g # h => handler'[g] = handler[g]
         /\ handler'[h] = [step |-> FirstStep(e.type), event |-> e, key |-> NoKey]
         /\ UNCHANGED <<cloudDb, serverDb, admin, stripeSide>>
<1>1. handler = [g \in Handlers |-> handler[g]] /\ pending \subseteq Events /\ acked \subseteq Events
  BY DEF CloudInv, HandlersTyped, StripeTyped
<1>. QED  BY <1>1 DEF Deliver, Redeliver, Begin

-----------------------------------------------------------------------------
(* Who handles what.                                                          *)

(* Stripe sends an event only of what has happened, and a cancellation is     *)
(* final.                                                                     *)
LEMMA StripeSends ==
  ASSUME CloudInv, StripeStep, pending \cap acked = {},
         \A s \in Subs : Deletion(s) \in pending \cup acked => stripe[s] = "canceled"
  PROVE  /\ pending \subseteq pending' /\ acked' = acked /\ pending' \cap acked' = {}
         /\ \A s \in Subs : stripe[s] = "canceled" => stripe'[s] = "canceled"
         /\ \A s \in Subs : Deletion(s) \in pending' \cup acked' => stripe'[s] = "canceled"
<1>0. stripe \in [Subs -> {"none", "offered", "open", "canceled"}]
  BY DEF CloudInv, StripeTyped
<1>1. PICK s \in Subs :
        \/ Checkout(s) \/ Pay(s) \/ Cancel(s)
        \/ Change(s, "updated", "active") \/ Change(s, "updated", "past_due")
        \/ Change(s, "payment_failed", "past_due")
  BY DEF StripeStep
<1>2. CASE Checkout(s)
  BY <1>0, <1>2 DEF Checkout
<1>3. ASSUME NEW type, NEW status, type # "deleted", Send(Event(type, s, status)),
             \/ stripe' = stripe
             \/ stripe[s] # "canceled" /\ \E x : stripe' = [stripe EXCEPT ![s] = x]
      PROVE  /\ pending \subseteq pending' /\ acked' = acked /\ pending' \cap acked' = {}
             /\ \A t \in Subs : stripe[t] = "canceled" => stripe'[t] = "canceled"
             /\ \A t \in Subs : Deletion(t) \in pending' \cup acked' => stripe'[t] = "canceled"
  <2>1. \A t \in Subs : Deletion(t) # Event(type, s, status)
    BY <1>3 DEF Deletion, Event
  <2>2. \A t \in Subs : stripe[t] = "canceled" => stripe'[t] = "canceled"
    BY <1>0, <1>3
  <2>3. /\ pending' = pending \cup {Event(type, s, status)} /\ acked' = acked
        /\ pending' \cap acked' = {}
    BY <1>3 DEF Send
  <2>. QED  BY <2>1, <2>2, <2>3
<1>4. CASE Pay(s)
  BY <1>3, <1>4 DEF Pay
<1>5. CASE \/ Change(s, "updated", "active") \/ Change(s, "updated", "past_due")
           \/ Change(s, "payment_failed", "past_due")
  BY <1>3, <1>5 DEF Change
<1>6. CASE Cancel(s)
  <2>1. \A t \in Subs : Deletion(t) = Deletion(s) => t = s
    BY DEF Deletion, Event
  <2>2. /\ pending' = pending \cup {Deletion(s)} /\ acked' = acked /\ pending' \cap acked' = {}
        /\ stripe' = [stripe EXCEPT ![s] = "canceled"]
    BY <1>6 DEF Cancel, Send, Deletion
  <2>. QED  BY <1>0, <2>1, <2>2
<1>. QED  BY <1>1, <1>2, <1>4, <1>5, <1>6

(* A request goes on with the steps its event's type has, until the event is  *)
(* acknowledged.                                                              *)
LEMMA EventsStep ==
  ASSUME CloudInv, EventsKnown, [Next]_vars, ~Fails, ~LoseServerDatabase
  PROVE  EventsKnown'
<1>0. ASSUME UNCHANGED handler, acked' = acked, pending \subseteq pending',
             pending' \cap acked' = {},
             \A s \in Subs : Deletion(s) \in pending' \cup acked' => stripe'[s] = "canceled"
      PROVE  EventsKnown'
  BY <1>0 DEF EventsKnown, HandlerKnown
<1>1. ASSUME UNCHANGED <<handler, stripe, pending, acked>> PROVE EventsKnown'
  BY <1>0, <1>1 DEF EventsKnown
<1>2. CASE StripeStep
  BY <1>0, <1>2, StripeSends, OthersForms DEF EventsKnown
<1>3. ASSUME NEW h \in Handlers, HandlerStep(h) PROVE EventsKnown'
  <2>1. HandlerKnown(h) /\ handler[h].step # "idle"
    BY <1>3, HandlerForms DEF EventsKnown
  <2>2. CASE AnsweredAt(handler[h].step) /\ Acknowledge(h) /\ Over(h)
    <3>1. /\ pending' \cup acked' = pending \cup acked /\ UNCHANGED stripe
          /\ pending' \cap acked' = {}
      BY <2>1, <2>2 DEF Acknowledge, HandlerKnown, EventsKnown
    <3>2. HandlerKnown(h)'
      BY <2>2 DEF Over, HandlerKnown, NoHandler, NoEvent, Event, CheckoutSteps, DeletionSteps
    <3>3. ASSUME NEW g \in Handlers, g # h PROVE HandlerKnown(g)'
      <4>1. handler'[g] = handler[g] /\ HandlerKnown(g)
        BY <2>2, <3>3 DEF Over, EventsKnown
      <4>. QED  BY <3>1, <4>1 DEF HandlerKnown
    <3>. QED  BY <3>1, <3>2, <3>3 DEF EventsKnown
  <2>3. ASSUME UNCHANGED stripeSide, NEW step, NEW k, MovesOn(handler[h].step, step),
               Now(h, step, k)
        PROVE  EventsKnown'
    <3>1. UNCHANGED <<stripe, pending, acked>>
      BY <2>3 DEF stripeSide
    <3>2. HandlerKnown(h)'
      <4>1. /\ step # "idle"
            /\ step \in CheckoutSteps <=> handler[h].step \in CheckoutSteps
            /\ step \in DeletionSteps <=> handler[h].step \in DeletionSteps
        BY <2>3 DEF MovesOn, CheckoutSteps, DeletionSteps
      <4>. QED  BY <2>1, <2>3, <3>1, <4>1 DEF Now, HandlerKnown
    <3>3. ASSUME NEW g \in Handlers, g # h PROVE HandlerKnown(g)'
      <4>1. handler'[g] = handler[g] /\ HandlerKnown(g)
        BY <2>3, <3>3 DEF Now, EventsKnown
      <4>. QED  BY <3>1, <4>1 DEF HandlerKnown
    <3>. QED  BY <3>1, <3>2, <3>3 DEF EventsKnown
  <2>. QED  BY <1>3, <2>2, <2>3, HandlerForms
<1>4. ASSUME NEW h \in Handlers, NEW e \in pending \cup acked, Deliver(h, e) \/ Redeliver(h, e)
      PROVE  EventsKnown'
  <2>1. /\ e \in Events /\ \A g \in Handlers : g # h => handler'[g] = handler[g]
        /\ handler'[h] = [step |-> FirstStep(e.type), event |-> e, key |-> NoKey]
        /\ UNCHANGED <<stripe, pending, acked>>
    BY <1>4, DeliveryForms DEF stripeSide
  <2>2. HandlerKnown(h)'
    BY <2>1, EventKinds DEF HandlerKnown, CheckoutSteps, DeletionSteps
  <2>3. ASSUME NEW g \in Handlers, g # h PROVE HandlerKnown(g)'
    <3>1. handler'[g] = handler[g] /\ HandlerKnown(g)
      BY <2>1, <2>3 DEF EventsKnown
    <3>. QED  BY <2>1, <3>1 DEF HandlerKnown
  <2>. QED  BY <2>1, <2>2, <2>3 DEF EventsKnown
<1>5. CASE AdminStep \/ ToolStep \/ UNCHANGED vars
  BY <1>1, <1>5, OthersForms DEF vars, stripeSide
<1>. QED  BY <1>2, <1>3, <1>4, <1>5 DEF Next

(* A subscription's row is never deleted.                                     *)
LEMMA RowsStay ==
  ASSUME CloudInv, [Next]_vars, NEW s \in Subs, subscriptions[s].status # "none"
  PROVE  subscriptions'[s].status # "none"
<1>0. subscriptions \in [Subs -> SubscriptionRows(issued)]
  BY DEF CloudInv, DbTyped
<1>1. ASSUME NEW h \in Handlers, HandlerStep(h) PROVE subscriptions'[s].status # "none"
  <2>1. /\ handler[h].step # "idle" => handler[h].event.status # "none"
        /\ \A t \in Subs : subscriptions[t] \in SubscriptionRows(issued)
    BY <1>0, BusyHandler, EventKinds
  <2>2. CASE \E row : /\ row.status # "none"
                      /\ subscriptions' = [subscriptions EXCEPT ![Sub(h)] = row]
    BY <1>0, <2>2
  <2>3. ASSUME NEW x, x # "none", subscriptions' = [subscriptions EXCEPT ![Sub(h)].status = x]
        PROVE  subscriptions'[s].status # "none"
    BY <1>0, <2>3 DEF SubscriptionRows
  <2>4. ASSUME NEW x, subscriptions' = [subscriptions EXCEPT ![Sub(h)].api_key_id = x]
        PROVE  subscriptions'[s].status # "none"
    BY <1>0, <2>4 DEF SubscriptionRows
  <2>5. CASE UpsertSubscription(h)
    BY <2>3, <2>5 DEF UpsertSubscription
  <2>6. CASE StoreKeyId(h)
    BY <2>4, <2>6 DEF StoreKeyId
  <2>7. CASE SubscriptionUpdated(h)
    BY <2>1, <2>3, <2>7 DEF SubscriptionUpdated, SetStatus, At
  <2>8. CASE PaymentFailed(h)
    BY <2>3, <2>8 DEF PaymentFailed, SetStatus
  <2>9. CASE ClearSubscription(h)
    <3>1. \/ subscriptions' = subscriptions
          \/ subscriptions' =
               [subscriptions EXCEPT ![Sub(h)] = [status |-> "canceled", api_key_id |-> NoKey]]
      BY <2>9 DEF ClearSubscription
    <3>. QED  BY <1>0, <3>1
  <2>10. UNCHANGED subscriptions \/ UpsertSubscription(h) \/ StoreKeyId(h) \/ SubscriptionUpdated(h)
         \/ PaymentFailed(h) \/ ClearSubscription(h)
    BY <1>1 DEF HandlerStep, UpsertUser, Provision, ProvisionFails, StoreKey, LookupKey, RevokeKey,
                RevokeKeyFails, MarkKey, HandlerFails, cloudDb
  <2>. QED  BY <2>5, <2>6, <2>7, <2>8, <2>9, <2>10
<1>2. ASSUME NEW h \in Handlers, NEW e \in pending \cup acked, Deliver(h, e) \/ Redeliver(h, e)
      PROVE  UNCHANGED subscriptions
  BY <1>2, DeliveryForms DEF cloudDb
<1>3. CASE StripeStep \/ AdminStep \/ ToolStep \/ LoseServerDatabase \/ UNCHANGED vars
  <2>1. UNCHANGED subscriptions
    BY <1>3, OthersForms DEF vars, cloudDb, LoseServerDatabase, ToolStep, ImportFails, ReadActiveKeys,
                             ImportKey, ToolEnds, ToolStay
  <2>. QED  BY <2>1
<1>. QED  BY <1>1, <1>2, <1>3 DEF Next

(* The subscription's row is written before the key is asked for, and stays.  *)
LEMMA RowsExistStep ==
  ASSUME CloudInv, RowExists, [Next]_vars, ~Fails, ~LoseServerDatabase
  PROVE  RowExists'
<1>. DEFINE Writing(t) == t.step \in {"provision", "store_id", "store_key"}
            Exists(t) == AdminConfigured /\ subscriptions[t.event.sub].status # "none"
<1>0. ASSUME NEW g \in Handlers, handler'[g] = handler[g], Writing(handler[g])
      PROVE  AdminConfigured /\ subscriptions'[Sub(g)'].status # "none"
  <2>1. handler[g].step # "idle"
    BY <1>0
  <2>2. Sub(g) \in Subs
    BY <2>1, BusyHandler
  <2>3. AdminConfigured /\ subscriptions[Sub(g)].status # "none"
    BY <1>0 DEF RowExists
  <2>4. subscriptions'[Sub(g)].status # "none"
    BY <2>2, <2>3, RowsStay
  <2>. QED  BY <1>0, <2>3, <2>4 DEF Sub
<1>1. ASSUME UNCHANGED handler PROVE RowExists'
  BY <1>0, <1>1 DEF RowExists
<1>2. ASSUME NEW h \in Handlers, HandlerStep(h) PROVE RowExists'
  <2>1. handler[h].step # "idle" /\ Sub(h) \in Subs
    BY <1>2, HandlerForms, BusyHandler
  <2>2. CASE Over(h)
    BY <1>0, <2>2 DEF Over, NoHandler, RowExists
  <2>3. ASSUME NEW step, NEW k, MovesOn(handler[h].step, step), Now(h, step, k)
        PROVE  RowExists'
    <3>1. ASSUME step \in {"provision", "store_id", "store_key"}
          PROVE  AdminConfigured /\ subscriptions'[Sub(h)].status # "none"
      <4>1. CASE handler[h].step = "subscription"
        <5>1. UpsertSubscription(h)
          BY <1>2, <4>1 DEF HandlerStep, UpsertUser, Provision, ProvisionFails, StoreKeyId, StoreKey,
                            SubscriptionUpdated, PaymentFailed, LookupKey, RevokeKey,
                            RevokeKeyFails, MarkKey, ClearSubscription, HandlerFails, At
        <5>2. subscriptions' = [subscriptions EXCEPT ![Sub(h)].status = "active"]
          BY <5>1 DEF UpsertSubscription
        <5>3. subscriptions'[Sub(h)].status = "active"
          BY <2>1, <5>2 DEF CloudInv, DbTyped, SubscriptionRows
        <5>. QED  BY <2>3, <4>1, <5>3 DEF MovesOn
      <4>2. CASE handler[h].step \in {"provision", "store_id"}
        BY <2>1, <4>2, RowsStay DEF RowExists
      <4>. QED  BY <2>3, <3>1, <4>1, <4>2 DEF MovesOn
    <3>2. Sub(h)' = Sub(h) /\ handler'[h].step = step
      BY <2>3 DEF Now, Sub
    <3>. QED  BY <1>0, <2>3, <3>1, <3>2 DEF Now, RowExists
  <2>. QED  BY <1>2, <2>2, <2>3, HandlerForms
<1>3. ASSUME NEW h \in Handlers, NEW e \in pending \cup acked, Deliver(h, e) \/ Redeliver(h, e)
      PROVE  RowExists'
  <2>0. handler'[h] = [step |-> FirstStep(e.type), event |-> e, key |-> NoKey]
    BY <1>3, DeliveryForms
  <2>1. /\ e \in Events /\ \A g \in Handlers : g # h => handler'[g] = handler[g]
        /\ handler'[h].step = FirstStep(e.type)
    BY <1>3, <2>0, DeliveryForms
  <2>2. ~Writing(handler'[h])
    BY <2>1, EventKinds
  <2>. QED  BY <1>0, <2>1, <2>2 DEF RowExists
<1>4. CASE StripeStep \/ AdminStep \/ ToolStep \/ UNCHANGED vars
  BY <1>1, <1>4, OthersForms DEF vars
<1>. QED  BY <1>2, <1>3, <1>4 DEF Next

-----------------------------------------------------------------------------
(* How many keys there can be.                                                *)

(* What is counted are numbers.                                               *)
LEMMA BillingFacts ==
  ASSUME CloudInv
  PROVE  /\ issued \in Nat /\ Cardinality(Subs) \in Nat /\ MaxFaults \in Nat
         /\ \A f \in Faults : spent[f] \in Nat
         /\ spent["failure"] \in Nat /\ spent["redelivery"] \in Nat /\ spent["request"] \in Nat
         /\ spent["change"] \in Nat /\ spent["loss"] \in Nat
<1>1. \A f \in Faults : spent[f] \in Nat
  BY BillingAssumption DEF CloudInv, BoundsTyped
<1>2. Cardinality(Subs) \in Nat
  BY BillingAssumption, FS_CardinalityType
<1>. QED  BY <1>1, <1>2, BillingAssumption DEF CloudInv, ServerTyped, Faults

(* A fault adds one to the total, and what it is counted for.                 *)
LEMMA TotalCounted ==
  ASSUME CloudInv, NEW f \in Faults, Happens(f)
  PROVE  /\ Total < MaxFaults /\ Total' = Total + 1
         /\ spent["redelivery"]' = spent["redelivery"] + IF f = "redelivery" THEN 1 ELSE 0
         /\ spent["request"]' = spent["request"] + IF f = "request" THEN 1 ELSE 0
<1>1. DOMAIN spent = Faults /\ spent' = [spent EXCEPT ![f] = @ + 1] /\ Total < MaxFaults
  BY DEF CloudInv, BoundsTyped, Happens, Total
<1>2. ASSUME NEW g \in Faults PROVE spent'[g] = spent[g] + IF g = f THEN 1 ELSE 0
  BY <1>1, BillingFacts
<1>3. /\ spent'["failure"] = spent["failure"] + IF f = "failure" THEN 1 ELSE 0
      /\ spent'["redelivery"] = spent["redelivery"] + IF f = "redelivery" THEN 1 ELSE 0
      /\ spent'["request"] = spent["request"] + IF f = "request" THEN 1 ELSE 0
      /\ spent'["change"] = spent["change"] + IF f = "change" THEN 1 ELSE 0
      /\ spent'["loss"] = spent["loss"] + IF f = "loss" THEN 1 ELSE 0
  BY <1>2 DEF Faults
<1>4. Total' = Total + 1
  <2>. DEFINE a == spent["failure"]  b == spent["redelivery"]  c == spent["request"]
              d == spent["change"]  e == spent["loss"]
              x == spent'["failure"]  y == spent'["redelivery"]  z == spent'["request"]
              u == spent'["change"]  v == spent'["loss"]
  <2>1. a \in Nat /\ b \in Nat /\ c \in Nat /\ d \in Nat /\ e \in Nat
    BY BillingFacts
  <2>2. /\ x = a + (IF f = "failure" THEN 1 ELSE 0)
        /\ y = b + (IF f = "redelivery" THEN 1 ELSE 0)
        /\ z = c + (IF f = "request" THEN 1 ELSE 0)
        /\ u = d + (IF f = "change" THEN 1 ELSE 0)
        /\ v = e + (IF f = "loss" THEN 1 ELSE 0)
    BY <1>3
  <2>3. Total = a + b + c + d + e /\ Total' = x + y + z + u + v
    BY DEF Total
  <2>. HIDE DEF a, b, c, d, e, x, y, z, u, v
  <2>4. f \in {"failure", "redelivery", "request", "change", "loss"}
    BY DEF Faults
  <2>5. x + y + z + u + v = a + b + c + d + e + 1
    BY <2>1, <2>2, <2>4
  <2>. QED  BY <2>3, <2>5
<1>. QED  BY <1>1, <1>3, <1>4

(* Fewer requests ask, and fewer checkouts have not begun.                    *)
LEMMA CountKept ==
  ASSUME CloudInv, KeysCounted, Askers' \subseteq Askers, NotBegun' \subseteq NotBegun,
         UNCHANGED issued, UNCHANGED spent \/ \E f \in Faults : Happens(f)
  PROVE  KeysCounted'
<1>1. /\ IsFiniteSet(Askers') /\ Cardinality(Askers') <= Cardinality(Askers)
      /\ IsFiniteSet(NotBegun') /\ Cardinality(NotBegun') <= Cardinality(NotBegun)
  BY FS_Subset DEF KeysCounted
<1>2. /\ Cardinality(Askers) \in Nat /\ Cardinality(NotBegun) \in Nat
      /\ Cardinality(Askers') \in Nat /\ Cardinality(NotBegun') \in Nat
  BY <1>1, FS_CardinalityType DEF KeysCounted
<1>3. /\ Total' <= MaxFaults
      /\ spent["redelivery"]' + spent["request"]' >= spent["redelivery"] + spent["request"]
      /\ spent["redelivery"]' \in Nat /\ spent["request"]' \in Nat
  <2>1. CASE UNCHANGED spent
    BY <2>1, BillingFacts DEF Total, KeysCounted
  <2>2. ASSUME NEW f \in Faults, Happens(f) 
        PROVE  /\ Total' <= MaxFaults
               /\ spent["redelivery"]' + spent["request"]' >= spent["redelivery"] + spent["request"]
               /\ spent["redelivery"]' \in Nat /\ spent["request"]' \in Nat
    <3>1. Total \in Int
      BY BillingFacts DEF Total
    <3>. QED  BY <2>2, <3>1, TotalCounted, BillingFacts
  <2>. QED  BY <2>1, <2>2
<1>4. issued + Cardinality(Askers) + Cardinality(NotBegun)
        <= Cardinality(Subs) + spent["redelivery"] + spent["request"]
  BY DEF KeysCounted
<1>5. issued' + Cardinality(Askers') + Cardinality(NotBegun')
        <= Cardinality(Subs) + spent["redelivery"]' + spent["request"]'
  BY <1>1, <1>2, <1>3, <1>4, BillingFacts
<1>6. IsFiniteSet(Askers)' /\ IsFiniteSet(NotBegun)'
  BY <1>1
<1>. QED  BY <1>3, <1>5, <1>6 DEF KeysCounted

(* The requests that ask, when one of them has moved.                         *)
LEMMA AskersMove ==
  ASSUME NEW h \in Handlers, \A g \in Handlers : g # h => handler'[g] = handler[g]
  PROVE  /\ Askers' \subseteq Askers \cup {h}
         /\ ~Asking(h)' => Askers' = Askers \ {h}
BY DEF Askers, Asking

(* A request under way goes on with its event, or its event is acknowledged.  *)
LEMMA NotBegunKept ==
  ASSUME CloudInv, NEW h \in Handlers, \A g \in Handlers : g # h => handler'[g] = handler[g],
         acked \subseteq acked',
         handler'[h].event = handler[h].event \/ handler[h].event \in acked'
           \/ handler[h] = NoHandler
  PROVE  NotBegun' \subseteq NotBegun
<1>. SUFFICES ASSUME NEW s \in Subs, Paid(s) \notin acked', ~InProgress(Paid(s))'
              PROVE  Paid(s) \notin acked /\ ~InProgress(Paid(s))
  BY DEF NotBegun
<1>1. \A g \in Handlers : handler'[g].event # Paid(s)
  BY DEF InProgress, Paid, Event
<1>2. handler[h].event # Paid(s)
  BY <1>1 DEF NoHandler, NoEvent, Event, Paid
<1>3. \A g \in Handlers : handler[g].event # Paid(s)
  BY <1>1, <1>2
<1>. QED  BY <1>3 DEF InProgress

(* The server issues a key to a request that asked.                           *)
LEMMA ProvisionCounted ==
  ASSUME CloudInv, KeysCounted, NEW h \in Handlers, Provision(h)
  PROVE  KeysCounted'
<1>1. Now(h, "store_id", issued + 1) /\ issued' = issued + 1 /\ UNCHANGED <<acked, spent>>
  BY HandlerGoes DEF Provision, Issue, stripeSide, Succeeds
<1>2. h \in Askers /\ Askers' = Askers \ {h}
  BY <1>1, AskersMove DEF Askers, Asking, Provision, At, Now
<1>3. NotBegun' \subseteq NotBegun
  BY <1>1, NotBegunKept DEF Now
<1>4. /\ IsFiniteSet(Askers') /\ Cardinality(Askers') = Cardinality(Askers) - 1
      /\ IsFiniteSet(NotBegun') /\ Cardinality(NotBegun') <= Cardinality(NotBegun)
  BY <1>2, <1>3, FS_RemoveElement, FS_Subset DEF KeysCounted
<1>5. /\ Cardinality(Askers) \in Nat /\ Cardinality(NotBegun) \in Nat
      /\ Cardinality(Askers') \in Nat /\ Cardinality(NotBegun') \in Nat
  BY <1>4, FS_CardinalityType DEF KeysCounted
<1>6. Total' = Total /\ spent["redelivery"]' = spent["redelivery"]
      /\ spent["request"]' = spent["request"]
  BY <1>1 DEF Total
<1>7. issued + Cardinality(Askers) + Cardinality(NotBegun)
        <= Cardinality(Subs) + spent["redelivery"] + spent["request"]
  BY DEF KeysCounted
<1>8. issued' + Cardinality(Askers') + Cardinality(NotBegun')
        <= Cardinality(Subs) + spent["redelivery"]' + spent["request"]'
  BY <1>1, <1>4, <1>5, <1>6, <1>7, BillingFacts
<1>9. IsFiniteSet(Askers)' /\ IsFiniteSet(NotBegun)'
  BY <1>4
<1>. QED  BY <1>6, <1>8, <1>9 DEF KeysCounted

(* The administrator asks for a key.                                          *)
LEMMA GenerateCounted ==
  ASSUME CloudInv, KeysCounted, NEW u \in Users, GenerateKey(u)
  PROVE  KeysCounted'
<1>1. issued' = issued + 1 /\ UNCHANGED <<handler, acked>> /\ Happens("request")
  BY DEF GenerateKey, Issue, AdminStay, stripeSide
<1>2. Askers' = Askers /\ NotBegun' = NotBegun
  BY <1>1 DEF Askers, Asking, NotBegun, InProgress
<1>3. Total < MaxFaults /\ Total' = Total + 1 /\ spent["redelivery"]' = spent["redelivery"] + 0
      /\ spent["request"]' = spent["request"] + 1
  BY <1>1, TotalCounted DEF Faults
<1>4. Cardinality(Askers) \in Nat /\ Cardinality(NotBegun) \in Nat /\ Total \in Int
  <2>1. Total \in Int
    BY BillingFacts DEF Total
  <2>. QED  BY <2>1, FS_CardinalityType DEF KeysCounted
<1>5. issued + Cardinality(Askers) + Cardinality(NotBegun)
        <= Cardinality(Subs) + spent["redelivery"] + spent["request"]
  BY DEF KeysCounted
<1>6. issued' + Cardinality(Askers') + Cardinality(NotBegun')
        <= Cardinality(Subs) + spent["redelivery"]' + spent["request"]'
  BY <1>1, <1>2, <1>3, <1>4, <1>5, BillingFacts
<1>7. Total' <= MaxFaults
  BY <1>3, <1>4, BillingFacts
<1>8. IsFiniteSet(Askers)' /\ IsFiniteSet(NotBegun)'
  BY <1>2 DEF KeysCounted
<1>. QED  BY <1>6, <1>7, <1>8 DEF KeysCounted

(* A request for an event begins: the first time, or once more.               *)
LEMMA DeliveryCounted ==
  ASSUME CloudInv, KeysCounted, EventsKnown, NEW h \in Handlers, NEW e \in pending \cup acked,
         Deliver(h, e) \/ Redeliver(h, e)
  PROVE  KeysCounted'
<1>0. handler'[h] = [step |-> FirstStep(e.type), event |-> e, key |-> NoKey]
  BY DeliveryForms
<1>1. /\ e \in Events /\ \A g \in Handlers : g # h => handler'[g] = handler[g]
      /\ handler'[h].step = FirstStep(e.type) /\ handler'[h].event = e
      /\ UNCHANGED <<issued, acked>>
  BY <1>0, DeliveryForms DEF serverDb, stripeSide
<1>2. handler[h] = NoHandler
  BY DeliveryForms DEF EventsKnown, HandlerKnown
<1>3. UNCHANGED spent \/ Happens("redelivery")
  BY DEF Deliver, Redeliver, Succeeds
<1>4. NotBegun' \subseteq NotBegun
  BY <1>1, <1>2, NotBegunKept
<1>5. CASE e.type # "checkout"
  <2>1. ~Asking(h)'
    BY <1>1, <1>5, EventKinds DEF Asking
  <2>2. Askers' \subseteq Askers
    BY <1>1, <2>1, AskersMove
  <2>. QED  BY <1>1, <1>3, <1>4, <2>2, CountKept DEF Faults
<1>6. CASE e.type = "checkout"
  <2>. DEFINE s == e.sub
  <2>1. e = Paid(s) /\ s \in Subs
    BY <1>1, <1>6, EventKinds, EventFacts
  <2>2. h \notin Askers /\ Askers' \subseteq Askers \cup {h}
    BY <1>1, <1>2, AskersMove DEF Askers, Asking, NoHandler
  <2>3. IsFiniteSet(Askers) /\ IsFiniteSet(NotBegun) /\ IsFiniteSet(Askers \cup {h})
        /\ Cardinality(Askers \cup {h}) = Cardinality(Askers) + 1
    BY <2>2, FS_AddElement DEF KeysCounted
  <2>4. IsFiniteSet(Askers') /\ Cardinality(Askers') <= Cardinality(Askers) + 1
    BY <2>2, <2>3, FS_Subset
  <2>5. IsFiniteSet(NotBegun') /\ Cardinality(NotBegun') <= Cardinality(NotBegun)
    BY <1>4, <2>3, FS_Subset
  <2>6. /\ Cardinality(Askers) \in Nat /\ Cardinality(NotBegun) \in Nat
        /\ Cardinality(Askers') \in Nat /\ Cardinality(NotBegun') \in Nat
    BY <2>3, <2>4, <2>5, FS_CardinalityType
  <2>7. issued + Cardinality(Askers) + Cardinality(NotBegun)
          <= Cardinality(Subs) + spent["redelivery"] + spent["request"]
    BY DEF KeysCounted
  <2>8. CASE Deliver(h, e)
    <3>1. s \in NotBegun
      BY <2>1, <2>8 DEF Deliver, NotBegun, EventsKnown
    <3>2. s \notin NotBegun'
      BY <1>1, <2>1 DEF NotBegun, InProgress
    <3>3. NotBegun' \subseteq NotBegun \ {s}
      BY <1>4, <3>2
    <3>4. IsFiniteSet(NotBegun \ {s}) /\ Cardinality(NotBegun \ {s}) = Cardinality(NotBegun) - 1
      BY <2>3, <3>1, FS_RemoveElement
    <3>5. Cardinality(NotBegun') <= Cardinality(NotBegun) - 1
      BY <3>3, <3>4, FS_Subset
    <3>6. UNCHANGED spent
      BY <2>8 DEF Deliver, Succeeds
    <3>7. Total' <= MaxFaults /\ UNCHANGED <<spent["redelivery"], spent["request"]>>
      BY <3>6 DEF Total, KeysCounted
    <3>8. issued' + Cardinality(Askers') + Cardinality(NotBegun')
            <= Cardinality(Subs) + spent["redelivery"]' + spent["request"]'
      BY <1>1, <2>4, <2>6, <2>7, <3>5, <3>7, BillingFacts
    <3>9. IsFiniteSet(Askers)' /\ IsFiniteSet(NotBegun)'
      BY <2>4, <2>5
    <3>. QED  BY <3>7, <3>8, <3>9 DEF KeysCounted
  <2>9. CASE Redeliver(h, e)
    <3>1. Happens("redelivery")
      BY <2>9 DEF Redeliver
    <3>2. /\ Total < MaxFaults /\ Total' = Total + 1 /\ Total \in Int
          /\ spent["redelivery"]' = spent["redelivery"] + 1
          /\ spent["request"]' = spent["request"] + 0
      BY <3>1, TotalCounted, BillingFacts DEF Faults, Total
    <3>3. issued' + Cardinality(Askers') + Cardinality(NotBegun')
            <= Cardinality(Subs) + spent["redelivery"]' + spent["request"]'
      BY <1>1, <2>4, <2>5, <2>6, <2>7, <3>2, BillingFacts
    <3>4. Total' <= MaxFaults
      BY <3>2, BillingFacts
    <3>5. IsFiniteSet(Askers)' /\ IsFiniteSet(NotBegun)'
      BY <2>4, <2>5
    <3>. QED  BY <3>3, <3>4, <3>5 DEF KeysCounted
  <2>. QED  BY <2>8, <2>9
<1>. QED  BY <1>5, <1>6

(* No step takes more keys than its checkout, its repetition or the           *)
(* administrator's request stands for.                                        *)
LEMMA CountedStep ==
  ASSUME CloudInv, EventsKnown, KeysCounted, [Next]_vars, ~Fails, ~LoseServerDatabase
  PROVE  KeysCounted'
<1>0. UNCHANGED spent \/ \E f \in Faults : Happens(f)
  BY SpentGrows
<1>1. ASSUME UNCHANGED <<handler, issued, acked>> PROVE KeysCounted'
  <2>1. Askers' = Askers /\ NotBegun' = NotBegun
    BY <1>1 DEF Askers, Asking, NotBegun, InProgress
  <2>. QED  BY <1>0, <1>1, <2>1, CountKept
<1>2. ASSUME NEW h \in Handlers, HandlerStep(h), ~Provision(h) PROVE KeysCounted'
  <2>1. /\ handler[h].step # "idle" /\ handler[h].step # "provision" /\ UNCHANGED issued
        /\ handler[h].event \in Events
    <3>1. handler[h].step # "idle"
      BY <1>2, HandlerForms
    <3>2. handler[h].step # "provision"
      BY <1>2 DEF HandlerStep, UpsertUser, UpsertSubscription, ProvisionFails, StoreKeyId, StoreKey,
                  SubscriptionUpdated, PaymentFailed, LookupKey, RevokeKey, RevokeKeyFails,
                  MarkKey, ClearSubscription, HandlerFails, At
    <3>. QED  BY <1>2, <3>1, <3>2, HandlerForms, BusyHandler
  <2>2. CASE Acknowledge(h) /\ Over(h)
    <3>1. ~Asking(h)' /\ handler[h].event \in acked' /\ acked \subseteq acked'
      BY <2>2 DEF Over, Acknowledge, NoHandler, Asking
    <3>2. Askers' \subseteq Askers /\ NotBegun' \subseteq NotBegun
      BY <2>2, <3>1, AskersMove, NotBegunKept DEF Over
    <3>. QED  BY <1>0, <2>1, <3>2, CountKept
  <2>3. ASSUME UNCHANGED stripeSide, NEW step, NEW k, MovesOn(handler[h].step, step),
               Now(h, step, k)
        PROVE  KeysCounted'
    <3>1. handler'[h].event = handler[h].event /\ acked \subseteq acked'
      BY <2>3 DEF Now, stripeSide
    <3>2. NotBegun' \subseteq NotBegun
      BY <2>3, <3>1, NotBegunKept DEF Now
    <3>3. Askers' \subseteq Askers
      <4>1. CASE Asking(h)
        BY <2>3, <4>1, AskersMove DEF Now, Askers
      <4>2. CASE ~Asking(h)
        <5>1. ~Asking(h)'
          BY <2>3, <4>2 DEF Now, MovesOn, Asking
        <5>. QED  BY <2>3, <5>1, AskersMove DEF Now
      <4>. QED  BY <4>1, <4>2
    <3>. QED  BY <1>0, <2>1, <3>2, <3>3, CountKept
  <2>. QED  BY <1>2, <2>2, <2>3, HandlerForms
<1>3. ASSUME NEW u \in Users, GenerateKey(u) PROVE KeysCounted'
  BY <1>3, GenerateCounted
<1>4. ASSUME AdminStep, ~\E u \in Users : GenerateKey(u) PROVE UNCHANGED <<handler, issued, acked>>
  BY <1>4 DEF AdminStep, InsertGenerated, AskToRevoke, RevokeAsked, MarkAsked, AdminStay, stripeSide,
              serverDb
<1>5. StripeStep \/ ToolStep \/ UNCHANGED vars => UNCHANGED <<handler, issued, acked>>
  <2>1. StripeStep => UNCHANGED <<handler, issued, acked>>
    BY DEF StripeStep, Checkout, Pay, Cancel, Change, Send, serverDb
  <2>. QED  BY <2>1, OthersForms DEF vars, stripeSide, serverDb
<1>. QED
  BY <1>1, <1>2, <1>3, <1>4, <1>5, ProvisionCounted, DeliveryCounted DEF Next

(* So every key issued is one of Keys.                                        *)
LEMMA IssuedAreKeys ==
  ASSUME CloudInv, KeysCounted
  PROVE  issued <= Cardinality(Subs) + MaxFaults /\ Issued(issued) \subseteq Keys
<1>1. Cardinality(Askers) \in Nat /\ Cardinality(NotBegun) \in Nat
  BY FS_CardinalityType DEF KeysCounted
<1>2. spent["redelivery"] + spent["request"] <= MaxFaults
  BY BillingFacts DEF KeysCounted, Total
<1>3. issued + Cardinality(Askers) + Cardinality(NotBegun)
        <= Cardinality(Subs) + spent["redelivery"] + spent["request"]
  BY DEF KeysCounted
<1>4. issued <= Cardinality(Subs) + MaxFaults
  BY <1>1, <1>2, <1>3, BillingFacts
<1>. QED  BY <1>4, BillingFacts DEF Issued, Keys

-----------------------------------------------------------------------------
(* What the server knows.                                                     *)

(* The tool finds every key at the server.                                    *)
LEMMA ToolWritesNothing ==
  ASSUME CloudInv, NothingLost, ToolStep
  PROVE  UNCHANGED <<server, imported>>
<1>1. CASE ImportKey
  <2>. DEFINE k == Head(tool.todo)
  <2>1. k \in Issued(issued)
    BY <1>1 DEF ImportKey, CloudInv, ToolTyped
  <2>2. ~AbsentAtServer(k)
    BY <2>1 DEF NothingLost, AbsentAtServer
  <2>. QED  BY <1>1, <2>2 DEF ImportKey
<1>2. CASE ~ImportKey
  BY <1>2 DEF ToolStep, ReadActiveKeys, ImportFails, ToolEnds
<1>. QED  BY <1>1, <1>2

(* The server issues a key, revokes one, or does nothing.                     *)
LEMMA ServerChanges ==
  ASSUME CloudInv, KeysCounted, RowExists, NothingLost, [Next]_vars, ~Fails, ~LoseServerDatabase
  PROVE  /\ UNCHANGED imported
         /\ \/ UNCHANGED <<server, issued>>
            \/ UNCHANGED issued /\ \E k : RevokeAtServer(k)
            \/ AdminConfigured /\ Issue
<1>1. ASSUME NEW h \in Handlers, HandlerStep(h)
      PROVE  /\ UNCHANGED imported
             /\ \/ UNCHANGED <<server, issued>>
                \/ UNCHANGED issued /\ \E k : RevokeAtServer(k)
                \/ AdminConfigured /\ Issue
  <2>1. UNCHANGED imported
    BY <1>1, HandlerForms
  <2>2. CASE Provision(h)
    BY <2>1, <2>2 DEF Provision, At, RowExists
  <2>3. CASE RevokeKey(h)
    BY <2>1, <2>3 DEF RevokeKey
  <2>4. CASE ~Provision(h) /\ ~RevokeKey(h)
    BY <1>1, <2>1, <2>4
    DEF HandlerStep, UpsertUser, UpsertSubscription, ProvisionFails, StoreKeyId, StoreKey,
        SubscriptionUpdated, PaymentFailed, SetStatus, LookupKey, RevokeKeyFails, MarkKey,
        ClearSubscription, HandlerFails, serverDb
  <2>. QED  BY <2>2, <2>3, <2>4
<1>2. CASE AdminStep
  BY <1>2 DEF AdminStep, GenerateKey, InsertGenerated, AskToRevoke, RevokeAsked, MarkAsked, serverDb
<1>3. CASE ToolStep
  BY <1>3, ToolWritesNothing, OthersForms
<1>4. CASE StripeStep \/ UNCHANGED vars
  BY <1>4, OthersForms DEF vars, serverDb
<1>5. ASSUME NEW h \in Handlers, NEW e \in pending \cup acked, Deliver(h, e) \/ Redeliver(h, e)
      PROVE  UNCHANGED <<server, issued, imported>>
  BY <1>5, DeliveryForms DEF serverDb
<1>. QED  BY <1>1, <1>2, <1>3, <1>4, <1>5 DEF Next

(* What the server accepts, and of what it knows nothing, after a step.       *)
LEMMA ServerAnswers ==
  ASSUME CloudInv, KeysCounted, RowExists, NothingLost, [Next]_vars, ~Fails, ~LoseServerDatabase,
         issued' <= Cardinality(Subs) + MaxFaults
  PROVE  NothingLost'
<1>1. server \in [Keys -> {"none", "valid", "revoked"}] /\ issued \in Nat /\ imported = {}
  BY DEF CloudInv, ServerTyped, NothingLost
<1>2. CASE UNCHANGED <<server, issued>>
  BY <1>2, ServerChanges DEF NothingLost
<1>3. ASSUME UNCHANGED issued, NEW k, RevokeAtServer(k) PROVE NothingLost'
  <2>1. Issued(issued) \subseteq Keys
    BY IssuedAreKeys
  <2>2. \A j \in Keys : server'[j] = "none" => server[j] = "none"
    BY <1>1, <1>3 DEF RevokeAtServer
  <2>. QED  BY <1>3, <2>1, <2>2, ServerChanges DEF NothingLost
<1>4. CASE AdminConfigured /\ Issue
  <2>1. issued' = issued + 1 /\ server' = [server EXCEPT ![issued + 1] = "valid"]
    BY <1>4 DEF Issue
  <2>2. issued + 1 \in Keys /\ Issued(issued') = Issued(issued) \cup {issued + 1}
    BY <1>1, <2>1, BillingFacts DEF Keys, Issued
  <2>3. \A j \in Issued(issued') : server'[j] # "none"
    BY <1>1, <2>1, <2>2, IssuedAreKeys DEF NothingLost
  <2>. QED  BY <1>4, <2>3, ServerChanges DEF NothingLost
<1>. QED  BY <1>2, <1>3, <1>4, ServerChanges

-----------------------------------------------------------------------------
(* Where each key is.                                                         *)

(* The next key the server generates is named nowhere yet.                    *)
LEMMA FreshKey ==
  ASSUME CloudInv
  PROVE  /\ \A s \in Subs : subscriptions[s].api_key_id # issued + 1
         /\ \A h \in Handlers : handler[h].key # issued + 1
         /\ ~HasRow(issued + 1) /\ admin.key # issued + 1
<1>1. issued \in Nat /\ ~(issued + 1 \in Named(issued)) /\ ~(issued + 1 \in Issued(issued))
  BY DEF CloudInv, ServerTyped, Named, Issued, NoKey
<1>2. \A s \in Subs : subscriptions[s].api_key_id \in Named(issued)
  BY DEF CloudInv, DbTyped, SubscriptionRows
<1>3. \A h \in Handlers : handler[h].key \in Named(issued)
  BY DEF CloudInv, HandlersTyped, HandlerSound
<1>4. \A i \in DOMAIN apiKeys : apiKeys[i].key \in Issued(issued)
  <2>1. \A i \in DOMAIN apiKeys : apiKeys[i] \in KeyRows(issued)
    BY DEF CloudInv, DbTyped
  <2>. QED  BY <2>1 DEF KeyRows
<1>5. admin.key \in Named(issued)
  BY DEF CloudInv, AdminTyped
<1>. QED  BY <1>1, <1>2, <1>3, <1>4, <1>5 DEF HasRow

(* Where keys are named, and by which of them.                                *)
LEMMA KeyFacts ==
  ASSUME CloudInv
  PROVE  /\ issued \in Nat /\ NoKey \notin Issued(issued) /\ NoKey \notin Keys
         /\ server \in [Keys -> {"none", "valid", "revoked"}]
         /\ \A s \in Subs : subscriptions[s].api_key_id \in Issued(issued) \cup {NoKey}
         /\ \A h \in Handlers : handler[h].key \in Issued(issued) \cup {NoKey}
         /\ \A h \in Handlers : Storing(h) => handler[h].key \in Issued(issued)
         /\ \A i \in DOMAIN apiKeys : apiKeys[i].key \in Issued(issued)
         /\ admin.step = "insert" => admin.key \in Issued(issued)
         /\ DOMAIN apiKeys = 1..Len(apiKeys) /\ Len(apiKeys) \in Nat
<1>1. issued \in Nat /\ NoKey \notin Issued(issued) /\ NoKey \notin Keys
  BY DEF CloudInv, ServerTyped, Issued, NoKey, Keys
<1>2. server \in [Keys -> {"none", "valid", "revoked"}]
  BY DEF CloudInv, ServerTyped
<1>3. \A s \in Subs : subscriptions[s].api_key_id \in Issued(issued) \cup {NoKey}
  BY DEF CloudInv, DbTyped, SubscriptionRows, Named
<1>4. \A h \in Handlers : /\ handler[h].key \in Issued(issued) \cup {NoKey}
                          /\ Storing(h) => handler[h].key \in Issued(issued)
  BY DEF CloudInv, HandlersTyped, HandlerSound, Named, Storing
<1>5. /\ \A i \in DOMAIN apiKeys : apiKeys[i].key \in Issued(issued)
      /\ DOMAIN apiKeys = 1..Len(apiKeys) /\ Len(apiKeys) \in Nat
  <2>1. \A i \in DOMAIN apiKeys : apiKeys[i] \in KeyRows(issued)
    BY DEF CloudInv, DbTyped
  <2>2. DOMAIN apiKeys = 1..Len(apiKeys) /\ Len(apiKeys) \in Nat
    BY DEF CloudInv, DbTyped
  <2>. QED  BY <2>1, <2>2 DEF KeyRows
<1>6. admin.step = "insert" => admin.key \in Issued(issued)
  BY DEF CloudInv, AdminTyped
<1>. QED  BY <1>1, <1>2, <1>3, <1>4, <1>5, <1>6

(* What a step does that is not about keys.                                   *)
KeepsKeys ==
  /\ UNCHANGED <<server, apiKeys, admin, issued>>
  /\ \A s \in Subs : subscriptions'[s].api_key_id = subscriptions[s].api_key_id
  /\ \A h \in Handlers : Carrying(h) \/ Carrying(h)' => handler'[h] = handler[h]
  /\ \A s \in Subs : stripe[s] = "canceled" => stripe'[s] = "canceled"
  /\ \A s \in Subs : AdminConfigured /\ Paid(s) \in acked' => Paid(s) \in acked

(* A step that is not about keys leaves every key where it is.                *)
LEMMA KeysKept ==
  ASSUME KeysInv, KeepsKeys
  PROVE  KeysInv'
<1>1. \A h \in Handlers : /\ Storing(h)' => Storing(h) /\ handler'[h] = handler[h]
                          /\ Storing(h) => Storing(h)' /\ handler'[h] = handler[h]
                          /\ Revoking(h)' => Revoking(h) /\ handler'[h] = handler[h]
  BY DEF KeepsKeys, Carrying, Storing, Revoking
<1>2. \A k, s : CarriedFor(k, s)' <=> CarriedFor(k, s)
  <2>1. \A h \in Handlers : /\ Carrying(h)' => Carrying(h) /\ handler'[h] = handler[h]
                            /\ Carrying(h) => Carrying(h)' /\ handler'[h] = handler[h]
    BY DEF KeepsKeys, Carrying, Storing, Revoking
  <2>2. \A h \in Handlers : handler'[h] = handler[h] => Sub(h)' = Sub(h)
    BY DEF Sub
  <2>. QED  BY <2>1, <2>2 DEF CarriedFor
<1>3. \A k, s : s \in Subs => (HeldFor(k, s)' <=> HeldFor(k, s))
  BY <1>2 DEF HeldFor, KeepsKeys
<1>4. \A k : (HasRow(k)' <=> HasRow(k)) /\ (Inserting(k)' <=> Inserting(k))
             /\ (Recorded(k)' <=> Recorded(k))
  BY DEF HasRow, Inserting, Recorded, KeepsKeys
<1>5. HeldOnce'
  BY <1>3, <1>4 DEF KeysInv, KeysPlaced, HeldOnce, KeepsKeys
<1>6. StoredOnce' /\ RevokedNamed' /\ AdminsOwn'
  <2>1. StoredOnce'
    BY <1>1, <1>4 DEF KeysInv, KeysPlaced, StoredOnce
  <2>2. RevokedNamed'
    BY <1>1 DEF KeysInv, KeysPlaced, RevokedNamed
  <2>3. AdminsOwn'
    BY <1>4 DEF KeysInv, KeysPlaced, AdminsOwn, KeepsKeys
  <2>. QED  BY <2>1, <2>2, <2>3
<1>7. MarkedAreDead'
  BY <1>1 DEF KeysInv, MarkedAreDead, KeepsKeys, Revoking
<1>8. \A k : Expected(k)' <=> Expected(k)
  BY <1>1, <1>4 DEF Expected
<1>9. ValidAreExpected' /\ ExpectedAreValid'
  BY <1>8 DEF KeysInv, ValidAreExpected, ExpectedAreValid, KeepsKeys
<1>10. PaidAreServed'
  <2>. SUFFICES ASSUME NEW s \in Subs, Served(s)' PROVE ServedWell(s)'
    BY DEF PaidAreServed
  <2>1. ServedWell(s)
    BY DEF KeysInv, PaidAreServed, Served, KeepsKeys
  <2>2. \A k : /\ OwnRow(k, s) => OwnRow(k, s)'
               /\ AtStoreKey(k, s) => AtStoreKey(k, s)'
    BY <1>1 DEF KeepsKeys, OwnRow, AtStoreKey, Storing, Sub
  <2>3. \A h \in Handlers : handler'[h].step = "store_key" /\ Sub(h)' = s =>
          handler[h].step = "store_key" /\ Sub(h) = s
    BY <1>1 DEF Storing, Sub
  <2>. QED  BY <1>3, <2>1, <2>2, <2>3 DEF ServedWell, KeepsKeys
<1>. QED  BY <1>5, <1>6, <1>7, <1>9, <1>10 DEF KeysInv, KeysPlaced

(* Fewer keys are held, and rows keep their keys and users.                   *)
LEMMA FewerHeld ==
  ASSUME CloudInv, KeysPlaced, UNCHANGED issued,
         \A k \in Issued(issued), s \in Subs : HeldFor(k, s)' => HeldFor(k, s),
         \A h \in Handlers : Storing(h)' => Storing(h) /\ handler'[h].key = handler[h].key,
         \A h \in Handlers : Revoking(h)' => handler'[h].key # NoKey,
         DOMAIN apiKeys' = DOMAIN apiKeys,
         \A i \in DOMAIN apiKeys :
           apiKeys'[i].key = apiKeys[i].key /\ apiKeys'[i].user = apiKeys[i].user,
         admin'.step = "insert" => admin' = admin,
         admin'.step \in {"revoke", "mark"} =>
           \E i \in DOMAIN apiKeys : apiKeys[i].key = admin'.key /\ apiKeys[i].user \in Admins
  PROVE  KeysPlaced'
<1>1. \A k : (HasRow(k)' <=> HasRow(k)) /\ (Inserting(k)' => Inserting(k))
  BY DEF HasRow, Inserting
<1>2. HeldOnce'
  BY <1>1 DEF KeysPlaced, HeldOnce
<1>3. StoredOnce'
  BY <1>1 DEF KeysPlaced, StoredOnce
<1>4. RevokedNamed'
  BY DEF RevokedNamed
<1>5. AdminsOwn'
  BY <1>1 DEF KeysPlaced, AdminsOwn
<1>. QED  BY <1>2, <1>3, <1>4, <1>5 DEF KeysPlaced

(* Request h has moved: what its subscription holds now, it held before.      *)
LEMMA HeldKept ==
  ASSUME CloudInv, NEW h \in Handlers, \A g \in Handlers : g # h => handler'[g] = handler[g],
         \A s \in Subs :
           \/ subscriptions'[s].api_key_id \in {subscriptions[s].api_key_id, NoKey}
           \/ s = Sub(h) /\ Carrying(h) /\ subscriptions'[s].api_key_id = handler[h].key,
         Carrying(h)' => /\ Sub(h)' = Sub(h)
                         /\ \/ Carrying(h) /\ handler'[h].key = handler[h].key
                            \/ subscriptions[Sub(h)].api_key_id = handler'[h].key
  PROVE  \A k \in Issued(issued), s \in Subs : HeldFor(k, s)' => HeldFor(k, s)
<1>. SUFFICES ASSUME NEW k \in Issued(issued), NEW s \in Subs, HeldFor(k, s)'
              PROVE  HeldFor(k, s)
  OBVIOUS
<1>1. k # NoKey
  BY KeyFacts
<1>2. CASE subscriptions'[s].api_key_id = k
  BY <1>1, <1>2 DEF HeldFor, CarriedFor
<1>3. ASSUME NEW g \in Handlers, Carrying(g)', Sub(g)' = s, handler'[g].key = k
      PROVE  HeldFor(k, s)
  <2>1. CASE g = h
    BY <1>3, <2>1 DEF HeldFor, CarriedFor
  <2>2. CASE g # h
    BY <1>3, <2>2 DEF HeldFor, CarriedFor, Carrying, Storing, Revoking, Sub
  <2>. QED  BY <2>1, <2>2
<1>. QED  BY <1>2, <1>3 DEF HeldFor, CarriedFor

(* The server gives a new key to a checkout, or to the administrator.         *)
LEMMA ProvisionPlaces ==
  ASSUME CloudInv, KeysInv, NEW h \in Handlers, Provision(h), Issued(issued) \subseteq Keys
  PROVE  KeysInv'
<1>. DEFINE n == issued + 1
<1>1. /\ \A g \in Handlers : g # h => handler'[g] = handler[g]
      /\ handler'[h].step = "store_id" /\ handler'[h].key = n /\ Sub(h)' = Sub(h)
      /\ handler[h].step = "provision" /\ issued' = n
      /\ \A k \in Keys : server'[k] = IF k = n THEN "valid" ELSE server[k]
      /\ UNCHANGED <<subscriptions, apiKeys, admin, stripe, acked>>
  <2>1. Now(h, "store_id", n)
    BY HandlerGoes DEF Provision
  <2>2. /\ server' = [server EXCEPT ![n] = "valid"] /\ issued' = n
        /\ UNCHANGED <<subscriptions, apiKeys, admin, stripe, acked>>
        /\ handler[h].step = "provision"
    BY DEF Provision, Issue, Stay, At, cloudDb, stripeSide
  <2>3. \A k \in Keys : server'[k] = IF k = n THEN "valid" ELSE server[k]
    BY <2>2, KeyFacts
  <2>. QED  BY <2>1, <2>2, <2>3 DEF Now, Sub
<1>2. /\ \A s \in Subs : subscriptions[s].api_key_id # n
      /\ \A g \in Handlers : handler[g].key # n
      /\ ~HasRow(n) /\ admin.key # n
  BY FreshKey
<1>3. \A k \in Issued(n) : k # n => k \in Issued(issued)
  BY KeyFacts DEF Issued
<1>. HIDE DEF n
<1>4. \A k, s : s \in Subs /\ HeldFor(k, s)' => HeldFor(k, s) \/ (k = n /\ s = Sub(h))
  BY <1>1 DEF HeldFor, CarriedFor, Carrying, Storing, Revoking, Sub
<1>5. \A s \in Subs : ~HeldFor(n, s)
  BY <1>2 DEF HeldFor, CarriedFor
<1>6. \A k : (HasRow(k)' <=> HasRow(k)) /\ (Inserting(k)' <=> Inserting(k))
             /\ (Recorded(k)' <=> Recorded(k))
  BY <1>1 DEF HasRow, Inserting, Recorded
<1>7. HeldOnce'
  <2>. SUFFICES ASSUME NEW k \in Issued(n), NEW s \in Subs, HeldFor(k, s)'
                PROVE  /\ \A t \in Subs : HeldFor(k, t)' => t = s
                       /\ \A i \in DOMAIN apiKeys : apiKeys[i].key = k => apiKeys[i].user = Owner[s]
                       /\ ~Inserting(k)
    BY <1>1, <1>6 DEF HeldOnce
  <2>1. CASE k = n
    <3>1. \A t \in Subs : HeldFor(k, t)' => t = Sub(h)
      BY <1>4, <1>5, <2>1
    <3>. QED  BY <1>2, <2>1, <3>1 DEF HasRow, Inserting
  <2>2. CASE k # n
    BY <1>3, <1>4, <2>2 DEF KeysInv, KeysPlaced, HeldOnce
  <2>. QED  BY <2>1, <2>2
<1>8. StoredOnce'
  <2>1. \A g \in Handlers : Storing(g)' => g = h \/ (Storing(g) /\ handler'[g] = handler[g])
    BY <1>1 DEF Storing
  <2>. QED  BY <1>1, <1>2, <1>6, <2>1 DEF KeysInv, KeysPlaced, StoredOnce
<1>9. RevokedNamed' /\ AdminsOwn'
  BY <1>1, <1>6 DEF KeysInv, KeysPlaced, RevokedNamed, AdminsOwn, Revoking
<1>10. MarkedAreDead'
  <2>1. ASSUME NEW g \in Handlers, handler'[g].step = "mark"
        PROVE  server'[handler'[g].key] # "valid"
    <3>1. handler'[g] = handler[g] /\ handler[g].key \in Keys /\ handler[g].key # n
      BY <1>1, <1>2, <2>1, KeyFacts DEF KeysInv, KeysPlaced, RevokedNamed, Revoking
    <3>. QED  BY <1>1, <2>1, <3>1 DEF KeysInv, MarkedAreDead
  <2>2. ASSUME admin.step = "mark" PROVE server'[admin.key] # "valid"
    <3>1. admin.key \in Keys
      BY <2>2, KeyFacts DEF KeysInv, KeysPlaced, AdminsOwn
    <3>. QED  BY <1>1, <1>2, <2>2, <3>1 DEF KeysInv, MarkedAreDead
  <2>. QED  BY <1>1, <2>1, <2>2 DEF MarkedAreDead
<1>11. \A k : (Expected(k)' => Expected(k) \/ k = n) /\ (Expected(k) \/ k = n => Expected(k)')
  BY <1>1, <1>6 DEF Expected, Storing
<1>12. ValidAreExpected' /\ ExpectedAreValid'
  BY <1>1, <1>11 DEF KeysInv, ValidAreExpected, ExpectedAreValid
<1>13. PaidAreServed'
  <2>. SUFFICES ASSUME NEW s \in Subs, Served(s)' PROVE ServedWell(s)'
    BY DEF PaidAreServed
  <2>1. ServedWell(s)
    BY <1>1 DEF KeysInv, PaidAreServed, Served
  <2>2. \A k : (OwnRow(k, s) => OwnRow(k, s)') /\ (AtStoreKey(k, s) => AtStoreKey(k, s)')
    BY <1>1 DEF OwnRow, AtStoreKey, Sub
  <2>3. \A g \in Handlers : handler'[g].step = "store_key" /\ Sub(g)' = s =>
          handler[g].step = "store_key" /\ Sub(g) = s
    BY <1>1 DEF Sub
  <2>4. \A k \in Keys : HeldFor(k, s)' => server'[k] = "valid"
    BY <1>1, <1>4, <2>1 DEF ServedWell
  <2>. QED  BY <1>1, <2>1, <2>2, <2>3, <2>4 DEF ServedWell
<1>. QED  BY <1>7, <1>8, <1>9, <1>10, <1>12, <1>13 DEF KeysInv, KeysPlaced

(* keys_generate: the server gives a new key to the administrator.            *)
LEMMA GeneratePlaces ==
  ASSUME CloudInv, KeysInv, NEW u \in Users, GenerateKey(u), Issued(issued) \subseteq Keys
  PROVE  KeysInv'
<1>. DEFINE n == issued + 1
<1>1. /\ admin' = [step |-> "insert", key |-> n, user |-> u] /\ u \in Admins /\ issued' = n
      /\ admin.step = "idle"
      /\ \A k \in Keys : server'[k] = IF k = n THEN "valid" ELSE server[k]
      /\ UNCHANGED <<subscriptions, apiKeys, handler, stripe, acked>>
  <2>1. /\ server' = [server EXCEPT ![n] = "valid"]
        /\ admin' = [step |-> "insert", key |-> n, user |-> u] /\ u \in Admins /\ issued' = n
        /\ admin.step = "idle"
        /\ UNCHANGED <<subscriptions, apiKeys, handler, stripe, acked>>
    BY DEF GenerateKey, Issue, AdminGoto, AdminStay, cloudDb, stripeSide
  <2>. QED  BY <2>1, KeyFacts
<1>2. /\ \A s \in Subs : subscriptions[s].api_key_id # n
      /\ \A g \in Handlers : handler[g].key # n
      /\ ~HasRow(n)
  BY FreshKey
<1>3. \A k \in Issued(n) : k # n => k \in Issued(issued)
  BY KeyFacts DEF Issued
<1>. HIDE DEF n
<1>4. \A k, s : /\ HeldFor(k, s)' <=> HeldFor(k, s)
                /\ OwnRow(k, s)' <=> OwnRow(k, s)
                /\ AtStoreKey(k, s)' <=> AtStoreKey(k, s)
  BY <1>1 DEF HeldFor, CarriedFor, Carrying, Storing, Revoking, Sub, OwnRow, AtStoreKey
<1>5. \A s \in Subs : ~HeldFor(n, s)
  BY <1>2 DEF HeldFor, CarriedFor
<1>6. \A k : (HasRow(k)' <=> HasRow(k)) /\ (Inserting(k)' <=> k = n)
             /\ (Recorded(k)' <=> Recorded(k)) /\ ~Inserting(k)
  BY <1>1 DEF HasRow, Inserting, Recorded
<1>7. HeldOnce'
  <2>. SUFFICES ASSUME NEW k \in Issued(n), NEW s \in Subs, HeldFor(k, s)
                PROVE  /\ \A t \in Subs : HeldFor(k, t) => t = s
                       /\ \A i \in DOMAIN apiKeys : apiKeys[i].key = k => apiKeys[i].user = Owner[s]
                       /\ k # n
    BY <1>1, <1>4, <1>6 DEF HeldOnce
  <2>1. k # n
    BY <1>5
  <2>. QED  BY <1>3, <2>1 DEF KeysInv, KeysPlaced, HeldOnce
<1>8. StoredOnce' /\ RevokedNamed' /\ AdminsOwn'
  <2>1. StoredOnce' /\ RevokedNamed'
    BY <1>1, <1>6 DEF KeysInv, KeysPlaced, StoredOnce, RevokedNamed, Storing, Revoking
  <2>2. AdminsOwn'
    BY <1>1, <1>2, <1>6 DEF AdminsOwn
  <2>. QED  BY <2>1, <2>2
<1>9. MarkedAreDead'
  <2>1. ASSUME NEW g \in Handlers, handler[g].step = "mark"
        PROVE  server'[handler[g].key] # "valid"
    <3>1. handler[g].key \in Keys /\ handler[g].key # n
      BY <1>2, <2>1, KeyFacts DEF KeysInv, KeysPlaced, RevokedNamed, Revoking
    <3>. QED  BY <1>1, <2>1, <3>1 DEF KeysInv, MarkedAreDead
  <2>. QED  BY <1>1, <2>1 DEF MarkedAreDead
<1>10. \A k : (Expected(k)' => Expected(k) \/ k = n) /\ (Expected(k) \/ k = n => Expected(k)')
  BY <1>1, <1>6 DEF Expected, Storing
<1>11. ValidAreExpected' /\ ExpectedAreValid'
  BY <1>1, <1>10 DEF KeysInv, ValidAreExpected, ExpectedAreValid
<1>12. PaidAreServed'
  <2>. SUFFICES ASSUME NEW s \in Subs, Served(s)' PROVE ServedWell(s)'
    BY DEF PaidAreServed
  <2>1. ServedWell(s)
    BY <1>1 DEF KeysInv, PaidAreServed, Served
  <2>. QED  BY <1>1, <1>4, <2>1 DEF ServedWell, Sub
<1>. QED  BY <1>7, <1>8, <1>9, <1>11, <1>12 DEF KeysInv, KeysPlaced

(* The subscription's row gets its key.                                       *)
LEMMA StoreIdPlaces ==
  ASSUME CloudInv, KeysInv, RowExists, NEW h \in Handlers, StoreKeyId(h)
  PROVE  KeysInv'
<1>1. /\ \A g \in Handlers : g # h => handler'[g] = handler[g]
      /\ handler'[h].step = "store_key" /\ handler'[h].key = handler[h].key /\ Sub(h)' = Sub(h)
      /\ handler[h].step = "store_id"
      /\ UNCHANGED <<server, issued, apiKeys, admin, stripe, acked>>
  <2>1. Now(h, "store_key", handler[h].key)
    BY HandlerGoes DEF StoreKeyId
  <2>. QED  BY <2>1 DEF Now, Sub, StoreKeyId, At, Stay, serverDb, stripeSide
<1>2. Storing(h) /\ handler[h].key \in Issued(issued) /\ handler[h].key # NoKey /\ Sub(h) \in Subs
  BY <1>1, KeyFacts, BusyHandler DEF Storing
<1>3. \A s \in Subs : subscriptions'[s].api_key_id =
        IF s = Sub(h) THEN handler[h].key ELSE subscriptions[s].api_key_id
  <2>1. subscriptions[Sub(h)].status # "none"
    BY <1>1 DEF RowExists
  <2>2. subscriptions' = [subscriptions EXCEPT ![Sub(h)].api_key_id = handler[h].key]
    BY <2>1 DEF StoreKeyId
  <2>. QED  BY <1>2, <2>2 DEF CloudInv, DbTyped, SubscriptionRows
<1>4. \A k \in Issued(issued), s \in Subs : HeldFor(k, s)' => HeldFor(k, s)
  BY <1>1, <1>2, <1>3, HeldKept DEF Carrying
<1>5. \A g \in Handlers : /\ Storing(g)' <=> Storing(g)
                          /\ Revoking(g)' <=> Revoking(g)
                          /\ handler'[g].key = handler[g].key
  BY <1>1 DEF Storing, Revoking
<1>6. KeysPlaced'
  BY <1>1, <1>4, <1>5, FewerHeld DEF KeysInv, KeysPlaced, RevokedNamed, AdminsOwn
<1>7. MarkedAreDead'
  BY <1>1 DEF KeysInv, MarkedAreDead
<1>8. \A k : (Expected(k)' <=> Expected(k))
  BY <1>1, <1>5 DEF Expected, Recorded, Inserting
<1>9. ValidAreExpected' /\ ExpectedAreValid'
  BY <1>1, <1>8 DEF KeysInv, ValidAreExpected, ExpectedAreValid
<1>10. PaidAreServed'
  <2>. SUFFICES ASSUME NEW s \in Subs, Served(s)' PROVE ServedWell(s)'
    BY DEF PaidAreServed
  <2>1. ServedWell(s)
    BY <1>1 DEF KeysInv, PaidAreServed, Served
  <2>2. \A k : (OwnRow(k, s) => OwnRow(k, s)') /\ (AtStoreKey(k, s) => AtStoreKey(k, s)')
    BY <1>1 DEF OwnRow, AtStoreKey, Sub
  <2>3. \A k \in Keys : HeldFor(k, s)' => HeldFor(k, s)
    <3>. SUFFICES ASSUME NEW k \in Keys, HeldFor(k, s)' PROVE HeldFor(k, s)
      OBVIOUS
    <3>1. CASE subscriptions'[s].api_key_id = k
      BY <1>2, <1>3, <3>1 DEF HeldFor, CarriedFor, Carrying
    <3>2. CASE CarriedFor(k, s)'
      BY <1>1, <1>5, <3>2 DEF HeldFor, CarriedFor, Carrying, Sub
    <3>. QED  BY <3>1, <3>2 DEF HeldFor
  <2>4. CASE s = Sub(h)
    <3>1. subscriptions'[s].api_key_id = handler[h].key /\ AtStoreKey(handler[h].key, s)'
      BY <1>1, <1>3, <2>4 DEF AtStoreKey
    <3>. QED  BY <1>1, <1>2, <2>1, <2>3, <3>1 DEF ServedWell
  <2>5. CASE s # Sub(h)
    <3>1. subscriptions'[s].api_key_id = subscriptions[s].api_key_id
      BY <1>3, <2>5
    <3>2. \A g \in Handlers : handler'[g].step = "store_key" /\ Sub(g)' = s =>
            handler[g].step = "store_key" /\ Sub(g) = s
      BY <1>1, <2>5 DEF Sub
    <3>. QED  BY <1>1, <2>1, <2>2, <2>3, <3>1, <3>2 DEF ServedWell
  <2>. QED  BY <2>4, <2>5
<1>. QED  BY <1>6, <1>7, <1>9, <1>10 DEF KeysInv

(* The key's row is written, and the checkout acknowledged.                   *)
LEMMA StoreKeyPlaces ==
  ASSUME CloudInv, KeysInv, EventsKnown, NEW h \in Handlers, StoreKey(h)
  PROVE  KeysInv'
<1>. DEFINE k0 == handler[h].key
            row == Row(k0, Owner[Sub(h)])
<1>1. /\ \A g \in Handlers : g # h => handler'[g] = handler[g]
      /\ handler'[h].step = "idle" /\ handler[h].step = "store_key"
      /\ UNCHANGED <<server, issued, subscriptions, admin, stripe>>
      /\ acked' = acked \cup {handler[h].event} /\ apiKeys' = Append(apiKeys, row)
  <2>1. Over(h)
    BY HandlerGoes DEF StoreKey
  <2>. QED  BY <2>1 DEF Over, NoHandler, StoreKey, Acknowledge, At, Stay, serverDb
<1>2. /\ Storing(h) /\ Carrying(h) /\ k0 \in Issued(issued) /\ k0 # NoKey /\ Sub(h) \in Subs
      /\ handler[h].event = Paid(Sub(h))
  <2>1. Storing(h) /\ Carrying(h) /\ handler[h].step # "idle" /\ handler[h].step \in CheckoutSteps
    BY <1>1 DEF Storing, Carrying, CheckoutSteps
  <2>2. handler[h].event.type = "checkout"
    BY <2>1 DEF EventsKnown, HandlerKnown
  <2>. QED  BY <2>1, <2>2, BusyHandler, KeyFacts, EventKinds DEF Sub
<1>3. /\ DOMAIN apiKeys' = DOMAIN apiKeys \cup {Len(apiKeys) + 1}
      /\ \A i \in DOMAIN apiKeys : apiKeys'[i] = apiKeys[i]
      /\ apiKeys'[Len(apiKeys) + 1] = row /\ Len(apiKeys) + 1 \notin DOMAIN apiKeys
  BY <1>1, KeyFacts DEF CloudInv, DbTyped
<1>4. row.key = k0 /\ row.user = Owner[Sub(h)] /\ row.revoked = FALSE
  BY DEF Row
<1>5. \A k : /\ HasRow(k)' <=> HasRow(k) \/ k = k0
             /\ Recorded(k)' <=> Recorded(k) \/ k = k0
             /\ Inserting(k)' <=> Inserting(k)
  <2>. HIDE DEF k0, row
  <2>. QED  BY <1>1, <1>3, <1>4 DEF HasRow, Recorded, Inserting
<1>. HIDE DEF k0, row
<1>6. \A k, s : s \in Subs /\ HeldFor(k, s)' => HeldFor(k, s)
  BY <1>1 DEF HeldFor, CarriedFor, Carrying, Storing, Revoking, Sub
<1>7. HeldFor(k0, Sub(h))
  BY <1>2 DEF HeldFor, CarriedFor, k0
<1>8. HeldOnce'
  <2>. SUFFICES ASSUME NEW k \in Issued(issued), NEW s \in Subs, HeldFor(k, s)
                PROVE  /\ \A t \in Subs : HeldFor(k, t) => t = s
                       /\ \A i \in DOMAIN apiKeys' : apiKeys'[i].key = k => apiKeys'[i].user = Owner[s]
                       /\ ~Inserting(k)
    BY <1>1, <1>5, <1>6 DEF HeldOnce
  <2>1. /\ \A t \in Subs : HeldFor(k, t) => t = s
        /\ \A i \in DOMAIN apiKeys : apiKeys[i].key = k => apiKeys[i].user = Owner[s]
        /\ ~Inserting(k)
    BY DEF KeysInv, KeysPlaced, HeldOnce
  <2>2. k = k0 => s = Sub(h)
    BY <1>2, <1>7, <2>1
  <2>. QED  BY <1>3, <1>4, <2>1, <2>2
<1>9. StoredOnce' /\ RevokedNamed' /\ AdminsOwn'
  <2>1. \A g \in Handlers : /\ Storing(g)' => g # h /\ Storing(g) /\ handler'[g] = handler[g]
                            /\ Revoking(g)' => Revoking(g) /\ handler'[g] = handler[g]
    BY <1>1 DEF Storing, Revoking
  <2>2. \A g \in Handlers : Storing(g)' => handler[g].key # k0
    BY <1>2, <2>1 DEF KeysInv, KeysPlaced, StoredOnce, k0
  <2>3. StoredOnce'
    BY <1>5, <2>1, <2>2 DEF KeysInv, KeysPlaced, StoredOnce
  <2>4. RevokedNamed'
    BY <2>1 DEF KeysInv, KeysPlaced, RevokedNamed
  <2>5. ~Inserting(k0)
    BY <1>2, <1>7 DEF KeysInv, KeysPlaced, HeldOnce
  <2>6. AdminsOwn'
    BY <1>1, <1>3, <1>5, <2>5 DEF KeysInv, KeysPlaced, AdminsOwn, Inserting
  <2>. QED  BY <2>3, <2>4, <2>6
<1>10. MarkedAreDead'
  BY <1>1 DEF KeysInv, MarkedAreDead
<1>11. \A k : Expected(k)' <=> Expected(k)
  <2>1. \A k : k = k0 => Expected(k) /\ Expected(k)'
    BY <1>2, <1>5 DEF Expected, k0
  <2>2. \A k : k # k0 => (Expected(k)' <=> Expected(k))
    BY <1>1, <1>5 DEF Expected, Storing, k0
  <2>. QED  BY <2>1, <2>2
<1>12. ValidAreExpected' /\ ExpectedAreValid'
  BY <1>1, <1>11 DEF KeysInv, ValidAreExpected, ExpectedAreValid
<1>13. PaidAreServed'
  <2>. SUFFICES ASSUME NEW s \in Subs, Served(s)' PROVE ServedWell(s)'
    BY DEF PaidAreServed
  <2>1. ServedWell(s)
    BY <1>1 DEF KeysInv, PaidAreServed, Served
  <2>2. \A k : OwnRow(k, s) => OwnRow(k, s)'
    BY <1>3 DEF OwnRow
  <2>3. \A k : AtStoreKey(k, s) => AtStoreKey(k, s)' \/ OwnRow(k, s)'
    <3>. SUFFICES ASSUME NEW k, NEW g \in Handlers, handler[g].step = "store_key",
                         handler[g].key = k, Sub(g) = s
                  PROVE  AtStoreKey(k, s)' \/ OwnRow(k, s)'
      BY DEF AtStoreKey
    <3>1. CASE g = h
      <4>1. row = Row(k, Owner[s])
        BY <3>1 DEF row, k0
      <4>. QED  BY <1>3, <4>1 DEF OwnRow
    <3>2. CASE g # h
      BY <1>1, <3>2 DEF AtStoreKey, Sub
    <3>. QED  BY <3>1, <3>2
  <2>4. \A g \in Handlers : handler'[g].step = "store_key" /\ Sub(g)' = s =>
          handler[g].step = "store_key" /\ Sub(g) = s
    BY <1>1 DEF Sub
  <2>5. Paid(s) \in acked' => Paid(s) \in acked \/ s = Sub(h)
    BY <1>1, <1>2 DEF Paid, Event
  <2>6. s = Sub(h) => subscriptions[s].api_key_id # NoKey
    BY <1>1, <2>1 DEF ServedWell
  <2>. QED  BY <1>1, <1>6, <2>1, <2>2, <2>3, <2>4, <2>5, <2>6 DEF ServedWell
<1>. QED  BY <1>8, <1>9, <1>10, <1>12, <1>13 DEF KeysInv, KeysPlaced

(* What the server revokes it accepts no more, and it revokes nothing else.   *)
LEMMA RevokeKills ==
  ASSUME CloudInv, NothingLost, Issued(issued) \subseteq Keys, NEW k \in Issued(issued),
         IF AdminConfigured THEN RevokeAtServer(k) ELSE UNCHANGED server
  PROVE  /\ server'[k] # "valid"
         /\ \A j \in Keys : j # k => server'[j] = server[j]
         /\ \A j \in Keys : server'[j] = "valid" => server[j] = "valid"
<1>1. AdminConfigured /\ imported = {} /\ k \in Keys
  BY KeyFacts DEF NothingLost, Issued
<1>2. server' = IF server[k] = "valid" THEN [server EXCEPT ![k] = "revoked"] ELSE server
  BY <1>1 DEF RevokeAtServer
<1>. QED  BY <1>1, <1>2, KeyFacts

(* The rows of a key are marked, and nothing else of them changes.            *)
LEMMA MarkedRows ==
  ASSUME CloudInv, NEW k, MarkRevoked(k)
  PROVE  /\ DOMAIN apiKeys' = DOMAIN apiKeys
         /\ \A i \in DOMAIN apiKeys :
              /\ apiKeys'[i].key = apiKeys[i].key /\ apiKeys'[i].user = apiKeys[i].user
              /\ apiKeys[i].key # k => apiKeys'[i] = apiKeys[i]
              /\ apiKeys[i].key = k => apiKeys'[i].revoked
         /\ \A j : Recorded(j)' <=> Recorded(j) /\ j # k
<1>1. \A i \in DOMAIN apiKeys : apiKeys[i] \in KeyRows(issued)
  BY DEF CloudInv, DbTyped
<1>2. /\ DOMAIN apiKeys' = DOMAIN apiKeys
      /\ \A i \in DOMAIN apiKeys :
           /\ apiKeys'[i].key = apiKeys[i].key /\ apiKeys'[i].user = apiKeys[i].user
           /\ apiKeys[i].key # k => apiKeys'[i] = apiKeys[i]
           /\ apiKeys[i].key = k => apiKeys'[i].revoked
  BY <1>1 DEF MarkRevoked, KeyRows
<1>3. \A j : Recorded(j)' <=> Recorded(j) /\ j # k
  BY <1>2 DEF Recorded
<1>. QED  BY <1>2, <1>3

(* Customers who are served stay served: nothing they hold is taken away.     *)
LEMMA StillServed ==
  ASSUME PaidAreServed,
         \A s \in Subs : stripe[s] = "canceled" => stripe'[s] = "canceled",
         \A k \in Issued(issued), s \in Subs : HeldFor(k, s)' => HeldFor(k, s),
         Issued(issued) \subseteq Keys, UNCHANGED issued, CloudInv, CloudInv',
         \A s \in Subs : Served(s)' =>
           /\ subscriptions'[s].api_key_id = subscriptions[s].api_key_id
           /\ \A k \in Keys : HeldFor(k, s) => /\ server[k] = "valid" => server'[k] = "valid"
                                               /\ OwnRow(k, s) => OwnRow(k, s)'
           /\ AdminConfigured /\ Paid(s) \in acked' => Paid(s) \in acked,
         \A g \in Handlers :
           handler'[g].step = "store_key" \/ handler[g].step = "store_key" =>
             handler'[g] = handler[g]
  PROVE  PaidAreServed'
<1>. SUFFICES ASSUME NEW s \in Subs, Served(s)' PROVE ServedWell(s)'
  BY DEF PaidAreServed
<1>. DEFINE key == subscriptions[s].api_key_id
<1>1. ServedWell(s)
  BY DEF PaidAreServed, Served
<1>2. \A k \in Keys : HeldFor(k, s)' => k \in Issued(issued)
  <2>. SUFFICES ASSUME NEW k \in Keys, HeldFor(k, s)' PROVE k \in Issued(issued)'
    OBVIOUS
  <2>1. k # NoKey
    BY KeyFacts
  <2>2. /\ \A t \in Subs : subscriptions'[t].api_key_id \in Named(issued')
        /\ \A h \in Handlers : handler'[h].key \in Named(issued')
    BY DEF CloudInv, DbTyped, SubscriptionRows, HandlersTyped, HandlerSound
  <2>. QED  BY <2>1, <2>2 DEF HeldFor, CarriedFor, Named
<1>3. \A k \in Keys : HeldFor(k, s)' => server'[k] = "valid"
  BY <1>1, <1>2 DEF ServedWell
<1>4. subscriptions'[s].api_key_id = key
  OBVIOUS
<1>5. key # NoKey => OwnRow(key, s) \/ AtStoreKey(key, s)
  BY <1>1 DEF ServedWell
<1>6. \A k : AtStoreKey(k, s) => AtStoreKey(k, s)'
  BY DEF AtStoreKey, Sub
<1>7. \A k \in Keys : HeldFor(k, s) /\ OwnRow(k, s) => OwnRow(k, s)'
  OBVIOUS
<1>8. key # NoKey => key \in Keys /\ HeldFor(key, s)
  BY KeyFacts DEF HeldFor
<1>. HIDE DEF key
<1>9. \A k : k = key /\ k # NoKey => OwnRow(k, s)' \/ AtStoreKey(k, s)'
  BY <1>5, <1>6, <1>7, <1>8
<1>10. \A h \in Handlers : handler'[h].step = "store_key" /\ Sub(h)' = s => key # NoKey
  BY <1>1 DEF ServedWell, Sub, key
<1>11. AdminConfigured /\ Paid(s) \in acked' => key # NoKey
  BY <1>1 DEF ServedWell, key
<1>. QED  BY <1>3, <1>4, <1>9, <1>10, <1>11 DEF ServedWell

(* The cancellation's request is for a subscription that was canceled.         *)
LEMMA DeletionFacts ==
  ASSUME CloudInv, EventsKnown, NEW h \in Handlers, handler[h].step \in DeletionSteps
  PROVE  /\ Sub(h) \in Subs /\ stripe[Sub(h)] = "canceled"
         /\ \A s \in Subs : handler[h].event # Paid(s)
<1>1. handler[h].step # "idle" /\ HandlerKnown(h)
  BY DEF DeletionSteps, EventsKnown
<1>2. handler[h].event \in pending \cup acked /\ handler[h].event.type = "deleted"
  BY <1>1 DEF HandlerKnown
<1>3. handler[h].event = Deletion(Sub(h)) /\ Sub(h) \in Subs
  BY <1>1, <1>2, BusyHandler, EventKinds DEF Sub
<1>. QED  BY <1>2, <1>3 DEF EventsKnown, Paid, Event

(* The deletion's request has read the key.                                   *)
LEMMA LookupPlaces ==
  ASSUME CloudInv, CloudInv', KeysInv, Issued(issued) \subseteq Keys,
         NEW h \in Handlers, LookupKey(h), subscriptions[Sub(h)].api_key_id # NoKey
  PROVE  KeysInv'
<1>. DEFINE k0 == subscriptions[Sub(h)].api_key_id
<1>1. /\ \A g \in Handlers : g # h => handler'[g] = handler[g]
      /\ handler'[h].step = "revoke" /\ handler'[h].key = k0 /\ Sub(h)' = Sub(h)
      /\ handler[h].step = "lookup"
      /\ UNCHANGED <<server, issued, apiKeys, admin, stripe, acked, subscriptions>>
  <2>1. Now(h, "revoke", k0)
    BY HandlerGoes DEF LookupKey
  <2>. QED  BY <2>1 DEF Now, Sub, LookupKey, At, Stay, cloudDb, serverDb, stripeSide
<1>2. \A k \in Issued(issued), s \in Subs : HeldFor(k, s)' => HeldFor(k, s)
  BY <1>1, HeldKept
<1>3. \A g \in Handlers : /\ Storing(g)' <=> Storing(g)
                          /\ Storing(g) => handler'[g] = handler[g]
                          /\ Revoking(g)' => handler'[g].key # NoKey
  BY <1>1 DEF Storing, Revoking, KeysInv, KeysPlaced, RevokedNamed
<1>4. KeysPlaced'
  BY <1>1, <1>2, <1>3, FewerHeld DEF KeysInv, KeysPlaced, AdminsOwn
<1>5. MarkedAreDead'
  BY <1>1 DEF KeysInv, MarkedAreDead
<1>6. \A k : Expected(k)' <=> Expected(k)
  BY <1>1, <1>3 DEF Expected, Recorded, Inserting
<1>7. ValidAreExpected' /\ ExpectedAreValid'
  BY <1>1, <1>6 DEF KeysInv, ValidAreExpected, ExpectedAreValid
<1>8. PaidAreServed'
  BY <1>1, <1>2, StillServed DEF KeysInv, OwnRow
<1>. QED  BY <1>4, <1>5, <1>7, <1>8 DEF KeysInv

(* The server has revoked the key of a subscription that was canceled.        *)
LEMMA RevokePlaces ==
  ASSUME CloudInv, CloudInv', KeysInv, EventsKnown, NothingLost, Issued(issued) \subseteq Keys,
         NEW h \in Handlers, RevokeKey(h)
  PROVE  KeysInv'
<1>. DEFINE k0 == handler[h].key
<1>1. /\ \A g \in Handlers : g # h => handler'[g] = handler[g]
      /\ handler'[h].step = "mark" /\ handler'[h].key = k0 /\ Sub(h)' = Sub(h)
      /\ handler[h].step = "revoke"
      /\ UNCHANGED <<issued, apiKeys, admin, stripe, acked, subscriptions>>
  <2>1. Now(h, "mark", k0)
    BY HandlerGoes DEF RevokeKey
  <2>. QED  BY <2>1 DEF Now, Sub, RevokeKey, At, Stay, cloudDb, stripeSide
<1>2. k0 \in Issued(issued) /\ Revoking(h) /\ Carrying(h)
  BY <1>1, KeyFacts DEF KeysInv, KeysPlaced, RevokedNamed, Revoking, Carrying
<1>3. Sub(h) \in Subs /\ stripe[Sub(h)] = "canceled" /\ HeldFor(k0, Sub(h))
  BY <1>1, <1>2, DeletionFacts DEF DeletionSteps, HeldFor, CarriedFor
<1>4. /\ server'[k0] # "valid"
      /\ \A j \in Keys : j # k0 => server'[j] = server[j]
      /\ \A j \in Keys : server'[j] = "valid" => server[j] = "valid"
  BY <1>2, RevokeKills DEF RevokeKey
<1>5. \A k \in Issued(issued), s \in Subs : HeldFor(k, s)' => HeldFor(k, s)
  BY <1>1, <1>2, HeldKept
<1>6. \A g \in Handlers : /\ Storing(g)' <=> Storing(g)
                          /\ Storing(g) => handler'[g] = handler[g]
                          /\ Revoking(g)' => handler'[g].key # NoKey
  BY <1>1 DEF Storing, Revoking, KeysInv, KeysPlaced, RevokedNamed
<1>7. KeysPlaced'
  BY <1>1, <1>5, <1>6, FewerHeld DEF KeysInv, KeysPlaced, AdminsOwn
<1>8. MarkedAreDead'
  <2>1. ASSUME NEW g \in Handlers, handler'[g].step = "mark"
        PROVE  server'[handler'[g].key] # "valid"
    <3>1. CASE g = h
      BY <1>1, <1>4, <3>1
    <3>2. CASE g # h
      <4>1. handler'[g] = handler[g] /\ handler[g].key \in Keys
        BY <1>1, <2>1, <3>2, KeyFacts DEF KeysInv, KeysPlaced, RevokedNamed, Revoking
      <4>. QED  BY <1>4, <2>1, <4>1 DEF KeysInv, MarkedAreDead
    <3>. QED  BY <3>1, <3>2
  <2>2. ASSUME admin.step = "mark" PROVE server'[admin.key] # "valid"
    <3>1. admin.key \in Keys
      BY <2>2, KeyFacts DEF KeysInv, KeysPlaced, AdminsOwn
    <3>. QED  BY <1>4, <2>2, <3>1 DEF KeysInv, MarkedAreDead
  <2>. QED  BY <1>1, <2>1, <2>2 DEF MarkedAreDead
<1>9. \A k : Expected(k)' <=> Expected(k)
  BY <1>1, <1>6 DEF Expected, Recorded, Inserting
<1>10. ValidAreExpected' /\ ExpectedAreValid'
  BY <1>1, <1>3, <1>4, <1>9 DEF KeysInv, ValidAreExpected, ExpectedAreValid
<1>11. PaidAreServed'
  <2>1. \A s \in Subs : Served(s)' => s # Sub(h)
    BY <1>1, <1>3 DEF Served
  <2>2. \A k \in Keys, s \in Subs : HeldFor(k, s) /\ s # Sub(h) => k # k0
    BY <1>2, <1>3 DEF KeysInv, KeysPlaced, HeldOnce
  <2>3. \A s \in Subs : Served(s)' =>
          \A k \in Keys : HeldFor(k, s) => server'[k] = server[k]
    BY <1>4, <2>1, <2>2
  <2>. QED  BY <1>1, <1>5, <2>3, StillServed DEF KeysInv, OwnRow
<1>. QED  BY <1>7, <1>8, <1>10, <1>11 DEF KeysInv

(* The key's rows are marked.                                                 *)
LEMMA MarkPlaces ==
  ASSUME CloudInv, CloudInv', KeysInv, EventsKnown, Issued(issued) \subseteq Keys,
         NEW h \in Handlers, MarkKey(h)
  PROVE  KeysInv'
<1>. DEFINE k0 == handler[h].key
<1>1. /\ \A g \in Handlers : g # h => handler'[g] = handler[g]
      /\ handler'[h].step = "clear" /\ handler[h].step = "mark" /\ Sub(h)' = Sub(h)
      /\ UNCHANGED <<server, issued, admin, stripe, acked, subscriptions>>
  <2>1. Now(h, "clear", k0)
    BY HandlerGoes DEF MarkKey
  <2>. QED  BY <2>1 DEF Now, Sub, MarkKey, At, Stay, serverDb, stripeSide
<1>2. /\ DOMAIN apiKeys' = DOMAIN apiKeys
      /\ \A i \in DOMAIN apiKeys :
           /\ apiKeys'[i].key = apiKeys[i].key /\ apiKeys'[i].user = apiKeys[i].user
           /\ apiKeys[i].key # k0 => apiKeys'[i] = apiKeys[i]
      /\ \A j : Recorded(j)' <=> Recorded(j) /\ j # k0
  BY MarkedRows DEF MarkKey
<1>3. k0 \in Issued(issued) /\ Revoking(h) /\ Carrying(h) /\ server[k0] # "valid"
  BY <1>1, KeyFacts DEF KeysInv, KeysPlaced, RevokedNamed, Revoking, Carrying, MarkedAreDead
<1>4. Sub(h) \in Subs /\ stripe[Sub(h)] = "canceled" /\ HeldFor(k0, Sub(h))
  BY <1>1, <1>3, DeletionFacts DEF DeletionSteps, HeldFor, CarriedFor
<1>5. \A k \in Issued(issued), s \in Subs : HeldFor(k, s)' => HeldFor(k, s)
  <2>1. ~Carrying(h)'
    BY <1>1 DEF Carrying, Storing, Revoking
  <2>. QED  BY <1>1, <2>1, HeldKept
<1>6. \A g \in Handlers : /\ Storing(g)' <=> Storing(g)
                          /\ Storing(g) => handler'[g] = handler[g]
                          /\ Revoking(g)' => handler'[g].key # NoKey
  BY <1>1 DEF Storing, Revoking, KeysInv, KeysPlaced, RevokedNamed
<1>7. KeysPlaced'
  BY <1>1, <1>2, <1>5, <1>6, FewerHeld DEF KeysInv, KeysPlaced, AdminsOwn
<1>8. MarkedAreDead'
  BY <1>1 DEF KeysInv, MarkedAreDead
<1>9. \A k : k # k0 /\ Expected(k) => Expected(k)'
  BY <1>1, <1>2, <1>6 DEF Expected, Inserting
<1>10. ValidAreExpected' /\ ExpectedAreValid'
  BY <1>1, <1>3, <1>4, <1>9 DEF KeysInv, ValidAreExpected, ExpectedAreValid
<1>11. PaidAreServed'
  <2>1. \A s \in Subs : Served(s)' => s # Sub(h)
    BY <1>1, <1>4 DEF Served
  <2>2. \A k \in Keys, s \in Subs : HeldFor(k, s) /\ s # Sub(h) => k # k0
    BY <1>3, <1>4 DEF KeysInv, KeysPlaced, HeldOnce
  <2>3. ASSUME NEW k, NEW s, k # k0, OwnRow(k, s) PROVE OwnRow(k, s)'
    <3>1. PICK i \in DOMAIN apiKeys : apiKeys[i] = Row(k, Owner[s])
      BY <2>3 DEF OwnRow
    <3>2. apiKeys[i].key = k
      BY <3>1 DEF Row
    <3>3. i \in DOMAIN apiKeys' /\ apiKeys'[i] = apiKeys[i]
      BY <1>2, <2>3, <3>2
    <3>. QED  BY <3>1, <3>3 DEF OwnRow
  <2>4. \A s \in Subs : Served(s)' =>
          \A k \in Keys : HeldFor(k, s) /\ OwnRow(k, s) => OwnRow(k, s)'
    BY <2>1, <2>2, <2>3
  <2>. QED  BY <1>1, <1>5, <2>4, StillServed DEF KeysInv
<1>. QED  BY <1>7, <1>8, <1>10, <1>11 DEF KeysInv

(* The canceled subscription's row forgets its key.                           *)
LEMMA ClearPlaces ==
  ASSUME CloudInv, CloudInv', KeysInv, EventsKnown, Issued(issued) \subseteq Keys,
         NEW h \in Handlers, ClearSubscription(h)
  PROVE  KeysInv'
<1>1. /\ \A g \in Handlers : g # h => handler'[g] = handler[g]
      /\ handler'[h].step = "idle" /\ handler[h].step = "clear"
      /\ UNCHANGED <<server, issued, apiKeys, admin, stripe>>
      /\ acked' = acked \cup {handler[h].event}
  <2>1. Over(h)
    BY HandlerGoes DEF ClearSubscription
  <2>. QED  BY <2>1 DEF Over, NoHandler, ClearSubscription, Acknowledge, At, Stay, serverDb
<1>2. /\ Sub(h) \in Subs /\ stripe[Sub(h)] = "canceled"
      /\ \A s \in Subs : handler[h].event # Paid(s)
  BY <1>1, DeletionFacts DEF DeletionSteps
<1>3. \A s \in Subs : /\ subscriptions'[s].api_key_id \in {subscriptions[s].api_key_id, NoKey}
                      /\ s # Sub(h) => subscriptions'[s].api_key_id = subscriptions[s].api_key_id
  BY <1>2 DEF ClearSubscription, CloudInv, DbTyped
<1>4. \A k \in Issued(issued), s \in Subs : HeldFor(k, s)' => HeldFor(k, s)
  <2>1. ~Carrying(h)'
    BY <1>1 DEF Carrying, Storing, Revoking
  <2>. QED  BY <1>1, <1>3, <2>1, HeldKept
<1>5. \A g \in Handlers : /\ Storing(g)' <=> Storing(g)
                          /\ Storing(g) => handler'[g] = handler[g]
                          /\ Revoking(g)' => handler'[g].key # NoKey
  BY <1>1 DEF Storing, Revoking, KeysInv, KeysPlaced, RevokedNamed
<1>6. KeysPlaced'
  BY <1>1, <1>4, <1>5, FewerHeld DEF KeysInv, KeysPlaced, AdminsOwn
<1>7. MarkedAreDead'
  BY <1>1 DEF KeysInv, MarkedAreDead
<1>8. \A k : Expected(k)' <=> Expected(k)
  BY <1>1, <1>5 DEF Expected, Recorded, Inserting
<1>9. ValidAreExpected' /\ ExpectedAreValid'
  BY <1>1, <1>8 DEF KeysInv, ValidAreExpected, ExpectedAreValid
<1>10. PaidAreServed'
  <2>1. \A s \in Subs : Served(s)' =>
          /\ subscriptions'[s].api_key_id = subscriptions[s].api_key_id
          /\ Paid(s) \in acked' => Paid(s) \in acked
    BY <1>1, <1>2, <1>3 DEF Served
  <2>2. \A g \in Handlers : handler'[g].step = "store_key" \/ handler[g].step = "store_key" =>
          handler'[g] = handler[g]
    BY <1>1
  <2>. QED  BY <1>1, <1>4, <2>1, <2>2, StillServed DEF KeysInv, OwnRow
<1>. QED  BY <1>6, <1>7, <1>9, <1>10 DEF KeysInv

(* The administrator's key gets its row.                                      *)
LEMMA InsertPlaces ==
  ASSUME CloudInv, KeysInv, InsertGenerated, ~Fails
  PROVE  KeysInv'
<1>. DEFINE k0 == admin.key
            row == Row(k0, admin.user)
<1>1. /\ admin.step = "insert" /\ admin' = NoAdmin /\ apiKeys' = Append(apiKeys, row)
      /\ UNCHANGED <<server, issued, handler, subscriptions, stripe, acked>>
  BY DEF InsertGenerated, AdminStay, serverDb, stripeSide
<1>2. /\ DOMAIN apiKeys' = DOMAIN apiKeys \cup {Len(apiKeys) + 1}
      /\ \A i \in DOMAIN apiKeys : apiKeys'[i] = apiKeys[i]
      /\ apiKeys'[Len(apiKeys) + 1] = row /\ Len(apiKeys) + 1 \notin DOMAIN apiKeys
  BY <1>1, KeyFacts DEF CloudInv, DbTyped
<1>3. row.key = k0 /\ row.revoked = FALSE /\ admin'.step = "idle"
  BY <1>1 DEF Row, NoAdmin
<1>. HIDE DEF k0, row
<1>4. \A k : /\ HasRow(k)' <=> HasRow(k) \/ k = k0
             /\ Recorded(k)' <=> Recorded(k) \/ k = k0
             /\ Inserting(k) <=> k = k0
             /\ ~Inserting(k)'
  <2>1. \A k : (Inserting(k) <=> k = k0) /\ ~Inserting(k)'
    BY <1>1, <1>3 DEF Inserting, k0
  <2>2. \A k : /\ HasRow(k)' <=> HasRow(k) \/ k = k0
               /\ Recorded(k)' <=> Recorded(k) \/ k = k0
    BY <1>2, <1>3 DEF HasRow, Recorded
  <2>. QED  BY <2>1, <2>2
<1>5. \A k, s : HeldFor(k, s)' <=> HeldFor(k, s)
  BY <1>1 DEF HeldFor, CarriedFor, Carrying, Storing, Revoking, Sub
<1>6. \A g \in Handlers : /\ Storing(g)' <=> Storing(g)
                          /\ Revoking(g)' <=> Revoking(g)
                          /\ Storing(g) => handler[g].key # k0
  <2>1. \A g \in Handlers : (Storing(g)' <=> Storing(g)) /\ (Revoking(g)' <=> Revoking(g))
    BY <1>1 DEF Storing, Revoking
  <2>2. ASSUME NEW g \in Handlers, Storing(g) PROVE handler[g].key # k0
    <3>1. handler[g].key \in Issued(issued) /\ Sub(g) \in Subs
      BY <2>2, KeyFacts, BusyHandler DEF Storing
    <3>2. HeldFor(handler[g].key, Sub(g))
      BY <2>2 DEF HeldFor, CarriedFor, Carrying
    <3>. QED  BY <1>4, <3>1, <3>2 DEF KeysInv, KeysPlaced, HeldOnce
  <2>. QED  BY <2>1, <2>2
<1>7. HeldOnce'
  <2>. SUFFICES ASSUME NEW k \in Issued(issued), NEW s \in Subs, HeldFor(k, s)
                PROVE  /\ \A t \in Subs : HeldFor(k, t) => t = s
                       /\ \A i \in DOMAIN apiKeys' : apiKeys'[i].key = k => apiKeys'[i].user = Owner[s]
    BY <1>1, <1>4, <1>5 DEF HeldOnce
  <2>1. /\ \A t \in Subs : HeldFor(k, t) => t = s
        /\ \A i \in DOMAIN apiKeys : apiKeys[i].key = k => apiKeys[i].user = Owner[s]
        /\ k # k0
    BY <1>4 DEF KeysInv, KeysPlaced, HeldOnce
  <2>. QED  BY <1>2, <1>3, <2>1
<1>8. StoredOnce' /\ RevokedNamed' /\ AdminsOwn'
  <2>1. StoredOnce' /\ RevokedNamed'
    BY <1>1, <1>4, <1>6 DEF KeysInv, KeysPlaced, StoredOnce, RevokedNamed
  <2>2. AdminsOwn'
    BY <1>3 DEF AdminsOwn
  <2>. QED  BY <2>1, <2>2
<1>9. MarkedAreDead'
  BY <1>1, <1>3 DEF KeysInv, MarkedAreDead
<1>10. \A k : Expected(k)' <=> Expected(k)
  BY <1>1, <1>4, <1>6 DEF Expected
<1>11. ValidAreExpected' /\ ExpectedAreValid'
  BY <1>1, <1>10 DEF KeysInv, ValidAreExpected, ExpectedAreValid
<1>12. PaidAreServed'
  <2>. SUFFICES ASSUME NEW s \in Subs, Served(s)' PROVE ServedWell(s)'
    BY DEF PaidAreServed
  <2>1. ServedWell(s)
    BY <1>1 DEF KeysInv, PaidAreServed, Served
  <2>2. \A k : (OwnRow(k, s) => OwnRow(k, s)') /\ (AtStoreKey(k, s) => AtStoreKey(k, s)')
    BY <1>1, <1>2 DEF OwnRow, AtStoreKey, Sub
  <2>. QED  BY <1>1, <1>5, <2>1, <2>2 DEF ServedWell, Sub
<1>. QED  BY <1>7, <1>8, <1>9, <1>11, <1>12 DEF KeysInv, KeysPlaced

(* The administrator chooses a key to revoke.                                 *)
LEMMA AskPlaces ==
  ASSUME CloudInv, CloudInv', KeysInv, Issued(issued) \subseteq Keys,
         NEW i \in DOMAIN apiKeys, AskToRevoke(i)
  PROVE  KeysInv'
<1>1. /\ admin.step = "idle" /\ admin'.step = "revoke" /\ admin'.key = apiKeys[i].key
      /\ apiKeys[i].user \in Admins
      /\ UNCHANGED <<server, issued, apiKeys, handler, subscriptions, stripe, acked>>
  BY DEF AskToRevoke, AdminGoto, AdminStay, cloudDb, serverDb, stripeSide
<1>2. \A k, s : HeldFor(k, s)' <=> HeldFor(k, s)
  BY <1>1 DEF HeldFor, CarriedFor, Carrying, Storing, Revoking, Sub
<1>3. \A g \in Handlers : (Storing(g)' <=> Storing(g)) /\ (Revoking(g)' <=> Revoking(g))
  BY <1>1 DEF Storing, Revoking
<1>4. KeysPlaced'
  BY <1>1, <1>2, <1>3, FewerHeld DEF KeysInv, KeysPlaced, RevokedNamed
<1>5. MarkedAreDead'
  BY <1>1 DEF KeysInv, MarkedAreDead
<1>6. \A k : Expected(k)' <=> Expected(k)
  BY <1>1, <1>3 DEF Expected, Recorded, Inserting
<1>7. ValidAreExpected' /\ ExpectedAreValid'
  BY <1>1, <1>6 DEF KeysInv, ValidAreExpected, ExpectedAreValid
<1>8. PaidAreServed'
  BY <1>1, <1>2, StillServed DEF KeysInv, OwnRow
<1>. QED  BY <1>4, <1>5, <1>7, <1>8 DEF KeysInv

(* The server has revoked the administrator's key.                            *)
LEMMA RevokeAskedPlaces ==
  ASSUME CloudInv, CloudInv', KeysInv, NothingLost, Issued(issued) \subseteq Keys,
         RevokeAsked, ~Fails
  PROVE  KeysInv'
<1>. DEFINE k0 == admin.key
<1>1. /\ admin.step = "revoke" /\ admin'.step = "mark" /\ admin'.key = k0
      /\ UNCHANGED <<issued, apiKeys, handler, subscriptions, stripe, acked>>
      /\ IF AdminConfigured THEN RevokeAtServer(k0) ELSE UNCHANGED server
  BY DEF RevokeAsked, AdminGoto, AdminStay, cloudDb, stripeSide
<1>2. PICK i \in DOMAIN apiKeys : apiKeys[i].key = k0 /\ apiKeys[i].user \in Admins
  BY <1>1 DEF KeysInv, KeysPlaced, AdminsOwn
<1>3. k0 \in Issued(issued)
  BY <1>2, KeyFacts
<1>4. /\ server'[k0] # "valid"
      /\ \A j \in Keys : j # k0 => server'[j] = server[j]
      /\ \A j \in Keys : server'[j] = "valid" => server[j] = "valid"
  BY <1>1, <1>3, RevokeKills
<1>5. \A k, s : HeldFor(k, s)' <=> HeldFor(k, s)
  BY <1>1 DEF HeldFor, CarriedFor, Carrying, Storing, Revoking, Sub
<1>6. \A g \in Handlers : (Storing(g)' <=> Storing(g)) /\ (Revoking(g)' <=> Revoking(g))
  BY <1>1 DEF Storing, Revoking
<1>7. KeysPlaced'
  BY <1>1, <1>2, <1>5, <1>6, FewerHeld DEF KeysInv, KeysPlaced, RevokedNamed
<1>8. MarkedAreDead'
  <2>1. ASSUME NEW g \in Handlers, handler[g].step = "mark"
        PROVE  server'[handler[g].key] # "valid"
    <3>1. handler[g].key \in Keys
      BY <2>1, KeyFacts DEF KeysInv, KeysPlaced, RevokedNamed, Revoking
    <3>. QED  BY <1>4, <2>1, <3>1 DEF KeysInv, MarkedAreDead
  <2>. QED  BY <1>1, <1>4, <2>1 DEF MarkedAreDead
<1>9. \A k : Expected(k)' <=> Expected(k)
  BY <1>1, <1>6 DEF Expected, Recorded, Inserting
<1>10. ValidAreExpected' /\ ExpectedAreValid'
  BY <1>1, <1>4, <1>9 DEF KeysInv, ValidAreExpected, ExpectedAreValid
<1>11. PaidAreServed'
  <2>1. ASSUME NEW s \in Subs, Served(s)', NEW k \in Keys, HeldFor(k, s) PROVE k # k0
    <3>1. Owner[s] \notin Admins
      BY <2>1 DEF Served
    <3>. QED  BY <1>2, <1>3, <2>1, <3>1 DEF KeysInv, KeysPlaced, HeldOnce
  <2>2. \A s \in Subs : Served(s)' => \A k \in Keys : HeldFor(k, s) => server'[k] = server[k]
    BY <1>4, <2>1
  <2>. QED  BY <1>1, <1>5, <2>2, StillServed DEF KeysInv, OwnRow
<1>. QED  BY <1>7, <1>8, <1>10, <1>11 DEF KeysInv

(* The administrator's rows are marked.                                       *)
LEMMA MarkAskedPlaces ==
  ASSUME CloudInv, CloudInv', KeysInv, Issued(issued) \subseteq Keys, MarkAsked, ~Fails
  PROVE  KeysInv'
<1>. DEFINE k0 == admin.key
<1>1. /\ admin.step = "mark" /\ admin' = NoAdmin /\ admin'.step = "idle" /\ MarkRevoked(k0)
      /\ UNCHANGED <<server, issued, handler, subscriptions, stripe, acked>>
  BY DEF MarkAsked, NoAdmin, AdminStay, serverDb, stripeSide
<1>2. PICK i \in DOMAIN apiKeys : apiKeys[i].key = k0 /\ apiKeys[i].user \in Admins
  BY <1>1 DEF KeysInv, KeysPlaced, AdminsOwn
<1>3. k0 \in Issued(issued) /\ HasRow(k0) /\ server[k0] # "valid"
  BY <1>1, <1>2, KeyFacts DEF HasRow, KeysInv, MarkedAreDead
<1>4. /\ DOMAIN apiKeys' = DOMAIN apiKeys
      /\ \A j \in DOMAIN apiKeys :
           /\ apiKeys'[j].key = apiKeys[j].key /\ apiKeys'[j].user = apiKeys[j].user
           /\ apiKeys[j].key # k0 => apiKeys'[j] = apiKeys[j]
      /\ \A j : Recorded(j)' <=> Recorded(j) /\ j # k0
  BY <1>1, MarkedRows
<1>5. \A k, s : HeldFor(k, s)' <=> HeldFor(k, s)
  BY <1>1 DEF HeldFor, CarriedFor, Carrying, Storing, Revoking, Sub
<1>6. \A g \in Handlers : /\ Storing(g)' <=> Storing(g)
                          /\ Revoking(g)' <=> Revoking(g)
                          /\ Storing(g) => handler[g].key # k0
  BY <1>1, <1>3 DEF Storing, Revoking, KeysInv, KeysPlaced, StoredOnce
<1>7. KeysPlaced'
  BY <1>1, <1>4, <1>5, <1>6, FewerHeld DEF KeysInv, KeysPlaced, RevokedNamed
<1>8. MarkedAreDead'
  BY <1>1 DEF KeysInv, MarkedAreDead
<1>9. \A k : Expected(k)' <=> Expected(k) /\ k # k0
  BY <1>1, <1>4, <1>6 DEF Expected, Inserting
<1>10. ValidAreExpected' /\ ExpectedAreValid'
  BY <1>1, <1>3, <1>9 DEF KeysInv, ValidAreExpected, ExpectedAreValid
<1>11. PaidAreServed'
  <2>1. ASSUME NEW s \in Subs, Served(s)', NEW k \in Keys, HeldFor(k, s) PROVE k # k0
    <3>1. Owner[s] \notin Admins
      BY <2>1 DEF Served
    <3>. QED  BY <1>2, <1>3, <2>1, <3>1 DEF KeysInv, KeysPlaced, HeldOnce
  <2>2. ASSUME NEW k, NEW s, k # k0, OwnRow(k, s) PROVE OwnRow(k, s)'
    <3>1. PICK j \in DOMAIN apiKeys : apiKeys[j] = Row(k, Owner[s])
      BY <2>2 DEF OwnRow
    <3>2. apiKeys[j].key = k
      BY <3>1 DEF Row
    <3>3. j \in DOMAIN apiKeys' /\ apiKeys'[j] = apiKeys[j]
      BY <1>4, <2>2, <3>2
    <3>. QED  BY <3>1, <3>3 DEF OwnRow
  <2>3. \A s \in Subs : Served(s)' =>
          \A k \in Keys : HeldFor(k, s) /\ OwnRow(k, s) => OwnRow(k, s)'
    BY <2>1, <2>2
  <2>. QED  BY <1>1, <1>5, <2>3, StillServed DEF KeysInv
<1>. QED  BY <1>7, <1>8, <1>10, <1>11 DEF KeysInv

-----------------------------------------------------------------------------
(* The steps that are not about keys.                                         *)

(* The steps of a webhook request that write users and the status of a        *)
(* subscription are not about keys.                                           *)
LEMMA HandlerKeepsKeys ==
  ASSUME CloudInv, EventsKnown, NEW h \in Handlers,
         \/ UpsertUser(h) \/ UpsertSubscription(h) \/ SubscriptionUpdated(h) \/ PaymentFailed(h)
         \/ LookupKey(h) /\ subscriptions[Sub(h)].api_key_id = NoKey
  PROVE  KeepsKeys
<1>0. subscriptions \in [Subs -> SubscriptionRows(issued)] /\ HandlerKnown(h)
  BY DEF CloudInv, DbTyped, EventsKnown
<1>1. /\ UNCHANGED <<server, apiKeys, admin, issued, stripe>>
      /\ handler[h].step \in {"user", "subscription", "update", "past_due", "lookup"}
  BY DEF UpsertUser, UpsertSubscription, SubscriptionUpdated, PaymentFailed, SetStatus, LookupKey,
         Acknowledge, At, Stay, cloudDb, serverDb, stripeSide
<1>2. \A s \in Subs : subscriptions'[s].api_key_id = subscriptions[s].api_key_id
  <2>1. \/ UNCHANGED subscriptions
        \/ \E x : subscriptions' = [subscriptions EXCEPT ![Sub(h)].status = x]
    BY DEF UpsertUser, UpsertSubscription, SubscriptionUpdated, PaymentFailed, SetStatus, LookupKey,
           cloudDb
  <2>. QED  BY <1>0, <2>1 DEF SubscriptionRows
<1>3. /\ \A g \in Handlers : g # h => handler'[g] = handler[g]
      /\ handler'[h].step \in {"idle", "subscription", "provision", "clear"}
  <2>1. Over(h) \/ \E step \in {"subscription", "provision", "clear"} : Now(h, step, NoKey)
    <3>1. Acknowledge(h) \/ \E step \in {"subscription", "provision", "clear"} : Goto(h, step, NoKey)
      BY DEF UpsertUser, UpsertSubscription, SubscriptionUpdated, PaymentFailed, SetStatus, LookupKey
    <3>. QED  BY <3>1, HandlerGoes
  <2>. QED  BY <2>1 DEF Over, Now, NoHandler
<1>4. \A g \in Handlers : Carrying(g) \/ Carrying(g)' => handler'[g] = handler[g]
  BY <1>1, <1>3 DEF Carrying, Storing, Revoking
<1>5. ASSUME NEW s \in Subs, AdminConfigured, Paid(s) \in acked' PROVE Paid(s) \in acked
  <2>1. CASE UNCHANGED acked
    BY <1>5, <2>1
  <2>2. CASE acked' = acked \cup {handler[h].event} /\ handler[h].step \in {"update", "past_due"}
    <3>1. handler[h].event # Paid(s)
      BY <1>0, <2>2 DEF HandlerKnown, CheckoutSteps, Paid, Event
    <3>. QED  BY <1>5, <2>2, <3>1
  <2>. QED
    BY <1>5, <2>1, <2>2 DEF UpsertUser, UpsertSubscription, SubscriptionUpdated, PaymentFailed,
                            SetStatus, LookupKey, Acknowledge, At, stripeSide
<1>. QED  BY <1>1, <1>2, <1>4, <1>5 DEF KeepsKeys

(* Nor are Stripe's own steps, the beginning of a request, and, while the     *)
(* server has lost nothing, the reprovisioning tool's.                        *)
LEMMA OthersKeepKeys ==
  ASSUME CloudInv, EventsKnown, NothingLost, ~Fails,
         \/ StripeStep \/ ToolStep \/ UNCHANGED vars
         \/ \E h \in Handlers : \E e \in pending \cup acked : Deliver(h, e) \/ Redeliver(h, e)
  PROVE  KeepsKeys
<1>1. CASE StripeStep
  <2>1. UNCHANGED <<server, apiKeys, admin, issued, subscriptions, handler>>
    BY <1>1, OthersForms DEF cloudDb, serverDb
  <2>2. acked' = acked /\ \A s \in Subs : stripe[s] = "canceled" => stripe'[s] = "canceled"
    BY <1>1, StripeSends DEF EventsKnown
  <2>. QED  BY <2>1, <2>2 DEF KeepsKeys
<1>2. CASE ToolStep
  <2>1. UNCHANGED <<server, apiKeys, admin, issued, subscriptions, handler, stripe, acked>>
    BY <1>2, OthersForms, ToolWritesNothing DEF cloudDb, stripeSide
  <2>. QED  BY <2>1 DEF KeepsKeys
<1>3. CASE UNCHANGED vars
  <2>1. UNCHANGED <<server, apiKeys, admin, issued, subscriptions, handler, stripe, acked>>
    BY <1>3 DEF vars, cloudDb, serverDb, stripeSide
  <2>. QED  BY <2>1 DEF KeepsKeys
<1>4. ASSUME NEW h \in Handlers, NEW e \in pending \cup acked, Deliver(h, e) \/ Redeliver(h, e)
      PROVE  KeepsKeys
  <2>0. handler'[h] = [step |-> FirstStep(e.type), event |-> e, key |-> NoKey]
    BY <1>4, DeliveryForms
  <2>1. /\ UNCHANGED <<server, apiKeys, admin, issued, subscriptions, stripe, acked>>
        /\ \A g \in Handlers : g # h => handler'[g] = handler[g]
        /\ handler[h].step = "idle" /\ e \in Events
    BY <1>4, DeliveryForms DEF cloudDb, serverDb, stripeSide
  <2>2. handler'[h].step \in {"user", "update", "lookup", "past_due"}
    BY <2>0, <2>1, EventKinds
  <2>3. \A g \in Handlers : Carrying(g) \/ Carrying(g)' => handler'[g] = handler[g]
    BY <2>1, <2>2 DEF Carrying, Storing, Revoking
  <2>. QED  BY <2>1, <2>3 DEF KeepsKeys
<1>. QED  BY <1>1, <1>2, <1>3, <1>4

(* Every step that does not fail leaves each key where it belongs.            *)
LEMMA PlacesStep ==
  ASSUME CloudInv, CloudInv', FlowSound, KeysInv, [Next]_vars, ~Fails, ~LoseServerDatabase
  PROVE  KeysInv'
<1>1. EventsKnown /\ RowExists /\ NothingLost /\ Issued(issued) \subseteq Keys
  BY IssuedAreKeys DEF FlowSound
<1>2. ASSUME NEW h \in Handlers, HandlerStep(h) PROVE KeysInv'
  <2>1. CASE Provision(h)
    BY <1>1, <2>1, ProvisionPlaces
  <2>2. CASE StoreKeyId(h)
    BY <1>1, <2>2, StoreIdPlaces
  <2>3. CASE StoreKey(h)
    BY <1>1, <2>3, StoreKeyPlaces
  <2>4. CASE LookupKey(h) /\ subscriptions[Sub(h)].api_key_id # NoKey
    BY <1>1, <2>4, LookupPlaces
  <2>5. CASE RevokeKey(h)
    BY <1>1, <2>5, RevokePlaces
  <2>6. CASE MarkKey(h)
    BY <1>1, <2>6, MarkPlaces
  <2>7. CASE ClearSubscription(h)
    BY <1>1, <2>7, ClearPlaces
  <2>8. CASE \/ UpsertUser(h) \/ UpsertSubscription(h) \/ SubscriptionUpdated(h) \/ PaymentFailed(h)
             \/ LookupKey(h) /\ subscriptions[Sub(h)].api_key_id = NoKey
    BY <1>1, <2>8, HandlerKeepsKeys, KeysKept
  <2>9. ~ProvisionFails(h) /\ ~RevokeKeyFails(h) /\ ~HandlerFails(h)
    BY DEF ProvisionFails, RevokeKeyFails, HandlerFails
  <2>. QED  BY <1>2, <2>1, <2>2, <2>3, <2>4, <2>5, <2>6, <2>7, <2>8, <2>9 DEF HandlerStep
<1>3. CASE AdminStep
  BY <1>1, <1>3, GeneratePlaces, InsertPlaces, AskPlaces, RevokeAskedPlaces, MarkAskedPlaces
  DEF AdminStep
<1>4. CASE \/ StripeStep \/ ToolStep \/ UNCHANGED vars
           \/ \E h \in Handlers : \E e \in pending \cup acked : Deliver(h, e) \/ Redeliver(h, e)
  BY <1>1, <1>4, OthersKeepKeys, KeysKept
<1>. QED  BY <1>2, <1>3, <1>4 DEF Next

-----------------------------------------------------------------------------
(* In an empty database nothing is held, recorded or valid.                   *)
LEMMA FlowStart == Init => FlowInv
<1>. SUFFICES ASSUME Init PROVE FlowInv
  OBVIOUS
<1>1. /\ \A h \in Handlers : handler[h] = NoHandler /\ handler[h].step = "idle"
                             /\ handler[h].event.type = "none"
      /\ admin.step = "idle" /\ pending = {} /\ acked = {} /\ issued = 0 /\ imported = {}
      /\ apiKeys = <<>> /\ \A s \in Subs : subscriptions[s].api_key_id = NoKey
      /\ \A k \in Keys : server[k] = "none"
      /\ \A f \in Faults : spent[f] = 0
  BY DEF Init, NoHandler, NoAdmin, NoRow, NoEvent, Event
<1>2. EventsKnown /\ RowExists
  BY <1>1 DEF EventsKnown, HandlerKnown, CheckoutSteps, DeletionSteps, RowExists
<1>3. KeysCounted
  <2>1. Askers = {} /\ NotBegun = Subs
    BY <1>1 DEF Askers, Asking, NotBegun, InProgress, Paid, Event
  <2>2. IsFiniteSet({}) /\ Cardinality({}) = 0 /\ Cardinality(Subs) \in Nat
    BY FS_EmptySet, FS_CardinalityType, BillingAssumption
  <2>3. /\ spent["failure"] = 0 /\ spent["redelivery"] = 0 /\ spent["request"] = 0
        /\ spent["change"] = 0 /\ spent["loss"] = 0
    BY <1>1 DEF Faults
  <2>4. Total = 0
    BY <2>3 DEF Total
  <2>. QED  BY <1>1, <2>1, <2>2, <2>3, <2>4, BillingAssumption DEF KeysCounted
<1>4. NothingLost
  BY <1>1 DEF NothingLost, Issued
<1>5. \A k : ~HasRow(k) /\ ~Recorded(k) /\ ~Inserting(k)
  BY <1>1 DEF HasRow, Recorded, Inserting
<1>6. \A h \in Handlers : ~Storing(h) /\ ~Revoking(h) /\ ~Carrying(h) /\ ~(handler[h].step = "mark")
                          /\ ~(handler[h].step = "store_key")
  BY <1>1 DEF Storing, Revoking, Carrying
<1>7. \A k \in Keys \cup Issued(issued), s \in Subs : ~HeldFor(k, s)
  BY <1>1, <1>6 DEF HeldFor, CarriedFor, Keys, Issued, NoKey
<1>8. KeysPlaced /\ MarkedAreDead
  BY <1>1, <1>6, <1>7
  DEF KeysPlaced, HeldOnce, StoredOnce, RevokedNamed, AdminsOwn, MarkedAreDead
<1>9. \A k : ~Expected(k)
  BY <1>5, <1>6 DEF Expected
<1>10. ValidAreExpected /\ ExpectedAreValid
  BY <1>1, <1>9 DEF ValidAreExpected, ExpectedAreValid
<1>11. PaidAreServed
  BY <1>1, <1>6, <1>7 DEF PaidAreServed, ServedWell
<1>. QED  BY <1>2, <1>3, <1>4, <1>8, <1>10, <1>11 DEF FlowInv, FlowSound, KeysInv

(* The server has issued no more keys than the bound, after a step too.       *)
LEMMA IssuedStayKeys ==
  (CloudInv /\ KeysCounted => issued <= Cardinality(Subs) + MaxFaults)'
<1>1. CloudInv /\ KeysCounted => issued <= Cardinality(Subs) + MaxFaults
  BY IssuedAreKeys
<1>. QED  BY <1>1, PTL

(* No step that does not fail disturbs the flow of keys.                      *)
LEMMA FlowStep ==
  ASSUME CloudInv, CloudInv', FlowInv, [Next]_vars
  PROVE  FlowInv'
<1>. SUFFICES ASSUME NothingFailed' PROVE FlowSound' /\ KeysInv'
  BY DEF FlowInv
<1>1. NothingFailed /\ ~Fails /\ ~LoseServerDatabase
  BY NothingFailsNow
<1>2. FlowSound /\ KeysInv
  BY <1>1 DEF FlowInv
<1>3. EventsKnown' /\ RowExists' /\ KeysCounted'
  BY <1>1, <1>2, EventsStep, RowsExistStep, CountedStep DEF FlowSound
<1>4. issued' <= Cardinality(Subs) + MaxFaults
  BY <1>3, IssuedStayKeys
<1>5. NothingLost'
  BY <1>1, <1>2, <1>4, ServerAnswers DEF FlowSound
<1>6. KeysInv'
  BY <1>1, <1>2, PlacesStep
<1>. QED  BY <1>3, <1>5, <1>6 DEF FlowSound

(* So, until something fails, keys flow as they should.                       *)
LEMMA FlowInvariance == Spec => [](CloudInv /\ FlowInv)
<1>1. CloudInv /\ CloudInv' /\ FlowInv /\ [Next]_vars => FlowInv'
  BY FlowStep
<1>. QED  BY FlowStart, <1>1, BillingInvariance, PTL DEF Spec

(* The cloud's api_keys and the server's key table agree whenever no request  *)
(* is in progress and nothing failed: what the server accepts is recorded, and *)
(* until a subscription is canceled what is recorded is accepted, however     *)
(* Stripe's events, the administrator and the tool were interleaved.          *)
THEOREM StoresAlwaysAgree == Spec => []StoresAgree
<1>1. ASSUME CloudInv, FlowInv PROVE StoresAgree
  <2>. SUFFICES ASSUME NothingFailed, Quiet, NEW k \in Keys
                PROVE  /\ server[k] = "valid" => Recorded(k)
                       /\ Recorded(k) /\ (\A s \in Subs : stripe[s] # "canceled") =>
                            server[k] = "valid"
    BY DEF StoresAgree, NothingFailed
  <2>1. ValidAreExpected /\ ExpectedAreValid
    BY <1>1 DEF FlowInv, KeysInv
  <2>2. /\ \A h \in Handlers : ~Storing(h)
        /\ ~Inserting(k) /\ admin.step # "mark"
    BY DEF Quiet, Storing, Inserting
  <2>3. Expected(k) <=> Recorded(k)
    BY <2>2 DEF Expected
  <2>. QED  BY <2>1, <2>2, <2>3 DEF ValidAreExpected, ExpectedAreValid
<1>. QED  BY <1>1, FlowInvariance, PTL

(* A customer whose checkout was acknowledged and who has not canceled holds  *)
(* a recorded key that the server accepts, when nothing failed and nothing is *)
(* in progress: repeated checkouts leave the last key, and no key of theirs   *)
(* is revoked by another's cancellation or by the administrator.              *)
THEOREM PaidCustomersHoldKeys == Spec => []PaidHoldsKey
<1>1. ASSUME CloudInv, FlowInv PROVE PaidHoldsKey
  <2>. SUFFICES ASSUME NEW s \in Subs, Paid(s) \in acked, stripe[s] = "open", Owner[s] \notin Admins,
                       AdminConfigured, NothingFailed, Quiet
                PROVE  LET k == subscriptions[s].api_key_id
                       IN k \in Keys /\ server[k] = "valid"
                          /\ \E i \in DOMAIN apiKeys : apiKeys[i] = Row(k, Owner[s])
    BY DEF PaidHoldsKey, Paid, NothingFailed
  <2>. DEFINE key == subscriptions[s].api_key_id
  <2>1. ServedWell(s) /\ Issued(issued) \subseteq Keys
    BY <1>1, IssuedAreKeys DEF FlowInv, FlowSound, KeysInv, PaidAreServed, Served
  <2>2. key # NoKey /\ key \in Keys /\ HeldFor(key, s)
    BY <1>1, <2>1, KeyFacts DEF ServedWell, HeldFor
  <2>3. ~AtStoreKey(key, s)
    BY DEF Quiet, AtStoreKey
  <2>. QED  BY <2>1, <2>2, <2>3 DEF ServedWell, OwnRow
<1>. QED  BY <1>1, FlowInvariance, PTL

-----------------------------------------------------------------------------
(* The browser's session. *)

Records == [user : BOOLEAN, token : 0..MaxTokens]
TabSteps == {"idle", "load", "handler", "verify", "reply"}
TabRecords ==
  [kind : Kinds \cup {"none"}, step : TabSteps, id : 0..MaxSessions, form : 0..MaxTokens,
   copy : Records, dirty : BOOLEAN, empty : BOOLEAN, shows : 0..MaxTokens, lone : BOOLEAN]

(* A form shows the token of the copy that is written back, and nothing is     *)
(* changed before the session is looked at.                                  *)
TabSound(t) ==
  /\ t \in TabRecords
  /\ t.shows # NoToken => t.shows = t.copy.token
  /\ t.dirty => t.copy.token # NoToken \/ t.copy.user
  /\ t.step # "reply" => t.shows = NoToken
  /\ t.step \in {"idle", "load"} => ~t.dirty

TabsSound == tab = [r \in Tabs |-> tab[r]] /\ \A r \in Tabs : TabSound(tab[r])

StoreSound ==
  /\ sessionStore \in [1..MaxSessions -> Records] /\ cookie \in 0..MaxSessions
  /\ page \in [token : 0..MaxTokens, lone : BOOLEAN] /\ account \in {"in", "out", "any"}

Verifying == {r \in Tabs : tab[r].step = "verify"}

AttemptsSound ==
  /\ attempts \in Seq(0..(Window - 1))
  /\ Len(attempts) + Cardinality(Verifying) <= MaxAttempts - 1 + Cardinality(Tabs)

SessionInv == TabsSound /\ StoreSound /\ AttemptsSound

LEMMA SessionConstants ==
  /\ MaxAttempts \in Nat /\ MaxAttempts >= 1 /\ Window \in Nat /\ Window >= 1
  /\ MaxTokens \in Nat /\ MaxSessions \in Nat /\ IsFiniteSet(Tabs) /\ Cardinality(Tabs) \in Nat
  /\ 0 \in 0..MaxTokens /\ 0 \in 0..MaxSessions
BY SessionAssumption, FS_CardinalityType

LEMMA UnusedIsOne ==
  ASSUME NEW S \in SUBSET Nat, S # {}
  PROVE  Unused(S) \in S
<1>1. \E m \in S : \A k \in S : m <= k
  BY LeastNatural
<1>. QED  BY <1>1 DEF Unused

LEMMA FreshAreNew ==
  /\ FreshTokens # {} => Unused(FreshTokens) \in 1..MaxTokens
  /\ FreshIds # {} => Unused(FreshIds) \in 1..MaxSessions
<1>1. FreshTokens \in SUBSET Nat /\ FreshTokens \subseteq 1..MaxTokens
  BY DEF FreshTokens
<1>2. FreshIds \in SUBSET Nat /\ FreshIds \subseteq 1..MaxSessions
  BY DEF FreshIds
<1>. QED  BY <1>1, <1>2, UnusedIsOne

LEMMA VerifyingFinite ==
  /\ IsFiniteSet(Verifying) /\ Cardinality(Verifying) \in Nat
  /\ Cardinality(Verifying) <= Cardinality(Tabs)
<1>1. Verifying \subseteq Tabs
  BY DEF Verifying
<1>. QED  BY <1>1, SessionConstants, FS_Subset, FS_CardinalityType

LEMMA IdleTab ==
  /\ TabSound(Idle) /\ Idle \in TabRecords
  /\ Idle.step = "idle" /\ Idle.shows = NoToken /\ ~Idle.dirty
<1>1. Blank \in Records
  BY SessionConstants DEF Blank, Records, NoToken
<1>. QED  BY <1>1, SessionConstants DEF Idle, TabSound, TabRecords, TabSteps, NoToken, NoSession

LEMMA MembersTyped ==
  ASSUME NEW S, NEW T, NEW q \in Seq(S)
  PROVE  /\ \A i \in DOMAIN q : q[i] \in S
         /\ (\A i \in DOMAIN q : q[i] \in T) => q \in Seq(T)
<1>1. Len(q) \in Nat /\ DOMAIN q = 1..Len(q) /\ q = [i \in 1..Len(q) |-> q[i]]
  OBVIOUS
<1>. QED  BY <1>1

LEMMA SessionStart == SessionInit => SessionInv
<1>. SUFFICES ASSUME SessionInit PROVE SessionInv
  OBVIOUS
<1>1. TabSound(Idle) /\ Idle.step = "idle"
  BY IdleTab
<1>2. TabsSound
  BY <1>1 DEF SessionInit, TabsSound
<1>3. StoreSound
  BY SessionConstants DEF SessionInit, StoreSound, Blank, Records, NoToken, NoSession, NoPage
<1>4. AttemptsSound
  <2>1. Verifying = {}
    BY <1>1 DEF Verifying, SessionInit
  <2>2. Cardinality(Verifying) = 0
    BY <2>1, FS_EmptySet
  <2>3. attempts = <<>> /\ Len(attempts) = 0
    BY DEF SessionInit
  <2>. QED  BY <2>2, <2>3, SessionConstants DEF AttemptsSound
<1>. QED  BY <1>2, <1>3, <1>4 DEF SessionInv

(* A request moves on to what t says, unless it begins to verify a password.    *)
LEMMA TabMoves ==
  ASSUME TabsSound, NEW r \in Tabs, NEW t, TabSound(t), Set(r, t)
  PROVE  /\ TabsSound' /\ Verifying' \subseteq Tabs
         /\ t.step # "verify" => Verifying' = Verifying \ {r}
<1>1. tab' = [q \in Tabs |-> IF q = r THEN t ELSE tab[q]]
  BY DEF Set, TabsSound
<1>. QED  BY <1>1 DEF TabsSound, Verifying

LEMMA QuietTabStep ==
  ASSUME SessionInv, NEW r \in Tabs, NEW t, TabSound(t), Set(r, t), t.step # "verify",
         UNCHANGED attempts, StoreSound'
  PROVE  SessionInv'
<1>1. TabsSound' /\ Verifying' = Verifying \ {r}
  BY TabMoves DEF SessionInv
<1>2. Cardinality(Verifying') <= Cardinality(Verifying) /\ Cardinality(Verifying') \in Nat
  BY <1>1, VerifyingFinite, FS_Subset, FS_CardinalityType
<1>3. AttemptsSound'
  <2>1. Len(attempts) \in Nat
    BY DEF SessionInv, AttemptsSound
  <2>. QED  BY <1>2, <2>1, VerifyingFinite, SessionConstants DEF SessionInv, AttemptsSound
<1>. QED  BY <1>1, <1>3 DEF SessionInv

(* The first look at the session, and a reply that leaves it alone.            *)
LEMMA LookSound ==
  ASSUME SessionInv, NEW r \in Tabs
  PROVE  /\ tab[r] \in TabRecords /\ Stored(tab[r].id) \in Records
         /\ Loaded(r) \in TabRecords /\ Loaded(r).step = tab[r].step /\ Loaded(r).kind = tab[r].kind
         /\ Loaded(r).shows = tab[r].shows /\ Loaded(r).dirty = tab[r].dirty
         /\ Loaded(r).copy = Stored(tab[r].id)
<1>1. TabSound(tab[r]) /\ tab[r] \in TabRecords
  BY DEF SessionInv, TabsSound, TabSound
<1>2. Stored(tab[r].id) \in Records
  <2>1. Blank \in Records
    BY SessionConstants DEF Blank, Records, NoToken
  <2>2. tab[r].id # NoSession => tab[r].id \in 1..MaxSessions
    BY <1>1, SessionConstants DEF TabRecords, NoSession
  <2>. QED  BY <2>1, <2>2 DEF Stored, SessionInv, StoreSound
<1>3. NoSession \in 0..MaxSessions
  BY SessionConstants DEF NoSession
<1> DEFINE copy == Stored(tab[r].id)
           empty == tab[r].id # NoSession /\ copy = Blank
           id == IF copy = Blank THEN NoSession ELSE tab[r].id
<1>4. Loaded(r) = [tab[r] EXCEPT !.copy = copy, !.empty = empty, !.id = id]
  BY DEF Loaded
<1>5. copy \in Records /\ empty \in BOOLEAN /\ id \in 0..MaxSessions
  BY <1>1, <1>2, <1>3 DEF TabRecords
<1> HIDE DEF copy, empty, id
<1>6. /\ Loaded(r) \in TabRecords /\ Loaded(r).copy = copy
      /\ Loaded(r).step = tab[r].step /\ Loaded(r).kind = tab[r].kind
      /\ Loaded(r).shows = tab[r].shows /\ Loaded(r).dirty = tab[r].dirty
  BY <1>1, <1>4, <1>5 DEF TabRecords
<1>. QED  BY <1>1, <1>2, <1>6 DEF copy

LEMMA EndingStep ==
  ASSUME SessionInv, NEW r \in Tabs, NEW t \in TabRecords, EndUnchanged(r, t),
         UNCHANGED <<sessionStore, cookie, page, account, attempts>>
  PROVE  SessionInv'
<1> DEFINE kind == t.kind  empty == t.empty  lone == t.lone
           u == [Idle EXCEPT !.kind = kind, !.step = "reply", !.empty = empty, !.lone = lone]
<1>1. TabSound(u) /\ u.step = "reply"
  <2>1. kind \in Kinds \cup {"none"} /\ empty \in BOOLEAN /\ lone \in BOOLEAN
    BY DEF TabRecords
  <2> HIDE DEF kind, empty, lone
  <2>2. u \in TabRecords /\ u.step = "reply" /\ u.shows = Idle.shows /\ u.dirty = Idle.dirty
    BY <2>1, IdleTab DEF TabRecords, TabSteps
  <2> HIDE DEF u
  <2>. QED  BY <2>2, IdleTab DEF TabSound
<1>2. Set(r, u)
  BY DEF EndUnchanged
<1>3. StoreSound'
  BY DEF SessionInv, StoreSound
<1> HIDE DEF u
<1>. QED  BY <1>1, <1>2, <1>3, QuietTabStep

LEMMA FormStep ==
  ASSUME SessionInv, NEW r \in Tabs, CheckForm(r)
  PROVE  SessionInv'
<1>1. UNCHANGED <<sessionStore, cookie, page, account, attempts>> /\ tab[r].step = "load"
  BY DEF CheckForm, BrowserStays, LimiterStays
<1>2. CASE EndUnchanged(r, Loaded(r))
  BY <1>1, <1>2, LookSound, EndingStep
<1>3. CASE AcceptForm(r)
  <2> DEFINE token == Unused(FreshTokens)
             step == IF tab[r].kind = "login" THEN "handler" ELSE "reply"
             t == [Loaded(r) EXCEPT !.step = step, !.copy.token = token, !.dirty = TRUE]
  <2>1. token \in 1..MaxTokens /\ step \in {"handler", "reply"}
    BY <1>3, FreshAreNew DEF AcceptForm
  <2>2. Set(r, t)
    BY <1>3 DEF AcceptForm
  <2>3. Loaded(r) \in TabRecords /\ Loaded(r).shows = NoToken
    BY <1>1, LookSound DEF SessionInv, TabsSound, TabSound
  <2> HIDE DEF token, step
  <2>4. t \in TabRecords /\ t.step = step /\ t.shows = NoToken /\ t.copy.token = token
    <3>1. token \in 0..MaxTokens /\ step \in TabSteps
      BY <2>1 DEF TabSteps
    <3>2. [Loaded(r).copy EXCEPT !.token = token] \in Records
      BY <2>3, <3>1 DEF TabRecords, Records
    <3>. QED  BY <2>3, <3>1, <3>2 DEF TabRecords, Records
  <2>5. token # NoToken
    BY <2>1 DEF NoToken
  <2> HIDE DEF t
  <2>6. TabSound(t) /\ t.step # "verify"
    BY <2>1, <2>4, <2>5 DEF TabSound
  <2>. QED  BY <1>1, <2>2, <2>6, QuietTabStep DEF SessionInv, StoreSound
<1>. QED  BY <1>2, <1>3 DEF CheckForm

LEMMA PageStep ==
  ASSUME SessionInv, NEW r \in Tabs, OpenPage(r)
  PROVE  SessionInv'
<1>1. UNCHANGED <<sessionStore, cookie, page, account, attempts>> /\ tab[r].step = "load"
  BY DEF OpenPage, BrowserStays, LimiterStays
<1>2. CASE EndUnchanged(r, Loaded(r))
  BY <1>1, <1>2, LookSound, EndingStep
<1>3. CASE /\ FreshTokens # {}
           /\ Set(r, [WithToken(Loaded(r)) EXCEPT
                        !.step = "reply", !.shows = WithToken(Loaded(r)).copy.token])
  <2> DEFINE u == WithToken(Loaded(r))
             t == [u EXCEPT !.step = "reply", !.shows = u.copy.token]
  <2>1. /\ Loaded(r) \in TabRecords /\ ~Loaded(r).dirty
    BY <1>1, LookSound DEF SessionInv, TabsSound, TabSound
  <2>2. u \in TabRecords /\ (u.dirty => u.copy.token # NoToken)
    <3>1. CASE Loaded(r).copy.token # NoToken
      BY <2>1, <3>1 DEF WithToken
    <3>2. CASE Loaded(r).copy.token = NoToken
      <4> DEFINE token == Unused(FreshTokens)
      <4>1. token \in 1..MaxTokens /\ token \in 0..MaxTokens /\ token # NoToken
        BY <1>3, FreshAreNew DEF NoToken
      <4>2. u = [Loaded(r) EXCEPT !.copy.token = token, !.dirty = TRUE]
        BY <3>2 DEF WithToken
      <4> HIDE DEF token, u
      <4>3. [Loaded(r).copy EXCEPT !.token = token] \in Records
        BY <2>1, <4>1 DEF TabRecords, Records
      <4>. QED  BY <2>1, <4>1, <4>2, <4>3 DEF TabRecords, Records
    <3>. QED  BY <3>1, <3>2
  <2>3. Set(r, t)
    BY <1>3
  <2> HIDE DEF u
  <2>4. t \in TabRecords /\ t.step = "reply" /\ t.shows = t.copy.token
        /\ t.dirty = u.dirty /\ t.copy = u.copy
    <3>1. u.copy.token \in 0..MaxTokens /\ "reply" \in TabSteps
      BY <2>2 DEF TabRecords, Records, TabSteps
    <3>. QED  BY <2>2, <3>1 DEF TabRecords
  <2> HIDE DEF t
  <2>5. TabSound(t) /\ t.step # "verify"
    BY <2>2, <2>4 DEF TabSound
  <2>. QED  BY <1>1, <2>3, <2>5, QuietTabStep DEF SessionInv, StoreSound
<1>. QED  BY <1>2, <1>3 DEF OpenPage

(* A login that succeeds, by password or at the end of a checkout.             *)
LEMMA SignInSound ==
  ASSUME NEW t \in TabRecords, t.shows = NoToken
  PROVE  TabSound(SignIn(t)) /\ SignIn(t).step = "reply"
<1>1. [t.copy EXCEPT !.user = TRUE] \in Records
  BY DEF TabRecords, Records
<1>2. /\ SignIn(t) \in TabRecords /\ SignIn(t).step = "reply" /\ SignIn(t).shows = NoToken
      /\ SignIn(t).copy.user = TRUE
  BY <1>1 DEF SignIn, TabRecords, TabSteps, Records
<1>. QED  BY <1>2 DEF TabSound

LEMMA SuccessStep ==
  ASSUME SessionInv, NEW r \in Tabs, CheckoutSucceeds(r)
  PROVE  SessionInv'
<1>1. UNCHANGED <<sessionStore, cookie, page, account, attempts>> /\ tab[r].step = "load"
  BY DEF CheckoutSucceeds, BrowserStays, LimiterStays
<1>2. CASE EndUnchanged(r, tab[r])
  BY <1>1, <1>2, LookSound, EndingStep
<1>3. CASE Set(r, SignIn(Loaded(r)))
  <2>1. Loaded(r) \in TabRecords /\ Loaded(r).shows = NoToken
    BY <1>1, LookSound DEF SessionInv, TabsSound, TabSound
  <2>2. TabSound(SignIn(Loaded(r))) /\ SignIn(Loaded(r)).step # "verify"
    BY <2>1, SignInSound
  <2>. QED  BY <1>1, <1>3, <2>2, QuietTabStep DEF SessionInv, StoreSound
<1>. QED  BY <1>2, <1>3 DEF CheckoutSucceeds

LEMMA LogoutStep ==
  ASSUME SessionInv, NEW r \in Tabs, logout(r)
  PROVE  SessionInv'
<1> DEFINE t == [tab[r] EXCEPT !.step = "reply", !.copy = Blank, !.empty = TRUE]
<1>1. /\ UNCHANGED <<cookie, page, account, attempts>> /\ tab[r].step = "load" /\ Set(r, t)
      /\ \/ sessionStore' = sessionStore
         \/ sessionStore' = [sessionStore EXCEPT ![tab[r].id] = Blank]
  BY DEF logout, Flush, BrowserStays, LimiterStays
<1>2. tab[r] \in TabRecords /\ tab[r].shows = NoToken /\ ~tab[r].dirty
  BY <1>1 DEF SessionInv, TabsSound, TabSound
<1>3. Blank \in Records
  BY SessionConstants DEF Blank, Records, NoToken
<1>4. t \in TabRecords /\ t.step = "reply" /\ t.shows = NoToken /\ ~t.dirty
  BY <1>2, <1>3 DEF TabRecords, TabSteps
<1> HIDE DEF t
<1>5. TabSound(t) /\ t.step # "verify"
  BY <1>4 DEF TabSound
<1>6. StoreSound'
  BY <1>1, <1>3 DEF SessionInv, StoreSound
<1>. QED  BY <1>1, <1>5, <1>6, QuietTabStep

(* login_submit.                                                             *)
LEMMA LoginStep ==
  ASSUME SessionInv, NEW r \in Tabs, AskLimiter(r) \/ LoginFails(r) \/ PasswordVerified(r)
  PROVE  SessionInv'
<1>. TabsSound /\ AttemptsSound
  BY DEF SessionInv
<1>0. UNCHANGED <<sessionStore, cookie, page, account>> /\ StoreSound'
  BY DEF AskLimiter, LoginFails, PasswordVerified, BrowserStays, SessionInv, StoreSound
<1>1. TabSound(tab[r]) /\ tab[r] \in TabRecords /\ Len(attempts) \in Nat
  BY DEF SessionInv, TabsSound, TabSound, AttemptsSound
<1>2. CASE AskLimiter(r)
  <2> DEFINE step == IF is_limited THEN "reply" ELSE "verify"
             t == [tab[r] EXCEPT !.step = step]
  <2>1. Set(r, t) /\ UNCHANGED attempts /\ tab[r].step = "handler"
    BY <1>2 DEF AskLimiter, LimiterStays
  <2>2. step \in {"reply", "verify"} /\ step \in TabSteps
    BY DEF TabSteps
  <2>3. step # "reply" => Len(attempts) < MaxAttempts
    BY <1>1, SessionConstants DEF is_limited
  <2> HIDE DEF step
  <2>4. t \in TabRecords /\ t.step = step /\ t.shows = tab[r].shows /\ t.dirty = tab[r].dirty
        /\ t.copy = tab[r].copy
    BY <1>1, <2>2 DEF TabRecords
  <2> HIDE DEF t
  <2>5. TabSound(t)
    BY <1>1, <2>1, <2>2, <2>4 DEF TabSound
  <2>6. CASE step = "reply"
    BY <1>0, <2>1, <2>4, <2>5, <2>6, QuietTabStep
  <2>7. CASE step # "reply"
    <3>1. TabsSound' /\ Verifying' \subseteq Tabs
      BY <2>1, <2>5, TabMoves
    <3>2. Cardinality(Verifying') <= Cardinality(Tabs) /\ Cardinality(Verifying') \in Nat
      BY <3>1, SessionConstants, FS_Subset, FS_CardinalityType
    <3>3. Len(attempts) + Cardinality(Verifying') <= MaxAttempts - 1 + Cardinality(Tabs)
      BY <1>1, <2>3, <2>7, <3>2, SessionConstants
    <3>4. AttemptsSound'
      BY <2>1, <3>3 DEF AttemptsSound
    <3>. QED  BY <1>0, <3>1, <3>4 DEF SessionInv
  <2>. QED  BY <2>6, <2>7
<1>3. CASE LoginFails(r)
  <2> DEFINE t == [tab[r] EXCEPT !.step = "reply", !.shows = tab[r].copy.token]
  <2>1. Set(r, t) /\ attempts' = Append(attempts, 0) /\ tab[r].step = "verify"
    BY <1>3 DEF LoginFails, record_attempt
  <2>2. t \in TabRecords /\ t.step = "reply" /\ t.shows = t.copy.token /\ t.dirty = tab[r].dirty
        /\ t.copy = tab[r].copy
    <3>1. tab[r].copy.token \in 0..MaxTokens /\ "reply" \in TabSteps
      BY <1>1 DEF TabRecords, Records, TabSteps
    <3>. QED  BY <1>1, <3>1 DEF TabRecords
  <2> HIDE DEF t
  <2>3. TabSound(t)
    BY <1>1, <2>2 DEF TabSound
  <2>4. TabsSound' /\ Verifying' = Verifying \ {r}
    BY <2>1, <2>2, <2>3, TabMoves
  <2>5. r \in Verifying
    BY <2>1 DEF Verifying
  <2>6. Cardinality(Verifying') = Cardinality(Verifying) - 1
    BY <2>4, <2>5, VerifyingFinite, FS_RemoveElement
  <2>7. attempts' \in Seq(0..(Window - 1)) /\ Len(attempts') = Len(attempts) + 1
    <3>1. 0 \in 0..(Window - 1)
      BY SessionConstants
    <3>. QED  BY <2>1, <3>1 DEF AttemptsSound
  <2>8. AttemptsSound'
    BY <1>1, <2>6, <2>7, VerifyingFinite, SessionConstants DEF AttemptsSound
  <2>. QED  BY <1>0, <2>4, <2>8 DEF SessionInv
<1>4. CASE PasswordVerified(r)
  <2>1. tab[r].shows = NoToken /\ Set(r, SignIn(tab[r])) /\ UNCHANGED attempts
    BY <1>1, <1>4 DEF PasswordVerified, TabSound, LimiterStays
  <2>2. TabSound(SignIn(tab[r])) /\ SignIn(tab[r]).step # "verify"
    BY <1>1, <2>1, SignInSound
  <2>. QED  BY <1>0, <2>1, <2>2, QuietTabStep
<1>. QED  BY <1>2, <1>3, <1>4

(* The copy is written back and the page shown.                                *)
LEMMA ReplyStep ==
  ASSUME SessionInv, NEW r \in Tabs, Reply(r)
  PROVE  SessionInv'
<1> DEFINE t == tab[r]
           id == IF t.id = NoSession THEN Unused(FreshIds) ELSE t.id
<1>1. TabSound(t) /\ t \in TabRecords
  BY DEF SessionInv, TabsSound, TabSound
<1>2. Changed(t) => id \in 1..MaxSessions
  <2>1. t.id # NoSession => t.id \in 1..MaxSessions
    BY <1>1, SessionConstants DEF TabRecords, NoSession
  <2>2. Changed(t) /\ t.id = NoSession => FreshIds # {}
    BY DEF Reply
  <2>. QED  BY <2>1, <2>2, FreshAreNew
<1>3. cookie' \in 0..MaxSessions
  <2>1. \/ Changed(t) /\ cookie' = id
        \/ cookie' = NoSession \/ cookie' = cookie
    BY DEF Reply
  <2>. QED  BY <1>2, <2>1, SessionConstants DEF SessionInv, StoreSound, NoSession
<1>4. sessionStore' \in [1..MaxSessions -> Records]
  <2>1. Blank \in Records /\ t.copy \in Records
    BY <1>1, SessionConstants DEF Blank, Records, NoToken, TabRecords
  <2>2. sessionStore' = [i \in 1..MaxSessions |->
          IF Changed(t) /\ i = id THEN t.copy
          ELSE IF Referenced(i) THEN sessionStore[i] ELSE Blank]
    BY DEF Reply
  <2> HIDE DEF t, id
  <2>. QED  BY <2>1, <2>2 DEF SessionInv, StoreSound
<1>5. page' \in [token : 0..MaxTokens, lone : BOOLEAN]
  BY <1>1 DEF Reply, TabRecords
<1>6. account' \in {"in", "out", "any"}
  BY DEF Reply, SessionInv, StoreSound
<1>7. StoreSound'
  BY <1>3, <1>4, <1>5, <1>6 DEF StoreSound
<1>8. TabSound(Idle) /\ Idle.step # "verify"
  BY IdleTab
<1>9. Set(r, Idle) /\ UNCHANGED attempts
  BY DEF Reply, LimiterStays
<1>. QED  BY <1>7, <1>8, <1>9, QuietTabStep

LEMMA RequestStep ==
  ASSUME SessionInv, NEW r \in Tabs, NEW kind \in Kinds, Request(r, kind)
  PROVE  SessionInv'
<1>. TabsSound /\ StoreSound /\ AttemptsSound
  BY DEF SessionInv
<1>1. UNCHANGED <<sessionStore, cookie, page, attempts, account>> /\ tab[r].step = "idle"
  BY DEF Request, Running
<1> DEFINE form == IF kind \in Forms THEN page.token ELSE NoToken
           lone == \A o \in Tabs : ~Running(o)
           t == [Idle EXCEPT !.kind = kind, !.step = "load", !.id = cookie, !.form = form,
                             !.lone = lone]
<1>2. TabSound(t) /\ t.step = "load"
  <2>1. /\ Blank \in Records /\ NoToken \in 0..MaxTokens
        /\ form \in 0..MaxTokens /\ lone \in BOOLEAN /\ cookie \in 0..MaxSessions
    BY SessionConstants DEF Blank, Records, NoToken, StoreSound
  <2> HIDE DEF form, lone
  <2>2. t \in TabRecords /\ t.step = "load" /\ t.shows = Idle.shows /\ t.dirty = Idle.dirty
    BY <2>1, IdleTab DEF TabRecords, TabSteps
  <2> HIDE DEF t
  <2>. QED  BY <2>2, IdleTab DEF TabSound
<1>3. tab' = [q \in Tabs |-> IF q = r THEN t ELSE [tab[q] EXCEPT !.lone = FALSE]]
  BY DEF Request
<1> HIDE DEF t
<1>4. ASSUME NEW q \in Tabs
      PROVE  TabSound([tab[q] EXCEPT !.lone = FALSE])
             /\ [tab[q] EXCEPT !.lone = FALSE].step = tab[q].step
  <2>1. TabSound(tab[q]) /\ tab[q] \in TabRecords
    BY DEF TabsSound, TabSound
  <2> DEFINE u == [tab[q] EXCEPT !.lone = FALSE]
  <2>2. u \in TabRecords /\ u.step = tab[q].step /\ u.shows = tab[q].shows /\ u.copy = tab[q].copy
        /\ u.dirty = tab[q].dirty
    BY <2>1 DEF TabRecords
  <2> HIDE DEF u
  <2>3. TabSound(u)
    BY <2>1, <2>2 DEF TabSound
  <2>. QED  BY <2>2, <2>3 DEF u
<1>5. TabsSound'
  BY <1>2, <1>3, <1>4 DEF TabsSound
<1>6. Verifying' = Verifying
  BY <1>1, <1>2, <1>3, <1>4 DEF Verifying
<1>. QED  BY <1>1, <1>5, <1>6 DEF SessionInv, StoreSound, AttemptsSound

(* The oldest failed logins leave the window.                                  *)
LEMMA TimeStep ==
  ASSUME SessionInv, TimePasses
  PROVE  SessionInv'
<1>. TabsSound /\ StoreSound /\ AttemptsSound
  BY DEF SessionInv
<1>1. UNCHANGED <<sessionStore, cookie, page, tab, account>>
  BY DEF TimePasses
<1> DEFINE aged == [i \in DOMAIN attempts |-> attempts[i] + 1]
<1>2. aged \in Seq(1..Window) /\ Len(aged) = Len(attempts) /\ Len(attempts) \in Nat
  <2>1. /\ attempts \in Seq(0..(Window - 1)) /\ DOMAIN attempts = 1..Len(attempts)
        /\ Len(attempts) \in Nat
    BY DEF AttemptsSound
  <2>2. \A i \in 1..Len(attempts) : attempts[i] + 1 \in 1..Window
    BY <2>1, SessionConstants
  <2>. QED  BY <2>1, <2>2
<1>3. attempts' = Without(aged, {Window})
  BY DEF TimePasses
<1> HIDE DEF aged
<1>4. /\ attempts' \in Seq(1..Window) /\ Len(attempts') <= Len(attempts)
      /\ Members(attempts') = Members(aged) \ {Window}
  BY <1>2, <1>3, WithoutProperties
<1>5. attempts' \in Seq(0..(Window - 1)) /\ Len(attempts') \in Nat
  <2>1. \A i \in DOMAIN attempts' : attempts'[i] \in 1..Window /\ attempts'[i] # Window
    BY <1>4, MembersTyped DEF Members
  <2>2. \A i \in DOMAIN attempts' : attempts'[i] \in 0..(Window - 1)
    BY <2>1, SessionConstants
  <2> DEFINE Before == 1..Window  After == 0..(Window - 1)
  <2>3. attempts' \in Seq(Before) /\ \A i \in DOMAIN attempts' : attempts'[i] \in After
    BY <1>4, <2>2
  <2> HIDE DEF Before, After
  <2>4. attempts' \in Seq(After) /\ Len(attempts') \in Nat
    BY <2>3, MembersTyped
  <2>. QED  BY <2>4 DEF After
<1>6. Verifying' = Verifying
  BY <1>1 DEF Verifying
<1>7. AttemptsSound'
  BY <1>2, <1>4, <1>5, <1>6, VerifyingFinite, SessionConstants DEF AttemptsSound
<1>. QED  BY <1>1, <1>7 DEF SessionInv, TabsSound, StoreSound

LEMMA SessionInvariance == SessionSpec => []SessionInv
<1>1. ASSUME SessionInv, SessionNext PROVE SessionInv'
  BY <1>1, TimeStep, RequestStep, FormStep, PageStep, SuccessStep, LogoutStep, LoginStep, ReplyStep
     DEF SessionNext, Handle
<1>2. ASSUME SessionInv, UNCHANGED sessionVars PROVE SessionInv'
  BY <1>2 DEF sessionVars, SessionInv, TabsSound, StoreSound, AttemptsSound, Verifying
<1>. QED  BY <1>1, <1>2, SessionStart, PTL DEF SessionSpec

(* A form shows the token its request leaves in the session.                   *)
THEOREM SessionTypeCorrect == SessionSpec => []SessionTypeOK
<1>1. SessionInv => SessionTypeOK
  <2>. SUFFICES ASSUME SessionInv PROVE SessionTypeOK
    OBVIOUS
  <2>1. \A r \in Tabs : TabSound(tab[r]) /\ tab[r].step \in TabSteps
    BY DEF SessionInv, TabsSound, TabSound, TabRecords
  <2>2. \A i \in DOMAIN attempts : attempts[i] \in 0..(Window - 1)
    BY MembersTyped DEF SessionInv, AttemptsSound
  <2>3. \A r \in Tabs :
          /\ tab[r].step \in {"idle", "load", "handler", "verify", "reply"}
          /\ tab[r].shows # NoToken => tab[r].shows = tab[r].copy.token
          /\ tab[r].dirty => tab[r].copy.token # NoToken \/ tab[r].copy.user
    BY <2>1 DEF TabSound, TabSteps
  <2>. QED  BY <2>2, <2>3 DEF SessionTypeOK, SessionInv, StoreSound, Records
<1>. QED  BY <1>1, SessionInvariance, PTL

(* However logins overlap, an address fails at most as often beyond the limit   *)
(* as there are requests under way.                                          *)
THEOREM LoginTriesAreBounded == SessionSpec => []LoginTriesBounded
<1>1. SessionInv => LoginTriesBounded
  BY DEF SessionInv, AttemptsSound, Verifying, LoginTriesBounded
<1>. QED  BY <1>1, SessionInvariance, PTL

-----------------------------------------------------------------------------
(* The browser's session: what the screen and the last login or logout say.   *)

(* A request that overlapped no other is the only one under way.              *)
AloneSound ==
  \A r \in Tabs : Running(r) /\ tab[r].lone => \A o \in Tabs : Running(o) => o = r

(* What a request holds before it looked at its session, after a logout and   *)
(* when it is over.  Only a login goes as far as its handler.                *)
StepSound(t) ==
  /\ t.step = "idle" => t.id = NoSession /\ t.copy = Blank
  /\ t.step = "load" => ~t.empty /\ t.copy = Blank
  /\ t.step \in {"handler", "verify"} => t.kind = "login" /\ t.dirty
  /\ t.step = "reply" /\ t.kind = "logout" => t.empty /\ ~t.dirty /\ t.copy = Blank

StepsSound == \A r \in Tabs : StepSound(tab[r])

(* A request alone has the browser's session, and shows its token.            *)
ShownSound ==
  \A r \in Tabs : Running(r) /\ tab[r].lone =>
    /\ tab[r].step = "load" => tab[r].id = cookie
    /\ tab[r].shows # NoToken /\ ~tab[r].dirty =>
         cookie # NoSession /\ tab[r].copy = sessionStore[cookie] /\ ~tab[r].empty

AtRest == \A r \in Tabs : ~Running(r)

PageSound == AtRest /\ page.lone /\ page.token # NoToken => Stored(cookie).token = page.token

(* A logout or a login is about to be answered.                               *)
LoggingOut == \E r \in Tabs : tab[r].step = "reply" /\ tab[r].kind = "logout"
SigningIn ==
  \E r \in Tabs : /\ tab[r].step = "reply" /\ tab[r].kind \in {"login", "success"}
                  /\ tab[r].dirty /\ tab[r].copy.user

(* Since the login every request has the session that is signed in.           *)
HasSession(t) ==
  /\ t.step \in {"load", "handler", "verify"} => t.id = cookie
  /\ t.step \in {"handler", "verify"} => ~t.empty /\ t.copy.user
  /\ t.step = "reply" => ~t.empty /\ (t.dirty => t.id = cookie /\ t.copy.user)

SignedIn ==
  /\ cookie # NoSession /\ sessionStore[cookie].user
  /\ \A r \in Tabs : HasSession(tab[r])

(* Since the logout no session is signed in, nor any request's copy of one.   *)
SignedOut ==
  /\ \A i \in 1..MaxSessions : ~sessionStore[i].user
  /\ \A r \in Tabs : ~tab[r].copy.user

AccountSound ==
  /\ account = "in" => LoggingOut \/ SignedIn
  /\ account = "out" => SigningIn \/ SignedOut

ScreenInv == AloneSound /\ StepsSound /\ ShownSound /\ PageSound /\ AccountSound

(* What a step of request r other than a logout and the reply makes of it.     *)
Moves(r, t) ==
  /\ Set(r, t) /\ UNCHANGED <<sessionStore, cookie, page, account>>
  /\ tab[r].step \in {"load", "handler", "verify"} /\ t.step \in {"handler", "verify", "reply"}
  /\ t.kind # "logout" /\ t.lone = tab[r].lone /\ StepSound(t)
  /\ t.shows # NoToken /\ ~t.dirty =>
       /\ tab[r].step = "load" /\ tab[r].id # NoSession
       /\ t.copy = sessionStore[tab[r].id] /\ ~t.empty
  /\ SignedIn => HasSession(t)
  /\ SignedOut /\ t.copy.user =>
       t.step = "reply" /\ t.kind \in {"login", "success"} /\ t.dirty

(* Such a step keeps screen and session together.                             *)
LEMMA MoveKeeps ==
  ASSUME SessionInv, ScreenInv, NEW r \in Tabs, NEW t, Moves(r, t)
  PROVE  ScreenInv'
<1>1. /\ tab'[r] = t /\ \A q \in Tabs : q # r => tab'[q] = tab[q]
      /\ Running(r) /\ Running(r)' /\ \A q \in Tabs : Running(q)' <=> Running(q)
  BY DEF Moves, Set, SessionInv, TabsSound, Running
<1>2. UNCHANGED <<sessionStore, cookie, page, account>>
  BY DEF Moves
<1>3. AloneSound'
  BY <1>1 DEF Moves, ScreenInv, AloneSound
<1>4. StepsSound'
  BY <1>1 DEF Moves, ScreenInv, StepsSound
<1>5. ShownSound'
  <2>1. ASSUME t.lone PROVE /\ t.step # "load"
                            /\ t.shows # NoToken /\ ~t.dirty =>
                                 cookie # NoSession /\ t.copy = sessionStore[cookie] /\ ~t.empty
    BY <1>1, <2>1 DEF Moves, ScreenInv, ShownSound
  <2>. QED  BY <1>1, <1>2, <2>1 DEF ScreenInv, ShownSound
<1>6. PageSound'
  BY <1>1 DEF PageSound, AtRest
<1>7. AccountSound'
  <2>1. LoggingOut => LoggingOut'
    BY <1>1 DEF Moves, LoggingOut
  <2>2. SigningIn => SigningIn'
    BY <1>1 DEF Moves, SigningIn
  <2>3. SignedIn => SignedIn'
    BY <1>1, <1>2 DEF Moves, SignedIn, HasSession
  <2>4. SignedOut => SignedOut' \/ SigningIn'
    BY <1>1, <1>2 DEF Moves, SignedOut, SigningIn
  <2>. QED  BY <1>2, <2>1, <2>2, <2>3, <2>4 DEF ScreenInv, AccountSound
<1>. QED  BY <1>3, <1>4, <1>5, <1>6, <1>7 DEF ScreenInv

(* The first look at the session.                                             *)
LEMMA LookFacts ==
  ASSUME SessionInv, ScreenInv, NEW r \in Tabs, tab[r].step = "load"
  PROVE  /\ Loaded(r) \in TabRecords /\ Loaded(r).copy = Stored(tab[r].id)
         /\ Loaded(r).step = "load" /\ Loaded(r).kind = tab[r].kind /\ Loaded(r).lone = tab[r].lone
         /\ Loaded(r).shows = NoToken /\ ~Loaded(r).dirty
         /\ Loaded(r).copy # Blank => tab[r].id # NoSession /\ ~Loaded(r).empty
         /\ SignedIn => /\ Loaded(r).copy.user /\ ~Loaded(r).empty /\ Loaded(r).id = cookie
                        /\ ~tab[r].empty
         /\ SignedOut => ~Loaded(r).copy.user
<1> DEFINE copy == Stored(tab[r].id)
           empty == tab[r].id # NoSession /\ copy = Blank
           id == IF copy = Blank THEN NoSession ELSE tab[r].id
<1>1. /\ TabSound(tab[r]) /\ tab[r] \in TabRecords /\ tab[r].shows = NoToken /\ ~tab[r].dirty
      /\ tab[r].id \in 0..MaxSessions /\ ~tab[r].empty
  BY DEF SessionInv, TabsSound, TabSound, TabRecords, ScreenInv, StepsSound, StepSound
<1>2. Loaded(r) = [tab[r] EXCEPT !.copy = copy, !.empty = empty, !.id = id]
  BY DEF Loaded
<1>3. /\ Loaded(r).copy = copy /\ Loaded(r).empty = empty /\ Loaded(r).id = id
      /\ Loaded(r).step = "load" /\ Loaded(r).kind = tab[r].kind /\ Loaded(r).lone = tab[r].lone
      /\ Loaded(r).shows = NoToken /\ ~Loaded(r).dirty
  <2>. HIDE DEF copy, empty, id
  <2>. QED  BY <1>1, <1>2 DEF TabRecords
<1>4. SignedIn => copy.user /\ ~empty /\ id = cookie
  BY DEF SignedIn, HasSession, Stored, Blank
<1>5. SignedOut => ~copy.user
  BY <1>1, SessionConstants DEF SignedOut, Stored, Blank, NoSession
<1>6. copy # Blank => tab[r].id # NoSession /\ ~empty
  BY DEF Stored
<1>7. Loaded(r) \in TabRecords
  BY LookSound
<1>. QED  BY <1>1, <1>3, <1>4, <1>5, <1>6, <1>7

(* A reply that leaves the session alone.                                     *)
LEMMA EndMoves ==
  ASSUME SessionInv, ScreenInv, NEW r \in Tabs, tab[r].step = "load", tab[r].kind # "logout",
         UNCHANGED <<sessionStore, cookie, page, account>>,
         EndUnchanged(r, Loaded(r)) \/ EndUnchanged(r, tab[r])
  PROVE  ScreenInv'
<1>0. PICK u \in {Loaded(r), tab[r]} : EndUnchanged(r, u)
  OBVIOUS
<1>1. /\ u.kind # "logout" /\ u.lone = tab[r].lone /\ (SignedIn => ~u.empty)
  BY LookFacts
<1> DEFINE kind == u.kind  empty == u.empty  lone == u.lone
           t == [Idle EXCEPT !.kind = kind, !.step = "reply", !.empty = empty, !.lone = lone]
<1>2. Set(r, t)
  BY <1>0 DEF EndUnchanged
<1> HIDE DEF kind, empty, lone
<1>3. /\ t.step = "reply" /\ t.kind = kind /\ t.empty = empty /\ t.lone = lone
      /\ t.shows = NoToken /\ t.dirty = FALSE /\ ~t.copy.user
  BY DEF Idle, Blank
<1> HIDE DEF t
<1>4. Moves(r, t)
  BY <1>1, <1>2, <1>3 DEF Moves, StepSound, HasSession, kind, empty, lone
<1>. QED  BY <1>4, MoveKeeps

(* csrf_middleware on a form: refused, or the copy gets another token.        *)
LEMMA CheckFormKeeps ==
  ASSUME SessionInv, ScreenInv, NEW r \in Tabs, CheckForm(r)
  PROVE  ScreenInv'
<1>1. /\ tab[r].step = "load" /\ tab[r].kind # "logout"
      /\ UNCHANGED <<sessionStore, cookie, page, account>>
  BY DEF CheckForm, Forms, BrowserStays
<1>2. CASE EndUnchanged(r, Loaded(r))
  BY <1>1, <1>2, EndMoves
<1>3. CASE AcceptForm(r)
  <2> DEFINE token == Unused(FreshTokens)
             step == IF tab[r].kind = "login" THEN "handler" ELSE "reply"
             t == [Loaded(r) EXCEPT !.step = step, !.copy.token = token, !.dirty = TRUE]
  <2>1. Set(r, t)
    BY <1>3 DEF AcceptForm
  <2>2. Loaded(r) \in TabRecords /\ Loaded(r).copy \in Records
    BY LookSound DEF TabRecords
  <2> HIDE DEF token
  <2>3. /\ t.step = step /\ t.kind = tab[r].kind /\ t.lone = tab[r].lone /\ t.dirty = TRUE
        /\ t.copy.user = Loaded(r).copy.user /\ t.empty = Loaded(r).empty /\ t.id = Loaded(r).id
    <3>. HIDE DEF step
    <3>. QED  BY <1>1, <2>2, LookFacts DEF TabRecords, Records
  <2> HIDE DEF t
  <2>4. step \in {"handler", "reply"} /\ (step = "handler" => tab[r].kind = "login")
    OBVIOUS
  <2>5. StepSound(t) /\ t.kind # "logout"
    BY <1>1, <2>3, <2>4 DEF StepSound
  <2>6. SignedIn => HasSession(t)
    BY <1>1, <2>3, <2>4, LookFacts DEF HasSession
  <2>7. SignedOut => ~t.copy.user
    BY <1>1, <2>3, LookFacts
  <2>8. Moves(r, t)
    BY <1>1, <2>1, <2>3, <2>4, <2>5, <2>6, <2>7 DEF Moves
  <2>. QED  BY <2>8, MoveKeeps
<1>. QED  BY <1>2, <1>3 DEF CheckForm

(* login_page and page show the token of the copy they hold.                  *)
LEMMA OpenPageKeeps ==
  ASSUME SessionInv, ScreenInv, NEW r \in Tabs, OpenPage(r)
  PROVE  ScreenInv'
<1>1. /\ tab[r].step = "load" /\ tab[r].kind # "logout"
      /\ UNCHANGED <<sessionStore, cookie, page, account>>
  BY DEF OpenPage, BrowserStays
<1>2. CASE EndUnchanged(r, Loaded(r))
  BY <1>1, <1>2, EndMoves
<1>3. CASE /\ FreshTokens # {}
           /\ Set(r, [WithToken(Loaded(r)) EXCEPT
                        !.step = "reply", !.shows = WithToken(Loaded(r)).copy.token])
  <2> DEFINE u == WithToken(Loaded(r))
             t == [u EXCEPT !.step = "reply", !.shows = u.copy.token]
  <2>1. Loaded(r) \in TabRecords /\ Loaded(r).copy \in Records
    BY LookSound DEF TabRecords
  <2>2. /\ u \in TabRecords /\ u.kind = tab[r].kind /\ u.lone = tab[r].lone /\ u.empty = Loaded(r).empty
        /\ u.id = Loaded(r).id /\ u.copy.user = Loaded(r).copy.user
        /\ u.dirty \/ (Loaded(r).copy.token # NoToken /\ u.copy = Loaded(r).copy)
    <3>1. CASE Loaded(r).copy.token # NoToken
      <4>1. u = Loaded(r)
        BY <3>1 DEF WithToken
      <4>. QED  BY <1>1, <2>1, <3>1, <4>1, LookFacts DEF TabRecords, Records
    <3>2. CASE Loaded(r).copy.token = NoToken
      <4> DEFINE token == Unused(FreshTokens)
      <4>1. u = [Loaded(r) EXCEPT !.copy.token = token, !.dirty = TRUE]
        BY <3>2 DEF WithToken
      <4>2. token \in 0..MaxTokens
        BY <1>3, FreshAreNew
      <4> HIDE DEF token, u
      <4>3. [Loaded(r).copy EXCEPT !.token = token] \in Records
        BY <2>1, <4>2 DEF Records
      <4>4. /\ u \in TabRecords /\ u.kind = Loaded(r).kind /\ u.lone = Loaded(r).lone
            /\ u.empty = Loaded(r).empty /\ u.id = Loaded(r).id /\ u.dirty = TRUE
            /\ u.copy = [Loaded(r).copy EXCEPT !.token = token]
        BY <2>1, <4>1, <4>3 DEF TabRecords
      <4>5. u.copy.user = Loaded(r).copy.user
        BY <2>1, <4>4 DEF Records
      <4>. QED  BY <1>1, <4>4, <4>5, LookFacts
    <3>. QED  BY <3>1, <3>2
  <2>3. Set(r, t)
    BY <1>3
  <2> HIDE DEF u
  <2>4. /\ t.step = "reply" /\ t.kind = tab[r].kind /\ t.lone = tab[r].lone /\ t.dirty = u.dirty
        /\ t.copy = u.copy /\ t.empty = Loaded(r).empty /\ t.id = Loaded(r).id
    BY <2>2
  <2> HIDE DEF t
  <2>5. StepSound(t) /\ t.kind # "logout"
    BY <1>1, <2>4 DEF StepSound
  <2>6. SignedIn => HasSession(t)
    BY <1>1, <2>2, <2>4, LookFacts DEF HasSession
  <2>7. SignedOut => ~t.copy.user
    BY <1>1, <2>2, <2>4, LookFacts
  <2>8. ASSUME ~t.dirty
        PROVE  tab[r].id # NoSession /\ t.copy = sessionStore[tab[r].id] /\ ~t.empty
    <3>1. Loaded(r).copy # Blank /\ t.copy = Stored(tab[r].id)
      BY <1>1, <2>2, <2>4, <2>8, LookFacts DEF Blank
    <3>. QED  BY <1>1, <2>4, <3>1, LookFacts DEF Stored
  <2>9. Moves(r, t)
    BY <1>1, <2>3, <2>4, <2>5, <2>6, <2>7, <2>8 DEF Moves
  <2>. QED  BY <2>9, MoveKeeps
<1>. QED  BY <1>2, <1>3 DEF OpenPage

(* A login that succeeds.                                                     *)
LEMMA SignInMoves ==
  ASSUME SessionInv, ScreenInv, NEW r \in Tabs, NEW u \in TabRecords, u.copy \in Records,
         Set(r, SignIn(u)), UNCHANGED <<sessionStore, cookie, page, account>>,
         tab[r].step \in {"load", "handler", "verify"}, u.kind \in {"login", "success"},
         u.lone = tab[r].lone, SignedIn => ~u.empty /\ u.id = cookie
  PROVE  ScreenInv'
<1> DEFINE t == SignIn(u)
<1>1. /\ t.step = "reply" /\ t.copy.user = TRUE /\ t.dirty = TRUE /\ t.kind = u.kind
      /\ t.lone = u.lone /\ t.empty = u.empty /\ t.id = u.id
  BY DEF SignIn, TabRecords, Records
<1> HIDE DEF t
<1>2. StepSound(t) /\ (SignedIn => HasSession(t))
  BY <1>1 DEF StepSound, HasSession
<1>3. Set(r, t)
  BY DEF t
<1>4. Moves(r, t)
  BY <1>1, <1>2, <1>3 DEF Moves
<1>. QED  BY <1>4, MoveKeeps

(* The checkout's success page signs in, or leaves the session alone.         *)
LEMMA SuccessKeeps ==
  ASSUME SessionInv, ScreenInv, NEW r \in Tabs, CheckoutSucceeds(r)
  PROVE  ScreenInv'
<1>1. /\ tab[r].step = "load" /\ tab[r].kind = "success"
      /\ UNCHANGED <<sessionStore, cookie, page, account>>
  BY DEF CheckoutSucceeds, BrowserStays
<1>2. CASE EndUnchanged(r, tab[r])
  BY <1>1, <1>2, EndMoves
<1>3. CASE Set(r, SignIn(Loaded(r)))
  <2>1. Loaded(r) \in TabRecords /\ Loaded(r).copy \in Records
    BY LookSound DEF TabRecords
  <2>. QED  BY <1>1, <1>3, <2>1, LookFacts, SignInMoves
<1>. QED  BY <1>2, <1>3 DEF CheckoutSucceeds

(* A login that goes on to the password, or that is refused.                   *)
LEMMA LoginMoves ==
  ASSUME SessionInv, ScreenInv, NEW r \in Tabs, NEW t,
         tab[r].step \in {"handler", "verify"}, Set(r, t),
         UNCHANGED <<sessionStore, cookie, page, account>>,
         t.step \in {"reply", "verify"}, t.kind = tab[r].kind, t.dirty = tab[r].dirty,
         t.lone = tab[r].lone, t.copy = tab[r].copy, t.empty = tab[r].empty, t.id = tab[r].id
  PROVE  ScreenInv'
<1>1. tab[r].kind = "login" /\ tab[r].dirty
  BY DEF ScreenInv, StepsSound, StepSound
<1>2. StepSound(t)
  BY <1>1 DEF StepSound
<1>3. SignedIn => HasSession(t)
  BY DEF SignedIn, HasSession
<1>4. SignedOut => ~t.copy.user
  BY DEF SignedOut
<1>5. Moves(r, t)
  BY <1>1, <1>2, <1>3, <1>4 DEF Moves
<1>. QED  BY <1>5, MoveKeeps

(* login_submit: the limiter's answer, a wrong password, a right one.         *)
LEMMA LoginKeeps ==
  ASSUME SessionInv, ScreenInv, NEW r \in Tabs,
         AskLimiter(r) \/ LoginFails(r) \/ PasswordVerified(r)
  PROVE  ScreenInv'
<1>1. /\ tab[r].step \in {"handler", "verify"} /\ UNCHANGED <<sessionStore, cookie, page, account>>
  BY DEF AskLimiter, LoginFails, PasswordVerified, BrowserStays
<1>2. tab[r] \in TabRecords /\ tab[r].copy \in Records
  BY DEF SessionInv, TabsSound, TabSound, TabRecords
<1>3. CASE AskLimiter(r)
  <2> DEFINE step == IF is_limited THEN "reply" ELSE "verify"
             t == [tab[r] EXCEPT !.step = step]
  <2>1. Set(r, t) /\ step \in {"reply", "verify"}
    BY <1>3 DEF AskLimiter
  <2> HIDE DEF step
  <2>2. /\ t.step = step /\ t.kind = tab[r].kind /\ t.dirty = tab[r].dirty
        /\ t.lone = tab[r].lone /\ t.copy = tab[r].copy /\ t.empty = tab[r].empty
        /\ t.id = tab[r].id
    BY <1>2 DEF TabRecords
  <2> HIDE DEF t
  <2>. QED  BY <1>1, <2>1, <2>2, LoginMoves
<1>4. CASE LoginFails(r)
  <2> DEFINE token == tab[r].copy.token
             t == [tab[r] EXCEPT !.step = "reply", !.shows = token]
  <2>1. Set(r, t)
    BY <1>4 DEF LoginFails
  <2> HIDE DEF token
  <2>2. /\ t.step = "reply" /\ t.kind = tab[r].kind /\ t.dirty = tab[r].dirty
        /\ t.lone = tab[r].lone /\ t.copy = tab[r].copy /\ t.empty = tab[r].empty
        /\ t.id = tab[r].id
    BY <1>2 DEF TabRecords
  <2> HIDE DEF t
  <2>. QED  BY <1>1, <2>1, <2>2, LoginMoves
<1>5. CASE PasswordVerified(r)
  <2>1. Set(r, SignIn(tab[r]))
    BY <1>5 DEF PasswordVerified
  <2>2. tab[r].kind = "login"
    BY <1>1 DEF ScreenInv, StepsSound, StepSound
  <2>3. SignedIn => ~tab[r].empty /\ tab[r].id = cookie
    BY <1>1 DEF SignedIn, HasSession
  <2>. QED  BY <1>1, <1>2, <2>1, <2>2, <2>3, SignInMoves
<1>. QED  BY <1>3, <1>4, <1>5

(* A logout takes the record at once, and the request's copy with it: whoever  *)
(* else has the session finds no record, and what they write back is signed   *)
(* in only if they were.                                                     *)
LEMMA LogoutKeeps ==
  ASSUME SessionInv, ScreenInv, NEW r \in Tabs, logout(r)
  PROVE  ScreenInv'
<1> DEFINE t == [tab[r] EXCEPT !.step = "reply", !.copy = Blank, !.empty = TRUE]
<1>1. /\ UNCHANGED <<cookie, page, account>> /\ tab[r].step = "load" /\ tab[r].kind = "logout"
      /\ Set(r, t)
      /\ \/ sessionStore' = sessionStore
         \/ sessionStore' = [sessionStore EXCEPT ![tab[r].id] = Blank]
  BY DEF logout, Flush, BrowserStays
<1>2. tab[r] \in TabRecords /\ tab[r].shows = NoToken /\ ~tab[r].dirty
  BY <1>1 DEF SessionInv, TabsSound, TabSound
<1>3. /\ t.step = "reply" /\ t.kind = "logout" /\ t.copy = Blank /\ t.empty = TRUE
      /\ ~t.dirty /\ t.shows = NoToken /\ t.lone = tab[r].lone
  BY <1>1, <1>2 DEF TabRecords
<1> HIDE DEF t
<1>4. /\ tab'[r] = t /\ \A q \in Tabs : q # r => tab'[q] = tab[q]
      /\ Running(r) /\ Running(r)' /\ \A q \in Tabs : Running(q)' <=> Running(q)
  BY <1>1, <1>3 DEF Set, SessionInv, TabsSound, Running
<1>5. AloneSound'
  BY <1>3, <1>4 DEF ScreenInv, AloneSound
<1>6. StepsSound'
  BY <1>3, <1>4 DEF ScreenInv, StepsSound, StepSound
<1>7. ShownSound'
  <2>1. \A q \in Tabs : Running(q) /\ tab[q].lone => q = r
    BY <1>4 DEF ScreenInv, AloneSound
  <2>. QED  BY <1>3, <1>4, <2>1 DEF ShownSound
<1>8. PageSound'
  BY <1>4 DEF PageSound, AtRest
<1>9. AccountSound'
  <2>1. LoggingOut'
    BY <1>3, <1>4 DEF LoggingOut
  <2>2. SigningIn => SigningIn'
    BY <1>1, <1>4 DEF SigningIn
  <2>3. SignedOut => SignedOut'
    <3>1. SignedOut => \A q \in Tabs : ~tab'[q].copy.user
      BY <1>3, <1>4 DEF SignedOut, Blank
    <3>2. SignedOut => \A i \in 1..MaxSessions : ~sessionStore'[i].user
      <4>1. DOMAIN sessionStore = 1..MaxSessions /\ ~Blank.user
        BY DEF SessionInv, StoreSound, Blank
      <4>2. \A i \in 1..MaxSessions : sessionStore'[i] \in {sessionStore[i], Blank}
        BY <1>1, <4>1
      <4>. QED  BY <4>1, <4>2 DEF SignedOut
    <3>. QED  BY <3>1, <3>2 DEF SignedOut
  <2>. QED  BY <1>1, <2>1, <2>2, <2>3 DEF ScreenInv, AccountSound
<1>. QED  BY <1>5, <1>6, <1>7, <1>8, <1>9 DEF ScreenInv

(* A new request takes the browser's cookie, and no request is alone then      *)
(* unless it is this one.                                                    *)
LEMMA RequestKeeps ==
  ASSUME SessionInv, ScreenInv, NEW r \in Tabs, NEW kind \in Kinds, Request(r, kind)
  PROVE  ScreenInv'
<1>1. UNCHANGED <<sessionStore, cookie, page, account>> /\ tab[r].step = "idle"
  BY DEF Request, Running
<1> DEFINE form == IF kind \in Forms THEN page.token ELSE NoToken
           lone == \A o \in Tabs : ~Running(o)
           t == [Idle EXCEPT !.kind = kind, !.step = "load", !.id = cookie, !.form = form,
                             !.lone = lone]
<1>2. tab' = [q \in Tabs |-> IF q = r THEN t ELSE [tab[q] EXCEPT !.lone = FALSE]]
  BY DEF Request
<1>3. (lone => \A q \in Tabs : ~Running(q)) /\ lone \in BOOLEAN
  OBVIOUS
<1> HIDE DEF form, lone
<1>4. /\ t.step = "load" /\ t.id = cookie /\ t.copy = Blank /\ t.empty = FALSE
      /\ t.dirty = FALSE /\ t.shows = NoToken /\ t.lone = lone /\ t.kind = kind
  BY DEF Idle
<1> HIDE DEF t
<1>5. ASSUME NEW q \in Tabs, q # r
      PROVE  /\ tab'[q].step = tab[q].step /\ tab'[q].id = tab[q].id /\ tab'[q].copy = tab[q].copy
             /\ tab'[q].kind = tab[q].kind /\ tab'[q].dirty = tab[q].dirty
             /\ tab'[q].empty = tab[q].empty /\ tab'[q].lone = FALSE
  <2>1. tab[q] \in TabRecords
    BY DEF SessionInv, TabsSound, TabSound
  <2>2. tab'[q] = [tab[q] EXCEPT !.lone = FALSE]
    BY <1>2, <1>5
  <2>. QED  BY <2>1, <2>2 DEF TabRecords
<1>6. tab'[r] = t
  BY <1>2
<1>7. AloneSound'
  <2>1. ASSUME NEW q \in Tabs, Running(q)', tab'[q].lone PROVE q = r /\ lone
    BY <1>4, <1>5, <1>6, <2>1
  <2>2. lone => \A o \in Tabs : Running(o)' => o = r
    BY <1>3, <1>5 DEF Running
  <2>. QED  BY <2>1, <2>2 DEF AloneSound
<1>8. StepsSound'
  <2>1. StepSound(t)
    BY <1>4 DEF StepSound
  <2>2. ASSUME NEW q \in Tabs, q # r PROVE StepSound(tab'[q])
    <3>1. StepSound(tab[q])
      BY DEF ScreenInv, StepsSound
    <3> DEFINE new == tab'[q]
               old == tab[q]
    <3>2. /\ new.step = old.step /\ new.id = old.id /\ new.copy = old.copy
          /\ new.kind = old.kind /\ new.dirty = old.dirty /\ new.empty = old.empty
      BY <1>5, <2>2
    <3> HIDE DEF new
    <3>3. StepSound(new)
      BY <3>1, <3>2 DEF StepSound
    <3>. QED  BY <3>3 DEF new
  <2>. QED  BY <1>6, <2>1, <2>2 DEF StepsSound
<1>9. ShownSound'
  BY <1>1, <1>4, <1>5, <1>6 DEF ShownSound
<1>10. PageSound'
  BY <1>4, <1>6 DEF PageSound, AtRest, Running
<1>11. AccountSound'
  <2>1. LoggingOut => LoggingOut'
    BY <1>1, <1>5 DEF LoggingOut
  <2>2. SigningIn => SigningIn'
    BY <1>1, <1>5 DEF SigningIn
  <2>3. SignedIn => SignedIn'
    <3>1. HasSession(tab[r])'
      BY <1>1, <1>4, <1>6 DEF HasSession
    <3>2. ASSUME SignedIn, NEW q \in Tabs, q # r PROVE HasSession(tab[q])'
      BY <1>1, <1>5, <3>2 DEF SignedIn, HasSession
    <3>3. SignedIn => \A q \in Tabs : HasSession(tab[q])'
      BY <3>1, <3>2
    <3>. QED  BY <1>1, <3>3 DEF SignedIn
  <2>4. SignedOut => SignedOut'
    <3>1. ~tab'[r].copy.user
      BY <1>4, <1>6 DEF Blank
    <3>2. SignedOut => \A q \in Tabs : ~tab'[q].copy.user
      BY <1>5, <3>1 DEF SignedOut
    <3>. QED  BY <1>1, <3>2 DEF SignedOut
  <2>. QED  BY <1>1, <2>1, <2>2, <2>3, <2>4 DEF ScreenInv, AccountSound
<1>. QED  BY <1>7, <1>8, <1>9, <1>10, <1>11 DEF ScreenInv

(* What the middleware leaves: the copy of a request that changed it, or the   *)
(* record the cookie names, unless the request found none.                    *)
LEMMA WrittenBack ==
  ASSUME SessionInv, NEW r \in Tabs, Reply(r)
  PROVE  /\ tab[r].dirty => /\ cookie' \in 1..MaxSessions /\ cookie' # NoSession
                            /\ sessionStore'[cookie'] = tab[r].copy
                            /\ tab[r].id # NoSession => cookie' = tab[r].id
         /\ ~tab[r].dirty => /\ cookie' = IF tab[r].empty THEN NoSession ELSE cookie
                             /\ cookie' # NoSession =>
                                  sessionStore'[cookie'] = sessionStore[cookie']
         /\ \A i \in 1..MaxSessions :
              sessionStore'[i] \in {tab[r].copy, sessionStore[i], Blank}
         /\ ~tab[r].dirty => \A i \in 1..MaxSessions :
              i # cookie' /\ (\A q \in Tabs : tab'[q].id # i) => sessionStore'[i] = Blank
<1> DEFINE t == tab[r]
           id == IF t.id = NoSession THEN Unused(FreshIds) ELSE t.id
<1>1. TabSound(t) /\ t \in TabRecords
  BY DEF SessionInv, TabsSound, TabSound
<1>2. t.dirty => id \in 1..MaxSessions /\ id # NoSession
  <2>1. t.id # NoSession => t.id \in 1..MaxSessions
    BY <1>1, SessionConstants DEF TabRecords, NoSession
  <2>2. t.dirty /\ t.id = NoSession => FreshIds # {}
    BY DEF Reply, Changed
  <2>. QED  BY <2>1, <2>2, FreshAreNew DEF NoSession
<1>3. /\ cookie' = IF t.dirty THEN id ELSE IF t.empty THEN NoSession ELSE cookie
      /\ sessionStore' = [i \in 1..MaxSessions |->
           IF t.dirty /\ i = id THEN t.copy ELSE IF Referenced(i) THEN sessionStore[i] ELSE Blank]
  BY DEF Reply, Changed
<1>4. t.id # NoSession => id = t.id
  OBVIOUS
<1> HIDE DEF id
<1>5. t.dirty => /\ cookie' = id /\ sessionStore'[cookie'] = t.copy
  BY <1>2, <1>3
<1>6. ~t.dirty /\ cookie' # NoSession => sessionStore'[cookie'] = sessionStore[cookie']
  <2>1. ~t.dirty /\ cookie' # NoSession => cookie' = cookie /\ cookie' \in 1..MaxSessions
    BY <1>3, SessionConstants DEF SessionInv, StoreSound, NoSession
  <2>2. Referenced(cookie')
    BY DEF Referenced
  <2>. QED  BY <1>3, <2>1, <2>2
<1>7. \A i \in 1..MaxSessions : sessionStore'[i] \in {t.copy, sessionStore[i], Blank}
  BY <1>3
<1>8. ASSUME ~t.dirty, NEW i \in 1..MaxSessions, i # cookie', \A q \in Tabs : tab'[q].id # i
      PROVE  sessionStore'[i] = Blank
  <2>1. ~Referenced(i)
    BY <1>8 DEF Referenced
  <2>. QED  BY <1>3, <1>8, <2>1
<1>. QED  BY <1>2, <1>3, <1>4, <1>5, <1>6, <1>7, <1>8

(* The reply: the copy is written back, and the page comes on the screen.      *)
LEMMA ReplyKeeps ==
  ASSUME SessionInv, ScreenInv, NEW r \in Tabs, Reply(r)
  PROVE  ScreenInv'
<1>1. /\ tab[r].step = "reply" /\ Set(r, Idle) /\ TabSound(tab[r]) /\ tab[r] \in TabRecords
      /\ page' = [token |-> tab[r].shows, lone |-> tab[r].lone]
  BY DEF Reply, SessionInv, TabsSound, TabSound
<1>2. /\ tab'[r] = Idle /\ \A q \in Tabs : q # r => tab'[q] = tab[q]
      /\ Running(r) /\ ~Running(r)' /\ \A q \in Tabs : q # r => (Running(q)' <=> Running(q))
  BY <1>1, IdleTab DEF Set, SessionInv, TabsSound, Running
<1>3. \A q \in Tabs : Running(q)' => ~tab'[q].lone
  BY <1>2 DEF ScreenInv, AloneSound
<1>4. AloneSound' /\ ShownSound'
  BY <1>3 DEF AloneSound, ShownSound
<1>5. Idle.step = "idle" /\ Idle.id = NoSession /\ Idle.copy = Blank /\ ~Blank.user
  BY DEF Idle, Blank
<1>6. StepSound(tab[r]) /\ StepsSound'
  BY <1>2, <1>5 DEF ScreenInv, StepsSound, StepSound
<1>7. PageSound'
  <2>. SUFFICES ASSUME tab[r].lone, tab[r].shows # NoToken
                PROVE  Stored(cookie)'.token = tab[r].shows
    BY <1>1 DEF PageSound
  <2>1. tab[r].shows = tab[r].copy.token
    BY <1>1 DEF TabSound
  <2>2. CASE tab[r].dirty
    BY <2>1, <2>2, WrittenBack DEF Stored
  <2>3. CASE ~tab[r].dirty
    <3>1. cookie # NoSession /\ tab[r].copy = sessionStore[cookie] /\ ~tab[r].empty
      BY <1>2, <2>3 DEF ScreenInv, ShownSound
    <3>. QED  BY <2>1, <2>3, <3>1, WrittenBack DEF Stored
  <2>. QED  BY <2>2, <2>3
<1>8. SignedIn => SignedIn'
  <2>. SUFFICES ASSUME SignedIn PROVE SignedIn'
    OBVIOUS
  <2>1. /\ cookie # NoSession /\ sessionStore[cookie].user /\ ~tab[r].empty
        /\ tab[r].dirty => tab[r].id = cookie /\ tab[r].copy.user
    BY <1>1 DEF SignedIn, HasSession
  <2>2. cookie' = cookie /\ sessionStore'[cookie'].user
    BY <2>1, WrittenBack
  <2>3. ASSUME NEW q \in Tabs PROVE HasSession(tab[q])'
    BY <1>2, <1>5, <2>2 DEF SignedIn, HasSession
  <2>. QED  BY <2>1, <2>2, <2>3 DEF SignedIn
<1>9. SignedOut => SignedOut'
  BY <1>2, <1>5, WrittenBack DEF SignedOut
<1>10. AccountSound'
  <2> DEFINE signed == \/ tab[r].kind = "logout"
                       \/ tab[r].kind \in {"login", "success"} /\ tab[r].dirty /\ tab[r].copy.user
  <2>1. account' = IF ~signed THEN account
                   ELSE IF ~tab[r].lone THEN "any"
                   ELSE IF tab[r].kind = "logout" THEN "out" ELSE "in"
    BY DEF Reply
  <2>2. CASE ~signed
    <3>1. account' = account
      BY <2>1, <2>2
    <3>2. LoggingOut => LoggingOut'
      BY <1>2, <2>2 DEF LoggingOut
    <3>3. SigningIn => SigningIn'
      BY <1>2, <2>2 DEF SigningIn
    <3>. QED  BY <1>8, <1>9, <3>1, <3>2, <3>3 DEF ScreenInv, AccountSound
  <2>3. CASE signed /\ ~tab[r].lone
    BY <2>1, <2>3 DEF AccountSound
  <2>4. CASE signed /\ tab[r].lone
    <3>1. \A q \in Tabs : tab'[q].step = "idle" /\ tab'[q].id = NoSession /\ tab'[q].copy = Blank
      <4>1. \A q \in Tabs : q # r => tab[q].step = "idle"
        BY <1>2, <2>4 DEF ScreenInv, AloneSound, Running
      <4>. QED  BY <1>2, <1>5, <4>1 DEF ScreenInv, StepsSound, StepSound
    <3>2. CASE tab[r].kind = "logout"
      <4>1. account' = "out"
        BY <2>1, <2>4, <3>2
      <4>2. tab[r].empty /\ ~tab[r].dirty
        BY <1>1, <1>6, <3>2 DEF StepSound
      <4>3. cookie' = NoSession
        BY <4>2, WrittenBack
      <4>4. \A i \in 1..MaxSessions : sessionStore'[i] = Blank
        <5>1. \A i \in 1..MaxSessions : i # NoSession
          BY SessionConstants DEF NoSession
        <5>. QED  BY <3>1, <4>2, <4>3, <5>1, WrittenBack
      <4>5. SignedOut'
        BY <1>5, <3>1, <4>4 DEF SignedOut
      <4>. QED  BY <4>1, <4>5 DEF AccountSound
    <3>3. CASE tab[r].kind # "logout"
      <4>1. account' = "in" /\ tab[r].dirty /\ tab[r].copy.user
        BY <2>1, <2>4, <3>3
      <4>2. cookie' # NoSession /\ sessionStore'[cookie'].user
        BY <4>1, WrittenBack
      <4>3. ASSUME NEW q \in Tabs PROVE HasSession(tab[q])'
        BY <3>1 DEF HasSession
      <4>4. SignedIn'
        BY <4>2, <4>3 DEF SignedIn
      <4>. QED  BY <4>1, <4>4 DEF AccountSound
    <3>. QED  BY <3>2, <3>3
  <2>. QED  BY <2>2, <2>3, <2>4
<1>. QED  BY <1>4, <1>6, <1>7, <1>10 DEF ScreenInv

(* Before the first request nobody is signed in.                              *)
LEMMA ScreenStart == SessionInit => ScreenInv
<1>. SUFFICES ASSUME SessionInit PROVE ScreenInv
  OBVIOUS
<1>1. \A r \in Tabs : tab[r].step = "idle" /\ tab[r].id = NoSession /\ tab[r].copy = Blank
  BY DEF SessionInit, Idle
<1>2. AloneSound /\ StepsSound /\ ShownSound
  BY <1>1 DEF AloneSound, StepsSound, StepSound, ShownSound, Running
<1>3. PageSound
  BY DEF SessionInit, PageSound, NoPage
<1>4. SignedOut
  BY <1>1 DEF SessionInit, SignedOut, Blank
<1>5. AccountSound
  BY <1>4 DEF SessionInit, AccountSound
<1>. QED  BY <1>2, <1>3, <1>5 DEF ScreenInv

(* The limiter's clock touches neither screen nor session.                    *)
LEMMA ScreenStays ==
  ASSUME SessionInv, ScreenInv, UNCHANGED <<sessionStore, cookie, page, tab, account>>
  PROVE  ScreenInv'
<1>1. AloneSound' /\ StepsSound' /\ ShownSound' /\ PageSound'
  BY DEF ScreenInv, AloneSound, StepsSound, StepSound, ShownSound, PageSound, AtRest, Running,
         Stored
<1>2. AccountSound'
  BY DEF ScreenInv, AccountSound, LoggingOut, SigningIn, SignedIn, SignedOut, HasSession
<1>. QED  BY <1>1, <1>2 DEF ScreenInv

(* So screen and session agree throughout.                                    *)
LEMMA ScreenInvariance == SessionSpec => [](SessionInv /\ ScreenInv)
<1>1. ASSUME SessionInv, ScreenInv, SessionNext PROVE ScreenInv'
  <2>1. ASSUME TimePasses PROVE ScreenInv'
    BY <1>1, <2>1, ScreenStays DEF TimePasses
  <2>. QED  BY <1>1, <2>1, RequestKeeps, CheckFormKeeps, OpenPageKeeps, SuccessKeeps, LogoutKeeps,
               LoginKeeps, ReplyKeeps DEF SessionNext, Handle
<1>2. ASSUME SessionInv, ScreenInv, UNCHANGED sessionVars PROVE ScreenInv'
  BY <1>2, ScreenStays DEF sessionVars
<1>. QED  BY <1>1, <1>2, ScreenStart, SessionInvariance, PTL DEF SessionSpec

(* What a browser at rest shows agrees with its session record: it is signed   *)
(* in exactly when its last login or logout says so, unless requests          *)
(* overlapped that one, and the form on its screen is accepted if the request *)
(* that showed it overlapped no other: no older copy of the record that the   *)
(* middleware writes back late changes it.                                   *)
THEOREM ScreenAndSessionAgree == SessionSpec => []ScreenMatchesSession
<1>1. ASSUME SessionInv, ScreenInv PROVE ScreenMatchesSession
  <2>. SUFFICES ASSUME AtRest
                PROVE  /\ account = "in" => Stored(cookie).user
                       /\ account = "out" => ~Stored(cookie).user
                       /\ page.lone /\ page.token # NoToken => Stored(cookie).token = page.token
    BY DEF ScreenMatchesSession, AtRest
  <2>1. ~LoggingOut /\ ~SigningIn
    BY DEF AtRest, LoggingOut, SigningIn, Running
  <2>2. account = "in" => Stored(cookie).user
    BY <1>1, <2>1 DEF ScreenInv, AccountSound, SignedIn, Stored
  <2>3. account = "out" => ~Stored(cookie).user
    <3>1. cookie # NoSession => cookie \in 1..MaxSessions
      BY <1>1, SessionConstants DEF SessionInv, StoreSound, NoSession
    <3>. QED  BY <1>1, <2>1, <3>1 DEF ScreenInv, AccountSound, SignedOut, Stored, Blank
  <2>. QED  BY <1>1, <2>2, <2>3 DEF ScreenInv, PageSound
<1>. QED  BY <1>1, ScreenInvariance, PTL
=============================================================================
