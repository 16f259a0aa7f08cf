---------------------------- MODULE CloudBilling ----------------------------
(***************************************************************************)
(* The commercial cloud service: what Stripe's events and an administrator's *)
(* clicks do to the cloud database (users, subscriptions, api_keys) and to  *)
(* the relay server's own key table, which the service reaches only through *)
(* POST /admin/keys and DELETE /admin/keys/{id}.  No transaction spans the  *)
(* two, nor two statements of one handler: a handler is a process with a    *)
(* step and two local variables, and everything else may happen between two *)
(* of its steps.                                                            *)
(*                                                                          *)
(* A statement that fails leaves the event with Stripe, which sends it      *)
(* again; so does a crash at any step, which no handler survives.  Stripe   *)
(* sends events in any order, and again after they were acknowledged.  A    *)
(* statement or call that takes effect although the handler sees an error,  *)
(* or dies, is the step followed by a failure at the next one.              *)
(***************************************************************************)
EXTENDS SeqFilter

CONSTANTS
  Subs, Users, Owner,       \* subscriptions, e-mail addresses, who pays for what
  Admins,                   \* users with is_admin
  Handlers,                 \* webhook requests that may be in progress at once
  AdminConfigured,          \* admin_url and admin_token are set
  MaxFaults,                \* bound: failures, repeated deliveries, keys asked for, status
                            \* changes and losses of the server's database, together
  MaxScans                  \* bound: runs of reprovision_server_keys

ASSUME BillingAssumption ==
  /\ Owner \in [Subs -> Users] /\ Admins \subseteq Users
  /\ AdminConfigured \in BOOLEAN
  /\ MaxFaults \in Nat /\ MaxScans \in Nat
  /\ IsFiniteSet(Subs)

(* A checkout is handled once, and again after a failure or a redelivery.   *)
Keys == 1 .. (Cardinality(Subs) + MaxFaults)
NoKey == 0

Event(type, s, status) == [type |-> type, sub |-> s, status |-> status]
NoEvent == Event("none", "none", "none")
Events ==
  UNION {{Event("checkout", s, "active"), Event("updated", s, "active"),
          Event("updated", s, "past_due"), Event("payment_failed", s, "past_due"),
          Event("deleted", s, "canceled")} : s \in Subs}

VARIABLES
  users,          \* rows of users
  subscriptions,  \* rows of subscriptions; status "none": no row
  apiKeys,        \* rows of api_keys in the order of created_at
  server,         \* the server's key table: each key absent, valid or revoked
  imported,       \* keys whose row at the server has an id the cloud does not know as key_id
  issued,         \* how many keys the server has generated
  handler,        \* webhook requests in progress
  admin,          \* the administrator's request in progress
  tool,           \* the reprovisioning tool
  stripe,         \* each subscription at Stripe
  pending, acked, \* events Stripe will send (again), events it got a 200 for
  spent,          \* how often each kind of fault has happened
  scans           \* how often the tool has run

cloudDb == <<users, subscriptions, apiKeys>>
serverDb == <<server, imported, issued>>
stripeSide == <<stripe, pending, acked>>
bounds == <<spent, scans>>
vars == <<cloudDb, serverDb, handler, admin, tool, stripeSide, bounds>>

Faults == {"failure", "redelivery", "request", "change", "loss"}

NoRow == [status |-> "none", api_key_id |-> NoKey]
Row(k, u) == [key |-> k, user |-> u, revoked |-> FALSE]
NoHandler == [step |-> "idle", event |-> NoEvent, key |-> NoKey]
NoAdmin == [step |-> "idle", key |-> NoKey, user |-> "none"]
NoTool == [step |-> "idle", todo |-> <<>>]

Init ==
  /\ users = Admins /\ subscriptions = [s \in Subs |-> NoRow] /\ apiKeys = <<>>
  /\ server = [k \in Keys |-> "none"] /\ imported = {} /\ issued = 0
  /\ handler = [h \in Handlers |-> NoHandler] /\ admin = NoAdmin /\ tool = NoTool
  /\ stripe = [s \in Subs |-> "none"] /\ pending = {} /\ acked = {}
  /\ spent = [f \in Faults |-> 0] /\ scans = 0

Happens(f) ==
  /\ spent["failure"] + spent["redelivery"] + spent["request"] + spent["change"] + spent["loss"]
       < MaxFaults
  /\ spent' = [spent EXCEPT ![f] = @ + 1]
Fails == Happens("failure")
Succeeds == UNCHANGED spent

-----------------------------------------------------------------------------
(* Stripe.  A customer pays, the subscription changes and is canceled; each  *)
(* change is an event, sent until it is acknowledged.                        *)

Send(e) ==
  /\ e \notin pending \cup acked
  /\ pending' = pending \cup {e}
  /\ UNCHANGED <<acked, cloudDb, serverDb, handler, admin, tool, scans>>

(* POST /checkout: Stripe opens a checkout session, with the e-mail address   *)
(* of a customer who is logged in, and the customer is sent to its page.     *)
(* Without a Stripe key or a price, or when Stripe fails, a page says so and  *)
(* nothing changes; a session whose answer was lost is never paid.           *)
Checkout(s) ==
  /\ stripe[s] = "none"
  /\ stripe' = [stripe EXCEPT ![s] = "offered"] /\ Succeeds
  /\ UNCHANGED <<pending, acked, cloudDb, serverDb, handler, admin, tool, scans>>

Pay(s) ==
  /\ stripe[s] = "offered"
  /\ stripe' = [stripe EXCEPT ![s] = "open"] /\ Succeeds
  /\ Send(Event("checkout", s, "active"))

Change(s, type, status) ==
  /\ stripe[s] = "open" /\ UNCHANGED stripe /\ Happens("change")
  /\ Send(Event(type, s, status))

Cancel(s) ==
  /\ stripe[s] = "open"
  /\ stripe' = [stripe EXCEPT ![s] = "canceled"] /\ Succeeds
  /\ Send(Event("deleted", s, "canceled"))

-----------------------------------------------------------------------------
(* POST /webhook/stripe: the dispatch on the event type, and the answer.     *)

FirstStep(type) ==
  CASE type = "checkout" -> "user"
    [] type = "updated" -> "update"
    [] type = "deleted" -> "lookup"
    [] type = "payment_failed" -> "past_due"

Begin(h, e) ==
  /\ handler[h].step = "idle"
  /\ handler' = [handler EXCEPT ![h] = [step |-> FirstStep(e.type), event |-> e, key |-> NoKey]]
  /\ UNCHANGED <<cloudDb, serverDb, admin, tool, stripeSide, scans>>

InProgress(e) == \E h \in Handlers : handler[h].event = e

Deliver(h, e) ==
  /\ e \in pending /\ ~InProgress(e)
  /\ Succeeds
  /\ Begin(h, e)

Redeliver(h, e) ==
  /\ e \in pending \cup acked /\ (e \in acked \/ InProgress(e))
  /\ Happens("redelivery")
  /\ Begin(h, e)

At(h, step) == handler[h].step = step
Sub(h) == handler[h].event.sub
Goto(h, step, k) == handler' = [handler EXCEPT ![h] = [@ EXCEPT !.step = step, !.key = k]]
Stay == UNCHANGED <<admin, tool, scans>>

(* Ok(()): the answer is 200 and Stripe forgets the event.                   *)
Acknowledge(h) ==
  /\ handler' = [handler EXCEPT ![h] = NoHandler]
  /\ pending' = pending \ {handler[h].event} /\ acked' = acked \cup {handler[h].event}
  /\ UNCHANGED stripe

(* A variant: the error is logged and the event acknowledged.                *)
RefuseButAcknowledge(h) == Acknowledge(h)

(* Err(e): the answer is 500, and Stripe sends the event again.              *)
Refuse(h) ==
  /\ handler' = [handler EXCEPT ![h] = NoHandler]
  /\ pending' = pending \cup {handler[h].event} /\ acked' = acked \ {handler[h].event}
  /\ UNCHANGED stripe

SqlSteps == {"user", "subscription", "store_id", "store_key", "lookup", "mark", "clear",
             "update", "past_due"}

(* A statement fails, or the handler dies: the service crashes, or Stripe    *)
(* drops the connection and the handler with it.  That may be at any step,   *)
(* while it awaits the relay server too, whose own errors it only logs.      *)
HandlerFails(h) ==
  /\ handler[h].step # "idle" /\ Fails
  /\ Refuse(h)
  /\ Stay /\ UNCHANGED <<cloudDb, serverDb>>

(* The server's side of the admin API.                                       *)
Issue == issued' = issued + 1 /\ server' = [server EXCEPT ![issued + 1] = "valid"]

(* A variant: the id sent is not the server's, which answers 404.            *)
RevokeUnknownAtServer(k) == UNCHANGED server

(* UPDATE ... WHERE id = $1 AND revoked_at IS NULL: the id is the one the     *)
(* server gave the key, which an imported row does not have.                 *)
RevokeAtServer(k) ==
  server' = IF server[k] = "valid" /\ k \notin imported
            THEN [server EXCEPT ![k] = "revoked"] ELSE server

(* handle_checkout_completed                                                 *)
UpsertUser(h) ==
  /\ At(h, "user") /\ Succeeds
  /\ users' = users \cup {Owner[Sub(h)]}
  /\ Goto(h, "subscription", NoKey)
  /\ Stay /\ UNCHANGED <<subscriptions, apiKeys, serverDb, stripeSide>>

UpsertSubscription(h) ==
  /\ At(h, "subscription") /\ Succeeds
  /\ subscriptions' = [subscriptions EXCEPT ![Sub(h)].status = "active"]
  /\ IF AdminConfigured
     THEN Goto(h, "provision", NoKey) /\ UNCHANGED stripeSide
     ELSE Acknowledge(h)
  /\ Stay /\ UNCHANGED <<users, apiKeys, serverDb>>

Provision(h) ==
  /\ At(h, "provision") /\ Succeeds
  /\ Issue
  /\ Goto(h, "store_id", issued + 1)
  /\ Stay /\ UNCHANGED <<cloudDb, imported, stripeSide>>

(* The failure is only logged: the subscription is active without a key.     *)
(* The server may have issued the key and the answer been lost.              *)
ProvisionFails(h) ==
  /\ At(h, "provision") /\ Fails
  /\ Issue \/ UNCHANGED <<server, issued>>
  /\ Acknowledge(h)
  /\ Stay /\ UNCHANGED <<cloudDb, imported>>

StoreKeyId(h) ==
  /\ At(h, "store_id") /\ Succeeds
  /\ subscriptions' =
       IF subscriptions[Sub(h)].status = "none" THEN subscriptions
       ELSE [subscriptions EXCEPT ![Sub(h)].api_key_id = handler[h].key]
  /\ Goto(h, "store_key", handler[h].key)
  /\ Stay /\ UNCHANGED <<users, apiKeys, serverDb, stripeSide>>

StoreKey(h) ==
  /\ At(h, "store_key") /\ Succeeds
  /\ apiKeys' = Append(apiKeys, Row(handler[h].key, Owner[Sub(h)]))
  /\ Acknowledge(h)
  /\ Stay /\ UNCHANGED <<users, subscriptions, serverDb>>

(* A variant: the row is written as a new one, without its key.              *)
ReplaceRow(h, status) ==
  /\ subscriptions' =
       IF subscriptions[Sub(h)].status = "none" THEN subscriptions
       ELSE [subscriptions EXCEPT ![Sub(h)] = [status |-> status, api_key_id |-> NoKey]]
  /\ Acknowledge(h)
  /\ Stay /\ UNCHANGED <<users, apiKeys, serverDb>>

(* handle_subscription_updated, handle_payment_failed: an UPDATE that finds  *)
(* no row changes nothing and is acknowledged all the same.                  *)
SetStatus(h, status) ==
  /\ subscriptions' =
       IF subscriptions[Sub(h)].status = "none" THEN subscriptions
       ELSE [subscriptions EXCEPT ![Sub(h)].status = status]
  /\ Acknowledge(h)
  /\ Stay /\ UNCHANGED <<users, apiKeys, serverDb>>

SubscriptionUpdated(h) == At(h, "update") /\ Succeeds /\ SetStatus(h, handler[h].event.status)
PaymentFailed(h) == At(h, "past_due") /\ Succeeds /\ SetStatus(h, "past_due")

(* handle_subscription_deleted                                               *)
LookupKey(h) ==
  /\ At(h, "lookup") /\ Succeeds
  /\ LET k == subscriptions[Sub(h)].api_key_id
     IN Goto(h, IF k = NoKey THEN "clear" ELSE "revoke", k)
  /\ Stay /\ UNCHANGED <<cloudDb, serverDb, stripeSide>>

RevokeKey(h) ==
  /\ At(h, "revoke") /\ Succeeds
  /\ IF AdminConfigured THEN RevokeAtServer(handler[h].key) ELSE UNCHANGED server
  /\ Goto(h, "mark", handler[h].key)
  /\ Stay /\ UNCHANGED <<cloudDb, imported, issued, stripeSide>>

(* The call's failure is only logged: the key stays valid at the server.     *)
RevokeKeyFails(h) ==
  /\ At(h, "revoke") /\ Fails
  /\ Goto(h, "mark", handler[h].key)
  /\ Stay /\ UNCHANGED <<cloudDb, serverDb, stripeSide>>

MarkRevoked(k) ==
  apiKeys' = [i \in DOMAIN apiKeys |->
                IF apiKeys[i].key = k THEN [apiKeys[i] EXCEPT !.revoked = TRUE] ELSE apiKeys[i]]

MarkKey(h) ==
  /\ At(h, "mark") /\ Succeeds
  /\ MarkRevoked(handler[h].key)
  /\ Goto(h, "clear", handler[h].key)
  /\ Stay /\ UNCHANGED <<users, subscriptions, serverDb, stripeSide>>

ClearSubscription(h) ==
  /\ At(h, "clear") /\ Succeeds
  /\ subscriptions' =
       IF subscriptions[Sub(h)].status = "none" THEN subscriptions
       ELSE [subscriptions EXCEPT ![Sub(h)] = [status |-> "canceled", api_key_id |-> NoKey]]
  /\ Acknowledge(h)
  /\ Stay /\ UNCHANGED <<users, apiKeys, serverDb>>

HandlerStep(h) ==
  \/ UpsertUser(h) \/ UpsertSubscription(h)
  \/ Provision(h) \/ ProvisionFails(h) \/ StoreKeyId(h) \/ StoreKey(h)
  \/ SubscriptionUpdated(h) \/ PaymentFailed(h)
  \/ LookupKey(h) \/ RevokeKey(h) \/ RevokeKeyFails(h) \/ MarkKey(h) \/ ClearSubscription(h)
  \/ HandlerFails(h)

-----------------------------------------------------------------------------
(* The administrator's dashboard: keys_generate and keys_revoke.             *)

AdminGoto(step, k, u) == admin' = [step |-> step, key |-> k, user |-> u]
AdminStay == UNCHANGED <<handler, tool, stripeSide, scans>>

GenerateKey(u) ==
  /\ admin.step = "idle" /\ u \in users \cap Admins /\ AdminConfigured
  /\ Happens("request")
  /\ Issue
  /\ AdminGoto("insert", issued + 1, u)
  /\ AdminStay /\ UNCHANGED <<cloudDb, imported>>

(* When the row cannot be written, or the server's answer was lost, the key  *)
(* exists at the server only.                                                *)
InsertGenerated ==
  /\ admin.step = "insert" /\ admin' = NoAdmin
  /\ \/ Succeeds /\ apiKeys' = Append(apiKeys, Row(admin.key, admin.user))
     \/ Fails /\ UNCHANGED apiKeys
  /\ AdminStay /\ UNCHANGED <<users, subscriptions, serverDb>>

AskToRevoke(i) ==
  /\ admin.step = "idle"
  /\ apiKeys[i].user \in Admins /\ ~apiKeys[i].revoked
  /\ AdminGoto("revoke", apiKeys[i].key, apiKeys[i].user)
  /\ AdminStay /\ Succeeds /\ UNCHANGED <<cloudDb, serverDb>>

RevokeAsked ==
  /\ admin.step = "revoke" /\ AdminGoto("mark", admin.key, admin.user)
  /\ \/ Succeeds /\ IF AdminConfigured THEN RevokeAtServer(admin.key) ELSE UNCHANGED server
     \/ Fails /\ UNCHANGED server
  /\ AdminStay /\ UNCHANGED <<cloudDb, imported, issued>>

MarkAsked ==
  /\ admin.step = "mark" /\ admin' = NoAdmin
  /\ \/ Succeeds /\ MarkRevoked(admin.key)
     \/ Fails /\ UNCHANGED apiKeys
  /\ AdminStay /\ UNCHANGED <<users, subscriptions, serverDb>>

AdminStep ==
  \/ \E u \in Users : GenerateKey(u)
  \/ \E i \in DOMAIN apiKeys : AskToRevoke(i)
  \/ InsertGenerated \/ RevokeAsked \/ MarkAsked

-----------------------------------------------------------------------------
(* The relay server loses its keys (a fresh database), and the tool that      *)
(* writes the cloud's active keys into it again.                             *)

LoseServerDatabase ==
  /\ Happens("loss")
  /\ server' = [k \in Keys |-> "none"] /\ imported' = {}
  /\ UNCHANGED <<cloudDb, issued, handler, admin, tool, stripeSide, scans>>

ActiveKeys == Without(apiKeys, {row \in Members(apiKeys) : row.revoked})

ToolStay == UNCHANGED <<cloudDb, issued, handler, admin, stripeSide>>

ReadActiveKeys ==
  /\ tool.step # "running"
  /\ scans < MaxScans /\ scans' = scans + 1 /\ Succeeds
  /\ tool' = [step |-> "running", todo |-> [i \in DOMAIN ActiveKeys |-> ActiveKeys[i].key]]
  /\ ToolStay /\ UNCHANGED <<server, imported>>

(* A variant: the test follows the index, which holds keys not revoked.      *)
NotActiveAtServer(k) == server[k] # "valid"

(* INSERT ... WHERE NOT EXISTS (a row with this hash, revoked or not)         *)
AbsentAtServer(k) == server[k] = "none"

ImportKey ==
  /\ tool.step = "running" /\ tool.todo # <<>>
  /\ LET k == Head(tool.todo)
     IN IF AbsentAtServer(k)
        THEN server' = [server EXCEPT ![k] = "valid"] /\ imported' = imported \cup {k}
        ELSE UNCHANGED <<server, imported>>
  /\ tool' = [tool EXCEPT !.todo = Tail(@)]
  /\ ToolStay /\ Succeeds /\ UNCHANGED scans

(* An insert that fails ends the run, unless --continue-on-error.            *)
ImportFails ==
  /\ tool.step = "running" /\ tool.todo # <<>> /\ Fails
  /\ \E rest \in {<<>>, Tail(tool.todo)} : tool' = [tool EXCEPT !.todo = rest]
  /\ ToolStay /\ UNCHANGED <<server, imported, scans>>

ToolEnds ==
  /\ tool.step = "running" /\ tool.todo = <<>>
  /\ tool' = NoTool
  /\ ToolStay /\ Succeeds /\ UNCHANGED <<server, imported, scans>>

ToolStep == ReadActiveKeys \/ ImportKey \/ ImportFails \/ ToolEnds

-----------------------------------------------------------------------------
StripeStep ==
  \E s \in Subs :
    \/ Checkout(s) \/ Pay(s) \/ Cancel(s)
    \/ Change(s, "updated", "active") \/ Change(s, "updated", "past_due")
    \/ Change(s, "payment_failed", "past_due")

Next ==
  \/ StripeStep
  \/ \E h \in Handlers : HandlerStep(h) \/ \E e \in pending \cup acked : Deliver(h, e) \/ Redeliver(h, e)
  \/ AdminStep \/ ToolStep \/ LoseServerDatabase

Spec == Init /\ [][Next]_vars

(* Stripe goes on sending an event until it is acknowledged, and a handler   *)
(* that has begun goes on.  Nothing obliges the administrator.               *)
FairSpec ==
  /\ Spec
  /\ \A h \in Handlers : WF_vars(HandlerStep(h))
  /\ \A e \in Events : WF_vars(\E h \in Handlers : Deliver(h, e))

-----------------------------------------------------------------------------
Quiet == /\ \A h \in Handlers : handler[h].step = "idle"
         /\ admin.step = "idle" /\ tool.step # "running"

Recorded(k) == \E i \in DOMAIN apiKeys : apiKeys[i].key = k /\ ~apiKeys[i].revoked

(* Every variable keeps the shape its table or its request has, and every key  *)
(* that any of them names is one the server has issued.                       *)
CloudTypeOK ==
  LET Issued == 1..issued
  IN
  /\ users \subseteq Users
  /\ subscriptions \in [Subs -> [status : {"none", "active", "past_due", "canceled"},
                                 api_key_id : Issued \cup {NoKey}]]
  /\ apiKeys \in Seq([key : Issued, user : Users, revoked : BOOLEAN])
  /\ server \in [Keys -> {"none", "valid", "revoked"}]
  /\ imported \subseteq Issued /\ issued \in Nat
  /\ handler \in [Handlers -> [step : SqlSteps \cup {"idle", "provision", "revoke"},
                               event : Events \cup {NoEvent}, key : Issued \cup {NoKey}]]
  /\ admin \in [step : {"idle", "insert", "revoke", "mark"}, key : Issued \cup {NoKey},
                user : Users \cup {"none"}]
  /\ tool \in [step : {"idle", "running"}, todo : Seq(Issued)]
  /\ stripe \in [Subs -> {"none", "offered", "open", "canceled"}]
  /\ pending \subseteq Events /\ acked \subseteq Events
  /\ spent \in [Faults -> 0..MaxFaults] /\ scans \in 0..MaxScans

(* The two stores have no transaction in common, yet when no statement or    *)
(* call failed, the server kept its database and no request is in progress,  *)
(* every key the server accepts has an unrevoked api_keys row, whatever the   *)
(* order and the repetitions of the events and whatever ran between two steps *)
(* of a handler; and every such row's key is accepted, unless a cancellation  *)
(* may have been handled while the checkout was still storing the row.       *)
StoresAgree ==
  spent["failure"] = 0 /\ spent["loss"] = 0 /\ Quiet =>
    \A k \in Keys :
      /\ server[k] = "valid" => Recorded(k)
      /\ Recorded(k) /\ (\A s \in Subs : stripe[s] # "canceled") => server[k] = "valid"

(* A customer who paid and has not canceled holds a key that works: when the *)
(* checkout was acknowledged, nothing failed and nothing is in progress, the  *)
(* subscription names a key that is recorded for its owner and valid.        *)
PaidHoldsKey ==
  \A s \in Subs :
    /\ Event("checkout", s, "active") \in acked /\ stripe[s] = "open"
    /\ Owner[s] \notin Admins /\ AdminConfigured
    /\ spent["failure"] = 0 /\ spent["loss"] = 0 /\ Quiet
    => LET k == subscriptions[s].api_key_id
       IN k \in Keys /\ server[k] = "valid"
          /\ \E i \in DOMAIN apiKeys : apiKeys[i] = Row(k, Owner[s])

(* Revocation is final: no step, the reprovisioning tool's included (its     *)
(* list of active keys may be older than a revocation), makes the server     *)
(* accept a key again that it knows it has revoked.  A key whose row it lost  *)
(* with its database is another matter.                                      *)
RevocationIsFinal ==
  [][\A k \in Keys : server[k] = "revoked" => server'[k] # "valid"]_vars

(* Every payment reaches the database in the end: failures and crashes of    *)
(* the handler only delay the subscription row, because each makes Stripe    *)
(* send the event again.                                                     *)
CheckoutSettles ==
  \A s \in Subs : stripe[s] \in {"open", "canceled"} ~> subscriptions[s].status # "none"
=============================================================================
