----------------------------- MODULE CloudSession -----------------------------
(***************************************************************************)
(* Signing in to the cloud service with one browser: the session it shares   *)
(* between requests that overlap, the token of its forms, and the limiter    *)
(* of failed logins for its address.                                        *)
(*                                                                          *)
(* tower_sessions (external): a request reads the session's record once,     *)
(* changes its own copy, and the middleware writes the whole copy back after *)
(* the handler if it changed.  One account and one password; the database    *)
(* answers; what a form's handler does to keys and billing is CloudBilling.  *)
(***************************************************************************)
EXTENDS SeqFilter

CONSTANTS
  Tabs,          \* requests the browser may have under way at once
  MaxAttempts,   \* RateLimiter::max_attempts
  Window,        \* RateLimiter::window, in ticks
  MaxTokens,     \* bound: form tokens in use at once
  MaxSessions    \* bound: session ids in use at once

ASSUME SessionAssumption ==
  /\ MaxAttempts \in Nat \ {0} /\ Window \in Nat \ {0}
  /\ MaxTokens \in Nat /\ MaxSessions \in Nat /\ IsFiniteSet(Tabs)

NoToken == 0
NoSession == 0
Forms == {"login", "action"}                          \* POST with a token
Links == {"login page", "dashboard", "success"}       \* GET
Kinds == Forms \cup Links \cup {"logout"}

VARIABLES
  sessionStore,  \* the records of tower_sessions' table
  cookie,        \* the session id the browser sends
  page,          \* the token in the form on the screen, and whether nothing overlapped
  tab,           \* each request under way
  attempts,      \* the ages of the failed logins of this address
  account        \* ghost: what the last login or logout left, "any" after overlaps

sessionVars == <<sessionStore, cookie, page, tab, attempts, account>>

Blank == [user |-> FALSE, token |-> NoToken]   \* no record, or an empty one
NoPage == [token |-> NoToken, lone |-> FALSE]
Idle == [kind |-> "none", step |-> "idle", id |-> NoSession, form |-> NoToken, copy |-> Blank,
         dirty |-> FALSE, empty |-> FALSE, shows |-> NoToken, lone |-> TRUE]

SessionInit ==
  /\ sessionStore = [i \in 1..MaxSessions |-> Blank] /\ cookie = NoSession /\ page = NoPage
  /\ tab = [r \in Tabs |-> Idle] /\ attempts = <<>> /\ account = "out"

Stored(i) == IF i = NoSession THEN Blank ELSE sessionStore[i]
Running(r) == tab[r].step # "idle"
Set(r, t) == tab' = [tab EXCEPT ![r] = t]
EndUnchanged(r, t) ==   \* a reply that leaves the session alone
  Set(r, [Idle EXCEPT !.kind = t.kind, !.step = "reply", !.empty = t.empty, !.lone = t.lone])
LimiterStays == UNCHANGED attempts

(* A token and an id nobody has, in the place of a random one.                *)
Unused(S) == CHOOSE x \in S : \A y \in S : x <= y
FreshTokens ==
  1..MaxTokens \ ({page.token} \cup {sessionStore[i].token : i \in 1..MaxSessions}
                  \cup UNION {{tab[r].form, tab[r].copy.token, tab[r].shows} : r \in Tabs})
Referenced(id) == id = cookie' \/ \E r \in Tabs : tab'[r].id = id
FreshIds == 1..MaxSessions \ ({cookie} \cup {tab[r].id : r \in Tabs})
BrowserStays == UNCHANGED <<cookie, page, account>>

-----------------------------------------------------------------------------
(* The limiter.                                                              *)

(* is_limited; a record leaves with the window (TimePasses), where the code  *)
(* drops it at the next look.                                                *)
is_limited == Len(attempts) >= MaxAttempts

record_attempt == attempts' = Append(attempts, 0)

TimePasses ==
  /\ attempts # <<>>
  /\ attempts' = Without([i \in DOMAIN attempts |-> attempts[i] + 1], {Window})
  /\ UNCHANGED <<sessionStore, cookie, page, tab, account>>

-----------------------------------------------------------------------------
(* The session of a request.                                                 *)

(* The browser sends a request: a form with the token on the screen.         *)
Request(r, kind) ==
  /\ ~Running(r)
  /\ kind \in Forms => page.token # NoToken
  /\ tab' = [q \in Tabs |->
       IF q = r THEN [Idle EXCEPT !.kind = kind, !.step = "load", !.id = cookie,
                                  !.form = IF kind \in Forms THEN page.token ELSE NoToken,
                                  !.lone = \A o \in Tabs : ~Running(o)]
       ELSE [tab[q] EXCEPT !.lone = FALSE]]
  /\ UNCHANGED <<sessionStore, cookie, page, attempts, account>>

(* The first look at the session: a cookie without a record is forgotten.     *)
Loaded(r) ==
  LET copy == Stored(tab[r].id)
  IN [tab[r] EXCEPT !.copy = copy, !.empty = tab[r].id # NoSession /\ copy = Blank,
                    !.id = IF copy = Blank THEN NoSession ELSE @]

(* get_or_create_token, with the new token it would take.                     *)
WithToken(t) ==
  IF t.copy.token # NoToken THEN t
  ELSE [t EXCEPT !.copy.token = Unused(FreshTokens), !.dirty = TRUE]

(* validate with the right token: the copy gets another.  The handlers of the *)
(* other forms (billing_portal, keys_generate, keys_revoke, checkout) leave   *)
(* the session alone and end in a redirect.                                  *)
AcceptForm(r) ==
  /\ FreshTokens # {}
  /\ Set(r, [Loaded(r) EXCEPT !.step = IF tab[r].kind = "login" THEN "handler" ELSE "reply",
                             !.copy.token = Unused(FreshTokens), !.dirty = TRUE])

(* csrf_middleware for the forms: 403 when the token is not the session's.   *)
CheckForm(r) ==
  LET copy == Stored(tab[r].id)
  IN
  /\ tab[r].step = "load" /\ tab[r].kind \in Forms
  /\ \/ copy.token # tab[r].form /\ EndUnchanged(r, Loaded(r))
     \/ copy.token = tab[r].form /\ AcceptForm(r)
  /\ UNCHANGED sessionStore /\ BrowserStays /\ LimiterStays

(* login_page and page: a redirect, or a form with the session's token.       *)
OpenPage(r) ==
  LET t == Loaded(r)
      redirected == t.copy.user = (tab[r].kind = "login page")
  IN
  /\ tab[r].step = "load" /\ tab[r].kind \in {"login page", "dashboard"}
  /\ \/ redirected /\ EndUnchanged(r, t)
     \/ /\ ~redirected /\ FreshTokens # {}
        /\ Set(r, [WithToken(t) EXCEPT !.step = "reply", !.shows = WithToken(t).copy.token])
  /\ UNCHANGED sessionStore /\ BrowserStays /\ LimiterStays

SignIn(t) == [t EXCEPT !.step = "reply", !.copy.user = TRUE, !.dirty = TRUE]

(* success: the e-mail of the checkout names an account, or nothing happens.  *)
CheckoutSucceeds(r) ==
  /\ tab[r].step = "load" /\ tab[r].kind = "success"
  /\ \E known \in BOOLEAN :
       IF known THEN Set(r, SignIn(Loaded(r))) ELSE EndUnchanged(r, tab[r])
  /\ UNCHANGED sessionStore /\ BrowserStays /\ LimiterStays

(* A variant: the copy goes, and is written back like any other change.       *)
ClearUser(r) ==
  /\ Set(r, [Loaded(r) EXCEPT !.step = "reply", !.dirty = TRUE])
  /\ UNCHANGED sessionStore

(* flush: the copy and the record go.                                        *)
Flush(r) ==
  /\ Set(r, [tab[r] EXCEPT !.step = "reply", !.copy = Blank, !.empty = TRUE])
  /\ sessionStore' = IF tab[r].id = NoSession THEN sessionStore
                     ELSE [sessionStore EXCEPT ![tab[r].id] = Blank]

logout(r) ==
  /\ tab[r].step = "load" /\ tab[r].kind = "logout" /\ Flush(r)
  /\ BrowserStays /\ LimiterStays

(* login_submit looks at the limiter before the database.                     *)
AskLimiter(r) ==
  /\ tab[r].step = "handler"
  /\ Set(r, [tab[r] EXCEPT !.step = IF is_limited THEN "reply" ELSE "verify"])
  /\ UNCHANGED sessionStore /\ BrowserStays /\ LimiterStays

(* No such user, or not the password: counted, and the form again.            *)
LoginFails(r) ==
  /\ tab[r].step = "verify" /\ record_attempt
  /\ Set(r, [tab[r] EXCEPT !.step = "reply", !.shows = tab[r].copy.token])
  /\ UNCHANGED sessionStore /\ BrowserStays

PasswordVerified(r) ==
  /\ tab[r].step = "verify" /\ Set(r, SignIn(tab[r]))
  /\ UNCHANGED sessionStore /\ BrowserStays /\ LimiterStays

Changed(t) == t.dirty

(* The middleware writes a changed copy back, under a new id if the request   *)
(* had none, and sets or removes the cookie; the page comes on the screen.    *)
(* A record whose id nobody has any more is left out.                         *)
Reply(r) ==
  LET t == tab[r]
      id == IF t.id = NoSession THEN Unused(FreshIds) ELSE t.id
      signed == t.kind = "logout" \/ (t.kind \in {"login", "success"} /\ t.dirty /\ t.copy.user)
  IN
  /\ t.step = "reply" /\ Set(r, Idle)
  /\ Changed(t) /\ t.id = NoSession => FreshIds # {}
  /\ cookie' = IF Changed(t) THEN id ELSE IF t.empty THEN NoSession ELSE cookie
  /\ sessionStore' = [i \in 1..MaxSessions |->
       IF Changed(t) /\ i = id THEN t.copy ELSE IF Referenced(i) THEN sessionStore[i] ELSE Blank]
  /\ page' = [token |-> t.shows, lone |-> t.lone]
  /\ account' = IF ~signed THEN account
                ELSE IF ~t.lone THEN "any"
                ELSE IF t.kind = "logout" THEN "out" ELSE "in"
  /\ LimiterStays

(* What a request under way does next.                                       *)
Handle(r) ==
  \/ CheckForm(r) \/ OpenPage(r) \/ CheckoutSucceeds(r) \/ logout(r)
  \/ AskLimiter(r) \/ LoginFails(r) \/ PasswordVerified(r) \/ Reply(r)

SessionNext ==
  \/ TimePasses
  \/ \E r \in Tabs : Handle(r) \/ \E kind \in Kinds : Request(r, kind)

SessionSpec == SessionInit /\ [][SessionNext]_sessionVars

-----------------------------------------------------------------------------
(* Properties.                                                               *)

(* Every variable keeps its shape, and a form shows the token its request     *)
(* leaves in the session.                                                    *)
SessionTypeOK ==
  /\ sessionStore \in [1..MaxSessions -> [user : BOOLEAN, token : 0..MaxTokens]]
  /\ cookie \in 0..MaxSessions
  /\ page \in [token : 0..MaxTokens, lone : BOOLEAN]
  /\ \A i \in DOMAIN attempts : attempts[i] \in 0..(Window - 1)
  /\ account \in {"in", "out", "any"}
  /\ \A r \in Tabs :
       /\ tab[r].step \in {"idle", "load", "handler", "verify", "reply"}
       /\ tab[r].shows # NoToken => tab[r].shows = tab[r].copy.token
       /\ tab[r].dirty => tab[r].copy.token # NoToken \/ tab[r].copy.user

(* The limiter is asked before the password is verified and told afterwards,  *)
(* so attempts that overlap pass it together, but never more of them than     *)
(* there are requests under way: within one window an address fails at most  *)
(* that often beyond the limit.                                              *)
LoginTriesBounded ==
  Len(attempts) + Cardinality({r \in Tabs : tab[r].step = "verify"})
    <= MaxAttempts - 1 + Cardinality(Tabs)

(* What a browser at rest shows agrees with its session record.  If its       *)
(* requests did not overlap its logins and logouts, it is signed in exactly   *)
(* when the last of these says so: no older copy of the record, written back  *)
(* late, changes it.  And the form on its screen is accepted, if the request  *)
(* that showed it overlapped no other.                                       *)
ScreenMatchesSession ==
  (\A r \in Tabs : ~Running(r)) =>
    /\ account = "in" => Stored(cookie).user
    /\ account = "out" => ~Stored(cookie).user
    /\ page.lone /\ page.token # NoToken => Stored(cookie).token = page.token
=============================================================================
