----------------------------- MODULE ReleaseCache -----------------------------
(***************************************************************************)
(* How a new desktop release reaches the desktop application: GitHub's       *)
(* release list, the two caches of it in the cloud service (LATEST_CACHE of  *)
(* the updater endpoint, DESKTOP_DOWNLOAD_CACHE of the download redirect),   *)
(* and the application, which asks, installs and restarts.                  *)
(*                                                                          *)
(* A cache is read, looked up and written under separate locks, with awaits  *)
(* between, so lookups overlap and an older one may be stored last.  The    *)
(* platform is one (Windows, whose installer is also the signed bundle); an  *)
(* asset's URL and signature are those of its release.                      *)
(***************************************************************************)
EXTENDS Naturals

CONSTANTS
  Callers,      \* update checks of one application, visitors of
                \* /download/desktop/{platform}, under way at once
  Ttl,          \* CACHE_TTL, DESKTOP_CACHE_TTL, in ticks
  FetchMax,     \* the timeout of a request to GitHub, in ticks
  LastVersion,  \* bound: releases published
  MaxFailures   \* bound: requests to GitHub that fail, installations declined

ASSUME ReleaseAssumption == Ttl \in Nat /\ FetchMax \in Nat /\ LastVersion \in Nat \ {0}
                            /\ MaxFailures \in Nat

Version == 1..LastVersion
NoVersion == 0
Assets == {"bundle", "sig"}
Stale == Ttl + FetchMax + 1   \* where the ghost clocks stop

VARIABLES
  role,        \* "updater" for a check of the application, "download" for a visitor
  latest,      \* the newest desktop release at GitHub
  uploaded,    \* the assets of each release that are there
  superseded,  \* ticks since each release stopped being the newest, up to Stale
  cache,       \* LATEST_CACHE and DESKTOP_DOWNLOAD_CACHE: release, its assets, age
  signatures,  \* SIGNATURE_CACHE
  call,        \* the lookup or installation each caller is in
  running,     \* the application's version
  installed,   \* the version it will have after a restart
  failures     \* how many requests failed and installations were declined

releaseVars == <<role, latest, uploaded, superseded, cache, signatures, call, running, installed,
                 failures>>

NoRelease == [version |-> NoVersion, assets |-> {}]
Empty == [release |-> NoRelease, age |-> Ttl]
NoCall == [step |-> "idle", elapsed |-> 0, release |-> NoRelease]

ReleaseInit ==
  /\ role \in [Callers -> {"updater", "download"}]
  /\ latest = 1 /\ uploaded = [v \in Version |-> IF v = 1 THEN Assets ELSE {}]
  /\ superseded = [v \in Version |-> 0]
  /\ cache = [kind \in {"updater", "download"} |-> Empty] /\ signatures = {}
  /\ call = [c \in Callers |-> NoCall]
  /\ running = 1 /\ installed = 1 /\ failures = 0

GitHubStays == UNCHANGED <<role, latest, uploaded, superseded>>
AppStays == UNCHANGED <<running, installed, failures>>
RequestFails ==
  /\ failures < MaxFailures /\ failures' = failures + 1
  /\ UNCHANGED <<running, installed>>
Hold(c, step, release) ==
  call' = [call EXCEPT ![c] = [step |-> step, elapsed |-> 0, release |-> release]]
Proceed(c, step) == Hold(c, step, call[c].release)
Hangup(c) == call' = [call EXCEPT ![c] = NoCall]

-----------------------------------------------------------------------------
(* GitHub, and time.                                                         *)

Publish ==
  /\ latest < LastVersion /\ latest' = latest + 1
  /\ UNCHANGED <<role, uploaded, superseded, cache, signatures, call, running, installed, failures>>

(* The release workflow uploads the assets one by one.                       *)
Upload(v, asset) ==
  /\ v <= latest /\ asset \notin uploaded[v]
  /\ uploaded' = [uploaded EXCEPT ![v] = @ \cup {asset}]
  /\ UNCHANGED <<role, latest, superseded, cache, signatures, call, running, installed, failures>>

(* A request to GitHub ends before its timeout has passed.                   *)
Fetching == {"fetching", "storing"}

Tick ==
  /\ \A c \in Callers : call[c].step \in Fetching => call[c].elapsed < FetchMax
  /\ cache' = [kind \in DOMAIN cache |->
                 [cache[kind] EXCEPT !.age = IF @ < Ttl THEN @ + 1 ELSE @]]
  /\ call' = [c \in Callers |->
                IF call[c].step \in Fetching THEN [call[c] EXCEPT !.elapsed = @ + 1] ELSE call[c]]
  /\ superseded' = [v \in Version |-> IF v < latest /\ superseded[v] < Stale
                                      THEN superseded[v] + 1 ELSE superseded[v]]
  /\ UNCHANGED <<role, latest, uploaded, signatures, running, installed, failures>>

-----------------------------------------------------------------------------
(* latest_release and latest_desktop_assets.                                 *)

(* A variant: an entry is good for ever.                                     *)
FreshForever(kind) == cache[kind].release # NoRelease

Fresh(kind) == cache[kind].release # NoRelease /\ cache[kind].age < Ttl

ReadCache(c) ==
  /\ call[c].step = "idle"
  /\ \/ Fresh(role[c]) /\ Hold(c, "deciding", cache[role[c]].release)
     \/ ~Fresh(role[c]) /\ Proceed(c, "fetching")
  /\ GitHubStays /\ AppStays /\ UNCHANGED <<cache, signatures>>

(* GitHub answers: the assets that are there now.  The redirect's list       *)
(* without an installer is not stored; the updater's is.                     *)
GitHubAnswers(c) ==
  LET release == [version |-> latest, assets |-> uploaded[latest]]
  IN
  /\ call[c].step = "fetching"
  /\ call' = IF role[c] = "download" /\ "bundle" \notin release.assets
             THEN [call EXCEPT ![c] = NoCall]
             ELSE [call EXCEPT ![c] = [step |-> "storing", elapsed |-> @.elapsed, release |-> release]]
  /\ GitHubStays /\ AppStays /\ UNCHANGED <<cache, signatures>>

(* An error or the timeout: 204, or the fallback page.                       *)
FetchFails(c) ==
  /\ call[c].step \in {"fetching", "signing"} /\ Hangup(c) /\ RequestFails
  /\ GitHubStays /\ UNCHANGED <<cache, signatures>>

(* The entry's age is counted from here, not from the answer.                *)
StoreRelease(c) ==
  /\ call[c].step = "storing"
  /\ cache' = [cache EXCEPT ![role[c]] = [release |-> call[c].release, age |-> 0]]
  /\ Proceed(c, "deciding")
  /\ GitHubStays /\ AppStays /\ UNCHANGED signatures

(* desktop_download_redirect                                                 *)
Redirect(c) ==
  /\ role[c] = "download" /\ call[c].step = "deciding" /\ Hangup(c)
  /\ GitHubStays /\ AppStays /\ UNCHANGED <<cache, signatures>>

-----------------------------------------------------------------------------
(* desktop_update_check, for the version the application is running.         *)

IsNewer(version) == version > running

(* 204: the client has this version, or there is no signed bundle of it.      *)
NothingToInstall(c) ==
  /\ role[c] = "updater" /\ call[c].step = "deciding"
  /\ ~IsNewer(call[c].release.version) \/ call[c].release.assets # Assets
  /\ Hangup(c)
  /\ GitHubStays /\ AppStays /\ UNCHANGED <<cache, signatures>>

FindSignature(c) ==
  /\ role[c] = "updater" /\ call[c].step = "deciding"
  /\ IsNewer(call[c].release.version) /\ call[c].release.assets = Assets
  /\ Proceed(c, IF call[c].release.version \in signatures THEN "installing" ELSE "signing")
  /\ GitHubStays /\ AppStays /\ UNCHANGED <<cache, signatures>>

SignatureFetched(c) ==
  /\ call[c].step = "signing"
  /\ signatures' = signatures \cup {call[c].release.version}
  /\ Proceed(c, "installing")
  /\ GitHubStays /\ AppStays /\ UNCHANGED cache

(* download_and_install of the application, and its restart, which ends what  *)
(* else the application was doing.                                           *)
Install(c) ==
  /\ call[c].step = "installing"
  /\ installed' = call[c].release.version /\ Hangup(c)
  /\ GitHubStays /\ UNCHANGED <<cache, signatures, running, failures>>

(* The user declines, or the installation fails.                             *)
Decline(c) ==
  /\ call[c].step = "installing" /\ Hangup(c) /\ RequestFails
  /\ GitHubStays /\ UNCHANGED <<cache, signatures>>

Restart ==
  /\ running # installed /\ running' = installed
  /\ call' = [c \in Callers |-> IF role[c] = "updater" THEN NoCall ELSE call[c]]
  /\ GitHubStays /\ UNCHANGED <<cache, signatures, installed, failures>>

Lookup(c) ==
  \/ ReadCache(c) \/ GitHubAnswers(c) \/ StoreRelease(c) \/ Redirect(c)
  \/ NothingToInstall(c) \/ FindSignature(c) \/ SignatureFetched(c) \/ Install(c)

ReleaseNext ==
  \/ Publish \/ \E v \in Version, asset \in Assets : Upload(v, asset)
  \/ Tick \/ Restart
  \/ \E c \in Callers : Lookup(c) \/ FetchFails(c) \/ Decline(c)

ReleaseSpec == ReleaseInit /\ [][ReleaseNext]_releaseVars

-----------------------------------------------------------------------------
(* Properties.                                                               *)

(* Every variable keeps its shape; what a cache or a lookup holds of a        *)
(* release was there at GitHub.                                              *)
ReleaseTypeOK ==
  /\ latest \in Version /\ uploaded \in [Version -> SUBSET Assets]
  /\ superseded \in [Version -> 0..Stale] /\ signatures \subseteq Version
  /\ failures \in 0..MaxFailures
  /\ running \in Version /\ installed \in Version
  /\ \A kind \in DOMAIN cache :
       /\ cache[kind].release.version \in 0..latest /\ cache[kind].age \in 0..Ttl
       /\ cache[kind].release # NoRelease =>
            cache[kind].release.assets \subseteq uploaded[cache[kind].release.version]
  /\ \A c \in Callers :
       /\ call[c].step \in {"idle", "fetching", "storing", "deciding", "signing", "installing"}
       /\ call[c].elapsed \in 0..FetchMax /\ call[c].release.version \in 0..latest

(* A lookup never answers with a release that was superseded longer ago than  *)
(* the cache's lifetime and one request to GitHub: overlapping lookups may    *)
(* store an older list last, with a new age, but not add their ages up.       *)
BoundedStaleness ==
  \A kind \in DOMAIN cache :
    Fresh(kind) => superseded[cache[kind].release.version] < Ttl + FetchMax

(* The version that runs never goes back, although the version a cache        *)
(* holds may, and several checks of one application may overlap.             *)
NeverDowngrades == [][running' >= running]_releaseVars
=============================================================================
