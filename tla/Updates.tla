------------------------------ MODULE Updates ------------------------------
(***************************************************************************)
(* Updates: the checker's cache of the newest release (updates.go), the    *)
(* hourly auto-updater (scheduler.go), the trigger of the orchestrator     *)
(* that replaces the process (trigger.go, server.go), and the banner of a  *)
(* tab that offers a release, applies it and reports the success           *)
(* (UpdateBanner.tsx, UpdatesSection.tsx).                                 *)
(*                                                                         *)
(* Releases are 1, 2, ...; 0 is the empty version.  A trigger is set up,   *)
(* and the setting of the auto-updater is read at a tick as either value.  *)
(* An hour is the TTL of the cache.                                        *)
(***************************************************************************)
EXTENDS Integers

CONSTANTS
    MaxRelease,
    MaxAsks,    \* so many checks are under way at a time
    MaxClicks,  \* so many clicks on the update button
    Spacing     \* hours between automatic updates: 23

ASSUME UpdatesAssumption ==
    /\ MaxRelease \in Nat \ {0} /\ MaxAsks \in Nat \ {0} /\ MaxClicks \in Nat
    /\ Spacing \in Nat \ {0}

VARIABLES
    released,   \* the newest release
    version,    \* the release that runs
    cached,     \* Checker.cached, 0 when nil
    fresh,      \* whether fetchedAt is within the TTL
    since,      \* the hours since AutoUpdater.lastAt, Spacing when long ago or never
    pulling,    \* whether the orchestrator has been asked for an update
    asks,       \* the calls of the checker: of the tab, of a page before it, of a tick
    offer,      \* the banner's status
    dismissed,  \* the version in localStorage, 0 when none
    marker,     \* UPGRADED_FROM_KEY in sessionStorage, 0 when none
    applyState,
    target,     \* the version that onApply waits for, 0 when it does not
    landed,     \* the marker that the page found and asks the version for
    hushed,     \* history: the versions that were dismissed
    clicks,     \* history: the clicks on the update button,
    owed,       \* and those that have not failed and not been reported
    orderly     \* whether no call of the checker starts while another is under way

serverVars == <<released, version, cached, fresh, since, pulling>>
tabVars == <<dismissed, marker, applyState, target, landed, hushed, clicks, owed>>
updatesVars == <<serverVars, asks, offer, tabVars, orderly>>

Versions == 1..MaxRelease
NoOffer == [current |-> 0, latest |-> 0]

\* A call fetches, has the upstream's answer (0 when it failed), has its own
\* answer; an automatic one may then fire.
NoAsk == [what |-> "none", st |-> "none", latest |-> 0, current |-> 0]
AskIds == 1..MaxAsks
IsFree(k, as) == as[k] = NoAsk /\ \A i \in 1..(k - 1) : as[i] # NoAsk
NoneUnderWay == \A k \in AskIds : asks[k] = NoAsk
InTurn == orderly => NoneUnderWay

\* Checker.Status and Refresh, up to the fetch.
Status(what) ==
    IF what # "check" /\ cached # 0 /\ fresh
    THEN [what |-> what, st |-> "answer", latest |-> cached, current |-> version]
    ELSE [what |-> what, st |-> "fetch", latest |-> 0, current |-> 0]

UpdatesInit ==
    /\ released \in Versions /\ version \in 1..released
    /\ cached = 0 /\ fresh = FALSE /\ since = Spacing /\ pulling = FALSE
    /\ asks = [k \in AskIds |-> IF k = 1 THEN Status("get") ELSE NoAsk]
    /\ offer = NoOffer /\ dismissed = 0 /\ marker = 0
    /\ applyState = "idle" /\ target = 0 /\ landed = 0
    /\ hushed = {} /\ clicks = 0 /\ owed = 0
    /\ orderly \in BOOLEAN

(***************************************************************************)
(* The checker and the auto-updater.                                       *)
(***************************************************************************)
Hour ==
    /\ fresh' = FALSE /\ since' = IF since < Spacing THEN since + 1 ELSE since
    /\ UNCHANGED <<released, version, cached, pulling, asks, offer, tabVars, orderly>>

Release ==
    /\ released < MaxRelease /\ released' = released + 1
    /\ UNCHANGED <<version, cached, fresh, since, pulling, asks, offer, tabVars, orderly>>

\* fetchLatest: the newest release, or an error.
Fetched(k) ==
    /\ asks[k].st = "fetch"
    /\ \E latest \in {0, released} :
        asks' = [asks EXCEPT ![k].st = "fetched", ![k].latest = latest]
    /\ UNCHANGED <<serverVars, offer, tabVars, orderly>>

\* fetchAndCache under its lock: an error serves what is cached.
Cache(k) ==
    /\ asks[k].st = "fetched"
    /\ LET latest == asks[k].latest
           ok == latest # 0
       IN  /\ cached' = IF ok THEN latest ELSE cached
           /\ fresh' = (ok \/ fresh)
           /\ asks' = [asks EXCEPT ![k].st = "answer", ![k].current = version, ![k].latest = cached']
    /\ UNCHANGED <<released, version, since, pulling, offer, tabVars, orderly>>

\* tick, past the setting and the spacing; one tick at a time.
Tick ==
    /\ since = Spacing /\ InTurn /\ \A k \in AskIds : asks[k].what # "auto"
    /\ \E k \in AskIds : IsFree(k, asks) /\ asks' = [asks EXCEPT ![k] = Status("auto")]
    /\ UNCHANGED <<serverVars, offer, tabVars, orderly>>

Decide(k) ==
    /\ asks[k].what = "auto" /\ asks[k].st = "answer"
    /\ asks' = [asks EXCEPT ![k] = IF @.latest > @.current THEN [@ EXCEPT !.st = "fire"] ELSE NoAsk]
    /\ UNCHANGED <<serverVars, offer, tabVars, orderly>>

\* The orchestrator is asked for an update, or the call fails before it is.
Fire == pulling' \in {pulling, TRUE}

\* Only a good answer sets lastAt.
AutoFire(k) ==
    /\ asks[k].st = "fire"
    /\ asks' = [asks EXCEPT ![k] = NoAsk]
    /\ Fire /\ since' \in {since} \cup IF pulling' THEN {0} ELSE {}
    /\ UNCHANGED <<released, version, cached, fresh, offer, tabVars, orderly>>

\* The process is replaced, by the orchestrator or by hand, with the release
\* that ran or the newest one: its memory is gone, and so are its calls.
Replace ==
    /\ version' \in {version, released}
    /\ cached' = 0 /\ fresh' = FALSE /\ since' = Spacing /\ pulling' = FALSE
    /\ asks' = [k \in AskIds |-> IF asks[k].st = "answer" /\ asks[k].what # "auto"
                                 THEN asks[k] ELSE NoAsk]
    /\ UNCHANGED <<released, offer, tabVars, orderly>>

\* The orchestrator fails or finds nothing to pull.
PullFails ==
    /\ pulling /\ pulling' = FALSE
    /\ UNCHANGED <<released, version, cached, fresh, since, asks, offer, tabVars, orderly>>

(***************************************************************************)
(* The tab.                                                                *)
(***************************************************************************)
\* A page: its predecessor's calls go on in the server, for nobody.
LoadPage ==
    /\ InTurn
    /\ LET left == [k \in AskIds |->
                       IF asks[k].what \notin {"get", "check"} THEN asks[k]
                       ELSE IF asks[k].st = "answer" THEN NoAsk
                       ELSE [asks[k] EXCEPT !.what = "gone"]]
       IN  \E k \in AskIds : IsFree(k, left) /\ asks' = [left EXCEPT ![k] = Status("get")]
    /\ offer' = NoOffer /\ applyState' = "idle" /\ target' = 0
    /\ landed' = marker
    /\ UNCHANGED <<released, version, cached, fresh, since, dismissed, marker, hushed, clicks,
                   owed, orderly>>

\* A request of onApply that is still under way may be served.
Reload == LoadPage /\ pulling' \in {pulling, pulling \/ applyState = "applying"}

\* Faulty variant: a status without a release allows the banner too.
AllowEmpty(latest) == IF dismissed # 0 /\ latest # dismissed THEN 0 ELSE dismissed

\* The effect on status.latest and dismissed.
AllowNewer(latest) == IF latest # 0 /\ dismissed # 0 /\ latest # dismissed THEN 0 ELSE dismissed

\* respondWithUpdateStatus.
Response(ask) == [current |-> ask.current, latest |-> ask.latest]

\* fetchStatus: setStatus, and the effect.
GetAnswered(k) ==
    /\ asks[k].what = "get" /\ asks[k].st = "answer"
    /\ offer' = Response(asks[k])
    /\ dismissed' = AllowNewer(asks[k].latest)
    /\ asks' = [asks EXCEPT ![k] = NoAsk]
    /\ UNCHANGED <<serverVars, marker, applyState, target, landed, hushed, clicks,
                   owed, orderly>>

\* onCheck, one at a time; its event fetches the status again.
Check ==
    /\ InTurn /\ \A k \in AskIds : asks[k].what # "check"
    /\ \E k \in AskIds : IsFree(k, asks) /\ asks' = [asks EXCEPT ![k] = Status("check")]
    /\ UNCHANGED <<serverVars, offer, tabVars, orderly>>

CheckAnswered(k) ==
    /\ asks[k].what = "check" /\ asks[k].st = "answer"
    /\ asks' = [asks EXCEPT ![k] = Status("get")]
    /\ UNCHANGED <<serverVars, offer, tabVars, orderly>>

\* A request or its answer is lost; the handler goes on.  So does one of a page
\* that is gone, for nobody.
AskLost(k) ==
    /\ asks[k].what \in {"get", "check", "gone"}
    /\ asks' = [asks EXCEPT ![k] = IF @.st = "answer" THEN NoAsk ELSE [@ EXCEPT !.what = "gone"]]
    /\ asks' # asks
    /\ UNCHANGED <<serverVars, offer, tabVars, orderly>>

\* has_update, and the banner is shown.
Offered == offer.latest > offer.current /\ dismissed # offer.latest

DismissOffer ==
    /\ Offered /\ dismissed' = offer.latest /\ hushed' = hushed \cup {offer.latest}
    /\ UNCHANGED <<serverVars, asks, offer, marker, applyState, target, landed, clicks,
                   owed, orderly>>

\* onApply, up to its request.
Apply ==
    /\ Offered /\ applyState \in {"idle", "failed"} /\ clicks < MaxClicks
    /\ applyState' = "applying" /\ marker' = offer.current /\ target' = offer.latest
    /\ clicks' = clicks + 1 /\ owed' = owed + 1
    /\ UNCHANGED <<serverVars, asks, offer, dismissed, landed, hushed, orderly>>

\* handleApplyUpdate answers at once and fires; Fire reaches the orchestrator or not.
Applied ==
    /\ applyState = "applying" /\ applyState' = "waiting"
    /\ Fire
    /\ UNCHANGED <<released, version, cached, fresh, since, asks, offer, dismissed, marker, target,
                   landed, hushed, clicks, owed, orderly>>

\* The catch of onApply: the request was lost, or its answer.
\* Faulty variant: it leaves the marker.
ApplyFailedMarked ==
    /\ applyState = "applying" /\ applyState' = "failed"
    /\ target' = 0 /\ owed' = owed - 1
    /\ Fire
    /\ UNCHANGED <<released, version, cached, fresh, since, asks, offer, dismissed, marker, landed,
                   hushed, clicks, orderly>>

ApplyFailed ==
    /\ applyState = "applying" /\ applyState' = "failed"
    /\ marker' = 0 /\ target' = 0 /\ owed' = owed - 1
    /\ Fire
    /\ UNCHANGED <<released, version, cached, fresh, since, asks, offer, dismissed, landed, hushed,
                   clicks, orderly>>

\* The polling tick: the release that was asked for runs, or five minutes are over.
Poll == applyState = "waiting" /\ version = target /\ LoadPage /\ pulling' = pulling

GiveUp ==
    /\ applyState = "waiting" /\ applyState' = "failed" /\ target' = 0
    /\ UNCHANGED <<serverVars, asks, offer, dismissed, marker, landed, hushed,
                   clicks, owed, orderly>>

\* The page's check of its marker, which it clears: another version than the
\* marker's is a success and shown.  A check that fails leaves the marker.
Landed ==
    /\ landed # 0 /\ landed' = 0 /\ marker' = 0
    /\ owed' = IF version # landed THEN owed - 1 ELSE owed
    /\ UNCHANGED <<serverVars, asks, offer, dismissed, applyState, target, hushed, clicks, orderly>>

LandedFails ==
    /\ landed # 0 /\ landed' = 0
    /\ UNCHANGED <<serverVars, asks, offer, dismissed, marker, applyState, target, hushed,
                   clicks, owed, orderly>>

UpdatesNext ==
    \/ Hour \/ Release \/ Tick \/ Replace \/ PullFails
    \/ \E k \in AskIds :
        Fetched(k) \/ Cache(k) \/ Decide(k) \/ AutoFire(k) \/ GetAnswered(k) \/ CheckAnswered(k) \/ AskLost(k)
    \/ Reload \/ Check \/ DismissOffer \/ Apply \/ Applied \/ ApplyFailed \/ Poll \/ GiveUp
    \/ Landed \/ LandedFails

UpdatesSpec == UpdatesInit /\ [][UpdatesNext]_updatesVars

(***************************************************************************)
(* Properties.                                                             *)
(***************************************************************************)
AskType == [what : {"none", "get", "check", "auto", "gone"},
            st : {"none", "fetch", "fetched", "answer", "fire"},
            latest : 0..released, current : 0..released]

\* Every variable has its type; what runs and what is cached was released.
UpdatesTypeOK ==
    /\ released \in Versions /\ version \in 1..released /\ cached \in 0..released
    /\ fresh \in BOOLEAN /\ since \in 0..Spacing /\ pulling \in BOOLEAN
    /\ asks \in [AskIds -> AskType]
    /\ offer \in [current : 0..released, latest : 0..released]
    /\ {dismissed, marker, target, landed} \subseteq 0..released
    /\ applyState \in {"idle", "applying", "waiting", "failed"}
    /\ hushed \subseteq Versions /\ clicks \in 0..MaxClicks /\ orderly \in BOOLEAN

\* A release that was dismissed is not offered again, over reloads, restarts of
\* the server, failed fetches and newer releases, as long as one call of the
\* checker ends before the next: of two at once the older answer can be cached
\* or shown last, and allows the banner for the one that was dismissed.
CalmDismissed == orderly /\ Offered => offer.latest \notin hushed

\* "show a one-shot success toast": no click on the update button is reported as
\* a success twice, or after it was reported as failed at once, whatever the
\* order in which pages, answers and replaced processes come.
SuccessOnce == owed >= 0
=============================================================================
