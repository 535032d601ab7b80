----------------------------- MODULE ProxyReload -----------------------------
(***************************************************************************)
(* The outbound transport that follows CPA's proxy setting:                *)
(* proxyConfigSource and hotReloadTransport of cmd/sidecar/proxy.go.       *)
(*                                                                         *)
(* Requests and the background watcher check the setting under             *)
(* hotReloadTransport.refreshMu; a check reads it unless one is not due    *)
(* yet.  A request makes the next check due before it takes the mutex,     *)
(* and looks at the route after it has released it.                        *)
(*                                                                         *)
(* Abstractions.  The authoritative setting is one value with a version:   *)
(* CPA's proxy-url, or, when that is empty or CPA is not configured, the   *)
(* environment's.  nextCheck is the number of ticks left until a check is  *)
(* due.  Sections that run under source.mu alone are merged with their     *)
(* neighbours where no other process can tell.                             *)
(***************************************************************************)
EXTENDS Naturals, FiniteSets, FiniteSetsExt

CONSTANTS
    Requests,
    watcher,      \* main's first refresh, then the Watch goroutine
    None,         \* nobody, or no error
    AuthFailure,  \* CPA refuses the management key
    OtherFailure, \* any other way reading the setting fails
    Proxies,      \* values of the setting ...
    Invalid,      \* ... among them those outboundTransport refuses
    Bootstrap,    \* the value at start
    FromCPA,      \* CPA_MANAGEMENT_URL is set
    MaxVersion,   \* bound: edits of the setting
    pollInterval, authInterval, maxInterval,   \* in ticks
    maxRoutes     \* per-credential transports kept

Failures == {AuthFailure, OtherFailure}

ASSUME RequestsAssumption == watcher \notin Requests /\ None \notin Requests /\ None # watcher
ASSUME ProxiesAssumption ==
    Invalid \subseteq Proxies /\ Bootstrap \in Proxies \ Invalid /\ None \notin Proxies
ASSUME FromCPAAssumption == FromCPA \in BOOLEAN
ASSUME IntervalsAssumption ==
    /\ pollInterval \in Nat \ {0} /\ authInterval \in Nat \ {0} /\ maxInterval \in Nat
    /\ pollInterval <= maxInterval /\ authInterval <= maxInterval
ASSUME BoundsAssumption == MaxVersion \in Nat \ {0} /\ maxRoutes \in Nat \ {0}

Processes == Requests \cup {watcher}
Setting == [version : 0..MaxVersion, raw : Proxies]

ASSUME FailuresAssumption ==
    /\ AuthFailure # OtherFailure /\ None \notin Failures
    /\ \A f \in Failures \cup {None} : f \notin Setting

VARIABLES
    setting,     \* the authoritative setting
    outage,      \* None, or how reading it fails
    source,      \* proxyConfigSource: effective, lastError, nextCheck, failureDelay
    current,     \* the setting the installed transport was built from or last confirmed by
    routeReady,
    routes,      \* per-credential transports
    pc,          \* each process's place in RoundTrip or Watch
    hand,        \* what the process in fetchCPAProxy has read, or how it failed
    serving,     \* main's first refresh has returned
    route,       \* what each request was sent over, or None
    floor,       \* history: the version each request found on arrival, or that
                 \* of a check then in flight, which is older
    quiet        \* history: ticks since the last failed check

vars == <<setting, outage, source, current, routeReady, routes, pc, hand, serving,
          route, floor, quiet>>

sourceVars == <<source, hand, quiet>>
routeVars == <<current, routeReady>>

Places == {"idle", "lock", "fetch", "fetched", "go", "load", "sent", "refused"}

Start == [version |-> 0, raw |-> Bootstrap]

Init ==
    /\ setting \in [version : {1}, raw : Proxies]
    /\ outage \in IF FromCPA THEN {None} \cup Failures ELSE {None, OtherFailure}
    /\ source = [effective |-> Start, lastError |-> None, nextCheck |-> 0, failureDelay |-> 0]
    /\ current = Start
    /\ routeReady = ~FromCPA
    /\ routes = {}
    /\ pc = [p \in Processes |-> IF p = watcher THEN "lock" ELSE "idle"]
    /\ hand = None
    /\ serving = FALSE
    /\ route = [r \in Requests |-> None]
    /\ floor = [r \in Requests |-> 0]
    /\ quiet = 0

Goto(p, place) == pc' = [pc EXCEPT ![p] = place]

\* refreshMu is held by the process that reads the setting.
Free == \A p \in Processes : pc[p] \notin {"fetch", "fetched"}

-----------------------------------------------------------------------------
(* proxyConfigSource                                                       *)

baseDelay(kind) == IF kind = AuthFailure THEN Max({pollInterval, authInterval}) ELSE pollInterval

\* The delay of rescheduleFailure.
nextFailureDelay(kind) == Min({maxInterval, Max({baseDelay(kind), 2 * source.failureDelay})})

rescheduleFailure(kind) ==
    source' = [source EXCEPT !.lastError = kind, !.failureDelay = nextFailureDelay(kind),
                             !.nextCheck = nextFailureDelay(kind)]

\* markSuccess and updateEffective.
markSuccess(s) ==
    source' = [effective |-> s, lastError |-> None, nextCheck |-> pollInterval, failureDelay |-> 0]

-----------------------------------------------------------------------------
(* hotReloadTransport.refresh, with the mutex released at its end          *)

\* A transport can be built for the proxy.
outboundTransport(raw) == raw \notin Invalid

\* How process p goes on when refresh returns.
Return(p, ok) ==
    Goto(p, IF p = watcher THEN "idle" ELSE IF ok THEN "go" ELSE "refused")

\* Mutant: the new transport is not validated.
ApplyUnvalidated(p, s) ==
    IF s # None
    THEN current' = s /\ routeReady' = TRUE /\ Return(p, TRUE)
    ELSE UNCHANGED current /\ routeReady' = FALSE /\ Return(p, FALSE)

\* Mutant: the route becomes ready again only when it changes.
ApplyReadyOnChange(p, s) ==
    IF s # None /\ s.raw \notin Invalid
    THEN current' = s /\ routeReady' = (routeReady \/ s.raw # current.raw) /\ Return(p, TRUE)
    ELSE UNCHANGED current /\ routeReady' = FALSE /\ Return(p, FALSE)

\* The source has returned setting s, or an error (s = None).
Apply(p, s) ==
    IF s # None /\ outboundTransport(s.raw)
    THEN current' = s /\ routeReady' = TRUE /\ Return(p, TRUE)
    ELSE UNCHANGED current /\ routeReady' = FALSE /\ Return(p, FALSE)

\* proxyConfigSource.current: no check is due.
Cached(p) ==
    /\ pc[p] = "lock" /\ Free
    /\ source.nextCheck > 0
    /\ Apply(p, IF source.lastError = None THEN source.effective ELSE None)
    /\ serving' = TRUE
    /\ UNCHANGED <<setting, outage, sourceVars, routes, route, floor>>

\* proxyConfigSource.current: a check is due, and the next one is put off.
Check(p) ==
    /\ pc[p] = "lock" /\ Free
    /\ source.nextCheck = 0
    /\ source' = [source EXCEPT !.nextCheck = pollInterval]
    /\ Goto(p, "fetch")
    /\ UNCHANGED <<setting, outage, hand, quiet, routeVars, routes, serving, route, floor>>

\* fetchCPAProxy, or the environment is read.  A request's own cancellation ends
\* it too.
fetchCPAProxy(p) ==
    /\ pc[p] = "fetch"
    /\ \/ outage = None /\ hand' = setting
       \/ outage # None /\ hand' = outage
       \/ p # watcher /\ hand' = OtherFailure
    /\ Goto(p, "fetched")
    /\ UNCHANGED <<setting, outage, source, quiet, routeVars, routes, serving, route, floor>>

\* Mutant: the mutex is not released after a failure.
FinishHoldingMutex(p) ==
    /\ pc[p] = "fetched"
    /\ hand \notin Failures
    /\ markSuccess(hand) /\ UNCHANGED quiet /\ Apply(p, hand)
    /\ hand' = None
    /\ serving' = TRUE
    /\ UNCHANGED <<setting, outage, routes, route, floor>>

\* The answer is applied.
Finish(p) ==
    /\ pc[p] = "fetched"
    /\ IF hand \in Failures
       THEN rescheduleFailure(hand) /\ quiet' = 0 /\ Apply(p, None)
       ELSE markSuccess(hand) /\ UNCHANGED quiet /\ Apply(p, hand)
    /\ hand' = None
    /\ serving' = TRUE
    /\ UNCHANGED <<setting, outage, routes, route, floor>>

-----------------------------------------------------------------------------
(* RoundTrip and Watch                                                     *)

\* Mutant: a request relies on the background poll.
ForcedNever == source

\* Mutant: a request forces a check although the last one failed.
ForcedAlways == [source EXCEPT !.nextCheck = 0]

\* A request makes the next check due, unless the last one failed.
Forced == IF source.lastError = None THEN [source EXCEPT !.nextCheck = 0] ELSE source

Arrive(r) ==
    /\ serving /\ pc[r] = "idle"
    /\ source' = Forced
    /\ Goto(r, "lock")
    /\ floor' = [floor EXCEPT ![r] =
         IF hand \in Setting THEN hand.version ELSE setting.version]
    /\ UNCHANGED <<setting, outage, hand, quiet, routeVars, routes, serving, route>>

\* A request whose credential has a proxy of its own.
Route(r, raw) ==
    /\ serving /\ pc[r] = "idle"
    /\ IF raw \notin routes /\ ~outboundTransport(raw)
       THEN Goto(r, "refused") /\ UNCHANGED <<routes, route>>
       ELSE /\ routes' = IF raw \in routes THEN routes
                         ELSE (IF Cardinality(routes) >= maxRoutes THEN {} ELSE routes) \cup {raw}
            /\ route' = [route EXCEPT ![r] = [version |-> setting.version, raw |-> raw]]
            /\ Goto(r, "sent")
    /\ UNCHANGED <<setting, outage, sourceVars, routeVars, serving, floor>>

\* After refresh: routeReady, then the transport.
Ready(r) ==
    /\ pc[r] = "go"
    /\ Goto(r, IF routeReady THEN "load" ELSE "refused")
    /\ UNCHANGED <<setting, outage, sourceVars, routeVars, routes, serving, route, floor>>

Send(r) ==
    /\ pc[r] = "load"
    /\ route' = [route EXCEPT ![r] = current]
    /\ Goto(r, "sent")
    /\ UNCHANGED <<setting, outage, sourceVars, routeVars, routes, serving, floor>>

\* A tick of Watch's ticker.
Poll ==
    /\ pc[watcher] = "idle"
    /\ Goto(watcher, "lock")
    /\ UNCHANGED <<setting, outage, sourceVars, routeVars, routes, serving, route, floor>>

-----------------------------------------------------------------------------
(* The environment: time, the CPA user, CPA's management API               *)

Tick ==
    /\ source.nextCheck > 0
    /\ source' = [source EXCEPT !.nextCheck = source.nextCheck - 1]
    /\ quiet' = Min({quiet + 1, maxInterval})
    /\ UNCHANGED <<setting, outage, hand, routeVars, routes, pc, serving, route, floor>>

Edit ==
    /\ setting.version < MaxVersion
    /\ \E raw \in Proxies \ {setting.raw} : setting' = [version |-> setting.version + 1, raw |-> raw]
    /\ UNCHANGED <<outage, sourceVars, routeVars, routes, pc, serving, route, floor>>

Outage ==
    /\ outage' \in (IF FromCPA THEN {None} \cup Failures ELSE {None, OtherFailure}) \ {outage}
    /\ UNCHANGED <<setting, sourceVars, routeVars, routes, pc, serving, route, floor>>

Step(p) == Cached(p) \/ Check(p) \/ fetchCPAProxy(p) \/ Finish(p)
Deliver(r) == Ready(r) \/ Send(r)

Next ==
    \/ \E p \in Processes : Step(p)
    \/ \E r \in Requests : Arrive(r) \/ Deliver(r) \/ \E raw \in Proxies : Route(r, raw)
    \/ Poll \/ Tick \/ Edit \/ Outage

Spec == Init /\ [][Next]_vars

\* refreshMu is starvation-free, fetches end by the client's timeout, time passes
\* and the ticker ticks.
Fairness ==
    /\ \A p \in Processes : SF_vars(Cached(p) \/ Check(p)) /\ WF_vars(fetchCPAProxy(p)) /\ WF_vars(Finish(p))
    /\ \A r \in Requests : WF_vars(Deliver(r))
    /\ WF_vars(Poll) /\ WF_vars(Tick)

FairSpec == Spec /\ Fairness

-----------------------------------------------------------------------------
(* Properties                                                              *)

\* Every variable stays within its type.
TypeOK ==
    /\ setting \in Setting
    /\ outage \in {None} \cup Failures
    /\ source \in [effective : Setting, lastError : {None} \cup Failures,
                   nextCheck : 0..maxInterval, failureDelay : 0..maxInterval]
    /\ current \in Setting /\ routeReady \in BOOLEAN
    /\ routes \subseteq Proxies \ Invalid /\ Cardinality(routes) <= maxRoutes
    /\ pc \in [Processes -> Places]
    /\ hand \in Setting \cup Failures \cup {None}
    /\ serving \in BOOLEAN
    /\ route \in [Requests -> Setting \cup {None}]
    /\ floor \in [Requests -> 0..MaxVersion]
    /\ quiet \in 0..maxInterval

\* A request checks the default route again before it is sent, and one that cannot
\* know the setting is blocked: it never leaves by a route older than the setting
\* it found on arrival or, if a check was in flight then, than what that check had
\* read (RoundTrip clears nextCheck, but markSuccess of that check sets it again).
NotOlderThanCheck ==
    \A r \in Requests : pc[r] = "sent" => route[r].version >= floor[r]

\* The route in use never goes back to an older setting, whichever of several
\* concurrent checks ends last, and is never built from an invalid one.
RouteAdvances ==
    [][current'.version >= current.version /\ current'.raw \notin Invalid]_vars

\* After a failed check nothing is read until the delay is over, however many
\* requests arrive: authInterval if CPA refused the key.
QuietAfterFailure ==
    [][\A p \in Processes : (pc[p] = "lock" /\ pc'[p] = "fetch") =>
         /\ source.lastError = AuthFailure => quiet >= authInterval
         /\ source.lastError = OtherFailure => quiet >= pollInterval]_vars

\* Consecutive failures never shorten the delay.
BackoffGrows ==
    [][(source'.lastError # None /\ source.lastError # None)
         => source'.failureDelay >= source.failureDelay]_vars

\* A request is answered: neither a slow check nor a failing one holds it for
\* ever.
EventuallyAnswered ==
    \A r \in Requests : (pc[r] = "lock") ~> (pc[r] \in {"sent", "refused"})

\* Once CPA answers and the setting stays valid, the route follows it, whatever
\* happened before: no backoff, stale error or invalid value sticks.
EventuallyCurrent ==
    <>[](outage = None /\ setting.raw \notin Invalid)
      => <>[](current = setting /\ routeReady)

\* A failed reading of the setting preserves the last usable route: once a check has
\* succeeded, a request that has not itself failed to read the setting is refused
\* only for a setting that is invalid.
OutagePreservesRoute ==
    [][\A r \in Requests : (pc[r] \in {"lock", "go"} /\ pc'[r] = "refused")
         => current = Start \/ ~outboundTransport(source'.effective.raw)]_vars
=============================================================================
