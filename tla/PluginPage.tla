----------------------------- MODULE PluginPage -----------------------------
(***************************************************************************)
(* The CPA plugin and its management page: the plugin's configuration, the *)
(* wrapper page that plugin.go serves (the shell), and the application it  *)
(* frames (the child, ui/app.js).                                          *)
(*                                                                         *)
(* The shell tries a list of candidate addresses in turn.  It and the      *)
(* child are separate windows: they run concurrently, exchange messages    *)
(* through queues, and a message of a child that has been navigated away   *)
(* may still arrive.  Either has a timer that races those messages.        *)
(*                                                                         *)
(* Abstractions.  An address is its origin and what its path is.  The      *)
(* nonce is fixed for a shell, so every message of its frames carries it.  *)
(* Themes are left out, and so are the key kept in sessionStorage, which   *)
(* only fills in the password field, and the batch import form.            *)
(***************************************************************************)
EXTENDS Naturals, Sequences, SequencesExt

CONSTANTS
    Configs,      \* the configurations an operator may give the plugin
    Hosts,        \* what CPA may be run with
    Keys,         \* management keys
    Accepted,     \* the one that is right
    None,         \* no key, no address
    Invalid,      \* a configured address that normalisation refuses
    MaxCalls,     \* bound: calls of the child, and keys posted to it, under way
    MaxMessages   \* bound: messages the shell has not yet heard

\* CPA's own origin as the browser sees it, the loopback listener under its
\* three names, a remote host by TLS and without, a container's service name.
Loopback == {"127.0.0.1", "localhost", "[::1]"}
Origins == Loopback \cup {"cpa", "https", "http", "service"}

\* A relative address has CPA's origin; "none" is an empty path or "/".
Paths == {"default", "other", "none"}
URL == {u \in [abs : BOOLEAN, origin : Origins, path : Paths] : ~u.abs => u.origin = "cpa"}
defaultSidecarURL == [abs |-> FALSE, origin |-> "cpa", path |-> "default"]

ASSUME ConfigsAssumption ==
    Configs \subseteq [url : URL \cup {None, Invalid}, api : Origins \cup {None, Invalid}]
\* CPA is at a loopback address or not, its environment names a sidecar or not,
\* and some origins serve the sidecar's own dashboard.
ASSUME HostsAssumption ==
    Hosts \subseteq [local : BOOLEAN, runtime : {None, "service"}, dashboards : SUBSET Origins]
ASSUME KeysAssumption == Accepted \in Keys
ASSUME NoneAssumption ==
    None \notin Keys \cup Origins \cup URL \cup {Invalid} /\ Invalid \notin Origins \cup URL
ASSUME BoundAssumption == MaxCalls \in Nat \ {0} /\ MaxMessages \in Nat \ {0}

VARIABLES
    host,         \* where CPA runs
    state,        \* the plugin's runtimeState
    shell,        \* the wrapper page
    frame,        \* its iframe: the document in it, a navigation under way, a
                  \* load event to come
    child,        \* the application in that document
    calls,        \* its API calls under way
    toShell,      \* messages posted to the shell
    toChild,      \* management keys posted to the child
    stored        \* the management key in CPA's localStorage

vars == <<host, state, shell, frame, child, calls, toShell, toChild, stored>>
-----------------------------------------------------------------------------
(* The plugin's configuration                                              *)

IsLoopback(origin) == origin \in Loopback \/ (origin = "cpa" /\ host.local)
PlainHTTP(origin) == origin # "https" /\ (origin = "cpa" => host.local)

normalizeSidecarURL(raw) ==
    CASE raw = None -> defaultSidecarURL
      [] raw = Invalid -> Invalid
      [] OTHER -> IF raw.path = "none" THEN [raw EXCEPT !.path = "default"] ELSE raw

\* Without configuration the environment decides, if it says anything.
applyConfig(cfg) ==
    LET url == normalizeSidecarURL(cfg.url) IN
    IF Invalid \in {url, cfg.api}
    THEN [error |-> TRUE, url |-> None, api |-> None, source |-> "none"]
    ELSE [error |-> FALSE, url |-> url,
          api |-> IF cfg.api # None THEN cfg.api ELSE host.runtime,
          source |-> IF cfg.api # None THEN "config"
                     ELSE IF host.runtime # None THEN "runtime" ELSE "none"]

validateTrustedSidecarAPIURL(origin, source) ==
    IF PlainHTTP(origin) /\ source # "runtime" /\ ~IsLoopback(origin) THEN None ELSE origin

\* Mutant: only the addresses of the listener itself, not the default path.
localSidecarFallbackOnlyAbsolute(url) ==
    url # None /\ url.abs /\ url.origin \in Loopback /\ url.path = "default"

\* A rejected configuration has no address, which counts as the default one.
localSidecarFallbackEnabled(url) ==
    \/ url = None
    \/ url.path = "default" /\ (url.abs => url.origin \in Loopback)

\* The sidecar that calls are forwarded to, or None: the call is answered 503.
sidecarManagementAPIURL(s) ==
    IF s.api # None THEN validateTrustedSidecarAPIURL(s.api, s.source)
    ELSE IF s.url # None /\ s.url.abs THEN validateTrustedSidecarAPIURL(s.url.origin, "sidecar_url")
    ELSE IF host.runtime # None THEN validateTrustedSidecarAPIURL(host.runtime, "runtime")
    ELSE IF localSidecarFallbackEnabled(s.url) THEN "127.0.0.1" ELSE None

\* The frame-src of the page's Content-Security-Policy.
managementFrameSourcesForState(s) ==
    {"cpa", s.url.origin} \cup
    (IF localSidecarFallbackEnabled(s.url) THEN {"127.0.0.1", "localhost"} ELSE {})

Reconfigure(cfg) ==
    /\ state' = applyConfig(cfg)
    /\ UNCHANGED <<host, shell, frame, child, calls, toShell, toChild, stored>>
-----------------------------------------------------------------------------
(* The shell                                                               *)

Candidate(origin, path) == [origin |-> origin, path |-> path]
Candidates == [origin : Origins, path : Paths \cup {"hosted"}]

\* The plugin's own copy of the application first, then the reverse proxy's
\* path, the listener if the page itself is local, and what was configured,
\* unless it is there already.
candidateURLs(url) ==
    LET configured == Candidate(url.origin, url.path)
        isLegacyLocal == url.origin \in {"127.0.0.1", "localhost"} /\ url.path = "default"
        canUseLocalFallback == configured = Candidate("cpa", "default") \/ isLegacyLocal
        sameOrigin == IF canUseLocalFallback THEN <<Candidate("cpa", "default")>> ELSE <<>>
        loopback == IF canUseLocalFallback /\ host.local
                    THEN <<Candidate("127.0.0.1", "default"), Candidate("localhost", "default")>>
                    ELSE <<>>
        others == sameOrigin \o loopback
    IN  <<Candidate("cpa", "hosted")>> \o
        (IF Contains(others, configured) THEN others ELSE Append(others, configured))

Current == shell.candidates[shell.index]
Document == shell.candidates[frame.doc]

\* setFrameSource and start: the navigation begins, the old document lives on.
Connecting(index) ==
    /\ shell' = [shell EXCEPT !.status = "connecting", !.index = index, !.timer = TRUE]
    /\ frame' = [frame EXCEPT !.loading = TRUE, !.event = FALSE]

Closed == [status |-> "closed", candidates |-> <<>>, sources |-> {}, index |-> 0, timer |-> FALSE]
Empty == [doc |-> 0, loading |-> FALSE, event |-> FALSE]
NoChild == [hosted |-> FALSE, pill |-> "connecting", timer |-> FALSE, manual |-> FALSE,
            key |-> None, attempted |-> None, asked |-> FALSE, busy |-> FALSE]

\* The page is opened, or reloaded after a configuration error.
Open ==
    /\ shell.status \in {"closed", "error"}
    /\ IF state.error
       THEN shell' = [Closed EXCEPT !.status = "error"] /\ UNCHANGED frame
       ELSE /\ shell' = [status |-> "connecting", candidates |-> candidateURLs(state.url),
                         sources |-> managementFrameSourcesForState(state),
                         index |-> 1, timer |-> TRUE]
            /\ frame' = [Empty EXCEPT !.loading = TRUE]
    /\ UNCHANGED <<host, state, child, calls, toShell, toChild, stored>>

\* The key goes to the window the frame has now, if that is of the origin the
\* shell expects there.
postManagementKey(sent) ==
    toChild' = IF stored' # None /\ frame'.doc # 0 /\ shell'.candidates[frame'.doc].origin
                                                     = shell'.candidates[shell'.index].origin
               THEN Append(sent, stored') ELSE sent

\* Mutant: the next candidate is shown without a timer.
tryNextCandidateUntimed(armed) ==
    IF shell.index < Len(shell.candidates)
    THEN /\ shell' = [shell EXCEPT !.status = "connecting", !.index = @ + 1, !.timer = FALSE]
         /\ frame' = [frame EXCEPT !.loading = TRUE, !.event = FALSE]
    ELSE shell' = [shell EXCEPT !.status = "failed", !.timer = armed] /\ UNCHANGED frame

tryNextCandidate(armed) ==
    IF shell.index < Len(shell.candidates)
    THEN Connecting(shell.index + 1)
    ELSE shell' = [shell EXCEPT !.status = "failed", !.timer = armed] /\ UNCHANGED frame

\* Five seconds without an announcement.
ShellTimer ==
    /\ shell.timer
    /\ tryNextCandidate(FALSE)
    /\ UNCHANGED <<host, state, child, calls, toShell, toChild, stored>>

ready ==
    /\ shell' = [shell EXCEPT !.status = "ready", !.timer = FALSE]
    /\ UNCHANGED <<frame, stored>>
    /\ postManagementKey(toChild)

\* Mutant: a frame that has announced itself is not given up.
ShellMessageWhileConnecting ==
    /\ toShell # <<>>
    /\ toShell' = Tail(toShell)
    /\ IF Head(toShell).origin # Current.origin THEN UNCHANGED <<shell, frame, toChild, stored>>
       ELSE IF Head(toShell).type = "ready" THEN ready
       ELSE IF shell.status = "connecting"
            THEN tryNextCandidate(shell.timer) /\ UNCHANGED <<toChild, stored>>
            ELSE UNCHANGED <<shell, frame, toChild, stored>>
    /\ UNCHANGED <<host, state, child, calls>>

\* The message listener: the sender's origin has to be the current one.
ShellMessage ==
    /\ toShell # <<>>
    /\ toShell' = Tail(toShell)
    /\ IF Head(toShell).origin # Current.origin THEN UNCHANGED <<shell, frame, toChild, stored>>
       ELSE IF Head(toShell).type = "ready" THEN ready
       ELSE tryNextCandidate(shell.timer) /\ UNCHANGED <<toChild, stored>>
    /\ UNCHANGED <<host, state, child, calls>>

\* The button of the failure notice.
Retry ==
    /\ shell.status = "failed"
    /\ Connecting(1)
    /\ UNCHANGED <<host, state, child, calls, toShell, toChild, stored>>

\* CPA's login or logout changes the key; the shell hears of it by a storage event.
StoreKey(k) ==
    /\ k # stored /\ Len(toChild) < MaxCalls
    /\ stored' = k
    /\ UNCHANGED <<shell, frame>>
    /\ IF shell.candidates = <<>> THEN UNCHANGED toChild ELSE postManagementKey(toChild)
    /\ UNCHANGED <<host, state, child, calls, toShell>>
-----------------------------------------------------------------------------
(* The frame                                                               *)

\* The plugin serves its copy; a dashboard may be missing or forbidden.
Served(c) == c.path = "hosted" \/ (c.origin \in host.dashboards /\ c.origin \in shell.sources)

\* A navigation ends: the old document and what it waits for are gone, and the
\* application, if it is there, starts and announces itself.
Navigate ==
    /\ frame.loading /\ Len(toShell) < MaxMessages
    /\ calls' = <<>> /\ toChild' = <<>>
    /\ IF Served(Current)
       THEN /\ frame' = [doc |-> shell.index, loading |-> FALSE, event |-> TRUE]
            /\ child' = [NoChild EXCEPT !.hosted = (Current.path = "hosted"), !.timer = TRUE]
            /\ toShell' = Append(toShell, [type |-> "ready", origin |-> Current.origin])
       ELSE frame' = [doc |-> 0, loading |-> FALSE, event |-> TRUE]
            /\ child' = NoChild /\ UNCHANGED toShell
    /\ UNCHANGED <<host, state, shell, stored>>

\* The frame's load event.
Loaded ==
    /\ frame.event
    /\ frame' = [frame EXCEPT !.event = FALSE]
    /\ UNCHANGED <<shell, stored>>
    /\ postManagementKey(toChild)
    /\ UNCHANGED <<host, state, child, calls, toShell>>
-----------------------------------------------------------------------------
(* The child                                                               *)

\* The sidecar's own pages reach it, the plugin's copy only if there is a target.
Routed == child.hosted => sidecarManagementAPIURL(state) # None

refresh(c, key, bridged) ==
    /\ child' = [c EXCEPT !.key = key, !.busy = TRUE]
    /\ calls' = Append(calls, [key |-> key, bridged |-> bridged, routed |-> Routed])

\* Mutant: a key that comes after the timer is ignored.
ChildMessageInTime ==
    /\ toChild # <<>> /\ Len(calls) < MaxCalls
    /\ toChild' = Tail(toChild)
    /\ LET key == Head(toChild) IN
       IF key = child.attempted \/ child.manual THEN UNCHANGED <<child, calls>>
       ELSE refresh([child EXCEPT !.attempted = key, !.timer = FALSE, !.pill = "connecting"],
                    key, TRUE)
    /\ UNCHANGED <<host, state, shell, frame, toShell, stored>>

\* The key bridge: a key is tried once.
ChildMessage ==
    /\ toChild # <<>> /\ Len(calls) < MaxCalls
    /\ toChild' = Tail(toChild)
    /\ LET key == Head(toChild) IN
       IF key = child.attempted THEN UNCHANGED <<child, calls>>
       ELSE refresh([child EXCEPT !.attempted = key, !.timer = FALSE, !.manual = FALSE,
                                  !.pill = "connecting"], key, TRUE)
    /\ UNCHANGED <<host, state, shell, frame, toShell, stored>>

showManualConnection(c, pill) == [c EXCEPT !.timer = FALSE, !.manual = TRUE, !.pill = pill]

\* Three seconds without a key.
ChildTimer ==
    /\ child.timer
    /\ child' = showManualConnection(child, "error")
    /\ UNCHANGED <<host, state, shell, frame, calls, toShell, toChild, stored>>

\* The password form, where it is shown, or the refresh button.  Without a key
\* no call is made.
Refresh(key) ==
    /\ frame.doc # 0 /\ ~child.busy /\ Len(calls) < MaxCalls
    /\ child.manual \/ key = child.key
    /\ IF key = None THEN child' = [child EXCEPT !.key = None, !.pill = "error"] /\ UNCHANGED calls
       ELSE refresh(child, key, FALSE)
    /\ UNCHANGED <<host, state, shell, frame, toShell, toChild, stored>>

\* forwardSidecarUIAPI for the plugin's copy, the sidecar itself for the others:
\* what a call may be answered.  A 404 counts as a 5xx.  The plugin reads its
\* state at some moment between the call and the answer.
Answers(call) ==
    {"network", "5xx"} \cup
    (IF call.key # Accepted THEN {"401"} ELSE IF call.routed \/ Routed THEN {"ok"} ELSE {})

\* Mutant: an error that calls for no action leaves the page as it is.
FinishUnlessOther(call, status) ==
    IF status = "ok" THEN [child EXCEPT !.pill = "ok", !.manual = FALSE, !.timer = FALSE]
    ELSE IF child.hosted /\ status = "5xx" THEN [child EXCEPT !.pill = "error", !.asked = TRUE]
    ELSE IF call.bridged /\ status = "401" THEN showManualConnection(child, "error")
    ELSE child

Finish(call, status) ==
    IF status = "ok" THEN [child EXCEPT !.pill = "ok", !.manual = FALSE, !.timer = FALSE]
    ELSE IF child.hosted /\ status = "5xx" THEN [child EXCEPT !.pill = "error", !.asked = TRUE]
    ELSE IF call.bridged /\ status = "401" THEN showManualConnection(child, "error")
    ELSE [child EXCEPT !.pill = "error"]

\* A call ends, in any order; the plugin's copy asks once to be replaced.
Answer(i, status) ==
    /\ calls' = RemoveAt(calls, i)
    /\ child' = [Finish(calls[i], status) EXCEPT !.busy = FALSE]
    /\ toShell' = IF child'.asked /\ ~child.asked
                  THEN Append(toShell, [type |-> "unavailable", origin |-> Document.origin])
                  ELSE toShell
    /\ UNCHANGED <<host, state, shell, frame, toChild, stored>>

\* The button that forgets the key.
Forget ==
    /\ frame.doc # 0 /\ ~child.busy
    /\ child' = showManualConnection([child EXCEPT !.key = None, !.attempted = None], "waiting")
    /\ UNCHANGED <<host, state, shell, frame, calls, toShell, toChild, stored>>
-----------------------------------------------------------------------------
Init ==
    /\ host \in Hosts
    /\ \E cfg \in Configs : state = applyConfig(cfg)
    /\ shell = Closed
    /\ frame = Empty
    /\ child = NoChild
    /\ calls = <<>>
    /\ toShell = <<>>
    /\ toChild = <<>>
    /\ stored \in Keys \cup {None}

AnyAnswer == \E i \in 1..Len(calls) : \E status \in Answers(calls[i]) : Answer(i, status)

Next ==
    \/ \E cfg \in Configs : Reconfigure(cfg)
    \/ Open \/ ShellTimer \/ ShellMessage \/ Retry
    \/ \E k \in Keys \cup {None} : StoreKey(k) \/ Refresh(k)
    \/ Navigate \/ Loaded
    \/ ChildMessage \/ ChildTimer \/ AnyAnswer \/ Forget

Spec == Init /\ [][Next]_vars

\* Timers fire, event loops run and calls end: the plugin's client has a timeout
\* of a minute.  That a candidate's page ever loads is not assumed.  The child
\* hears a message even if its user refreshes again and again: the event loop
\* takes what is queued in turn, and only the bound on calls makes it wait here.
FairSpec ==
    /\ Spec
    /\ WF_vars(ShellTimer) /\ WF_vars(ShellMessage) /\ WF_vars(Loaded)
    /\ SF_vars(ChildMessage) /\ WF_vars(ChildTimer) /\ WF_vars(AnyAnswer)
-----------------------------------------------------------------------------
(* Properties                                                              *)

State == [error : BOOLEAN, url : URL \cup {None}, api : Origins \cup {None},
          source : {"none", "config", "runtime"}]
Shell == [status : {"closed", "error", "connecting", "ready", "failed"},
          candidates : Seq(Candidates), sources : SUBSET Origins, index : Nat, timer : BOOLEAN]
Child == [hosted : BOOLEAN, pill : {"connecting", "waiting", "ok", "error"}, timer : BOOLEAN,
          manual : BOOLEAN, key : Keys \cup {None}, attempted : Keys \cup {None},
          asked : BOOLEAN, busy : BOOLEAN]

\* Every variable stays within its type; in particular the shell never points past
\* its candidates, however timers and late messages advance it.
TypeOK ==
    /\ host \in Hosts /\ state \in State /\ child \in Child
    /\ shell \in Shell /\ shell.index <= Len(shell.candidates)
    /\ frame \in [doc : Nat, loading : BOOLEAN, event : BOOLEAN] /\ frame.doc <= Len(shell.candidates)
    /\ calls \in Seq([key : Keys, bridged : BOOLEAN, routed : BOOLEAN])
    /\ toShell \in Seq([type : {"ready", "unavailable"}, origin : Origins])
    /\ toChild \in Seq(Keys) /\ stored \in Keys \cup {None}

\* Go writes the policy and JavaScript the list, but whatever the page may frame
\* is allowed by the policy it is sent with.  One configuration is let out: where
\* CPA's own absolute address is given, a local page adds the listener and the
\* policy does not; those candidates cost a timeout each.
CandidatesFramable ==
    ~state.error /\ (state.url.abs => state.url.origin # "cpa") =>
      \A c \in ToSet(candidateURLs(state.url)) : c.origin \in managementFrameSourcesForState(state)

\* Management keys go over plain HTTP to the machine itself or to the service
\* that CPA's own environment names, whatever configuration came last and however
\* the address was derived; and a sidecar_api_url in force is never replaced.
TrustedTarget ==
    LET target == sidecarManagementAPIURL(state) IN
    /\ target # None /\ PlainHTTP(target) => IsLoopback(target) \/ target = host.runtime
    /\ state.source = "config" => target \in {None, state.api}

\* However timers, messages and navigations race, the shell never shows
\* "connecting" for ever: some candidate gets ready or the failure is shown.
EventuallySettled ==
    shell.status = "connecting" ~> shell.status \in {"ready", "failed"}

\* A copy of the application that could not reach the sidecar through the plugin
\* does not stay: the shell moves on to another candidate or reports failure.
EventuallyReplaced ==
    (frame.doc # 0 /\ child.asked) ~> (frame.loading \/ shell.status = "failed" \/ ~child.asked)

\* The application never shows "connecting" for ever: it is connected, says what
\* failed, or asks for the password, whichever of key, timer and answer is first,
\* unless the shell replaces it.
ChildSettles ==
    (frame.doc # 0 /\ child.pill = "connecting") ~> (frame.loading \/ child.pill # "connecting")

\* The key that CPA holds when the application has loaded is tried by it, whichever
\* of the load event, the announcement, the child's timer and the user is first,
\* unless the key changes or the shell moves on.
KeyReachesChild ==
    \A k \in Keys :
      (frame.event /\ frame.doc # 0 /\ stored = k) ~> (child.attempted = k \/ stored # k \/ frame.loading)
=============================================================================
