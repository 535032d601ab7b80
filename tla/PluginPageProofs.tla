-------------------------- MODULE PluginPageProofs --------------------------
(***************************************************************************)
(* Proofs about PluginPage for every set of configurations, hosts and keys *)
(* and every bound on calls and messages.  The types need that the shell   *)
(* points at a candidate while it is open and that calls and keys under    *)
(* way have a document (FrameInv).  TrustedTarget and CandidatesFramable   *)
(* need where the address in force came from (SourceInv).                  *)
(***************************************************************************)
EXTENDS PluginPage, TLAPS

Idle == {"closed", "error"}

FrameInv ==
    /\ shell.status \in Idle => frame.doc = 0 /\ ~frame.loading /\ ~shell.timer /\ toShell = <<>>
    /\ shell.status \notin Idle => shell.index # 0
    /\ frame.doc = 0 => calls = <<>> /\ toChild = <<>>

SourceInv ==
    /\ state.source = "runtime" => state.api = host.runtime
    /\ state.source = "none" => state.api = None
    /\ state.source = "config" => state.api # None
    /\ ~state.error => state.url \in URL

Inv == TypeOK /\ FrameInv /\ SourceInv
-----------------------------------------------------------------------------
(* The configuration                                                       *)

\* Whatever the operator writes, applyConfig leaves a state of the right type that
\* knows where its address came from.
LEMMA ConfigType ==
    ASSUME NEW cfg \in Configs, host \in Hosts
    PROVE  /\ applyConfig(cfg) \in State
           /\ applyConfig(cfg).source = "runtime" => applyConfig(cfg).api = host.runtime
           /\ applyConfig(cfg).source = "none" => applyConfig(cfg).api = None
           /\ applyConfig(cfg).source = "config" => applyConfig(cfg).api # None
           /\ ~applyConfig(cfg).error => applyConfig(cfg).url \in URL
<1>1. cfg.url \in URL \cup {None, Invalid} /\ cfg.api \in Origins \cup {None, Invalid}
  BY ConfigsAssumption
<1>2. host.runtime \in {None, "service"} /\ "service" \in Origins
  BY HostsAssumption DEF Origins
<1>3. normalizeSidecarURL(cfg.url) \in URL \cup {Invalid}
  <2>1. defaultSidecarURL \in URL
    BY DEF defaultSidecarURL, URL, Origins, Paths
  <2>2. ASSUME NEW u \in URL PROVE [u EXCEPT !.path = "default"] \in URL
    BY DEF URL, Paths
  <2> QED
    BY <1>1, <2>1, <2>2, NoneAssumption DEF normalizeSidecarURL
<1> DEFINE url == normalizeSidecarURL(cfg.url)
<1>4. CASE Invalid \in {url, cfg.api}
  <2>1. applyConfig(cfg) = [error |-> TRUE, url |-> None, api |-> None, source |-> "none"]
    BY <1>4 DEF applyConfig
  <2>2. PICK q : q = applyConfig(cfg)
    OBVIOUS
  <2>3. q.error = TRUE /\ q.url = None /\ q.api = None /\ q.source = "none"
    BY <2>1, <2>2
  <2>4. q \in State
    BY <2>1, <2>2 DEF State
  <2> QED
    BY <2>2, <2>3, <2>4
<1>5. CASE Invalid \notin {url, cfg.api}
  <2>1. applyConfig(cfg) = [error |-> FALSE, url |-> url,
          api |-> IF cfg.api # None THEN cfg.api ELSE host.runtime,
          source |-> IF cfg.api # None THEN "config"
                     ELSE IF host.runtime # None THEN "runtime" ELSE "none"]
    BY <1>5 DEF applyConfig
  <2>2. url \in URL
    BY <1>3, <1>5
  <2> HIDE DEF url
  <2>3. PICK q : q = applyConfig(cfg)
    OBVIOUS
  <2>4. /\ q.error = FALSE /\ q.url = url
        /\ q.api = IF cfg.api # None THEN cfg.api ELSE host.runtime
        /\ q.source = IF cfg.api # None THEN "config"
                      ELSE IF host.runtime # None THEN "runtime" ELSE "none"
    BY <2>1, <2>3
  <2>5. q.api \in Origins \cup {None}
    BY <1>1, <1>2, <1>5, <2>4
  <2>6. q.source \in {"none", "config", "runtime"}
    BY <2>4
  <2>7. q \in State
    BY <2>1, <2>2, <2>3, <2>4, <2>5, <2>6 DEF State
  <2>8. /\ q.source = "runtime" => q.api = host.runtime
        /\ q.source = "none" => q.api = None
        /\ q.source = "config" => q.api # None
    BY <2>4
  <2> QED
    BY <2>2, <2>3, <2>4, <2>7, <2>8
<1> QED
  BY <1>4, <1>5

\* The page's candidates are addresses, the first of them the plugin's copy.
LEMMA CandidatesType ==
    ASSUME NEW url \in URL
    PROVE  candidateURLs(url) \in Seq(Candidates) /\ Len(candidateURLs(url)) >= 1
<1>1. /\ Candidate("cpa", "hosted") \in Candidates /\ Candidate("cpa", "default") \in Candidates
      /\ Candidate("127.0.0.1", "default") \in Candidates
      /\ Candidate("localhost", "default") \in Candidates
      /\ Candidate(url.origin, url.path) \in Candidates
  BY DEF Candidate, Candidates, URL, Origins, Loopback, Paths
<1> QED
  BY <1>1 DEF candidateURLs

\* The page adds the reverse proxy's path and the listener only where the policy
\* counts the configured address as local: the two conditions, one in Go and one
\* in JavaScript, agree on every address that is not CPA's own, absolutely given.
LEMMA CandidatesAllowed ==
    ASSUME NEW s, s.url \in URL, s.url.abs => s.url.origin # "cpa",
           NEW c \in ToSet(candidateURLs(s.url))
    PROVE  c.origin \in managementFrameSourcesForState(s)
<1> DEFINE url == s.url
           configured == Candidate(url.origin, url.path)
           proxied == Candidate("cpa", "default")
           canUseLocalFallback ==
             configured = proxied \/ (url.origin \in {"127.0.0.1", "localhost"} /\ url.path = "default")
           sameOrigin == IF canUseLocalFallback THEN <<proxied>> ELSE <<>>
           loopback == IF canUseLocalFallback /\ host.local
                       THEN <<Candidate("127.0.0.1", "default"), Candidate("localhost", "default")>>
                       ELSE <<>>
           others == sameOrigin \o loopback
           rest == IF Contains(others, configured) THEN others ELSE Append(others, configured)
<1>1. PICK i \in DOMAIN candidateURLs(url) : c = candidateURLs(url)[i]
  BY Zenon DEF ToSet
<1>2. /\ configured.origin = url.origin /\ configured.path = url.path
      /\ proxied.origin = "cpa" /\ proxied.path = "default"
      /\ Candidate("cpa", "hosted").origin = "cpa"
      /\ Candidate("127.0.0.1", "default").origin = "127.0.0.1"
      /\ Candidate("localhost", "default").origin = "localhost"
  BY DEF Candidate
<1>3. canUseLocalFallback => localSidecarFallbackEnabled(url)
  BY <1>2 DEF localSidecarFallbackEnabled, Loopback
<1>4. candidateURLs(url) = <<Candidate("cpa", "hosted")>> \o rest
  BY Zenon DEF candidateURLs
<1>5. c \in {Candidate("cpa", "hosted"), configured} \/ (canUseLocalFallback /\
        c \in {proxied, Candidate("127.0.0.1", "default"), Candidate("localhost", "default")})
  <2> HIDE DEF configured, proxied, canUseLocalFallback
  <2>1. CASE canUseLocalFallback /\ host.local
    BY <1>1, <1>4, <2>1
  <2>2. CASE canUseLocalFallback /\ ~host.local
    BY <1>1, <1>4, <2>2
  <2>3. CASE ~canUseLocalFallback
    BY <1>1, <1>4, <2>3
  <2> QED
    BY <2>1, <2>2, <2>3
<1> QED
  BY <1>2, <1>3, <1>5 DEF managementFrameSourcesForState

\* A target that is reached over plain HTTP is this machine or the environment's.
LEMMA TargetTrusted ==
    ASSUME host \in Hosts, state \in State, SourceInv
    PROVE  TrustedTarget
<1>1. host.runtime \in {None, "service"}
  BY HostsAssumption
<1>2. ASSUME NEW origin, NEW source, validateTrustedSidecarAPIURL(origin, source) # None
      PROVE  /\ validateTrustedSidecarAPIURL(origin, source) = origin
             /\ PlainHTTP(origin) => source = "runtime" \/ IsLoopback(origin)
  BY <1>2 DEF validateTrustedSidecarAPIURL
<1> DEFINE target == sidecarManagementAPIURL(state)
<1>3. CASE state.api # None
  <2>1. target = validateTrustedSidecarAPIURL(state.api, state.source)
    BY <1>3 DEF sidecarManagementAPIURL
  <2> QED
    BY <1>2, <1>3, <2>1 DEF TrustedTarget, SourceInv
<1>4. CASE state.api = None
  <2>1. state.source # "config"
    BY <1>4 DEF SourceInv
  <2>2. CASE state.url # None /\ state.url.abs
    <3>1. target = validateTrustedSidecarAPIURL(state.url.origin, "sidecar_url")
      BY <1>4, <2>2 DEF sidecarManagementAPIURL
    <3> QED
      BY <1>2, <2>1, <3>1 DEF TrustedTarget
  <2>3. CASE ~(state.url # None /\ state.url.abs)
    <3>1. target \in {None, validateTrustedSidecarAPIURL(host.runtime, "runtime"), "127.0.0.1"}
      BY <1>4, <2>3 DEF sidecarManagementAPIURL
    <3>2. IsLoopback("127.0.0.1")
      BY DEF IsLoopback, Loopback
    <3> QED
      BY <1>2, <2>1, <3>1, <3>2 DEF TrustedTarget
  <2> QED
    BY <2>2, <2>3
<1> QED
  BY <1>3, <1>4
-----------------------------------------------------------------------------
(* The shell                                                               *)

\* Moving to a candidate keeps the invariant: nothing of the old frame is lost.
LEMMA ConnectingStep ==
    ASSUME Inv, NEW n \in Nat, 1 <= n, n <= Len(shell.candidates), shell.status \notin Idle,
           Connecting(n), UNCHANGED <<host, state, child, calls, toChild, stored>>,
           toShell' \in Seq([type : {"ready", "unavailable"}, origin : Origins])
    PROVE  Inv'
<1>1. /\ shell'.status = "connecting" /\ shell'.index = n /\ shell'.candidates = shell.candidates
      /\ frame'.doc = frame.doc
  BY DEF Inv, TypeOK, Shell, Connecting
<1>2. TypeOK'
  BY Zenon DEF Inv, TypeOK, Shell, Connecting
<1>3. FrameInv'
  BY <1>1 DEF Inv, FrameInv, Idle
<1>4. SourceInv'
  BY <1>1 DEF Inv, SourceInv
<1> QED
  BY <1>2, <1>3, <1>4 DEF Inv

\* ... and so does giving up the last one.
LEMMA NextCandidateStep ==
    ASSUME Inv, NEW armed \in BOOLEAN, shell.status \notin Idle, tryNextCandidate(armed),
           UNCHANGED <<host, state, child, calls, toChild, stored>>,
           toShell' \in Seq([type : {"ready", "unavailable"}, origin : Origins])
    PROVE  Inv'
<1>1. CASE shell.index < Len(shell.candidates)
  <2>1. Connecting(shell.index + 1)
    BY <1>1 DEF tryNextCandidate
  <2>2. shell.index + 1 \in Nat /\ 1 <= shell.index + 1 /\ shell.index + 1 <= Len(shell.candidates)
    BY <1>1 DEF Inv, TypeOK, Shell
  <2> QED
    BY <2>1, <2>2, ConnectingStep, Zenon
<1>2. CASE ~(shell.index < Len(shell.candidates))
  <2>1. shell' = [shell EXCEPT !.status = "failed", !.timer = armed] /\ frame' = frame
    BY <1>2 DEF tryNextCandidate
  <2>2. TypeOK'
    BY <2>1, Zenon DEF Inv, TypeOK, Shell
  <2>3. FrameInv' /\ SourceInv'
    BY <2>1 DEF Inv, TypeOK, Shell, FrameInv, SourceInv, Document, Idle
  <2> QED
    BY <2>2, <2>3 DEF Inv
<1> QED
  BY <1>1, <1>2

\* A key is posted only to a document.
LEMMA PostStep ==
    ASSUME TypeOK, FrameInv, stored' \in Keys \cup {None}, frame'.doc = frame.doc,
           postManagementKey(toChild)
    PROVE  toChild' \in Seq(Keys) /\ (frame'.doc = 0 => toChild' = toChild)
BY DEF TypeOK, postManagementKey

\* The head of the shell's queue is heard: what is left keeps its type.
LEMMA HeardStep ==
    ASSUME TypeOK, toShell # <<>>, toShell' = Tail(toShell)
    PROVE  toShell' \in Seq([type : {"ready", "unavailable"}, origin : Origins])
BY DEF TypeOK

LEMMA OpenStep == Inv /\ Open => Inv'
<1> SUFFICES ASSUME Inv, Open PROVE Inv'
  OBVIOUS
<1>1. CASE state.error
  <2>1. shell' = [Closed EXCEPT !.status = "error"] /\ frame' = frame
    BY <1>1 DEF Open
  <2>2. /\ shell' = [status |-> "error", candidates |-> <<>>, sources |-> {}, index |-> 0,
                     timer |-> FALSE]
    BY <2>1, Zenon DEF Closed
  <2>a. /\ shell' \in Shell /\ shell'.index = 0 /\ shell'.candidates = <<>>
        /\ shell'.status = "error" /\ Len(shell'.candidates) = 0 /\ ~shell'.timer
    <3>1. <<>> \in Seq(Candidates) /\ {} \in SUBSET Origins /\ Len(<<>>) = 0
      OBVIOUS
    <3> QED
      BY <2>2, <3>1 DEF Shell
  <2>3. frame.doc = 0 /\ ~frame.loading /\ toShell = <<>>
    BY DEF Open, Inv, FrameInv, Idle
  <2>4. TypeOK'
    BY <2>1, <2>a, <2>3 DEF Open, Inv, TypeOK
  <2>5. FrameInv'
    BY <2>1, <2>a, <2>3 DEF Open, Inv, FrameInv, Idle
  <2>6. SourceInv'
    BY <2>a DEF Open, Inv, SourceInv
  <2> QED
    BY <2>4, <2>5, <2>6 DEF Inv
<1>2. CASE ~state.error
  <2>1. state.url \in URL
    BY <1>2 DEF Inv, SourceInv
  <2>2. candidateURLs(state.url) \in Seq(Candidates) /\ Len(candidateURLs(state.url)) >= 1
    BY <2>1, CandidatesType
  <2>3. managementFrameSourcesForState(state) \in SUBSET Origins
    BY <2>1 DEF managementFrameSourcesForState, URL, Origins, Loopback
  <2>4. /\ shell' = [status |-> "connecting", candidates |-> candidateURLs(state.url),
                     sources |-> managementFrameSourcesForState(state), index |-> 1, timer |-> TRUE]
        /\ frame' = [doc |-> 0, loading |-> TRUE, event |-> FALSE]
    BY <1>2 DEF Open, Empty
  <2>5. TypeOK'
    BY <2>2, <2>3, <2>4 DEF Open, Inv, TypeOK, Shell
  <2>6. frame.doc = 0 /\ toShell = <<>>
    BY DEF Open, Inv, FrameInv, Idle
  <2>7. FrameInv'
    BY <2>4, <2>6 DEF Open, Inv, FrameInv, Idle
  <2>8. SourceInv'
    BY <2>4 DEF Open, Inv, SourceInv
  <2> QED
    BY <2>5, <2>7, <2>8 DEF Inv
<1> QED
  BY <1>1, <1>2

LEMMA ReconfigureStep ==
    ASSUME Inv, NEW cfg \in Configs, Reconfigure(cfg)
    PROVE  Inv'
<1>1. host \in Hosts /\ state' = applyConfig(cfg)
  BY DEF Inv, TypeOK, Reconfigure
<1>2. state' \in State /\ SourceInv'
  <2>1. host' = host
    BY DEF Reconfigure
  <2>2. PICK q : q = applyConfig(cfg)
    OBVIOUS
  <2>3. /\ q \in State
        /\ q.source = "runtime" => q.api = host.runtime
        /\ q.source = "none" => q.api = None
        /\ q.source = "config" => q.api # None
        /\ ~q.error => q.url \in URL
    BY <1>1, <2>2, ConfigType
  <2> QED
    BY <1>1, <2>1, <2>2, <2>3 DEF SourceInv
<1>3. TypeOK'
  BY <1>2 DEF Inv, TypeOK, Reconfigure
<1>4. FrameInv'
  BY Zenon DEF Inv, FrameInv, Reconfigure, Document, Current
<1> QED
  BY <1>2, <1>3, <1>4 DEF Inv

LEMMA ShellTimerStep == Inv /\ ShellTimer => Inv'
BY NextCandidateStep, Zenon DEF ShellTimer, Inv, TypeOK, FrameInv

LEMMA ShellMessageStep == Inv /\ ShellMessage => Inv'
<1> SUFFICES ASSUME Inv, ShellMessage PROVE Inv'
  OBVIOUS
<1>1. shell.status \notin Idle
  BY DEF Inv, FrameInv, ShellMessage
<1>2. toShell' \in Seq([type : {"ready", "unavailable"}, origin : Origins])
  BY HeardStep DEF Inv, ShellMessage
<1>3. CASE Head(toShell).origin # Current.origin
  <2>1. UNCHANGED <<host, state, child, calls, shell, frame, toChild, stored>>
    BY <1>3 DEF ShellMessage
  <2>2. TypeOK'
    BY <1>2, <2>1 DEF Inv, TypeOK
  <2>3. FrameInv' /\ SourceInv'
    BY <1>1, <1>2, <2>1 DEF Inv, FrameInv, SourceInv, Document, Current
  <2> QED
    BY <2>2, <2>3 DEF Inv
<1>4. CASE Head(toShell).origin = Current.origin /\ Head(toShell).type = "ready"
  <2>1. ready /\ UNCHANGED <<host, state, child, calls>>
    BY <1>4 DEF ShellMessage
  <2>2. /\ shell' \in Shell /\ shell'.status = "ready" /\ shell'.index = shell.index
        /\ shell'.candidates = shell.candidates /\ frame' = frame /\ stored' = stored
    BY <2>1, ZenonT(30) DEF ready, Inv, TypeOK, Shell
  <2>3. toChild' \in Seq(Keys) /\ (frame'.doc = 0 => toChild' = toChild)
    BY <2>1, <2>2, PostStep DEF ready, Inv, TypeOK
  <2>4. TypeOK'
    BY <1>2, <2>1, <2>2, <2>3 DEF Inv, TypeOK
  <2>5. FrameInv'
    BY <1>1, <2>1, <2>2, <2>3 DEF Inv, FrameInv, Idle
  <2>6. SourceInv'
    BY <2>1, <2>2 DEF Inv, SourceInv
  <2> QED
    BY <2>4, <2>5, <2>6 DEF Inv
<1>5. CASE Head(toShell).origin = Current.origin /\ Head(toShell).type # "ready"
  <2>1. tryNextCandidate(shell.timer)
        /\ UNCHANGED <<host, state, child, calls, toChild, stored>>
    BY <1>5 DEF ShellMessage
  <2>2. shell.timer \in BOOLEAN
    BY DEF Inv, TypeOK, Shell
  <2> QED
    BY <1>1, <1>2, <2>1, <2>2, NextCandidateStep, Zenon
<1> QED
  BY <1>3, <1>4, <1>5


LEMMA RetryStep == Inv /\ Retry => Inv'
<1> SUFFICES ASSUME Inv, Retry PROVE Inv'
  OBVIOUS
<1>1. shell.status \notin Idle /\ 1 <= Len(shell.candidates)
  BY DEF Retry, Inv, TypeOK, FrameInv, Shell, Idle
<1>2. toShell' \in Seq([type : {"ready", "unavailable"}, origin : Origins])
  BY DEF Retry, Inv, TypeOK
<1>3. PICK n \in Nat : n = 1
  OBVIOUS
<1>4. Connecting(n) /\ UNCHANGED <<host, state, child, calls, toChild, stored>>
  BY <1>3 DEF Retry
<1>5. 1 <= n /\ n <= Len(shell.candidates)
  BY <1>1, <1>3
<1> QED
  BY <1>1, <1>2, <1>4, <1>5, ConnectingStep, Zenon

LEMMA StoreKeyStep ==
    ASSUME Inv, NEW k \in Keys \cup {None}, StoreKey(k)
    PROVE  Inv'
<1>1. /\ UNCHANGED <<host, state, shell, frame, child, calls, toShell>>
      /\ stored' = k
  BY DEF StoreKey
<1>2. toChild' \in Seq(Keys) /\ (frame'.doc = 0 => toChild' = toChild)
  <2>1. CASE shell.candidates = <<>>
    BY <2>1 DEF StoreKey, Inv, TypeOK
  <2>2. CASE shell.candidates # <<>>
    BY <1>1, <2>2, PostStep DEF StoreKey, Inv
  <2> QED
    BY <2>1, <2>2
<1>3. TypeOK'
  BY <1>1, <1>2 DEF Inv, TypeOK
<1>4. FrameInv' /\ SourceInv'
  BY <1>1, <1>2, Zenon DEF Inv, FrameInv, SourceInv, Document, Current
<1> QED
  BY <1>3, <1>4 DEF Inv

LEMMA LoadedStep == Inv /\ Loaded => Inv'
<1> SUFFICES ASSUME Inv, Loaded PROVE Inv'
  OBVIOUS
<1>1. /\ UNCHANGED <<host, state, shell, child, calls, toShell, stored>>
      /\ frame' \in [doc : Nat, loading : BOOLEAN, event : BOOLEAN]
      /\ frame'.doc = frame.doc /\ frame'.loading = frame.loading
  BY Zenon DEF Loaded, Inv, TypeOK
<1>2. toChild' \in Seq(Keys) /\ (frame'.doc = 0 => toChild' = toChild)
  BY <1>1, PostStep DEF Loaded, Inv, TypeOK
<1>3. TypeOK'
  BY <1>1, <1>2 DEF Inv, TypeOK
<1>4. FrameInv' /\ SourceInv'
  BY <1>1, <1>2, Zenon DEF Inv, FrameInv, SourceInv, Document, Current
<1> QED
  BY <1>3, <1>4 DEF Inv

LEMMA NavigateStep == Inv /\ Navigate => Inv'
<1> SUFFICES ASSUME Inv, Navigate PROVE Inv'
  OBVIOUS
<1>1. /\ UNCHANGED <<host, state, shell, stored>>
      /\ calls' = <<>> /\ toChild' = <<>>
  BY DEF Navigate
<1>2. /\ shell.status \notin Idle /\ shell.index \in 1..Len(shell.candidates)
      /\ Current \in Candidates /\ Current.origin \in Origins
  <2>1. shell.status \notin Idle /\ shell.index # 0
    BY DEF Navigate, Inv, FrameInv
  <2>2. shell.candidates \in Seq(Candidates) /\ shell.index \in Nat /\ shell.index <= Len(shell.candidates)
    BY DEF Inv, TypeOK, Shell
  <2>3. shell.index \in 1..Len(shell.candidates) /\ Current \in Candidates
    BY <2>1, <2>2 DEF Current
  <2> QED
    BY <2>1, <2>3 DEF Candidates
<1>3. NoChild \in Child
  BY DEF NoChild, Child
<1>4. SourceInv'
  BY <1>1 DEF Inv, SourceInv
<1>5. CASE Served(Current)
  <2>1. /\ frame' = [doc |-> shell.index, loading |-> FALSE, event |-> TRUE]
        /\ toShell' = Append(toShell, [type |-> "ready", origin |-> Current.origin])
    BY <1>5 DEF Navigate
  <2>2. child' \in Child
    <3>1. PICK hosted \in BOOLEAN : hosted = (Current.path = "hosted")
      BY Zenon
    <3>2. child' = [NoChild EXCEPT !.hosted = hosted, !.timer = TRUE]
      BY <1>5, <3>1 DEF Navigate
    <3> QED
      BY <1>3, <3>2, Zenon DEF Child
  <2>3. toShell' \in Seq([type : {"ready", "unavailable"}, origin : Origins])
    BY <1>2, <2>1 DEF Inv, TypeOK
  <2>4. TypeOK'
    BY <1>1, <1>2, <2>1, <2>2, <2>3, SMTT(30) DEF Inv, TypeOK, Shell
  <2>5. FrameInv'
    BY <1>1, <1>2, <2>1, SMTT(30) DEF Inv, FrameInv
  <2> QED
    BY <1>4, <2>4, <2>5 DEF Inv
<1>6. CASE ~Served(Current)
  <2>1. /\ frame' = [doc |-> 0, loading |-> FALSE, event |-> TRUE]
        /\ child' = NoChild /\ UNCHANGED <<toShell>>
    BY <1>6 DEF Navigate
  <2>2. TypeOK'
    BY <1>1, <1>3, <2>1 DEF Inv, TypeOK
  <2>3. FrameInv'
    BY <1>1, <1>2, <2>1 DEF Inv, FrameInv, Current
  <2> QED
    BY <1>4, <2>2, <2>3 DEF Inv
<1> QED
  BY <1>5, <1>6
-----------------------------------------------------------------------------
(* The child                                                               *)

\* What a step of the child does not touch.
Outside == <<host, state, shell, frame, stored>>

\* Steps of the child keep the invariant if what they leave is of the right type.
LEMMA ChildStep ==
    ASSUME Inv, UNCHANGED Outside, child' \in Child,
           calls' \in Seq([key : Keys, bridged : BOOLEAN, routed : BOOLEAN]),
           toShell' \in Seq([type : {"ready", "unavailable"}, origin : Origins]),
           toChild' \in Seq(Keys),
           frame.doc = 0 => calls' = <<>> /\ toChild' = <<>>,
           shell.status \in Idle => toShell' = toShell
    PROVE  Inv'
<1>1. TypeOK'
  BY DEF Inv, TypeOK, Outside
<1>2. FrameInv'
  BY DEF Inv, FrameInv, Outside, Document
<1>3. SourceInv'
  BY DEF Inv, SourceInv, Outside, Current
<1> QED
  BY <1>1, <1>2, <1>3 DEF Inv

\* A call is made from a document.
LEMMA RefreshType ==
    ASSUME Inv, NEW c \in Child, NEW key \in Keys, NEW bridged \in BOOLEAN,
           refresh(c, key, bridged)
    PROVE  child' \in Child /\ calls' \in Seq([key : Keys, bridged : BOOLEAN, routed : BOOLEAN])
<1>1. PICK routed \in BOOLEAN : routed = Routed
  BY Zenon DEF Routed
<1>2. calls' = Append(calls, [key |-> key, bridged |-> bridged, routed |-> routed])
  BY <1>1 DEF refresh
<1>3. child' \in Child
  BY Zenon DEF refresh, Child
<1> QED
  BY <1>2, <1>3 DEF Inv, TypeOK

LEMMA ChildMessageStep == Inv /\ ChildMessage => Inv'
<1> SUFFICES ASSUME Inv, ChildMessage PROVE Inv'
  OBVIOUS
<1>1. UNCHANGED Outside /\ toShell' = toShell
  BY DEF ChildMessage, Outside
<1>2. frame.doc # 0 /\ toChild' \in Seq(Keys) /\ Head(toChild) \in Keys
  BY DEF ChildMessage, Inv, TypeOK, FrameInv
<1>3. child' \in Child /\ calls' \in Seq([key : Keys, bridged : BOOLEAN, routed : BOOLEAN])
  <2>1. CASE Head(toChild) = child.attempted
    BY <2>1 DEF ChildMessage, Inv, TypeOK
  <2>2. CASE Head(toChild) # child.attempted
    <3>1. PICK c : c = [child EXCEPT !.attempted = Head(toChild), !.timer = FALSE, !.manual = FALSE,
                                     !.pill = "connecting"]
      OBVIOUS
    <3>2. c \in Child
      BY <1>2, <3>1, Zenon DEF Inv, TypeOK, Child
    <3>3. refresh(c, Head(toChild), TRUE)
      BY <2>2, <3>1, Zenon DEF ChildMessage
    <3> QED
      BY <1>2, <3>2, <3>3, RefreshType, Zenon
  <2> QED
    BY <2>1, <2>2
<1>4. toShell \in Seq([type : {"ready", "unavailable"}, origin : Origins])
  BY DEF Inv, TypeOK
<1> QED
  BY <1>1, <1>2, <1>3, <1>4, ChildStep

\* Showing the password form.
LEMMA ManualType ==
    ASSUME NEW c \in Child, NEW pill \in {"connecting", "waiting", "ok", "error"}
    PROVE  showManualConnection(c, pill) \in Child
BY Zenon DEF showManualConnection, Child

LEMMA ChildTimerStep == Inv /\ ChildTimer => Inv'
<1> SUFFICES ASSUME Inv, ChildTimer PROVE Inv'
  OBVIOUS
<1>1. UNCHANGED Outside /\ UNCHANGED <<calls, toShell, toChild>>
  BY DEF ChildTimer, Outside
<1>2. child' \in Child
  BY ManualType DEF ChildTimer, Inv, TypeOK
<1> QED
  BY <1>1, <1>2, ChildStep, Zenon DEF Inv, TypeOK, FrameInv

LEMMA RefreshStep ==
    ASSUME Inv, NEW key \in Keys \cup {None}, Refresh(key)
    PROVE  Inv'
<1>1. UNCHANGED Outside /\ UNCHANGED <<toShell, toChild>> /\ frame.doc # 0
  BY DEF Refresh, Outside
<1>2. child' \in Child /\ calls' \in Seq([key : Keys, bridged : BOOLEAN, routed : BOOLEAN])
  <2>1. CASE key = None
    BY <2>1, ZenonT(30) DEF Refresh, Inv, TypeOK, Child
  <2>2. CASE key # None
    BY <2>2, RefreshType, Zenon DEF Refresh, Inv, TypeOK
  <2> QED
    BY <2>1, <2>2
<1> QED
  BY <1>1, <1>2, ChildStep, Zenon DEF Inv, TypeOK

LEMMA ForgetStep == Inv /\ Forget => Inv'
<1> SUFFICES ASSUME Inv, Forget PROVE Inv'
  OBVIOUS
<1>1. UNCHANGED Outside /\ UNCHANGED <<calls, toShell, toChild>> /\ frame.doc # 0
  BY DEF Forget, Outside
<1>2. [child EXCEPT !.key = None, !.attempted = None] \in Child
  BY Zenon DEF Inv, TypeOK, Child
<1>3. child' \in Child
  BY <1>2, ManualType DEF Forget
<1> QED
  BY <1>1, <1>3, ChildStep, Zenon DEF Inv, TypeOK

\* Taking a call out of the list.
LEMMA RemovedType ==
    ASSUME NEW S, NEW s \in Seq(S), NEW i \in 1..Len(s)
    PROVE  RemoveAt(s, i) \in Seq(S)
<1>1. SubSeq(s, 1, i - 1) \in Seq(S)
  <2>1. \A j \in 1..(i - 1) : s[j] \in S
    OBVIOUS
  <2> QED
    BY <2>1
<1>2. SubSeq(s, i + 1, Len(s)) \in Seq(S)
  <2>1. \A j \in (i + 1)..Len(s) : s[j] \in S
    OBVIOUS
  <2> QED
    BY <2>1
<1> QED
  BY <1>1, <1>2 DEF RemoveAt

LEMMA AnswerStep ==
    ASSUME Inv, NEW i \in 1..Len(calls), NEW status, Answer(i, status)
    PROVE  Inv'
<1>1. UNCHANGED Outside /\ toChild' = toChild
  BY DEF Answer, Outside
<1>2. frame.doc # 0
  BY DEF Inv, FrameInv
<1>3. child' \in Child
  <2>1. child \in Child
    BY DEF Inv, TypeOK
  <2>2. showManualConnection(child, "error") \in Child
    BY <2>1, ManualType
  <2>3. Finish(calls[i], status) \in Child
    BY <2>1, <2>2, ZenonT(30) DEF Finish, Child
  <2> QED
    BY <2>3, Zenon DEF Answer, Child
<1>4. calls' \in Seq([key : Keys, bridged : BOOLEAN, routed : BOOLEAN])
  BY RemovedType DEF Answer, Inv, TypeOK
<1>5. Document.origin \in Origins
  <2>1. shell.candidates \in Seq(Candidates) /\ frame.doc \in 1..Len(shell.candidates)
    BY <1>2 DEF Inv, TypeOK, Shell
  <2>2. Document \in Candidates
    BY <2>1 DEF Document
  <2> QED
    BY <2>2 DEF Candidates
<1>6. toShell' \in Seq([type : {"ready", "unavailable"}, origin : Origins])
  <2>1. CASE toShell' = toShell
    BY <2>1 DEF Inv, TypeOK
  <2>2. CASE toShell' = Append(toShell, [type |-> "unavailable", origin |-> Document.origin])
    BY <1>5, <2>2 DEF Inv, TypeOK
  <2> QED
    BY <2>1, <2>2 DEF Answer
<1>7. shell.status \notin Idle
  BY <1>2 DEF Inv, FrameInv
<1> QED
  BY <1>1, <1>2, <1>3, <1>4, <1>6, <1>7, ChildStep, Zenon DEF Inv, TypeOK
-----------------------------------------------------------------------------
(* The theorems                                                            *)

LEMMA InitInv == Init => Inv
<1> SUFFICES ASSUME Init PROVE Inv
  OBVIOUS
<1>1. PICK cfg \in Configs : state = applyConfig(cfg)
  BY DEF Init
<1>2. host \in Hosts
  BY DEF Init
<1>3. state \in State /\ SourceInv
  <2>1. PICK q : q = applyConfig(cfg)
    OBVIOUS
  <2>2. /\ q \in State
        /\ q.source = "runtime" => q.api = host.runtime
        /\ q.source = "none" => q.api = None
        /\ q.source = "config" => q.api # None
        /\ ~q.error => q.url \in URL
    BY <1>2, <2>1, ConfigType, Zenon
  <2> QED
    BY <1>1, <2>1, <2>2 DEF SourceInv
<1>4. shell = Closed /\ Closed \in Shell /\ Closed.status = "closed" /\ Closed.index = 0 /\ ~Closed.timer
  <2>1. <<>> \in Seq(Candidates) /\ {} \in SUBSET Origins
    OBVIOUS
  <2> QED
    BY <2>1, Zenon DEF Init, Closed, Shell
<1>5. frame = Empty /\ Empty \in [doc : Nat, loading : BOOLEAN, event : BOOLEAN]
      /\ Empty.doc = 0 /\ ~Empty.loading
  BY DEF Init, Empty
<1>6. Len(shell.candidates) = 0
  BY <1>4 DEF Closed
<1>7. TypeOK
  <2>1. child \in Child
    BY DEF Init, NoChild, Child
  <2>2. /\ calls \in Seq([key : Keys, bridged : BOOLEAN, routed : BOOLEAN])
        /\ toShell \in Seq([type : {"ready", "unavailable"}, origin : Origins])
        /\ toChild \in Seq(Keys) /\ stored \in Keys \cup {None}
    BY DEF Init
  <2>3. shell.index <= Len(shell.candidates) /\ frame.doc <= Len(shell.candidates)
    BY <1>4, <1>5, <1>6
  <2> QED
    BY <1>2, <1>3, <1>4, <1>5, <2>1, <2>2, <2>3, SMTT(30) DEF TypeOK
<1>8. FrameInv
  BY <1>4, <1>5 DEF Init, FrameInv, Idle
<1> QED
  BY <1>3, <1>7, <1>8 DEF Inv

\* The inductive invariant holds throughout.
THEOREM Invariance == Spec => []Inv
<1>1. Inv /\ [Next]_vars => Inv'
  <2> SUFFICES ASSUME Inv, [Next]_vars PROVE Inv'
    OBVIOUS
  <2>1. CASE \E cfg \in Configs : Reconfigure(cfg)
    BY <2>1, ReconfigureStep
  <2>2. CASE Open \/ ShellTimer \/ ShellMessage \/ Retry
    BY <2>2, OpenStep, ShellTimerStep, ShellMessageStep, RetryStep
  <2>3. CASE \E k \in Keys \cup {None} : StoreKey(k) \/ Refresh(k)
    BY <2>3, StoreKeyStep, RefreshStep
  <2>4. CASE Navigate \/ Loaded
    BY <2>4, NavigateStep, LoadedStep
  <2>5. CASE ChildMessage \/ ChildTimer \/ Forget
    BY <2>5, ChildMessageStep, ChildTimerStep, ForgetStep
  <2>6. CASE AnyAnswer
    BY <2>6, AnswerStep DEF AnyAnswer
  <2>7. CASE UNCHANGED vars
    BY <2>7, ChildStep, Zenon DEF vars, Outside, Inv, TypeOK, FrameInv
  <2> QED
    BY <2>1, <2>2, <2>3, <2>4, <2>5, <2>6, <2>7 DEF Next
<1> QED
  BY <1>1, InitInv, PTL DEF Spec

\* The shell never points past its candidates and no message or call loses its
\* shape, however long timers, late messages and retries interleave.
THEOREM TypeCorrect == Spec => []TypeOK
BY Invariance, PTL DEF Inv

\* For every configuration and environment, the plugin sends management keys over
\* plain HTTP only to this machine or to the service its environment names, and
\* never replaces a configured sidecar_api_url.
THEOREM KeysStayTrusted == Spec => []TrustedTarget
<1>1. Inv => TrustedTarget
  BY TargetTrusted DEF Inv, TypeOK
<1> QED
  BY <1>1, Invariance, PTL

\* Whatever configuration is in force, the policy that plugin.go sends allows every
\* address the page's script may put into its frame, CPA's own absolute address
\* excepted.
THEOREM PolicyCoversCandidates == Spec => []CandidatesFramable
<1>1. Inv => CandidatesFramable
  BY CandidatesAllowed DEF Inv, SourceInv, CandidatesFramable
<1> QED
  BY <1>1, Invariance, PTL

=============================================================================
