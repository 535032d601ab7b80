-------------------------- MODULE ProxyReloadProofs --------------------------
(***************************************************************************)
(* Proofs about ProxyReload for every number of requests, edits and        *)
(* intervals.  The inductive invariant Inv adds to the type invariant that *)
(* one process at a time is inside refreshMu (MutexInv), that what the     *)
(* installed transport, the source and the check in flight know grows in   *)
(* this order (VersionInv), that a request that finds nothing to check     *)
(* finds a setting it may use (FloorInv), and how the delay after a        *)
(* failure is split between the ticks gone and the ticks left (DelayInv).  *)
(***************************************************************************)
EXTENDS ProxyReload, FiniteSetTheorems, TLAPS

Inside(p) == pc[p] \in {"fetch", "fetched"}

MutexInv ==
    /\ \A p, q \in Processes : Inside(p) /\ Inside(q) => p = q
    /\ \A p \in Processes : pc[p] = "fetched" => hand # None
    /\ hand # None => \E p \in Processes : pc[p] = "fetched"
    /\ \A p \in Processes : pc[p] \in {"go", "load", "sent"} => p # watcher

VersionInv ==
    /\ current.raw \notin Invalid
    /\ current.version <= source.effective.version
    /\ source.effective.version <= setting.version
    /\ hand \in Setting => source.effective.version <= hand.version /\ hand.version <= setting.version

FloorInv ==
    \A r \in Requests :
      /\ floor[r] <= setting.version
      /\ (pc[r] \in {"lock", "fetched"} /\ hand \in Setting) => floor[r] <= hand.version
      /\ (pc[r] = "lock" /\ Free /\ source.lastError = None /\ source.nextCheck > 0)
           => floor[r] <= source.effective.version
      /\ pc[r] \in {"go", "load"} => floor[r] <= current.version
      /\ pc[r] = "sent" => route[r] # None /\ floor[r] <= route[r].version

DelayInv ==
    /\ source.lastError = AuthFailure => source.nextCheck + quiet >= authInterval
    /\ source.lastError = OtherFailure => source.nextCheck + quiet >= pollInterval

Inv == TypeOK /\ IsFiniteSet(routes) /\ MutexInv /\ VersionInv /\ FloorInv /\ DelayInv

-----------------------------------------------------------------------------

\* What Min and Max are for two numbers.
LEMMA MinMax ==
    ASSUME NEW a \in Nat, NEW b \in Nat
    PROVE  /\ Min({a, b}) = IF a <= b THEN a ELSE b
           /\ Max({a, b}) = IF a >= b THEN a ELSE b
<1>1. Min({a, b}) = IF a <= b THEN a ELSE b
  <2>1. \E x \in {a, b} : \A y \in {a, b} : x <= y
    OBVIOUS
  <2>2. Min({a, b}) \in {a, b} /\ \A y \in {a, b} : Min({a, b}) <= y
    BY <2>1, Zenon DEF Min
  <2> QED
    BY <2>2
<1>2. Max({a, b}) = IF a >= b THEN a ELSE b
  <2>1. \E x \in {a, b} : \A y \in {a, b} : x >= y
    OBVIOUS
  <2>2. Max({a, b}) \in {a, b} /\ \A y \in {a, b} : Max({a, b}) >= y
    BY <2>1, Zenon DEF Max
  <2> QED
    BY <2>2
<1> QED
  BY <1>1, <1>2

\* The delay of rescheduleFailure: at least the base delay and the delay before, at
\* most the maximum.
LEMMA FailureDelay ==
    ASSUME TypeOK, NEW kind \in Failures
    PROVE  /\ nextFailureDelay(kind) \in 0..maxInterval
           /\ nextFailureDelay(kind) >= source.failureDelay
           /\ kind = AuthFailure => nextFailureDelay(kind) >= authInterval
           /\ nextFailureDelay(kind) >= pollInterval
<1> DEFINE b == baseDelay(kind)
           d == source.failureDelay
<1>1. b \in Nat /\ pollInterval <= b /\ b <= maxInterval /\ (kind = AuthFailure => authInterval <= b)
  BY IntervalsAssumption, MinMax DEF baseDelay
<1>2. d \in Nat /\ d <= maxInterval /\ 2 * d \in Nat
  BY IntervalsAssumption DEF TypeOK
<1> HIDE DEF b, d
<1> DEFINE m == Max({b, 2 * d})
<1>3. m \in Nat /\ b <= m /\ 2 * d <= m
  BY <1>1, <1>2, MinMax
<1> HIDE DEF m
<1>4. Min({maxInterval, m}) = IF maxInterval <= m THEN maxInterval ELSE m
  BY <1>3, IntervalsAssumption, MinMax
<1>5. nextFailureDelay(kind) = IF maxInterval <= m THEN maxInterval ELSE m
  BY <1>4, Zenon DEF nextFailureDelay, m, b, d
<1>6. nextFailureDelay(kind) >= d /\ nextFailureDelay(kind) >= b /\ nextFailureDelay(kind) \in 0..maxInterval
  BY <1>1, <1>2, <1>3, <1>5, IntervalsAssumption
<1> QED
  BY <1>1, <1>6, IntervalsAssumption DEF d

-----------------------------------------------------------------------------

\* At start nobody is inside refreshMu, and no request has arrived.
LEMMA InitInv == Init => Inv
<1> SUFFICES ASSUME Init PROVE Inv
  OBVIOUS
<1> USE DEF Init
<1>1. TypeOK
  <2>1. setting \in Setting /\ current \in Setting /\ setting.version = 1
    BY ProxiesAssumption, BoundsAssumption DEF Setting, Start
  <2>2. source \in [effective : Setting, lastError : {None} \cup Failures,
                   nextCheck : 0..maxInterval, failureDelay : 0..maxInterval]
    BY <2>1, IntervalsAssumption
  <2>3. outage \in {None} \cup Failures
    BY DEF Failures
  <2>4. routes \subseteq Proxies \ Invalid /\ Cardinality(routes) <= maxRoutes
    BY FS_EmptySet, BoundsAssumption
  <2>5. pc \in [Processes -> Places] /\ routeReady \in BOOLEAN /\ serving \in BOOLEAN
    BY FromCPAAssumption, Zenon DEF Places
  <2>6. route \in [Requests -> Setting \cup {None}] /\ hand \in Setting \cup Failures \cup {None}
    BY Zenon
  <2>7. 0 \in 0..MaxVersion /\ quiet \in 0..maxInterval
    BY IntervalsAssumption, BoundsAssumption
  <2>8. floor \in [Requests -> 0..MaxVersion]
    BY <2>7, Zenon
  <2> QED
    BY <2>1, <2>2, <2>3, <2>4, <2>5, <2>6, <2>7, <2>8, Zenon DEF TypeOK
<1>2. IsFiniteSet(routes)
  BY FS_EmptySet
<1>3. MutexInv
  BY DEF MutexInv, Inside
<1>4. VersionInv
  BY ProxiesAssumption, FailuresAssumption DEF VersionInv, Start
<1>5. FloorInv
  BY RequestsAssumption, FailuresAssumption DEF FloorInv, Processes
<1>6. DelayInv
  BY FailuresAssumption DEF DelayInv, Failures
<1> QED
  BY <1>1, <1>2, <1>3, <1>4, <1>5, <1>6 DEF Inv

\* The mutex and the places of the processes after one of them has moved.
LEMMA Moved ==
    ASSUME TypeOK, NEW p \in Processes, NEW place \in Places, Goto(p, place)
    PROVE  /\ pc' \in [Processes -> Places] /\ pc'[p] = place
           /\ \A q \in Processes : q # p => pc'[q] = pc[q]
  BY DEF TypeOK, Goto

\* Where a process goes when refresh returns.
LEMMA Returned ==
    ASSUME TypeOK, NEW p \in Processes, NEW s, Apply(p, s)
    PROVE  /\ \E place \in Places \ {"lock", "fetch", "fetched", "load", "sent"} : Goto(p, place)
           /\ pc'[p] = "go" => p # watcher /\ s # None /\ current' = s
           /\ routeReady' \in BOOLEAN
           /\ \/ current' = current
              \/ s # None /\ current' = s /\ s.raw \notin Invalid
  BY Zenon DEF TypeOK, Apply, Return, Goto, Places, outboundTransport

\* proxyConfigSource.current answers from what it knows.
LEMMA CachedInv ==
    ASSUME Inv, NEW p \in Processes, Cached(p)
    PROVE  Inv'
<1> DEFINE s == IF source.lastError = None THEN source.effective ELSE None
<1> USE DEF Inv
<1>1. Apply(p, s) /\ source.nextCheck > 0 /\ Free /\ pc[p] = "lock" /\ serving' = TRUE
      /\ UNCHANGED <<setting, outage, source, hand, quiet, routes, route, floor>>
  BY DEF Cached, sourceVars
<1>2. source.effective \in Setting /\ (s # None => s = source.effective /\ source.lastError = None)
  BY DEF TypeOK
<1> HIDE DEF s
<1>3. PICK place \in Places \ {"lock", "fetch", "fetched", "load", "sent"} : Goto(p, place)
  BY <1>1, Returned
<1>4. /\ pc' \in [Processes -> Places] /\ pc'[p] = place
      /\ \A q \in Processes : q # p => pc'[q] = pc[q]
  BY <1>3, Moved
<1>5. /\ pc'[p] = "go" => p # watcher /\ s # None /\ current' = s
      /\ routeReady' \in BOOLEAN
      /\ current' = current \/ (s # None /\ current' = s /\ s.raw \notin Invalid)
  BY <1>1, Returned
<1>6. TypeOK' /\ IsFiniteSet(routes')
  BY <1>1, <1>2, <1>4, <1>5 DEF TypeOK
<1>7. MutexInv'
  BY <1>1, <1>4, <1>5 DEF MutexInv, Inside
<1>8. VersionInv' /\ current'.version >= current.version
  BY <1>1, <1>2, <1>5 DEF VersionInv, TypeOK, Setting
<1>9. FloorInv'
  BY <1>1, <1>2, <1>4, <1>5, <1>8 DEF FloorInv, Free, Processes, TypeOK, Setting
<1>10. DelayInv'
  BY <1>1 DEF DelayInv
<1> QED
  BY <1>6, <1>7, <1>8, <1>9, <1>10

\* A due check enters refreshMu.
LEMMA CheckInv ==
    ASSUME Inv, NEW p \in Processes, Check(p)
    PROVE  Inv'
<1> USE DEF Inv
<1>1. /\ pc[p] = "lock" /\ Free /\ source.nextCheck = 0
      /\ source' = [source EXCEPT !.nextCheck = pollInterval]
      /\ UNCHANGED <<setting, outage, hand, quiet, current, routeReady, routes, serving, route, floor>>
  BY DEF Check, routeVars
<1>2. /\ pc' \in [Processes -> Places] /\ pc'[p] = "fetch"
      /\ \A q \in Processes : q # p => pc'[q] = pc[q]
  BY Moved DEF Check, Places
<1>3. /\ source'.effective = source.effective /\ source'.lastError = source.lastError
      /\ source'.nextCheck = pollInterval /\ source'.failureDelay = source.failureDelay
      /\ source' \in [effective : Setting, lastError : {None} \cup Failures,
                     nextCheck : 0..maxInterval, failureDelay : 0..maxInterval]
  BY <1>1, IntervalsAssumption DEF TypeOK
<1>4. TypeOK' /\ IsFiniteSet(routes')
  BY <1>1, <1>2, <1>3 DEF TypeOK
<1>5. MutexInv'
  BY <1>1, <1>2 DEF MutexInv, Inside, Free
<1>6. VersionInv'
  BY <1>1, <1>3 DEF VersionInv
<1>7. ~Free'
  BY <1>2 DEF Free
<1>8. FloorInv'
  BY <1>1, <1>2, <1>7 DEF FloorInv, Processes
<1>9. DelayInv'
  BY <1>1, <1>3, IntervalsAssumption DEF DelayInv, TypeOK
<1> QED
  BY <1>4, <1>5, <1>6, <1>8, <1>9

\* The setting is read, or not: nobody else is reading it.
LEMMA FetchInv ==
    ASSUME Inv, NEW p \in Processes, fetchCPAProxy(p)
    PROVE  Inv'
<1> USE DEF Inv
<1>1. /\ pc[p] = "fetch" /\ hand' \in {setting} \cup Failures
      /\ UNCHANGED <<setting, outage, source, quiet, current, routeReady, routes, serving, route, floor>>
  BY DEF fetchCPAProxy, routeVars, TypeOK, Failures
<1>2. /\ pc' \in [Processes -> Places] /\ pc'[p] = "fetched"
      /\ \A q \in Processes : q # p => pc'[q] = pc[q]
  BY Moved DEF fetchCPAProxy, Places
<1>3. hand' # None /\ (hand' \in Setting => hand' = setting) /\ hand' \in Setting \cup Failures
  BY <1>1, FailuresAssumption DEF TypeOK
<1>4. TypeOK' /\ IsFiniteSet(routes')
  BY <1>1, <1>2, <1>3 DEF TypeOK
<1>5. MutexInv'
  BY <1>1, <1>2, <1>3 DEF MutexInv, Inside
<1>6. VersionInv'
  BY <1>1, <1>3 DEF VersionInv, TypeOK, Setting
<1>7. ~Free'
  BY <1>2 DEF Free
<1>8. FloorInv'
  BY <1>1, <1>2, <1>3, <1>7 DEF FloorInv, Processes
<1>9. DelayInv'
  BY <1>1 DEF DelayInv
<1> QED
  BY <1>4, <1>5, <1>6, <1>8, <1>9

\* The answer is applied: a setting at least as new as everything known before, or
\* a failure that puts off the next check and bars the route.
LEMMA FinishInv ==
    ASSUME Inv, NEW p \in Processes, Finish(p)
    PROVE  Inv'
<1> DEFINE s == IF hand \in Failures THEN None ELSE hand
<1> USE DEF Inv
<1>1. /\ pc[p] = "fetched" /\ hand' = None /\ serving' = TRUE /\ Apply(p, s)
      /\ UNCHANGED <<setting, outage, routes, route, floor>>
  BY DEF Finish
<1>2. hand \in Failures => quiet' = 0 /\ rescheduleFailure(hand)
  BY DEF Finish
<1>3. hand \notin Failures => hand \in Setting /\ s = hand /\ quiet' = quiet /\ markSuccess(hand)
  BY <1>1 DEF Finish, TypeOK, MutexInv
<1>4. hand \in Failures => s = None
  OBVIOUS
<1>5. hand \in Failures => hand \notin Setting
  BY FailuresAssumption
<1> HIDE DEF s
<1>6. PICK place \in Places \ {"lock", "fetch", "fetched", "load", "sent"} : Goto(p, place)
  BY <1>1, Returned
<1>7. /\ pc' \in [Processes -> Places] /\ pc'[p] = place
      /\ \A q \in Processes : q # p => pc'[q] = pc[q]
  BY <1>6, Moved
<1>8. /\ pc'[p] = "go" => p # watcher /\ s # None /\ current' = s
      /\ routeReady' \in BOOLEAN
      /\ current' = current \/ (s # None /\ current' = s /\ s.raw \notin Invalid)
  BY <1>1, Returned
<1>9. None \notin Setting /\ hand' \notin Setting
  BY <1>1, FailuresAssumption
<1>10. ASSUME hand \in Failures
       PROVE  /\ source' \in [effective : Setting, lastError : {None} \cup Failures,
                              nextCheck : 0..maxInterval, failureDelay : 0..maxInterval]
              /\ source'.effective = source.effective /\ source'.lastError = hand
              /\ source'.nextCheck >= pollInterval
              /\ hand = AuthFailure => source'.nextCheck >= authInterval
  <2> DEFINE d == nextFailureDelay(hand)
  <2>1. /\ d \in 0..maxInterval /\ d >= pollInterval
        /\ hand = AuthFailure => d >= authInterval
    BY <1>10, FailureDelay
  <2>2. source' = [source EXCEPT !.lastError = hand, !.failureDelay = d, !.nextCheck = d]
    BY <1>2, <1>10, Zenon DEF rescheduleFailure
  <2> HIDE DEF d
  <2>3. /\ source' \in [effective : Setting, lastError : {None} \cup Failures,
                        nextCheck : 0..maxInterval, failureDelay : 0..maxInterval]
        /\ source'.effective = source.effective /\ source'.lastError = hand /\ source'.nextCheck = d
    BY <1>10, <2>1, <2>2, Zenon DEF TypeOK
  <2> QED
    BY <2>1, <2>3
<1>11. ASSUME hand \notin Failures
       PROVE  /\ source' \in [effective : Setting, lastError : {None} \cup Failures,
                              nextCheck : 0..maxInterval, failureDelay : 0..maxInterval]
              /\ source'.effective = hand /\ source'.lastError = None
  BY <1>3, <1>11, IntervalsAssumption DEF markSuccess
<1>12. TypeOK' /\ IsFiniteSet(routes')
  <2>1. current' \in Setting
    BY <1>3, <1>4, <1>8, Zenon DEF TypeOK
  <2>2. quiet' \in 0..maxInterval
    BY <1>2, <1>3, IntervalsAssumption DEF TypeOK
  <2> QED
    BY <1>1, <1>7, <1>8, <1>10, <1>11, <2>1, <2>2 DEF TypeOK
<1>13. MutexInv'
  BY <1>1, <1>7, <1>8 DEF MutexInv, Inside
<1>14. VersionInv' /\ current'.version >= current.version
  BY <1>1, <1>3, <1>4, <1>8, <1>9, <1>10, <1>11 DEF VersionInv, TypeOK, Setting
<1>15. FloorInv'
  <2> SUFFICES ASSUME NEW r \in Requests
               PROVE  /\ floor'[r] <= setting'.version
                      /\ (pc'[r] = "lock" /\ source'.lastError = None) => floor'[r] <= source'.effective.version
                      /\ pc'[r] \in {"go", "load"} => floor'[r] <= current'.version
                      /\ pc'[r] = "sent" => route'[r] # None /\ floor'[r] <= route'[r].version
    BY <1>9 DEF FloorInv
  <2>1. r \in Processes
    BY DEF Processes
  <2>2. floor'[r] <= setting'.version
    BY <1>1 DEF FloorInv
  <2>3. (pc'[r] = "lock" /\ source'.lastError = None) => floor'[r] <= source'.effective.version
    BY <1>1, <1>3, <1>7, <1>10, <1>11, <2>1, FailuresAssumption, Zenon DEF FloorInv
  <2>4. pc'[r] \in {"go", "load"} => floor'[r] <= current'.version
    <3>1. CASE r = p
      BY <1>1, <1>3, <1>4, <1>7, <1>8, <3>1, Zenon DEF FloorInv
    <3>2. CASE r # p
      <4>1. floor[r] \in Nat /\ current.version \in Nat /\ current'.version \in Nat
        BY <1>12, BoundsAssumption DEF TypeOK, Setting
      <4>2. pc'[r] \in {"go", "load"} => floor[r] <= current.version
        BY <1>7, <2>1, <3>2, Zenon DEF FloorInv
      <4> QED
        BY <1>1, <1>14, <4>1, <4>2
    <3> QED
      BY <3>1, <3>2
  <2>5. pc'[r] = "sent" => route'[r] # None /\ floor'[r] <= route'[r].version
    BY <1>1, <1>7, <2>1 DEF FloorInv
  <2> QED
    BY <2>2, <2>3, <2>4, <2>5
<1>16. DelayInv'
  BY <1>2, <1>10, <1>11, FailuresAssumption, IntervalsAssumption DEF DelayInv, Failures, TypeOK
<1> QED
  BY <1>12, <1>13, <1>14, <1>15, <1>16

\* A request arrives: it may have to wait for a check, unless the last one failed.
LEMMA ArriveInv ==
    ASSUME Inv, NEW r \in Requests, Arrive(r)
    PROVE  Inv'
<1> USE DEF Inv
<1> DEFINE new == IF hand \in Setting THEN hand.version ELSE setting.version
<1>1. /\ pc[r] = "idle" /\ source' = Forced
      /\ floor' = [floor EXCEPT ![r] = new]
      /\ UNCHANGED <<setting, outage, hand, quiet, current, routeReady, routes, serving, route>>
  BY DEF Arrive, routeVars
<1>2. r \in Processes
  BY DEF Processes
<1>3. /\ pc' \in [Processes -> Places] /\ pc'[r] = "lock"
      /\ \A q \in Processes : q # r => pc'[q] = pc[q]
  BY <1>2, Moved DEF Arrive, Places
<1>4. /\ source' \in [effective : Setting, lastError : {None} \cup Failures,
                     nextCheck : 0..maxInterval, failureDelay : 0..maxInterval]
      /\ source'.effective = source.effective /\ source'.lastError = source.lastError
      /\ IF source.lastError = None THEN source'.nextCheck = 0 ELSE source' = source
  BY <1>1, IntervalsAssumption DEF Forced, TypeOK
<1>5. new \in 0..MaxVersion /\ new <= setting.version /\ (hand \in Setting => new <= hand.version)
  BY DEF TypeOK, Setting, VersionInv
<1> HIDE DEF new
<1>6. floor'[r] = new /\ \A q \in Requests : q # r => floor'[q] = floor[q]
  BY <1>1 DEF TypeOK
<1>7. TypeOK' /\ IsFiniteSet(routes')
  <2>1. floor' \in [Requests -> 0..MaxVersion]
    BY <1>1, <1>5 DEF TypeOK, Setting
  <2> QED
    BY <1>1, <1>3, <1>4, <2>1 DEF TypeOK
<1>8. MutexInv'
  BY <1>1, <1>2, <1>3 DEF MutexInv, Inside
<1>9. VersionInv'
  BY <1>1, <1>4 DEF VersionInv
<1>10. (Free' /\ source'.lastError = None) => source'.nextCheck = 0
  BY <1>4
<1>11. FloorInv'
  BY <1>1, <1>2, <1>3, <1>4, <1>5, <1>6, <1>10, SMTT(30) DEF FloorInv, Processes
<1>12. DelayInv'
  BY <1>1, <1>4, FailuresAssumption, Zenon DEF DelayInv, Failures
<1> QED
  BY <1>7, <1>8, <1>9, <1>11, <1>12

\* A request with a proxy of its own: the kept transports stay valid and few.
LEMMA RouteInv ==
    ASSUME Inv, NEW r \in Requests, NEW raw \in Proxies, Route(r, raw)
    PROVE  Inv'
<1> USE DEF Inv
<1>1. /\ pc[r] = "idle"
      /\ UNCHANGED <<setting, outage, source, hand, quiet, current, routeReady, serving, floor>>
  BY DEF Route, sourceVars, routeVars
<1>2. r \in Processes
  BY DEF Processes
<1>3. PICK place \in {"refused", "sent"} :
        /\ Goto(r, place)
        /\ place = "refused" => UNCHANGED <<routes, route>>
        /\ place = "sent" => route' = [route EXCEPT ![r] = [version |-> setting.version, raw |-> raw]]
  BY Zenon DEF Route
<1>4. /\ pc' \in [Processes -> Places] /\ pc'[r] = place
      /\ \A q \in Processes : q # r => pc'[q] = pc[q]
  BY <1>2, <1>3, Moved DEF Places
<1>5. routes' \subseteq Proxies \ Invalid /\ Cardinality(routes') <= maxRoutes /\ IsFiniteSet(routes')
  <2>1. CASE routes' = routes
    BY <2>1 DEF TypeOK
  <2>2. CASE routes' = {} \cup {raw} /\ raw \notin Invalid
    <3>1. routes' = {raw}
      BY <2>2
    <3>2. IsFiniteSet(routes') /\ Cardinality(routes') = 1
      BY <3>1, FS_Singleton
    <3> QED
      BY <2>2, <3>1, <3>2, BoundsAssumption
  <2>3. CASE routes' = routes \cup {raw} /\ raw \notin routes /\ raw \notin Invalid /\ ~(Cardinality(routes) >= maxRoutes)
    <3>1. IsFiniteSet(routes') /\ Cardinality(routes') = Cardinality(routes) + 1
      BY <2>3, FS_AddElement
    <3>2. Cardinality(routes) \in Nat
      BY FS_CardinalityType
    <3> QED
      BY <2>3, <3>1, <3>2, BoundsAssumption DEF TypeOK
  <2> QED
    BY <2>1, <2>2, <2>3 DEF Route, outboundTransport
<1>6. route' \in [Requests -> Setting \cup {None}] /\ \A q \in Requests : q # r => route'[q] = route[q]
  BY <1>3 DEF TypeOK, Setting
<1>7. place = "sent" => route'[r] \in Setting /\ route'[r].version = setting.version
  BY <1>3 DEF TypeOK, Setting
<1>8. TypeOK'
  BY <1>1, <1>4, <1>5, <1>6 DEF TypeOK
<1>9. MutexInv'
  BY <1>1, <1>2, <1>4, RequestsAssumption DEF MutexInv, Inside
<1>10. VersionInv' /\ DelayInv'
  BY <1>1, Zenon DEF VersionInv, DelayInv
<1>11. Free' = Free
  BY <1>1, <1>2, <1>4, SMTT(30) DEF Free
<1>12. FloorInv'
  BY <1>1, <1>4, <1>6, <1>7, <1>11, FailuresAssumption, Zenon DEF FloorInv, Processes
<1> QED
  BY <1>5, <1>8, <1>9, <1>10, <1>12

\* A request looks at the route after refresh has returned, or the ticker ticks.
LEMMA DeliverInv ==
    ASSUME Inv, (\E r \in Requests : Deliver(r)) \/ Poll
    PROVE  Inv'
<1> USE DEF Inv
<1>1. ASSUME NEW r \in Requests, Ready(r) PROVE Inv'
  <2>1. PICK place \in {"load", "refused"} : Goto(r, place)
    BY <1>1, Zenon DEF Ready
  <2>2. /\ pc[r] = "go" /\ r \in Processes
        /\ UNCHANGED <<setting, outage, source, hand, quiet, current, routeReady, routes, serving, route, floor>>
    BY <1>1 DEF Ready, sourceVars, routeVars, Processes
  <2>3. /\ pc' \in [Processes -> Places] /\ pc'[r] = place
        /\ \A q \in Processes : q # r => pc'[q] = pc[q]
    BY <2>1, <2>2, Moved DEF Places
  <2>4. Free' = Free
    BY <2>2, <2>3 DEF Free
  <2>5. TypeOK' /\ MutexInv'
    BY <2>2, <2>3, RequestsAssumption, Zenon DEF TypeOK, MutexInv, Inside
  <2>6. FloorInv' /\ VersionInv' /\ DelayInv'
    BY <2>2, <2>3, <2>4, Zenon DEF FloorInv, VersionInv, DelayInv, Processes
  <2> QED
    BY <2>2, <2>5, <2>6
<1>2. ASSUME NEW r \in Requests, Send(r) PROVE Inv'
  <2>1. /\ pc[r] = "load" /\ r \in Processes /\ route' = [route EXCEPT ![r] = current]
        /\ UNCHANGED <<setting, outage, source, hand, quiet, current, routeReady, routes, serving, floor>>
    BY <1>2 DEF Send, sourceVars, routeVars, Processes
  <2>2. /\ pc' \in [Processes -> Places] /\ pc'[r] = "sent"
        /\ \A q \in Processes : q # r => pc'[q] = pc[q]
    BY <1>2, <2>1, Moved DEF Send, Places
  <2>3. Free' = Free
    BY <2>1, <2>2 DEF Free
  <2>4. /\ route' \in [Requests -> Setting \cup {None}] /\ route'[r] = current /\ current # None
        /\ \A q \in Requests : q # r => route'[q] = route[q]
    BY <2>1, FailuresAssumption DEF TypeOK
  <2>5. TypeOK' /\ MutexInv'
    BY <2>1, <2>2, <2>4, RequestsAssumption, Zenon DEF TypeOK, MutexInv, Inside
  <2>6. FloorInv' /\ VersionInv' /\ DelayInv'
    BY <2>1, <2>2, <2>3, <2>4, Zenon DEF FloorInv, VersionInv, DelayInv, Processes
  <2> QED
    BY <2>1, <2>5, <2>6
<1>3. CASE Poll
  <2>1. /\ pc[watcher] = "idle" /\ watcher \in Processes
        /\ UNCHANGED <<setting, outage, source, hand, quiet, current, routeReady, routes, serving, route, floor>>
    BY <1>3 DEF Poll, sourceVars, routeVars, Processes
  <2>2. /\ pc' \in [Processes -> Places] /\ pc'[watcher] = "lock"
        /\ \A q \in Processes : q # watcher => pc'[q] = pc[q]
    BY <1>3, <2>1, Moved DEF Poll, Places
  <2>3. Free' = Free
    BY <2>1, <2>2 DEF Free
  <2>4. TypeOK' /\ MutexInv'
    BY <2>1, <2>2, Zenon DEF TypeOK, MutexInv, Inside
  <2>5. FloorInv' /\ VersionInv' /\ DelayInv'
    BY <2>1, <2>2, <2>3, RequestsAssumption, Zenon DEF FloorInv, VersionInv, DelayInv, Processes
  <2> QED
    BY <2>1, <2>4, <2>5
<1> QED
  BY <1>1, <1>2, <1>3 DEF Deliver

\* Time passes, the user edits the setting, CPA fails or recovers.
LEMMA EnvironmentInv ==
    ASSUME Inv, Tick \/ Edit \/ Outage
    PROVE  Inv'
<1> USE DEF Inv
<1>1. UNCHANGED <<current, routeReady, routes, pc, hand, serving, route, floor>>
  BY DEF Tick, Edit, Outage, sourceVars, routeVars
<1>2. MutexInv' /\ Free' = Free /\ IsFiniteSet(routes')
  BY <1>1 DEF MutexInv, Inside, Free
<1>3. CASE Tick
  <2>1. UNCHANGED <<setting, outage>> /\ source.nextCheck > 0
    BY <1>3 DEF Tick
  <2>2. /\ source' \in [effective : Setting, lastError : {None} \cup Failures,
                       nextCheck : 0..maxInterval, failureDelay : 0..maxInterval]
        /\ source'.effective = source.effective /\ source'.lastError = source.lastError
        /\ source'.nextCheck = source.nextCheck - 1
    BY <1>3, IntervalsAssumption DEF Tick, TypeOK
  <2>3. quiet' \in 0..maxInterval /\ (quiet' = quiet + 1 \/ quiet' = maxInterval)
    <3>1. quiet + 1 \in Nat /\ maxInterval \in Nat
      BY IntervalsAssumption DEF TypeOK
    <3>2. quiet' = IF quiet + 1 <= maxInterval THEN quiet + 1 ELSE maxInterval
      BY <1>3, <3>1, MinMax DEF Tick
    <3> QED
      BY <3>1, <3>2
  <2>4. TypeOK'
    BY <1>1, <2>1, <2>2, <2>3, SMTT(30) DEF TypeOK
  <2>5. VersionInv'
    BY <1>1, <2>1, <2>2, Zenon DEF VersionInv
  <2>6. FloorInv'
    BY <1>1, <1>2, <2>1, <2>2, Zenon DEF FloorInv, TypeOK
  <2>7. DelayInv'
    BY <2>1, <2>2, <2>3, IntervalsAssumption DEF DelayInv, TypeOK
  <2> QED
    BY <1>2, <2>4, <2>5, <2>6, <2>7
<1>4. CASE Edit
  <2>1. /\ UNCHANGED <<outage, source, quiet>>
        /\ setting' \in Setting /\ setting'.version = setting.version + 1
    BY <1>4, BoundsAssumption DEF Edit, sourceVars, TypeOK, Setting
  <2>2. TypeOK'
    BY <1>1, <2>1 DEF TypeOK
  <2>3. VersionInv'
    BY <1>1, <2>1 DEF VersionInv, TypeOK, Setting
  <2>4. FloorInv'
    <3>1. \A r \in Requests : floor'[r] <= setting'.version
      BY <1>1, <2>1, BoundsAssumption DEF FloorInv, TypeOK, Setting
    <3> QED
      BY <1>1, <1>2, <2>1, <3>1, Zenon DEF FloorInv
  <2>5. DelayInv'
    BY <2>1 DEF DelayInv
  <2> QED
    BY <1>2, <2>2, <2>3, <2>4, <2>5
<1>5. CASE Outage
  <2>1. UNCHANGED <<setting, source, quiet>> /\ outage' \in {None} \cup Failures
    BY <1>5 DEF Outage, sourceVars, Failures
  <2>2. TypeOK'
    BY <1>1, <2>1 DEF TypeOK
  <2>3. VersionInv' /\ FloorInv' /\ DelayInv'
    BY <1>1, <1>2, <2>1, Zenon DEF VersionInv, FloorInv, DelayInv
  <2> QED
    BY <1>2, <2>2, <2>3
<1> QED
  BY <1>3, <1>4, <1>5

\* Every step preserves the invariant.
LEMMA NextInv == Inv /\ [Next]_vars => Inv'
<1> SUFFICES ASSUME Inv, [Next]_vars PROVE Inv'
  OBVIOUS
<1>1. ASSUME NEW p \in Processes, Step(p) PROVE Inv'
  BY <1>1, CachedInv, CheckInv, FetchInv, FinishInv, Zenon DEF Step
<1>2. ASSUME NEW r \in Requests, Arrive(r) PROVE Inv'
  BY <1>2, ArriveInv, Zenon
<1>3. ASSUME NEW r \in Requests, NEW raw \in Proxies, Route(r, raw) PROVE Inv'
  BY <1>3, RouteInv, Zenon
<1>4. ASSUME (\E r \in Requests : Deliver(r)) \/ Poll PROVE Inv'
  BY <1>4, DeliverInv, Zenon
<1>5. ASSUME Tick \/ Edit \/ Outage PROVE Inv'
  BY <1>5, EnvironmentInv, ZenonT(30)
<1>6. CASE UNCHANGED vars
  BY <1>6, Zenon DEF vars, Inv, TypeOK, MutexInv, Inside, VersionInv, FloorInv, Free, DelayInv
<1> QED
  BY <1>1, <1>2, <1>3, <1>4, <1>5, <1>6, Zenon DEF Next

\* The invariant holds in every reachable state.
THEOREM Invariance == Spec => []Inv
  BY InitInv, NextInv, PTL DEF Spec

\* Whatever the intervals and the number of requests and edits: every variable keeps
\* its type; above all no delay exceeds maxInterval, and at most maxRoutes
\* transports are kept, all of them valid.
THEOREM TypeCorrect == Spec => []TypeOK
<1>1. Inv => TypeOK
  BY DEF Inv
<1> QED
  BY Invariance, <1>1, PTL

\* RoundTrip never uses a route older than the last check that could have been in
\* flight when the request arrived.
THEOREM NeverOlder == Spec => []NotOlderThanCheck
<1>1. Inv => NotOlderThanCheck
  <2> SUFFICES ASSUME Inv, NEW r \in Requests, pc[r] = "sent" PROVE route[r].version >= floor[r]
    BY DEF NotOlderThanCheck
  <2>1. route[r] \in Setting /\ floor[r] \in Nat /\ floor[r] <= route[r].version
    BY BoundsAssumption DEF Inv, TypeOK, FloorInv
  <2> QED
    BY <2>1, BoundsAssumption DEF Setting
<1> QED
  BY Invariance, <1>1, PTL

\* The transport in use is replaced by a newer one or kept: the source knows nothing
\* older, and neither does the check that ends.
THEOREM NeverBack == Spec => RouteAdvances
<1>1. Inv /\ Inv' /\ [Next]_vars => [current'.version >= current.version /\ current'.raw \notin Invalid]_vars
  <2> SUFFICES ASSUME Inv, Inv', Next PROVE current'.version >= current.version /\ current'.raw \notin Invalid
    OBVIOUS
  <2> USE DEF Inv
  <2>1. current'.raw \notin Invalid
    BY DEF VersionInv
  <2>2. current.version \in Nat /\ source.effective.version \in Nat /\ (hand \in Setting => hand.version \in Nat)
    BY BoundsAssumption DEF TypeOK, Setting
  <2>3. ASSUME NEW p \in Processes, Cached(p) PROVE current'.version >= current.version
    <3>1. current' = current \/ current' = source.effective
      BY <2>3, Zenon DEF Cached, Apply
    <3> QED
      BY <2>2, <3>1 DEF VersionInv
  <2>4. ASSUME NEW p \in Processes, Finish(p) PROVE current'.version >= current.version
    <3>1. current' = current \/ (current' = hand /\ hand \in Setting)
      BY <2>4, Zenon DEF Finish, Apply, TypeOK, MutexInv
    <3> QED
      BY <2>2, <3>1 DEF VersionInv
  <2>5. ASSUME UNCHANGED current PROVE current'.version >= current.version
    BY <2>2, <2>5
  <2>6. ASSUME NEW p \in Processes, Check(p) \/ fetchCPAProxy(p) PROVE UNCHANGED current
    BY <2>6 DEF Check, fetchCPAProxy, routeVars
  <2>7. ASSUME NEW r \in Requests, Arrive(r) \/ Deliver(r) \/ \E raw \in Proxies : Route(r, raw)
        PROVE  UNCHANGED current
    BY <2>7, Zenon DEF Arrive, Deliver, Ready, Send, Route, routeVars
  <2>8. ASSUME Poll \/ Tick \/ Edit \/ Outage PROVE UNCHANGED current
    BY <2>8 DEF Poll, Tick, Edit, Outage, routeVars
  <2>9. current'.version >= current.version
    BY <2>3, <2>4, <2>5, <2>6, <2>7, <2>8, Zenon DEF Next, Step
  <2> QED
    BY <2>1, <2>9
<1> QED
  BY Invariance, <1>1, PTL DEF Spec, RouteAdvances

\* However many requests arrive, proxyConfigSource.current reads nothing before the
\* delay after a failure is over.
THEOREM StaysQuiet == Spec => QuietAfterFailure
<1> DEFINE Quiet == \A p \in Processes : (pc[p] = "lock" /\ pc'[p] = "fetch") =>
         /\ source.lastError = AuthFailure => quiet >= authInterval
         /\ source.lastError = OtherFailure => quiet >= pollInterval
<1>1. Inv /\ [Next]_vars => [Quiet]_vars
  <2> SUFFICES ASSUME Inv, Next, NEW p \in Processes, pc[p] = "lock", pc'[p] = "fetch"
               PROVE  /\ source.lastError = AuthFailure => quiet >= authInterval
                      /\ source.lastError = OtherFailure => quiet >= pollInterval
    BY Zenon
  <2> USE DEF Inv
  <2>1. CASE source.nextCheck = 0
    BY <2>1, IntervalsAssumption DEF DelayInv, TypeOK
  <2>2. ASSUME NEW q \in Processes, NEW place, place # "fetch", Goto(q, place) PROVE FALSE
    BY <2>2 DEF Goto, TypeOK
  <2>3. ASSUME NEW q \in Processes, Check(q) PROVE source.nextCheck = 0
    BY <2>3 DEF Check
  <2>4. ASSUME NEW q \in Processes, Cached(q) \/ Finish(q) PROVE FALSE
    <3>1. \E s : Apply(q, s)
      BY <2>4, Zenon DEF Cached, Finish
    <3> QED
      BY <2>2, <3>1, Returned
  <2>5. ASSUME NEW q \in Processes, fetchCPAProxy(q) PROVE FALSE
    BY <2>2, <2>5, Zenon DEF fetchCPAProxy
  <2>6. ASSUME NEW r \in Requests, Arrive(r) \/ Deliver(r) \/ \E raw \in Proxies : Route(r, raw) PROVE FALSE
    <3>1. r \in Processes
      BY DEF Processes
    <3>2. \E place \in {"lock", "refused", "sent", "load"} : Goto(r, place)
      BY <2>6, Zenon DEF Arrive, Deliver, Ready, Send, Route
    <3> QED
      BY <2>2, <3>1, <3>2
  <2>7. ASSUME Poll PROVE FALSE
    BY <2>2, <2>7 DEF Poll, Processes
  <2>8. ASSUME Tick \/ Edit \/ Outage PROVE FALSE
    BY <2>8 DEF Tick, Edit, Outage
  <2> QED
    BY <2>1, <2>3, <2>4, <2>5, <2>6, <2>7, <2>8, Zenon DEF Next, Step
<1> QED
  BY Invariance, <1>1, PTL DEF Spec, QuietAfterFailure

\* rescheduleFailure never shortens the delay from one failure to the next.
THEOREM DelayGrows == Spec => BackoffGrows
<1> DEFINE Grows == (source'.lastError # None /\ source.lastError # None)
                      => source'.failureDelay >= source.failureDelay
<1>1. Inv /\ [Next]_vars => [Grows]_vars
  <2> SUFFICES ASSUME Inv, Next, source'.lastError # None
               PROVE  source'.failureDelay >= source.failureDelay
    BY Zenon
  <2> USE DEF Inv
  <2>1. source.failureDelay \in Nat
    BY IntervalsAssumption DEF TypeOK
  <2>2. CASE source'.failureDelay = source.failureDelay
    BY <2>1, <2>2
  <2>3. ASSUME NEW p \in Processes, Finish(p) PROVE source'.failureDelay >= source.failureDelay
    <3>1. CASE hand \in Failures
      <4> DEFINE d == nextFailureDelay(hand)
      <4>1. d >= source.failureDelay
        BY <3>1, FailureDelay
      <4>2. source' = [source EXCEPT !.lastError = hand, !.failureDelay = d, !.nextCheck = d]
        BY <2>3, <3>1, Zenon DEF Finish, rescheduleFailure
      <4> HIDE DEF d
      <4> QED
        BY <4>1, <4>2 DEF TypeOK
    <3>2. CASE hand \notin Failures
      BY <2>3, <3>2 DEF Finish, markSuccess
    <3> QED
      BY <3>1, <3>2
  <2>4. ASSUME NEW p \in Processes, Cached(p) \/ Check(p) \/ fetchCPAProxy(p)
        PROVE  source'.failureDelay = source.failureDelay
    BY <2>4 DEF Cached, Check, fetchCPAProxy, sourceVars, TypeOK
  <2>5. ASSUME NEW r \in Requests, Arrive(r) \/ Deliver(r) \/ \E raw \in Proxies : Route(r, raw)
        PROVE  source'.failureDelay = source.failureDelay
    BY <2>5 DEF Arrive, Forced, Deliver, Ready, Send, Route, sourceVars, TypeOK
  <2>6. ASSUME Poll \/ Tick \/ Edit \/ Outage PROVE source'.failureDelay = source.failureDelay
    <3>1. CASE Tick
      BY <3>1 DEF Tick, TypeOK
    <3> QED
      BY <2>6, <3>1 DEF Poll, Edit, Outage, sourceVars
  <2> QED
    BY <2>2, <2>3, <2>4, <2>5, <2>6, Zenon DEF Next, Step
<1> QED
  BY Invariance, <1>1, PTL DEF Spec, BackoffGrows
=============================================================================
