--------------------------- MODULE DataPlaneProofs ---------------------------
(***************************************************************************)
(* Proofs about DataPlane for every set of requests, files and proxies.    *)
(* RouteAgreed needs what a lookup under way has established: only the     *)
(* holder of Manager.mu is looking (LockInv), a file CPA has shown all     *)
(* along still has one of the proxies recorded for it (HeldInv), and it is *)
(* yet to be downloaded or one of its proxies has been seen (ReadInv).     *)
(* ForwardedIsForeign needs that a managed index still names an enabled    *)
(* file of the stored identity (ManagedInv).                               *)
(***************************************************************************)
EXTENDS DataPlane, TLAPS

LockInv == \A r \in Requests : req[r].at \in Holding => mu = r

HeldInv == \A n \in Names : held[n] # {} => Enabled(files[n]) /\ files[n].proxy \in held[n]

ReadInv ==
    \A r \in Requests : req[r].at = "read" =>
      \A n \in Names : held[n] # {} => n \in req[r].left \/ \E p \in req[r].seen : p \in held[n]

ManagedInv ==
    \A r \in Requests :
      /\ req[r].at \in Finding =>
           req[r].index \in Names /\ (req[r].managed => stored /\ Enabled(files[req[r].index]))
      /\ req[r].at = "forwarded" => ~req[r].managed

Inv == TypeOK /\ LockInv /\ HeldInv /\ ReadInv /\ ManagedInv

-----------------------------------------------------------------------------

\* A request that has just been answered, or moved on, is well typed.
LEMMA FreshType ==
    ASSUME NEW at \in {"idle", "owned", "authorize", "sent", "fallback"} \cup Waiting \cup Holding \cup Answers
    PROVE  Fresh(at) \in Request
BY DEF Fresh, Request

\* The state in which the server starts satisfies the invariant: nobody holds the
\* mutex and no request has arrived.
LEMMA InitInv == Init => Inv
<1> SUFFICES ASSUME Init PROVE Inv
  OBVIOUS
<1>1. TypeOK
  BY FreshType DEF Init, TypeOK, Unseen
<1>2. \A r \in Requests : req[r].at = "idle"
  BY DEF Init, Fresh
<1>3. \A n \in Names : held[n] = {}
  BY DEF Init, Unseen
<1> QED
  BY <1>1, <1>2, <1>3 DEF Inv, LockInv, HeldInv, ReadInv, ManagedInv, Holding, Finding

\* A step that leaves files, store and histories alone and takes one request out of
\* the lookups, or keeps it waiting for one, preserves the invariant.
LEMMA Leave ==
    ASSUME Inv, NEW r \in Requests, NEW q \in Request, Release(r),
           q.at \in {"idle", "route", "authorize", "sent", "fallback"} \cup Answers,
           q.at = "forwarded" => ~q.managed,
           req' = [req EXCEPT ![r] = q],
           UNCHANGED <<files, stored>>,
           held' \in {held, Unseen}
    PROVE  Inv'
<1>1. TypeOK'
  BY DEF Inv, TypeOK, Release, Unseen
<1>2. \A s \in Requests : s # r => req'[s] = req[s]
  BY DEF Inv, TypeOK
<1>3. req'[r] = q
  BY DEF Inv, TypeOK
<1>4. LockInv'
  BY <1>2, <1>3 DEF Inv, LockInv, Release, Holding, Answers
<1>5. HeldInv'
  BY DEF Inv, HeldInv, Unseen
<1>6. ReadInv'
  BY <1>2, <1>3 DEF Inv, ReadInv, Unseen, Answers
<1>7. ManagedInv'
  BY <1>2, <1>3 DEF Inv, ManagedInv, Answers, Finding
<1> QED
  BY <1>1, <1>4, <1>5, <1>6, <1>7 DEF Inv

\* The same in the forms the actions use.
LEMMA LeaveBy ==
    ASSUME Inv, NEW r \in Requests, UNCHANGED <<files, stored>>, held' \in {held, Unseen},
           \/ \E at \in {"refused", "answered"} : End(r, at)
           \/ \E at \in {"route", "sent", "fallback"} : Goto(r, at)
           \/ \E proxy \in Proxies : Routed(r, proxy)
    PROVE  Inv'
<1>1. CASE \E at \in {"refused", "answered"} : End(r, at)
  <2>1. PICK at \in {"refused", "answered"} : End(r, at)
    BY <1>1
  <2>2. Fresh(at) \in Request /\ Fresh(at).at = at
    BY FreshType DEF Fresh, Answers
  <2> QED
    BY <2>1, <2>2, Leave, Zenon DEF End, Answers
<1>2. CASE \E at \in {"route", "sent", "fallback"} : Goto(r, at)
  <2>1. PICK at \in {"route", "sent", "fallback"} : Goto(r, at)
    BY <1>2
  <2> DEFINE q == [Fresh(at) EXCEPT !.details = req[r].details]
  <2>2. q \in Request /\ q.at = at
    BY Zenon DEF Fresh, Request, Inv, TypeOK, Waiting
  <2>3. req' = [req EXCEPT ![r] = q] /\ Release(r)
    BY <2>1 DEF Goto
  <2> QED
    BY <2>2, <2>3, Leave, Zenon DEF Answers
<1>3. CASE \E proxy \in Proxies : Routed(r, proxy)
  <2>1. PICK proxy \in Proxies : Routed(r, proxy)
    BY <1>3
  <2> DEFINE q == [Fresh("authorize") EXCEPT !.via = proxy, !.details = req[r].details]
  <2>2. q \in Request /\ q.at = "authorize"
    BY Zenon DEF Fresh, Request, Inv, TypeOK
  <2>3. req' = [req EXCEPT ![r] = q] /\ Release(r)
    BY <2>1, Zenon DEF Routed
  <2> QED
    BY <2>2, <2>3, Leave, Zenon DEF Answers
<1> QED
  BY <1>1, <1>2, <1>3

\* Handing a call to CPA, or refusing it, preserves the invariant when its index is
\* not managed.
LEMMA UnmanagedInv ==
    ASSUME Inv, NEW r \in Requests, NEW call, UNCHANGED <<files, stored, held>>,
           Unmanaged(r, call, FALSE)
    PROVE  Inv'
<1>1. CASE End(r, "refused")
  BY <1>1, LeaveBy
<1>2. CASE req' = [req EXCEPT ![r] = [Fresh("forwarded") EXCEPT !.managed = FALSE]] /\ Release(r)
  <2> DEFINE q == [Fresh("forwarded") EXCEPT !.managed = FALSE]
  <2>1. q \in Request /\ q.at = "forwarded" /\ ~q.managed
    BY Zenon DEF Fresh, Request, Answers
  <2> QED
    BY <1>2, <2>1, Leave, Zenon DEF Answers
<1> QED
  BY <1>1, <1>2 DEF Unmanaged

\* A request that waits for the list, or has found its file or its identity,
\* preserves it too.
LEMMA LookInv ==
    ASSUME Inv, NEW r \in Requests, NEW q \in Request, q.at \in Finding,
           q.index \in Names, q.managed => stored /\ Enabled(files[q.index]),
           req' = [req EXCEPT ![r] = q],
           q.at = "find" => mu' = mu /\ req[r].at = "idle",
           q.at = "owner" => mu' = r /\ mu = None,
           q.at = "owned" => Release(r),
           UNCHANGED <<files, stored, held>>
    PROVE  Inv'
<1>1. TypeOK'
  BY DEF Inv, TypeOK, Release, Finding
<1>2. \A s \in Requests : req'[s] = IF s = r THEN q ELSE req[s]
  BY DEF Inv, TypeOK
<1>3. LockInv'
  BY <1>2, HoldersAssumption DEF Inv, LockInv, Holding, Finding, Release
<1>4. HeldInv' /\ ReadInv'
  BY <1>2 DEF Inv, HeldInv, ReadInv, Enabled, Own, Finding
<1>5. ManagedInv'
  BY <1>2 DEF Inv, ManagedInv, Enabled, Own, Finding
<1> QED
  BY <1>1, <1>3, <1>4, <1>5 DEF Inv

\* A change of the files or the store that the histories take in preserves it.
LEMMA ObserveInv ==
    ASSUME Inv, Observe, UNCHANGED mu, stored' \in BOOLEAN,
           files' \in [Names -> File \cup {Absent, Foreign}]
    PROVE  Inv'
<1> USE DEF Inv
<1>1. \A r \in Requests :
        /\ req'[r] \in Request
        /\ req'[r].at = req[r].at /\ req'[r].index = req[r].index
        /\ req'[r].left = req[r].left /\ req'[r].seen = req[r].seen
        /\ req'[r].managed => req[r].managed
        /\ req'[r].managed /\ req[r].at \in Finding => stored' /\ Enabled(files'[req[r].index])
  <2> TAKE r \in Requests
  <2> DEFINE m == req[r].managed /\ (req[r].at \in Finding => stored' /\ Enabled(files'[req[r].index]))
  <2>1. req'[r] = [req[r] EXCEPT !.managed = m]
    BY Zenon DEF Observe
  <2>2. req[r] \in Request /\ m \in BOOLEAN
    BY DEF TypeOK, Request
  <2> HIDE DEF m
  <2>3. /\ req'[r] \in Request
        /\ req'[r].at = req[r].at /\ req'[r].index = req[r].index
        /\ req'[r].left = req[r].left /\ req'[r].seen = req[r].seen
        /\ req'[r].managed = m
    BY <2>1, <2>2 DEF Request
  <2> QED
    BY <2>3, Zenon DEF m
<1>2. \A n \in Names :
        /\ held'[n] \in SUBSET Proxies
        /\ held'[n] # {} => /\ held[n] # {} /\ held[n] \subseteq held'[n]
                            /\ Enabled(files'[n]) /\ files'[n].proxy \in held'[n]
  BY DEF Observe, TypeOK, Enabled, Own, File
<1>3. req' \in [Requests -> Request] /\ held' \in [Names -> SUBSET Proxies]
  BY <1>1, <1>2, Zenon DEF Observe
<1>4. TypeOK'
  BY <1>3 DEF TypeOK
<1>5. LockInv'
  BY <1>1 DEF LockInv
<1>6. HeldInv'
  BY <1>2 DEF HeldInv, Enabled, Own
<1>7. ReadInv'
  BY <1>1, <1>2 DEF ReadInv
<1>8. ManagedInv'
  BY <1>1 DEF ManagedInv, Enabled, Own
<1> QED
  BY <1>4, <1>5, <1>6, <1>7, <1>8

-----------------------------------------------------------------------------

\* A call that is refused, forwarded or starts its lookup.
LEMMA ArriveQuotaInv ==
    ASSUME Inv, NEW r \in Requests, NEW call \in Call, ArriveQuota(r, call)
    PROVE  Inv'
<1> USE DEF ArriveQuota
<1>1. CASE End(r, "refused") \/ End(r, "answered")
  BY <1>1, LeaveBy
<1>2. CASE Unmanaged(r, call, FALSE)
  BY <1>2, UnmanagedInv, Zenon
<1>3. CASE /\ call.index # None /\ UNCHANGED mu
           /\ req' = [req EXCEPT ![r] =
               [Fresh("find") EXCEPT !.index = call.index, !.sidecar = call.sidecar,
                                     !.details = (call.operation = "details"),
                                     !.managed = stored /\ Enabled(files[call.index])]]
  <2> DEFINE q == [Fresh("find") EXCEPT !.index = call.index, !.sidecar = call.sidecar,
                                     !.details = (call.operation = "details"),
                                     !.managed = stored /\ Enabled(files[call.index])]
  <2>1. /\ q \in Request /\ q.at = "find" /\ q.index = call.index /\ call.index \in Names
        /\ q.managed => stored /\ Enabled(files[q.index])
    BY <1>3, Zenon DEF Fresh, Request, Waiting, Call
  <2>2. q.at \in Finding /\ q.at # "owner" /\ q.at # "owned" /\ req[r].at = "idle"
    BY <2>1 DEF Finding, At
  <2> QED
    BY <1>3, <2>1, <2>2, LookInv, Zenon
<1> QED
  BY <1>1, <1>2, <1>3, Zenon

\* IdentityIDForAuthIndex searches the list: an index it does not find is not
\* managed, for CPA lists every enabled file.
LEMMA FindInv ==
    ASSUME Inv, NEW r \in Requests, Find(r)
    PROVE  Inv'
<1> USE DEF Find
<1>1. CASE End(r, "refused")
  BY <1>1, LeaveBy
<1>2. ASSUME NEW L \in Listed, req[r].index \in L, req' = [req EXCEPT ![r].at = "owner"], mu' = r
      PROVE  Inv'
  <2> DEFINE q == [req[r] EXCEPT !.at = "owner"]
  <2>1. q \in Request /\ q.at = "owner" /\ q.index = req[r].index /\ q.managed = req[r].managed
    BY DEF Inv, TypeOK, Request, Holding
  <2>2. q.index \in Names /\ (q.managed => stored /\ Enabled(files[q.index]))
    BY <2>1 DEF Inv, ManagedInv, At, Finding
  <2>3. req' = [req EXCEPT ![r] = q] /\ q.at \in Finding /\ q.at # "find" /\ q.at # "owned"
    BY <1>2, <2>1 DEF Finding
  <2> QED
    BY <1>2, <2>1, <2>2, <2>3, LookInv, Zenon
<1>3. ASSUME NEW L \in Listed, req[r].index \notin L, Unmanaged(r, req[r], req[r].managed)
      PROVE  Inv'
  <2>1. req[r].managed = FALSE
    BY <1>3 DEF Inv, TypeOK, Request, ManagedInv, At, Listed, Finding
  <2> QED
    BY <1>3, <2>1, UnmanagedInv, Zenon
<1> QED
  BY <1>1, <1>2, <1>3

\* The file the index names decides whose call it is.
LEMMA OwnerInv ==
    ASSUME Inv, NEW r \in Requests, Owner(r)
    PROVE  Inv'
<1> USE DEF Owner
<1>1. CASE End(r, "refused")
  BY <1>1, LeaveBy
<1>2. CASE ~Own(files[req[r].index]) /\ Unmanaged(r, req[r], req[r].managed)
  <2>1. req[r].managed = FALSE
    BY <1>2 DEF Inv, TypeOK, Request, ManagedInv, At, Enabled, Finding
  <2> QED
    BY <1>2, <2>1, UnmanagedInv, Zenon
<1>3. CASE req' = [req EXCEPT ![r].at = "owned"] /\ Release(r)
  <2> DEFINE q == [req[r] EXCEPT !.at = "owned"]
  <2>1. q \in Request /\ q.at = "owned" /\ q.index = req[r].index /\ q.managed = req[r].managed
    BY DEF Inv, TypeOK, Request
  <2>2. q.index \in Names /\ (q.managed => stored /\ Enabled(files[q.index]))
    BY <2>1 DEF Inv, ManagedInv, At, Finding
  <2>3. req' = [req EXCEPT ![r] = q] /\ q.at \in Finding /\ q.at # "find" /\ q.at # "owner"
    BY <1>3, <2>1 DEF Finding
  <2> QED
    BY <1>3, <2>1, <2>2, <2>3, LookInv, Zenon
<1> QED
  BY <1>1, <1>2, <1>3

\* The store decides whether the identity is still there.
LEMMA GetByIDInv ==
    ASSUME Inv, NEW r \in Requests, GetByID(r)
    PROVE  Inv'
<1> USE DEF GetByID
<1>1. CASE Goto(r, "route") \/ \E proxy \in Proxies \ {Direct} : Routed(r, proxy)
  BY <1>1, LeaveBy
<1>2. CASE ~stored /\ Unmanaged(r, req[r], req[r].managed)
  <2>1. req[r].managed = FALSE
    BY <1>2 DEF Inv, TypeOK, Request, ManagedInv, At, Finding
  <2> QED
    BY <1>2, <2>1, UnmanagedInv, Zenon
<1> QED
  BY <1>1, <1>2

\* The list that SnapshotIdentity takes has every file the histories start from.
LEMMA RouteInv ==
    ASSUME Inv, NEW r \in Requests, Route(r)
    PROVE  Inv'
<1> USE DEF Route
<1>1. CASE End(r, "refused") /\ UNCHANGED held
  BY <1>1, LeaveBy
<1>2. ASSUME NEW L \in Listed,
             req' = [req EXCEPT ![r].at = "read", ![r].left = L \cup {LegacyName}],
             mu' = r,
             held' = [n \in Names |-> IF Enabled(files[n]) THEN {files[n].proxy} ELSE {}]
      PROVE  Inv'
  <2>1. L \subseteq Names /\ \A n \in Names : Enabled(files[n]) => n \in L
    BY DEF Listed
  <2>2. \A n \in Names : held'[n] # {} => Enabled(files[n]) /\ held'[n] = {files[n].proxy}
    BY <1>2
  <2>3. held' \in [Names -> SUBSET Proxies]
    <3>1. \A n \in Names : Enabled(files[n]) => files[n].proxy \in Proxies
      BY DEF Inv, TypeOK, Enabled, Own, File
    <3> QED
      BY <1>2, <3>1, Zenon
  <2>4. /\ \A s \in Requests : s # r => req'[s] = req[s] /\ req[s].at \notin Holding
        /\ req'[r] \in Request /\ req'[r].at = "read" /\ req'[r].left = L \cup {LegacyName}
    <3> DEFINE q == [req[r] EXCEPT !.at = "read"]
    <3>1. q \in Request /\ q.at = "read"
      BY DEF Inv, TypeOK, Request, Holding
    <3>2. req'[r] = [q EXCEPT !.left = L \cup {LegacyName}]
      BY <1>2, Zenon DEF Inv, TypeOK
    <3>3. \A s \in Requests : s # r => req'[s] = req[s]
      BY <1>2, Zenon DEF Inv, TypeOK
    <3>4. \A s \in Requests : req[s].at \notin Holding
      BY HoldersAssumption DEF Inv, LockInv
    <3> HIDE DEF q
    <3>5. req'[r] \in Request /\ req'[r].at = "read" /\ req'[r].left = L \cup {LegacyName}
      BY <2>1, <3>1, <3>2, NamesAssumption DEF Request
    <3> QED
      BY <3>3, <3>4, <3>5
  <2>5. TypeOK'
    <3>1. req' \in [Requests -> Request]
      BY <1>2, <2>4, Zenon DEF Inv, TypeOK
    <3> QED
      BY <1>2, <2>3, <3>1, Zenon DEF Inv, TypeOK
  <2>6. LockInv' /\ HeldInv'
    BY <1>2, <2>2, <2>4, Zenon DEF Inv, LockInv, HeldInv, Enabled, Own
  <2>7. ReadInv'
    BY <2>1, <2>2, <2>4 DEF ReadInv, Holding
  <2>8. ManagedInv'
    BY <2>4 DEF Inv, ManagedInv, Enabled, Own, Finding
  <2> QED
    BY <2>5, <2>6, <2>7, <2>8 DEF Inv
<1> QED
  BY <1>1, <1>2

\* A download removes a name and adds its file's proxy.
LEMMA ReadKeepsInv ==
    ASSUME Inv, NEW r \in Requests, Read(r)
    PROVE  Inv'
<1> USE DEF Read
<1>1. PICK n \in req[r].left :
        \/ End(r, "refused") /\ held' = Unseen
        \/ /\ req' = [req EXCEPT ![r].left = @ \ {n},
                                 ![r].seen = IF Own(files[n]) THEN @ \cup {files[n].proxy} ELSE @]
           /\ UNCHANGED <<mu, held>>
  BY Zenon
<1>2. CASE End(r, "refused") /\ held' = Unseen
  BY <1>2, LeaveBy
<1>3. CASE /\ req' = [req EXCEPT ![r].left = @ \ {n},
                                ![r].seen = IF Own(files[n]) THEN @ \cup {files[n].proxy} ELSE @]
           /\ UNCHANGED <<mu, held>>
  <2>1. n \in Names
    BY DEF Inv, TypeOK, Request
  <2>2. /\ \A s \in Requests : s # r => req'[s] = req[s]
        /\ req'[r].left = req[r].left \ {n} /\ req'[r].at = req[r].at
        /\ req'[r].seen = IF Own(files[n]) THEN req[r].seen \cup {files[n].proxy} ELSE req[r].seen
        /\ req'[r].index = req[r].index /\ req'[r].managed = req[r].managed
    BY <1>3 DEF Inv, TypeOK, Request
  <2>3. Own(files[n]) => files[n].proxy \in Proxies
    BY <2>1 DEF Inv, TypeOK, Own, File
  <2>4. TypeOK'
    BY <1>3, <2>3 DEF Inv, TypeOK, Request
  <2>5. LockInv' /\ HeldInv' /\ ManagedInv'
    <3>1. \A s \in Requests : req'[s].at = req[s].at /\ req'[s].index = req[s].index
                              /\ req'[s].managed = req[s].managed
      BY <2>2
    <3>2. LockInv'
      BY <1>3, <3>1 DEF Inv, LockInv
    <3>3. HeldInv'
      BY <1>3 DEF Inv, HeldInv, Enabled, Own
    <3>4. ManagedInv'
      BY <3>1 DEF Inv, ManagedInv, Enabled, Own
    <3> QED
      BY <3>2, <3>3, <3>4
  <2>6. ASSUME NEW m \in Names, held'[m] # {}
        PROVE  m \in req'[r].left \/ \E p \in req'[r].seen : p \in held'[m]
    <3>1. m = n => Own(files[n]) /\ files[n].proxy \in held'[m]
      BY <1>3, <2>6 DEF Inv, HeldInv, Enabled
    <3>2. m \in req[r].left \/ \E p \in req[r].seen : p \in held'[m]
      BY <1>3, <2>6 DEF Inv, ReadInv, At
    <3> QED
      BY <3>1, <3>2, <2>2
  <2>7. ReadInv'
    BY <1>3, <2>2, <2>6, Zenon DEF Inv, ReadInv
  <2> QED
    BY <2>4, <2>5, <2>7 DEF Inv
<1> QED
  BY <1>1, <1>2, <1>3

\* Every step preserves the invariant.
LEMMA NextInv == Inv /\ [Next]_vars => Inv'
<1> SUFFICES ASSUME Inv, [Next]_vars PROVE Inv'
  OBVIOUS
<1>1. ASSUME NEW r \in Requests, ArriveProxy(r) PROVE Inv'
  BY <1>1, LeaveBy DEF ArriveProxy
<1>2. ASSUME NEW r \in Requests, NEW call \in Call, ArriveQuota(r, call) PROVE Inv'
  BY <1>2, ArriveQuotaInv
<1>3. ASSUME NEW r \in Requests, Find(r) PROVE Inv'
  BY <1>3, FindInv
<1>4. ASSUME NEW r \in Requests, Route(r) PROVE Inv'
  BY <1>4, RouteInv
<1>5. ASSUME NEW r \in Requests, Owner(r) \/ GetByID(r) PROVE Inv'
  BY <1>5, OwnerInv, GetByIDInv
<1>6. ASSUME NEW r \in Requests, Read(r) PROVE Inv'
  BY <1>6, ReadKeepsInv
<1>7. ASSUME NEW r \in Requests, ProxyForIdentity(r) PROVE Inv'
  <2>1. req[r].seen \subseteq Proxies
    BY DEF Inv, TypeOK, Request
  <2> QED
    BY <1>7, <2>1, LeaveBy DEF ProxyForIdentity
<1>8. ASSUME NEW r \in Requests, Send(r) \/ Respond(r) \/ Fallback(r) PROVE Inv'
  BY <1>8, LeaveBy DEF Send, Respond, Fallback
<1>9. ASSUME NEW n \in Names, Work(n) \/ UserEdit(n) PROVE Inv'
  <2>1. files' \in [Names -> File \cup {Absent, Foreign}]
    BY <1>9 DEF Work, UserEdit, Inv, TypeOK
  <2> QED
    BY <1>9, <2>1, ObserveInv DEF Work, UserEdit, Inv, TypeOK
<1>10. CASE Store
  BY <1>10, ObserveInv DEF Store, Inv, TypeOK
<1>11. CASE Lock \/ Unlock
  <2>1. \A r \in Requests : req[r].at \notin Holding
    BY <1>11, HoldersAssumption DEF Lock, Unlock, Inv, LockInv
  <2> QED
    BY <1>11, <2>1 DEF Lock, Unlock, Inv, TypeOK, LockInv, HeldInv, ReadInv, ManagedInv, Enabled, Own
<1>12. CASE UNCHANGED vars
  BY <1>12 DEF vars, Inv, TypeOK, LockInv, HeldInv, ReadInv, ManagedInv, Enabled, Own
<1> QED
  BY <1>1, <1>2, <1>3, <1>4, <1>5, <1>6, <1>7, <1>8, <1>9, <1>10, <1>11, <1>12 DEF Next, Local

\* The invariant holds in every reachable state.
THEOREM Invariance == Spec => []Inv
  BY InitInv, NextInv, PTL DEF Spec

\* Whatever the files, the proxies and the requests: every variable keeps its type.
THEOREM TypeCorrect == Spec => []TypeOK
<1>1. Inv => TypeOK
  BY DEF Inv
<1> QED
  BY Invariance, <1>1, PTL

\* IdentityIDForAuthIndex never makes handleCPAAPICall forward a call whose index
\* has named an enabled file of the stored identity all the time.
THEOREM NeverForwardsOwn == Spec => []ForwardedIsForeign
<1>1. Inv => ForwardedIsForeign
  BY DEF Inv, ManagedInv, ForwardedIsForeign
<1> QED
  BY Invariance, <1>1, PTL

\* ProxyForIdentity returns a proxy that every file CPA showed all along has had,
\* though the user edits the files between the downloads.
THEOREM ProxyAgreed == Spec => RouteAgreed
<1> DEFINE Agreed ==
      \A r \in Requests : (req[r].at = "read" /\ req'[r].at = "authorize") =>
        \A n \in Names : held[n] # {} => req'[r].via \in held[n]
<1>1. Inv /\ [Next]_vars => [Agreed]_vars
  <2> SUFFICES ASSUME Inv, Next, NEW r \in Requests, req[r].at = "read", req'[r].at = "authorize",
                      NEW n \in Names, held[n] # {}
               PROVE  req'[r].via \in held[n]
    BY DEF vars
  <2> USE DEF Inv, TypeOK
  <2>2. CASE ProxyForIdentity(r)
    <3>1. PICK proxy \in req[r].seen : req[r].seen = {proxy} /\ Routed(r, proxy)
      BY <2>2 DEF ProxyForIdentity, End, Fresh
    <3>2. req'[r].via = proxy
      BY <3>1 DEF Routed, Fresh
    <3>3. \E p \in req[r].seen : p \in held[n]
      BY <2>2 DEF ReadInv, ProxyForIdentity
    <3> QED
      BY <3>1, <3>2, <3>3
  <2>3. ASSUME NEW s \in Requests, s # r,
               \/ ArriveProxy(s) \/ (\E call \in Call : ArriveQuota(s, call))
               \/ Find(s) \/ Route(s) \/ Local(s)
        PROVE  FALSE
    <3>1. req'[r] = req[r]
      BY <2>3, Zenon DEF ArriveProxy, ArriveQuota, Find, Route, Local, Owner, GetByID, Read, ProxyForIdentity, Send,
                  Respond, Fallback, End, Goto, Routed, Unmanaged
    <3> QED
      BY <3>1
  <2>4. CASE Read(r)
    BY <2>4 DEF Read, End, Fresh, Request
  <2>5. CASE \/ ArriveProxy(r) \/ (\E call \in Call : ArriveQuota(r, call)) \/ Find(r) \/ Route(r)
             \/ Owner(r) \/ GetByID(r) \/ Send(r) \/ Respond(r) \/ Fallback(r)
    BY <2>5 DEF ArriveProxy, ArriveQuota, Find, Route, Owner, GetByID, Send, Respond, Fallback, At
  <2>6. CASE (\E m \in Names : Work(m) \/ UserEdit(m)) \/ Lock \/ Unlock \/ Store
    <3>1. CASE Observe
      <4>1. req'[r].at = req[r].at
        BY <3>1, Zenon DEF Observe, Request
      <4> QED
        BY <4>1
    <3> QED
      BY <2>6, <3>1 DEF Work, UserEdit, Lock, Unlock, Store
  <2> QED
    BY <2>2, <2>3, <2>4, <2>5, <2>6 DEF Next, Local
<1>2. QED
  BY Invariance, <1>1, PTL DEF Spec, RouteAgreed
=============================================================================
