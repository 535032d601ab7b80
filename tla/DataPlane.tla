------------------------------ MODULE DataPlane ------------------------------
(***************************************************************************)
(* How the server's data plane finds the credential and the proxy of a     *)
(* request: handleProxy and handleCPAAPICall of internal/server, with      *)
(* IdentityIDForAuthIndex and ProxyForIdentity of cpa.Manager, next to the *)
(* transactions on the auth files.                                         *)
(*                                                                         *)
(* Every lookup takes Manager.mu, lists CPA's auth files and downloads     *)
(* them one by one; a management transaction holds the same mutex through  *)
(* all its calls.  The CPA user edits files at any time, also between two  *)
(* downloads.  A quota call takes the mutex twice and looks the identity   *)
(* up in the store in between; transactions and deletions run there too.   *)
(*                                                                         *)
(* Abstractions.  The files are those of one identity; a file of somebody  *)
(* else is Foreign.  A transaction may do anything to the identity's files *)
(* (CPAManager says what each one does).  CPA's index of a file is its     *)
(* name.  CPA management is configured, so proxies are enforced.           *)
(* Authorisation and the 401 retry are TaskManager's, the transport is     *)
(* ProxyReload's, an image answer ImageBridge's: here a call fails or not. *)
(***************************************************************************)
EXTENDS Naturals, FiniteSets

CONSTANTS
    ProxyRequests,\* requests of Codex clients
    QuotaRequests,\* api-call requests of CPA's management page
    Names,        \* auth-file names, in lexical order
    LegacyName,   \* the one looked up whether CPA lists it or not
    Proxies,      \* values of a file's proxy_url ...
    Direct,       \* ... among them the empty one: no proxy of its own
    Absent,       \* no file
    Foreign,      \* a file of somebody else
    None,         \* no file name, no proxy, nobody
    Transaction,  \* holder of the mutex: UpsertIdentity and the like
    PersonalAccessToken \* the identity's credential is one

Requests == ProxyRequests \cup QuotaRequests
File == [proxy : Proxies, disabled : BOOLEAN]

ASSUME NamesAssumption ==
    Names \subseteq Nat /\ IsFiniteSet(Names) /\ LegacyName \in Names /\ None \notin Names
ASSUME FileAssumption == Absent \notin File /\ Foreign \notin File /\ Absent # Foreign
ASSUME ProxiesAssumption == Direct \in Proxies /\ None \notin Proxies
ASSUME RequestsAssumption == ProxyRequests \cap QuotaRequests = {}
ASSUME HoldersAssumption == Transaction \notin Requests /\ None \notin Requests /\ None # Transaction
ASSUME PersonalAccessTokenAssumption == PersonalAccessToken \in BOOLEAN

VARIABLES
    files,       \* CPA's auth files
    stored,      \* the identity is in the store
    mu,          \* who holds Manager.mu
    req,         \* each request: where it is and what it has found
    held         \* history: the proxies every file has had since mu's holder listed
                 \* them, none once it was gone, somebody else's or disabled

vars == <<files, stored, mu, req, held>>

\* Where a request is: "find" and "route" wait for the mutex, "owner" and "read"
\* hold it, "owned" has an identity and no mutex.  Answers are "refused", "forwarded" to CPA, and "answered".
Waiting == {"find", "route"}
Holding == {"owner", "read"}
Finding == {"find", "owner", "owned"}
Answers == {"refused", "forwarded", "answered"}

\* What a request has found.  `managed' is history: its index has named an
\* enabled file of the stored identity ever since the request arrived.
Request ==
    [at : {"idle", "owned", "authorize", "sent", "fallback"} \cup Waiting \cup Holding \cup Answers,
     index : Names \cup {None}, sidecar : BOOLEAN, details : BOOLEAN,
     left : SUBSET Names, seen : SUBSET Proxies, via : Proxies \cup {None}, managed : BOOLEAN]

Fresh(at) ==
    [at |-> at, index |-> None, sidecar |-> FALSE, details |-> FALSE,
     left |-> {}, seen |-> {}, via |-> None, managed |-> FALSE]

Unseen == [n \in Names |-> {}]

Own(f) == f \notin {Absent, Foreign}
Enabled(f) == Own(f) /\ ~f.disabled

Init ==
    /\ files \in [Names -> File \cup {Absent, Foreign}]
    /\ stored \in BOOLEAN
    /\ mu = None
    /\ req = [r \in Requests |-> Fresh("idle")]
    /\ held = Unseen

-----------------------------------------------------------------------------
(* Steps of a request                                                      *)

At(r, at) == req[r].at = at

\* The mutex is released by whoever holds it and leaves.
Release(r) == mu' = IF mu = r THEN None ELSE mu

\* A request is answered, and nothing of what it found remains.
End(r, at) == req' = [req EXCEPT ![r] = Fresh(at)] /\ Release(r)

\* It goes on, forgetting all but the operation it is for.
Goto(r, at) == req' = [req EXCEPT ![r] = [Fresh(at) EXCEPT !.details = req[r].details]] /\ Release(r)

\* The proxy is known.
Routed(r, proxy) ==
    /\ req' = [req EXCEPT ![r] = [Fresh("authorize") EXCEPT !.via = proxy, !.details = req[r].details]]
    /\ Release(r)

\* handleProxy up to the routing: the client key is looked up in the store, and
\* the body read as far as a retry may need it.
ArriveProxy(r) ==
    /\ r \in ProxyRequests /\ At(r, "idle")
    /\ \/ End(r, "refused")
       \/ stored /\ Goto(r, "route")
    /\ UNCHANGED <<files, stored, held>>

\* What the server reads in a call: the operation, the file it is for and whether
\* its headers carry a sidecar key.  A proxy of its own matters in GetByID.
Call == [operation : {"other", "usage", "details", "consume"}, index : Names \cup {None},
         sidecar : BOOLEAN]

\* quota.Resolve: only the calls to the quota endpoints are intercepted.
Resolve(call) == call.operation \in {"usage", "details", "consume"}

\* The index names no file of the identity, or the identity is not stored: a call
\* that carries a sidecar key is not handed to CPA.
Unmanaged(r, call, managed) ==
    IF call.sidecar THEN End(r, "refused")
    ELSE /\ req' = [req EXCEPT ![r] = [Fresh("forwarded") EXCEPT !.managed = managed]]
         /\ Release(r)

\* handleCPAAPICall up to the lookup of the index.  A call that is malformed, or
\* not authorised, is refused, one that is not intercepted goes to CPA as it is.
ArriveQuota(r, call) ==
    /\ r \in QuotaRequests /\ At(r, "idle")
    /\ \/ End(r, "refused")
       \/ ~Resolve(call) /\ End(r, "answered")
       \/ Resolve(call) /\ call.index = None /\ Unmanaged(r, call, FALSE)
       \/ /\ Resolve(call) /\ call.index # None
          /\ req' = [req EXCEPT ![r] =
               [Fresh("find") EXCEPT !.index = call.index, !.sidecar = call.sidecar,
                                     !.details = (call.operation = "details"),
                                     !.managed = stored /\ Enabled(files[call.index])]]
          /\ UNCHANGED mu
    /\ UNCHANGED <<files, stored, held>>

\* The names CPA lists: it may leave out disabled files.
Listed == {L \in SUBSET {n \in Names : files[n] # Absent} :
             \A n \in Names : Enabled(files[n]) \/ files[n] = Foreign => n \in L}

\* Mutant: a failed lookup counts as an index nobody manages.
FindForwarding(r) ==
    /\ At(r, "find") /\ mu = None
    /\ \/ Unmanaged(r, req[r], req[r].managed)
       \/ \E L \in Listed :
            IF req[r].index \in L
            THEN req' = [req EXCEPT ![r].at = "owner"] /\ mu' = r
            ELSE Unmanaged(r, req[r], req[r].managed)
    /\ UNCHANGED <<files, stored, held>>

\* IdentityIDForAuthIndex: the list is searched for the index ...
Find(r) ==
    /\ At(r, "find") /\ mu = None
    /\ \/ End(r, "refused")
       \/ \E L \in Listed :
            IF req[r].index \in L
            THEN req' = [req EXCEPT ![r].at = "owner"] /\ mu' = r
            ELSE Unmanaged(r, req[r], req[r].managed)
    /\ UNCHANGED <<files, stored, held>>

\* ... and its file downloaded, which names the identity or does not.
Owner(r) ==
    /\ At(r, "owner")
    /\ \/ End(r, "refused")
       \/ ~Own(files[req[r].index]) /\ Unmanaged(r, req[r], req[r].managed)
       \/ Own(files[req[r].index]) /\ req' = [req EXCEPT ![r].at = "owned"] /\ Release(r)
    /\ UNCHANGED <<files, stored, held>>

\* The identity is looked up in the store, the mutex released.  A proxy in the call
\* itself spares the routing.
GetByID(r) ==
    /\ At(r, "owned")
    /\ \/ ~stored /\ Unmanaged(r, req[r], req[r].managed)
       \/ /\ stored
          /\ Goto(r, "route") \/ \E proxy \in Proxies \ {Direct} : Routed(r, proxy)
    /\ UNCHANGED <<files, stored, held>>

\* SnapshotIdentity: the names to download.
Route(r) ==
    /\ At(r, "route") /\ mu = None
    /\ \/ End(r, "refused") /\ UNCHANGED held
       \/ \E L \in Listed :
            /\ req' = [req EXCEPT ![r].at = "read", ![r].left = L \cup {LegacyName}]
            /\ mu' = r
            /\ held' = [n \in Names |-> IF Enabled(files[n]) THEN {files[n].proxy} ELSE {}]
    /\ UNCHANGED <<files, stored>>

\* Mutant: a failed download leaves the mutex locked.
ReadLocked(r) ==
    /\ At(r, "read")
    /\ \E n \in req[r].left :
       /\ \A m \in req[r].left : n <= m
       /\ \/ req' = [req EXCEPT ![r] = Fresh("refused")] /\ UNCHANGED mu /\ held' = Unseen
          \/ /\ req' = [req EXCEPT ![r].left = @ \ {n},
                                   ![r].seen = IF Own(files[n]) THEN @ \cup {files[n].proxy} ELSE @]
             /\ UNCHANGED <<mu, held>>
    /\ UNCHANGED <<files, stored>>

\* One download, in the order of the names; the files of others are dropped.
Read(r) ==
    /\ At(r, "read")
    /\ \E n \in req[r].left :
       /\ \A m \in req[r].left : n <= m
       /\ \/ End(r, "refused") /\ held' = Unseen
          \/ /\ req' = [req EXCEPT ![r].left = @ \ {n},
                                   ![r].seen = IF Own(files[n]) THEN @ \cup {files[n].proxy} ELSE @]
             /\ UNCHANGED <<mu, held>>
    /\ UNCHANGED <<files, stored>>

\* Mutant: files that disagree do not matter.
ProxyOfAnyFile(r) ==
    /\ At(r, "read") /\ req[r].left = {}
    /\ \/ req[r].seen = {} /\ End(r, "refused")
       \/ \E proxy \in req[r].seen : Routed(r, proxy)
    /\ held' = Unseen
    /\ UNCHANGED <<files, stored>>

\* ProxyForIdentity: no file, or files that disagree, are refused.
ProxyForIdentity(r) ==
    /\ At(r, "read") /\ req[r].left = {}
    /\ \/ Cardinality(req[r].seen) # 1 /\ End(r, "refused")
       \/ \E proxy \in req[r].seen : req[r].seen = {proxy} /\ Routed(r, proxy)
    /\ held' = Unseen
    /\ UNCHANGED <<files, stored>>

\* AuthorizeForAccount and the call upstream.
Send(r) ==
    /\ At(r, "authorize")
    /\ End(r, "refused") \/ Goto(r, "sent")
    /\ UNCHANGED <<files, stored, held>>

\* The upstream's answer, or none.  Details of reset credits that a personal
\* access token may not read are looked up in the usage summary.
Respond(r) ==
    /\ At(r, "sent")
    /\ \/ End(r, "refused") \/ End(r, "answered")
       \/ req[r].details /\ PersonalAccessToken /\ Goto(r, "fallback")
    /\ UNCHANGED <<files, stored, held>>

\* personalAccessTokenResetCreditsFallback: with or without a summary.
Fallback(r) ==
    /\ At(r, "fallback")
    /\ End(r, "answered")
    /\ UNCHANGED <<files, stored, held>>

-----------------------------------------------------------------------------
(* Transactions, the CPA user, imports and deletions                       *)

\* What the histories make of a change of the files or the store.
Observe ==
    /\ held' = [n \in Names |-> IF held[n] = {} \/ ~Enabled(files'[n]) THEN {}
                                ELSE held[n] \cup {files'[n].proxy}]
    /\ req' = [r \in Requests |-> [req[r] EXCEPT
         !.managed = @ /\ (req[r].at \in Finding => stored' /\ Enabled(files'[req[r].index]))]]

Lock ==
    /\ mu = None
    /\ mu' = Transaction
    /\ UNCHANGED <<files, stored, req, held>>

\* An upload or a delete of a transaction.
Work(n) ==
    /\ mu = Transaction
    /\ files[n] # Foreign
    /\ \E f \in File \cup {Absent} : files' = [files EXCEPT ![n] = f]
    /\ UNCHANGED <<stored, mu>>
    /\ Observe

Unlock ==
    /\ mu = Transaction
    /\ mu' = None
    /\ UNCHANGED <<files, stored, req, held>>

\* The user edits, disables, enables or deletes a file of the identity.
UserEdit(n) ==
    /\ Own(files[n])
    /\ \E f \in (File \cup {Absent}) \ {files[n]} : files' = [files EXCEPT ![n] = f]
    /\ UNCHANGED <<stored, mu>>
    /\ Observe

\* The identity is imported or deleted.
Store ==
    /\ stored' = ~stored
    /\ UNCHANGED <<files, mu>>
    /\ Observe

Local(r) ==
    \/ Owner(r) \/ GetByID(r) \/ Read(r) \/ ProxyForIdentity(r) \/ Send(r) \/ Respond(r) \/ Fallback(r)

Next ==
    \/ \E r \in Requests :
         \/ ArriveProxy(r) \/ \E call \in Call : ArriveQuota(r, call)
         \/ Find(r) \/ Route(r) \/ Local(r)
    \/ \E n \in Names : Work(n) \/ UserEdit(n)
    \/ Lock \/ Unlock \/ Store

Spec == Init /\ [][Next]_vars

\* Go's mutex is starvation-free; calls to CPA and quota calls end by their
\* timeout, and so does every transaction; a proxied round trip is assumed to end.
FairSpec ==
    /\ Spec
    /\ \A r \in Requests : SF_vars(Find(r)) /\ SF_vars(Route(r)) /\ WF_vars(Local(r))
    /\ WF_vars(Unlock)

-----------------------------------------------------------------------------
(* Properties                                                              *)

\* Every variable stays within its type.
TypeOK ==
    /\ files \in [Names -> File \cup {Absent, Foreign}]
    /\ stored \in BOOLEAN
    /\ mu \in Requests \cup {None, Transaction}
    /\ req \in [Requests -> Request]
    /\ held \in [Names -> SUBSET Proxies]

\* ProxyForIdentity never prefers one file to another: every file of the identity
\* that CPA showed while the files were read has had the proxy the request is
\* sent over, though the user edits files between two downloads.  In particular
\* a request goes without a proxy only if no file had one all along.
RouteAgreed ==
    [][\A r \in Requests :
         (req[r].at = "read" /\ req'[r].at = "authorize") =>
           \A n \in Names : held[n] # {} => req'[r].via \in held[n]]_vars

\* When an intercepted quota call is handed to CPA, its index has not named an
\* enabled file of the stored identity all the time since it arrived: neither a
\* failed lookup nor a transaction under way makes the server forward a call it
\* has to answer itself.
ForwardedIsForeign ==
    \A r \in Requests : req[r].at = "forwarded" => ~req[r].managed

\* Every request is answered, although transactions hold the mutex it needs again
\* and again.
EventuallyAnswered ==
    \A r \in Requests : (req[r].at \notin {"idle"} \cup Answers) ~> (req[r].at \in Answers)
=============================================================================
