----------------------------- MODULE TaskManager -----------------------------
(***************************************************************************)
(* The data plane's authorisation: identity.Manager (verified materials,   *)
(* personal-access-token look-ups, the task cache and its single-flight    *)
(* registration) driven by concurrent proxied requests and by the 401      *)
(* retry of authorizationRetryTransport.                                   *)
(*                                                                         *)
(* One step is one critical section of Manager.mu, one answer of an HTTP   *)
(* call made outside it, or one branch of a select.  The environment       *)
(* decides how calls end, when a client goes away and when a JWT expires.  *)
(*                                                                         *)
(* Abstractions.  An identity has one token.  The authentication service   *)
(* never issues the same task ID twice, so a task is named by the          *)
(* registration that obtained it: <<leading request, its authorisation>>.  *)
(***************************************************************************)
EXTENDS Naturals, FiniteSets

CONSTANTS
    Requests,     \* the requests clients will send; bounds the behaviour
    Identities,   \* stored identities
    Pats,         \* those whose credential is a personal access token
    Sessions,     \* logical session IDs
    None          \* no task, no flight

registerAttempts == 3

TaskKeys == Identities \X Sessions
Flights == Requests \X {1, 2}

ASSUME PatsAssumption == Pats \subseteq Identities
ASSUME NoFlightAssumption == None \notin Flights
ASSUME FiniteAssumption == IsFiniteSet(Requests)

VARIABLES
    materials,    \* identities whose verified JWT is in Manager.materials
    whoami,       \* identities in Manager.personalAccessTokens
    expired,      \* identities whose JWT has expired
    tasks,        \* Manager.tasks
    flights,      \* Manager.flights
    result,       \* result[f]: "open" until flight f's done channel is closed
    req,          \* the requests and where their handlers are
    rejected      \* history: the tasks that an upstream 401 has invalidated

vars == <<materials, whoami, expired, tasks, flights, result, req, rejected>>

-----------------------------------------------------------------------------
(* A request: where its handler is (pc), its task key, whether its body can *)
(* be replayed, which authorisation it is in, the registration attempt, how *)
(* the call it waits for will end, and the flight it waits for or the task  *)
(* it holds.  `sent' counts upstream round trips; `stale' and `late'        *)
(* record, at the start of an authorisation, the rejected tasks and whether *)
(* the JWT had expired.                                                     *)

Pcs == {"new", "authorize", "whoami", "parse", "task", "register", "backoff",
        "store", "wait", "send", "done"}

Leading == {"register", "backoff", "store"}

Request ==
    [pc : Pcs, key : TaskKeys, replayable : BOOLEAN, round : {1, 2},
     attempt : 1..registerAttempts, ok : BOOLEAN, flight : Flights \cup {None},
     sent : 0..2, refused : BOOLEAN,
     stale : SUBSET Flights, late : BOOLEAN]

id(r) == req[r].key[1]
IsPersonalAccessToken(r) == id(r) \in Pats

\* Mutant: the key leaves the session out, as if it were always "default".
taskKeyWithoutSession(r) == <<id(r), CHOOSE s \in Sessions : TRUE>>

taskKey(r) == req[r].key

At(r, pc) == req[r].pc = pc
Goto(r, pc) == req' = [req EXCEPT ![r].pc = pc]
Move(r, pc, flight) == req' = [req EXCEPT ![r] = [@ EXCEPT !.pc = pc, !.flight = flight]]

\* A request whose handler has no locals, before it starts and after it returns.
Outside(pc, key, replayable, sent, refused) ==
    [pc |-> pc, key |-> key, replayable |-> replayable, round |-> 1, attempt |-> 1,
     ok |-> FALSE, flight |-> None, sent |-> sent, refused |-> refused,
     stale |-> {}, late |-> FALSE]

Returned(r, sent, refused) == Outside("done", req[r].key, req[r].replayable, sent, refused)

Return(r) == req' = [req EXCEPT ![r] = Returned(r, req[r].sent, req[r].refused)]

Init ==
    /\ materials = {}
    /\ whoami = {}
    /\ expired = {}
    /\ tasks = [k \in TaskKeys |-> None]
    /\ flights = [k \in TaskKeys |-> None]
    /\ result = [f \in Flights |-> "open"]
    /\ rejected = {}
    /\ \E key \in [Requests -> TaskKeys], replayable \in [Requests -> BOOLEAN] :
         req = [r \in Requests |-> Outside("new", key[r], replayable[r], 0, FALSE)]

-----------------------------------------------------------------------------
(* handleProxy up to its authorisation                                     *)

\* A fresh authorisation starts now.
Begin(r, round) ==
    req' = [req EXCEPT ![r] = [@ EXCEPT !.pc = "authorize", !.round = round, !.flight = None,
                       !.stale = rejected, !.late = id(r) \in expired]]

\* The client key is known, the body was read and the egress proxy resolved.
Admit(r) ==
    /\ At(r, "new")
    /\ Begin(r, 1)
    /\ UNCHANGED <<materials, whoami, expired, tasks, flights, result, rejected>>

\* Unknown client key, unreadable body or unresolved egress proxy.
Refuse(r) ==
    /\ At(r, "new")
    /\ Return(r)
    /\ UNCHANGED <<materials, whoami, expired, tasks, flights, result, rejected>>

-----------------------------------------------------------------------------
(* AuthorizeForAccount.  When it fails, the first authorisation is answered *)
(* 502 and the second returns the 401 that caused it: done either way.      *)

\* personalAccessTokenForAccount: a hit never expires.
WhoAmICached(r) ==
    /\ At(r, "authorize") /\ IsPersonalAccessToken(r)
    /\ Goto(r, IF id(r) \in whoami THEN "send" ELSE "whoami")
    /\ UNCHANGED <<materials, whoami, expired, tasks, flights, result, rejected>>

WhoAmI(r) ==
    /\ At(r, "whoami")
    /\ \/ Goto(r, "send") /\ whoami' = whoami \cup {id(r)}
       \/ Return(r) /\ UNCHANGED whoami
    /\ UNCHANGED <<materials, expired, tasks, flights, result, rejected>>

\* The token is valid now.
VerifyJWT(r) == id(r) \notin expired

\* Mutant: a cached material is used without looking at the clock.
materialUnexpiring(r) ==
    /\ At(r, "authorize") /\ ~IsPersonalAccessToken(r)
    /\ IF id(r) \in materials
       THEN Goto(r, "task") /\ UNCHANGED materials
       ELSE /\ materials' = materials \ {id(r)}
            /\ req' = [req EXCEPT ![r] = [@ EXCEPT !.pc = "parse", !.ok = VerifyJWT(r)]]
    /\ UNCHANGED <<whoami, expired, tasks, flights, result, rejected>>

\* The first half of material.  On a miss the entry goes and the token will be
\* verified as of now.
material(r) ==
    /\ At(r, "authorize") /\ ~IsPersonalAccessToken(r)
    /\ IF id(r) \in materials /\ id(r) \notin expired
       THEN Goto(r, "task") /\ UNCHANGED materials
       ELSE /\ materials' = materials \ {id(r)}
            /\ req' = [req EXCEPT ![r] = [@ EXCEPT !.pc = "parse", !.ok = VerifyJWT(r)]]
    /\ UNCHANGED <<whoami, expired, tasks, flights, result, rejected>>

\* ParseWithCache, which may fetch the JWKS, and the second half of material.
ParseWithCache(r) ==
    /\ At(r, "parse")
    /\ \/ /\ req[r].ok /\ materials' = materials \cup {id(r)}
          /\ req' = [req EXCEPT ![r] = [@ EXCEPT !.pc = "task", !.ok = FALSE]]
       \/ Return(r) /\ UNCHANGED materials
    /\ UNCHANGED <<whoami, expired, tasks, flights, result, rejected>>

\* task: reuse the cached task, join the flight for the key, or lead a new one.
TaskCached(r) ==
    /\ At(r, "task")
    /\ tasks[taskKey(r)] # None
    /\ Move(r, "send", tasks[taskKey(r)])
    /\ UNCHANGED <<materials, whoami, expired, tasks, flights, result, rejected>>

JoinFlight(r) ==
    /\ At(r, "task")
    /\ tasks[taskKey(r)] = None /\ flights[taskKey(r)] # None
    /\ Move(r, "wait", flights[taskKey(r)])
    /\ UNCHANGED <<materials, whoami, expired, tasks, flights, result, rejected>>

Lead(r) ==
    /\ flights' = [flights EXCEPT ![taskKey(r)] = <<r, req[r].round>>]
    /\ req' = [req EXCEPT ![r] = [@ EXCEPT !.pc = "register", !.attempt = 1, !.ok = FALSE,
                          !.flight = <<r, req[r].round>>]]
    /\ UNCHANGED <<materials, whoami, expired, tasks, result, rejected>>

\* Mutant: every request without a cached task registers one of its own.
LeadFlightAlways(r) ==
    /\ At(r, "task")
    /\ tasks[taskKey(r)] = None
    /\ Lead(r)

LeadFlight(r) ==
    /\ At(r, "task")
    /\ tasks[taskKey(r)] = None /\ flights[taskKey(r)] = None
    /\ Lead(r)

\* registerTask: an attempt ends, with a task, with an error worth another
\* attempt, or for good.
RegisterTask(r) ==
    /\ At(r, "register")
    /\ \/ \E ok \in BOOLEAN : req' = [req EXCEPT ![r] = [@ EXCEPT !.pc = "store", !.ok = ok]]
       \/ req[r].attempt < registerAttempts /\ Goto(r, "backoff")
    /\ UNCHANGED <<materials, whoami, expired, tasks, flights, result, rejected>>

\* The timer of the select after a retryable error.
Backoff(r) ==
    /\ At(r, "backoff")
    /\ req' = [req EXCEPT ![r] = [@ EXCEPT !.pc = "register", !.attempt = req[r].attempt + 1]]
    /\ UNCHANGED <<materials, whoami, expired, tasks, flights, result, rejected>>

\* The task is known: the assertion is built and the request is sent.
Deliver(r, task) ==
    req' = [req EXCEPT ![r] = [@ EXCEPT !.pc = "send", !.attempt = 1, !.ok = FALSE, !.flight = task]]

\* Mutant: a failed registration leaves its flight in the map, done unclosed.
FinishFlightOnSuccessOnly(r) ==
    /\ At(r, "store")
    /\ IF req[r].ok
       THEN /\ tasks' = [tasks EXCEPT ![taskKey(r)] = req[r].flight]
            /\ flights' = [flights EXCEPT ![taskKey(r)] = None]
            /\ result' = [result EXCEPT ![req[r].flight] = "ok"]
       ELSE UNCHANGED <<tasks, flights, result>>
    /\ IF req[r].ok THEN Deliver(r, req[r].flight) ELSE Return(r)
    /\ UNCHANGED <<materials, whoami, expired, rejected>>

\* The second critical section of task: cache, remove the flight, close done.
FinishFlight(r) ==
    /\ At(r, "store")
    /\ tasks' = IF req[r].ok THEN [tasks EXCEPT ![taskKey(r)] = req[r].flight] ELSE tasks
    /\ flights' = [flights EXCEPT ![taskKey(r)] = None]
    /\ result' = [result EXCEPT ![req[r].flight] = IF req[r].ok THEN "ok" ELSE "failed"]
    /\ IF req[r].ok THEN Deliver(r, req[r].flight) ELSE Return(r)
    /\ UNCHANGED <<materials, whoami, expired, rejected>>

\* The done channel of a follower's select.
AwaitFlight(r) ==
    /\ At(r, "wait")
    /\ \/ result[req[r].flight] = "ok" /\ Goto(r, "send")
       \/ result[req[r].flight] = "failed" /\ Return(r)
    /\ UNCHANGED <<materials, whoami, expired, tasks, flights, result, rejected>>

-----------------------------------------------------------------------------
(* authorizationRetryTransport.RoundTrip                                   *)

\* Any answer but a 401, an error, or a 401 that is passed on: a personal
\* access token's, or the second of an Agent Identity.
Answer(r) ==
    /\ At(r, "send")
    /\ req' = [req EXCEPT ![r] = Returned(r, req[r].sent + 1, req[r].refused)]
    /\ UNCHANGED <<materials, whoami, expired, tasks, flights, result, rejected>>

MayRetry(r) == ~IsPersonalAccessToken(r) /\ req[r].round = 1

Retry(r) ==
    IF req[r].replayable
    THEN req' = [req EXCEPT ![r] = [@ EXCEPT !.pc = "authorize", !.round = 2, !.flight = None,
                            !.sent = req[r].sent + 1, !.refused = TRUE,
                            !.stale = rejected', !.late = id(r) \in expired]]
    ELSE req' = [req EXCEPT ![r] = Returned(r, req[r].sent + 1, TRUE)]

\* Mutant: the rejected task stays in the cache.
UnauthorizedKeepingTask(r) ==
    /\ At(r, "send") /\ MayRetry(r)
    /\ rejected' = rejected \cup {req[r].flight}
    /\ Retry(r)
    /\ UNCHANGED <<materials, whoami, expired, tasks, flights, result>>

\* Mutant: the retry is itself retried.
UnauthorizedAlways(r) ==
    /\ At(r, "send") /\ ~IsPersonalAccessToken(r)
    /\ tasks' = [tasks EXCEPT ![taskKey(r)] = None]
    /\ rejected' = rejected \cup {req[r].flight}
    /\ Retry(r)
    /\ UNCHANGED <<materials, whoami, expired, flights, result>>

\* The first 401 of an Agent Identity: InvalidateTask deletes whatever task the
\* key has now, and a replayable request authorises again.
Unauthorized(r) ==
    /\ At(r, "send") /\ MayRetry(r)
    /\ tasks' = [tasks EXCEPT ![taskKey(r)] = None]
    /\ rejected' = rejected \cup {req[r].flight}
    /\ Retry(r)
    /\ UNCHANGED <<materials, whoami, expired, flights, result>>

-----------------------------------------------------------------------------
(* The environment                                                         *)

\* The client goes away while its handler is in a select: a follower returns,
\* a leader gives up its registration.
ContextDone(r) ==
    /\ \/ At(r, "wait") /\ Return(r)
       \/ At(r, "backoff") /\ Goto(r, "store")
    /\ UNCHANGED <<materials, whoami, expired, tasks, flights, result, rejected>>

Expire(i) ==
    /\ i \notin Pats /\ i \notin expired
    /\ expired' = expired \cup {i}
    /\ UNCHANGED <<materials, whoami, tasks, flights, result, req, rejected>>

\* What the handler of r does, once admitted.
Handle(r) ==
    \/ WhoAmICached(r) \/ WhoAmI(r) \/ material(r) \/ ParseWithCache(r)
    \/ TaskCached(r) \/ JoinFlight(r) \/ LeadFlight(r)
    \/ RegisterTask(r) \/ Backoff(r) \/ FinishFlight(r) \/ AwaitFlight(r)
    \/ Answer(r) \/ Unauthorized(r)

Next ==
    \/ \E r \in Requests : Admit(r) \/ Refuse(r) \/ Handle(r) \/ ContextDone(r)
    \/ \E i \in Identities : Expire(i)

Spec == Init /\ [][Next]_vars

\* Handlers run until they return: the calls of identity.Manager have a client
\* timeout, and every select has a timer or a done channel.  The upstream round
\* trip has no deadline of its own; it is assumed to end, in an answer or in the
\* error that the client's hanging up makes of it.
FairSpec == Spec /\ \A r \in Requests : WF_vars(Handle(r))

-----------------------------------------------------------------------------
(* Properties                                                              *)

\* Every variable stays within its type.
TypeOK ==
    /\ materials \subseteq Identities \ Pats
    /\ whoami \subseteq Pats
    /\ expired \subseteq Identities \ Pats
    /\ tasks \in [TaskKeys -> Flights \cup {None}]
    /\ flights \in [TaskKeys -> Flights \cup {None}]
    /\ result \in [Flights -> {"open", "ok", "failed"}]
    /\ req \in [Requests -> Request]
    /\ rejected \subseteq Flights

\* At most one registration per key is under way, a key has a flight exactly
\* while its leader has not finished, and then no task is cached for it: two
\* concurrent requests never register two tasks, and nobody waits for a flight
\* that has no leader.
SingleFlight ==
    /\ \A r, s \in Requests :
         (req[r].pc \in Leading /\ req[s].pc \in Leading /\ taskKey(r) = taskKey(s)) => r = s
    /\ \A r \in Requests : req[r].pc \in Leading =>
         flights[taskKey(r)] = req[r].flight /\ tasks[taskKey(r)] = None
    /\ \A k \in TaskKeys : flights[k] # None =>
         \E r \in Requests : req[r].pc \in Leading /\ req[r].flight = flights[k]

\* An authorisation that starts after a 401 has invalidated a task never sends
\* that task again, whether it finds it cached or receives it from a flight; in
\* particular the retry of a request never repeats the rejected task.
NoStaleTask ==
    \A r \in Requests : At(r, "send") => req[r].flight \notin req[r].stale

\* A request is only ever sent with a task that was registered for its own
\* identity and session.
OwnTask ==
    \A r \in Requests : (At(r, "send") /\ req[r].flight # None) =>
       req[req[r].flight[1]].key = req[r].key

\* A request reaches the upstream at most twice, and twice only if it is an
\* Agent Identity request with a replayable body whose first answer was a 401.
AtMostOneRetry ==
    \A r \in Requests : LET total == req[r].sent + (IF At(r, "send") THEN 1 ELSE 0) IN
      /\ total <= 2
      /\ total = 2 => req[r].refused /\ req[r].replayable /\ ~IsPersonalAccessToken(r)

\* A request whose authorisation starts after its JWT expired is not sent, even
\* if the material was verified and cached before.
ExpiredNotSent ==
    \A r \in Requests : At(r, "send") => ~req[r].late

\* A key consumes one registration, plus at most one per 401 it has met, however
\* many requests race for it.
RegistrationsBounded ==
    \A k \in TaskKeys :
      Cardinality({f \in Flights : result[f] = "ok" /\ req[f[1]].key = k})
        <= 1 + Cardinality({r \in Requests : req[r].refused /\ req[r].key = k})

\* Every admitted request is answered, whoever registers, fails or goes away.
EventuallyAnswered ==
    \A r \in Requests : At(r, "authorize") ~> At(r, "done")

\* The task cache with its flights implements TaskSlots: whatever requests do
\* concurrently, a key goes from empty through one registration to one task and
\* back, and no registration stays open for ever.
Slots == INSTANCE TaskSlots WITH
    Tasks <- Flights, NoTask <- None, held <- tasks,
    busy <- {k \in TaskKeys : flights[k] # None},
    issued <- {f \in Flights : result[f] = "ok"}

\* Every step of the maps is one of TaskSlots: no task appears without a
\* registration that was under way, and no key has two.
ImplementsSlots == Slots!SafeSpec

\* ... and every registration that starts also ends, so that no follower waits
\* for ever on a flight that its leader gave up.
ImplementsFairSlots == Slots!Spec
=============================================================================
