------------------------- MODULE TaskManagerProofs -------------------------
(***************************************************************************)
(* Proofs about TaskManager for any number of requests, identities and     *)
(* sessions.  The inductive invariant Inv follows one flight through its   *)
(* life: it is open before its request leads it, open and in the flights   *)
(* map while the request leads, closed for ever after, and it is rejected  *)
(* only once it is closed and out of the cache.                            *)
(***************************************************************************)
EXTENDS TaskManager, FiniteSetTheorems, TLAPS

Started == {"authorize", "whoami", "parse", "task"}

\* The key of the request that led flight f.
KeyOf(f) == req[f[1]].key

Pat(q) == q.key[1] \in Pats

\* A request in state q has not led its n-th flight yet.
Unled(q, n) ==
    \/ q.pc = "new"
    \/ q.pc # "done" /\ q.round < n
    \/ q.pc \in Started /\ q.round = n

FlightInv ==
    /\ \A r \in Requests, n \in {1, 2} : Unled(req[r], n) => result[<<r, n>>] = "open"
    /\ \A r \in Requests : req[r].pc \in Leading =>
         /\ req[r].flight = <<r, req[r].round>>
         /\ result[req[r].flight] = "open"
         /\ flights[req[r].key] = req[r].flight
         /\ tasks[req[r].key] = None
    /\ \A k \in TaskKeys : flights[k] # None =>
         /\ KeyOf(flights[k]) = k
         /\ req[flights[k][1]].pc \in Leading
         /\ req[flights[k][1]].flight = flights[k]

TaskInv ==
    /\ \A k \in TaskKeys : tasks[k] # None =>
         result[tasks[k]] = "ok" /\ tasks[k] \notin rejected /\ KeyOf(tasks[k]) = k
    /\ \A f \in rejected : result[f] = "ok"

\* What a request in state q has in hand.
HandInv(q) ==
    /\ q.stale \subseteq rejected
    /\ q.pc = "wait" =>
         q.flight # None /\ KeyOf(q.flight) = q.key /\ q.flight \notin q.stale
    /\ (q.pc = "send" /\ ~Pat(q)) =>
         /\ q.flight # None /\ KeyOf(q.flight) = q.key
         /\ q.flight \notin q.stale /\ result[q.flight] = "ok"
    /\ (q.pc \in {"authorize", "whoami"} \/ (q.pc = "send" /\ Pat(q))) => q.flight = None
    /\ Pat(q) => q.pc \in {"new", "authorize", "whoami", "send", "done"}
    /\ q.pc = "whoami" => Pat(q)
    /\ q.pc = "backoff" => q.attempt < registerAttempts

\* How often a request in state q was sent.
SentInv(q) ==
    /\ (q.round = 1 /\ q.pc # "done") => q.sent = 0
    /\ q.pc = "new" => q.round = 1
    /\ q.round = 2 => q.sent = 1 /\ q.refused /\ q.replayable /\ ~Pat(q) /\ q.pc # "done"
    /\ q.sent = 2 => q.refused /\ q.replayable /\ ~Pat(q)

\* Whether a request in state q started after its JWT had expired.
LateInv(q) ==
    /\ q.late => q.key[1] \in expired /\ q.pc \in {"new", "authorize", "parse", "done"} /\ ~q.ok
    /\ q.pc \notin {"parse", "store"} => ~q.ok

Inv ==
    /\ TypeOK /\ FlightInv /\ TaskInv
    /\ \A r \in Requests : HandInv(req[r]) /\ SentInv(req[r]) /\ LateInv(req[r])

\* A request outside its handler is well typed.
LEMMA OutsideFacts ==
    ASSUME NEW pc \in Pcs, NEW k \in TaskKeys, NEW b \in BOOLEAN, NEW n \in 0..2, NEW c \in BOOLEAN
    PROVE  Outside(pc, k, b, n, c) \in Request
BY DEF Outside, Request, registerAttempts

\* The invariant holds before the first request.
LEMMA InitInv == Init => Inv
<1> SUFFICES ASSUME Init PROVE Inv
  OBVIOUS
<1>1. /\ req \in [Requests -> Request]
      /\ \A r \in Requests :
           /\ req[r].pc = "new" /\ req[r].round = 1 /\ req[r].sent = 0 /\ req[r].flight = None
           /\ req[r].stale = {} /\ ~req[r].late /\ ~req[r].ok
  <2>1. PICK key \in [Requests -> TaskKeys], replayable \in [Requests -> BOOLEAN] :
          req = [r \in Requests |-> Outside("new", key[r], replayable[r], 0, FALSE)]
    BY Zenon DEF Init
  <2>2. \A r \in Requests : key[r] \in TaskKeys /\ replayable[r] \in BOOLEAN
    OBVIOUS
  <2> QED
    BY <2>1, <2>2 DEF Outside, Request, Pcs, registerAttempts
<1>2. TypeOK
  BY <1>1, Zenon DEF Init, TypeOK
<1>3. FlightInv /\ TaskInv
  BY <1>1, Zenon DEF Init, FlightInv, TaskInv, Flights, Leading
<1>4. \A r \in Requests : HandInv(req[r]) /\ SentInv(req[r]) /\ LateInv(req[r])
  BY <1>1 DEF HandInv, SentInv, LateInv
<1> QED
  BY <1>2, <1>3, <1>4 DEF Inv

-----------------------------------------------------------------------------
(* Steps that change one request and none of the shared maps               *)

\* A step of one request that leaves tasks and flights alone keeps the
\* invariant if the new state of the request satisfies its own part of it.
LEMMA RequestStep ==
    ASSUME Inv, NEW r \in Requests, NEW q \in Request, req' = [req EXCEPT ![r] = q],
           q.key = req[r].key,
           materials' \subseteq Identities \ Pats, whoami' \subseteq Pats,
           UNCHANGED <<expired, tasks, flights, result, rejected>>,
           \A n \in {1, 2} : Unled(q, n) => Unled(req[r], n),
           q.pc \in Leading <=> req[r].pc \in Leading,
           q.pc \in Leading => q.flight = req[r].flight /\ q.round = req[r].round,
           HandInv(q), SentInv(q), LateInv(q)
    PROVE  Inv'
<1>0. /\ req' \in [Requests -> Request] /\ req'[r] = q
      /\ \A s \in Requests : s # r => req'[s] = req[s]
  BY DEF Inv, TypeOK
<1>1. \A s \in Requests : req'[s].key = req[s].key
  BY <1>0
<1>2. \A f \in Flights : KeyOf(f)' = KeyOf(f)
  BY <1>1 DEF KeyOf, Flights
<1>3. TypeOK'
  BY <1>0 DEF Inv, TypeOK
<1>4. FlightInv'
  <2>1. ASSUME NEW s \in Requests, NEW n \in {1, 2}, Unled(req'[s], n)
        PROVE  result'[<<s, n>>] = "open"
    <3>1. Unled(req[s], n)
      <4>1. CASE s = r
        BY <1>0, <2>1, <4>1
      <4>2. CASE s # r
        BY <1>0, <2>1, <4>2
      <4> QED
        BY <4>1, <4>2
    <3> QED
      BY <3>1, Zenon DEF Inv, FlightInv
  <2>2. ASSUME NEW s \in Requests, req'[s].pc \in Leading
        PROVE  /\ req'[s].flight = <<s, req'[s].round>>
               /\ result'[req'[s].flight] = "open"
               /\ flights'[req'[s].key] = req'[s].flight
               /\ tasks'[req'[s].key] = None
    BY <1>0, <1>1, <2>2 DEF Inv, FlightInv
  <2>3. ASSUME NEW k \in TaskKeys, flights'[k] # None
        PROVE  /\ KeyOf(flights[k]) = k
               /\ req'[flights'[k][1]].pc \in Leading
               /\ req'[flights'[k][1]].flight = flights'[k]
    <3>1. flights[k] \in Flights /\ flights[k][1] \in Requests
      BY <2>3 DEF Inv, TypeOK, Flights
    <3> QED
      BY <1>0, <2>3, <3>1 DEF Inv, FlightInv
  <2>4. \A k \in TaskKeys : flights[k] # None => KeyOf(flights[k])' = KeyOf(flights[k])
    BY <1>2 DEF Inv, TypeOK
  <2> QED
    BY <2>1, <2>2, <2>3, <2>4 DEF FlightInv, Unled, KeyOf
<1>5. TaskInv'
  BY <1>2 DEF Inv, TypeOK, TaskInv
<1>6. \A s \in Requests : HandInv(req[s])' /\ SentInv(req[s])' /\ LateInv(req[s])'
  <2>1. \A s \in Requests : HandInv(req'[s]) /\ SentInv(req'[s]) /\ LateInv(req'[s])
    BY <1>0 DEF Inv
  <2>2. \A s \in Requests : req'[s].flight \in Flights \cup {None}
    BY <1>0 DEF Request
  <2>3. \A s \in Requests : HandInv(req[s])'
    BY <1>2, <2>1, <2>2, Zenon DEF HandInv, Pat
  <2> QED
    BY <2>1, <2>3 DEF SentInv, LateInv, Pat
<1> QED
  BY <1>3, <1>4, <1>5, <1>6 DEF Inv

\* The typed fields of a request, and its key.
LEMMA Fields ==
    ASSUME Inv, NEW r \in Requests
    PROVE  /\ req[r] \in Request /\ req[r].key \in TaskKeys /\ id(r) \in Identities
           /\ req[r].flight \in Flights \cup {None} /\ req[r].round \in {1, 2}
           /\ HandInv(req[r]) /\ SentInv(req[r]) /\ LateInv(req[r])
BY DEF Inv, TypeOK, Request, TaskKeys, id

\* A handler that leads no flight may return, having sent its request or not.
LEMMA ReturnStep ==
    ASSUME Inv, NEW r \in Requests, NEW n \in {req[r].sent, req[r].sent + 1},
           n = req[r].sent + 1 => req[r].pc = "send",
           req' = [req EXCEPT ![r] = Returned(r, n, req[r].refused)],
           req[r].pc \notin Leading \cup {"done"},
           materials' \subseteq Identities \ Pats, whoami' \subseteq Pats,
           UNCHANGED <<expired, tasks, flights, result, rejected>>
    PROVE  Inv'
<1> DEFINE q == Returned(r, n, req[r].refused)
<1>1. /\ req[r].sent \in 0..2 /\ req[r].round \in {1, 2} /\ req[r].key \in TaskKeys
      /\ req[r].replayable \in BOOLEAN /\ req[r].refused \in BOOLEAN
      /\ SentInv(req[r]) /\ req[r].pc # "done"
  BY DEF Inv, TypeOK, Request
<1>2. n \in 0..2 /\ (n = 2 => req[r].refused /\ req[r].replayable /\ ~Pat(req[r]))
  BY <1>1 DEF SentInv
<1>3. q \in Request
  BY <1>1, <1>2, OutsideFacts DEF Returned, Pcs
<1>4. /\ q.pc = "done" /\ q.key = req[r].key /\ q.round = 1 /\ q.sent = n /\ q.flight = None
      /\ q.refused = req[r].refused /\ q.replayable = req[r].replayable
      /\ q.stale = {} /\ q.late = FALSE /\ q.ok = FALSE
  BY DEF Returned, Outside
<1>5. req' = [req EXCEPT ![r] = q]
  OBVIOUS
<1> HIDE DEF q
<1>6. SentInv(q) /\ HandInv(q) /\ LateInv(q)
  BY <1>2, <1>4 DEF SentInv, HandInv, LateInv, Pat
<1> QED
  BY <1>3, <1>4, <1>5, <1>6, RequestStep, Zenon DEF Unled, Leading, Started

\* The state q differs from p at most in pc, attempt, ok and flight.
SameRequest(q, p) ==
    /\ q.key = p.key /\ q.replayable = p.replayable /\ q.round = p.round
    /\ q.sent = p.sent /\ q.refused = p.refused /\ q.stale = p.stale /\ q.late = p.late

\* A step of r that leaves its authorisation, and changes nothing that is shared.
LEMMA SameStep ==
    ASSUME Inv, NEW r \in Requests, NEW q \in Request, req' = [req EXCEPT ![r] = q],
           SameRequest(q, req[r]),
           materials' \subseteq Identities \ Pats, whoami' \subseteq Pats,
           UNCHANGED <<expired, tasks, flights, result, rejected>>,
           req[r].pc \notin {"new", "done"}, q.pc \notin {"new", "done"},
           q.pc \in Started => req[r].pc \in Started,
           q.pc \in Leading <=> req[r].pc \in Leading,
           q.pc \in Leading => q.flight = req[r].flight,
           HandInv(q), LateInv(q)
    PROVE  Inv'
<1>1. SentInv(q)
  BY Fields DEF SentInv, SameRequest, Pat
<1>2. \A n \in {1, 2} : Unled(q, n) => Unled(req[r], n)
  BY DEF Unled, SameRequest
<1> QED
  BY <1>1, <1>2, RequestStep, Zenon DEF SameRequest

\* The first authorisation of a request starts.
LEMMA AdmitStep == ASSUME NEW r \in Requests, Inv, Admit(r) PROVE Inv'
<1> DEFINE q == [req[r] EXCEPT !.pc = "authorize", !.round = 1, !.flight = None,
                               !.stale = rejected, !.late = id(r) \in expired]
<1>1. req[r] \in Request /\ rejected \subseteq Flights /\ (id(r) \in expired) \in BOOLEAN
  BY Fields DEF Inv, TypeOK
<1>2. q \in Request
  BY <1>1, Zenon DEF Request, Pcs
<1>3. q.pc = "authorize" /\ q.round = 1 /\ q.flight = None /\ q.stale = rejected
  BY <1>1 DEF Request
<1>4. q.late = (id(r) \in expired) /\ q.key = req[r].key /\ q.sent = req[r].sent /\ q.ok = req[r].ok
  BY <1>1 DEF Request
<1>5. req' = [req EXCEPT ![r] = q] /\ req[r].pc = "new"
  BY DEF Admit, Begin, At
<1> HIDE DEF q
<1>6. req[r].round = 1 /\ req[r].sent = 0 /\ ~req[r].ok
  BY <1>5, Fields DEF SentInv, LateInv
<1>7. HandInv(q) /\ SentInv(q) /\ LateInv(q)
  <2>1. HandInv(q)
    BY <1>3 DEF HandInv
  <2>2. SentInv(q)
    BY <1>3, <1>4, <1>6 DEF SentInv
  <2>3. LateInv(q)
    BY <1>3, <1>4, <1>6, Zenon DEF LateInv, id
  <2> QED
    BY <2>1, <2>2, <2>3
<1>8. \A n \in {1, 2} : Unled(q, n) => Unled(req[r], n)
  BY <1>5 DEF Unled
<1>9. /\ materials' \subseteq Identities \ Pats /\ whoami' \subseteq Pats
      /\ UNCHANGED <<expired, tasks, flights, result, rejected>>
  BY DEF Admit, Inv, TypeOK
<1> QED
  BY <1>2, <1>3, <1>4, <1>5, <1>7, <1>8, <1>9, RequestStep, Zenon DEF Leading

\* Moving to another place changes nothing else of a request.
LEMMA GotoFacts ==
    ASSUME Inv, NEW r \in Requests, NEW pc \in Pcs
    PROVE  LET q == [req[r] EXCEPT !.pc = pc] IN
           /\ q \in Request /\ SameRequest(q, req[r]) /\ q.pc = pc
           /\ q.ok = req[r].ok /\ q.flight = req[r].flight /\ q.attempt = req[r].attempt
<1> DEFINE q == [req[r] EXCEPT !.pc = pc]
<1>1. req[r] \in Request
  BY Fields
<1>2. /\ q \in Request /\ q.pc = pc /\ q.ok = req[r].ok
      /\ q.flight = req[r].flight /\ q.attempt = req[r].attempt
  BY <1>1 DEF Request
<1>3. SameRequest(q, req[r])
  BY <1>1 DEF Request, SameRequest
<1> QED
  BY <1>2, <1>3

\* Recording how a call will end changes nothing else of a request.
LEMMA OkFacts ==
    ASSUME Inv, NEW r \in Requests, NEW pc \in Pcs, NEW ok \in BOOLEAN
    PROVE  LET q == [req[r] EXCEPT !.pc = pc, !.ok = ok] IN
           q \in Request /\ SameRequest(q, req[r]) /\ q.pc = pc /\ q.ok = ok /\ q.flight = req[r].flight
<1> DEFINE q == [req[r] EXCEPT !.pc = pc, !.ok = ok]
<1>1. req[r] \in Request
  BY Fields
<1>2. q \in Request
  BY <1>1, Zenon DEF Request
<1>3. q.pc = pc /\ q.ok = ok /\ q.flight = req[r].flight
  BY <1>1 DEF Request
<1>4. SameRequest(q, req[r])
  BY <1>1 DEF Request, SameRequest
<1> QED
  BY <1>2, <1>3, <1>4

\* Taking a task or a flight changes nothing else of a request.
LEMMA MoveFacts ==
    ASSUME Inv, NEW r \in Requests, NEW pc \in Pcs, NEW f \in Flights
    PROVE  LET q == [req[r] EXCEPT !.pc = pc, !.flight = f] IN
           /\ q \in Request /\ SameRequest(q, req[r]) /\ q.pc = pc
           /\ q.ok = req[r].ok /\ q.flight = f
<1> DEFINE q == [req[r] EXCEPT !.pc = pc, !.flight = f]
<1>1. req[r] \in Request
  BY Fields
<1>2. q \in Request
  BY <1>1, Zenon DEF Request
<1>3. q.pc = pc /\ q.ok = req[r].ok /\ q.flight = f
  BY <1>1 DEF Request
<1>4. SameRequest(q, req[r])
  BY <1>1 DEF Request, SameRequest
<1> QED
  BY <1>2, <1>3, <1>4

\* Goto within an authorisation.
LEMMA GotoStep ==
    ASSUME Inv, NEW r \in Requests, NEW pc \in Pcs \ {"new", "done"}, Goto(r, pc),
           materials' \subseteq Identities \ Pats, whoami' \subseteq Pats,
           UNCHANGED <<expired, tasks, flights, result, rejected>>,
           req[r].pc \notin {"new", "done"},
           pc \in Started => req[r].pc \in Started,
           pc \in Leading <=> req[r].pc \in Leading,
           ~Pat(req[r]) => pc # "whoami" /\ (pc = "send" => req[r].pc = "wait" /\ result[req[r].flight] = "ok"),
           Pat(req[r]) => pc \in {"whoami", "send"} /\ req[r].pc \in {"authorize", "whoami"},
           pc \notin {"wait", "authorize"},
           req[r].late => pc = "parse",
           req[r].pc \in {"parse", "store"} => ~req[r].ok,
           pc = "backoff" => req[r].attempt < registerAttempts
    PROVE  Inv'
<1> DEFINE q == [req[r] EXCEPT !.pc = pc]
<1>1. /\ q \in Request /\ SameRequest(q, req[r]) /\ q.pc = pc
      /\ q.ok = req[r].ok /\ q.flight = req[r].flight /\ q.attempt = req[r].attempt
      /\ req' = [req EXCEPT ![r] = q]
  BY GotoFacts DEF Goto
<1> HIDE DEF q
<1>2. HandInv(req[r]) /\ LateInv(req[r])
  BY Fields
<1>3. HandInv(q)
  BY <1>1, <1>2, Zenon DEF HandInv, SameRequest, Pat
<1>4. LateInv(q)
  BY <1>1, <1>2 DEF LateInv, SameRequest
<1> QED
  BY <1>1, <1>3, <1>4, SameStep, Zenon

\* A request is refused, or answered.
LEMMA RefuseStep == ASSUME NEW r \in Requests, Inv, Refuse(r) \/ Answer(r) PROVE Inv'
<1>1. /\ materials' \subseteq Identities \ Pats /\ whoami' \subseteq Pats
      /\ UNCHANGED <<expired, tasks, flights, result, rejected>>
  BY DEF Refuse, Answer, Inv, TypeOK
<1>2. CASE Refuse(r)
  <2>1. req' = [req EXCEPT ![r] = Returned(r, req[r].sent, req[r].refused)] /\ req[r].pc = "new"
    BY <1>2 DEF Refuse, Return, At
  <2>2. req[r].sent # req[r].sent + 1
    BY DEF Inv, TypeOK, Request
  <2> QED
    BY <1>1, <2>1, <2>2, ReturnStep, Zenon DEF Leading
<1>3. CASE Answer(r)
  <2>1. req' = [req EXCEPT ![r] = Returned(r, req[r].sent + 1, req[r].refused)] /\ req[r].pc = "send"
    BY <1>3 DEF Answer, At
  <2> QED
    BY <1>1, <2>1, ReturnStep, Zenon DEF Leading
<1> QED
  BY <1>2, <1>3

\* A failed authorisation.
LEMMA FailStep ==
    ASSUME Inv, NEW r \in Requests, Return(r), req[r].pc \in {"whoami", "parse", "wait"},
           UNCHANGED <<materials, whoami, expired, tasks, flights, result, rejected>>
    PROVE  Inv'
<1>1. materials' \subseteq Identities \ Pats /\ whoami' \subseteq Pats
  BY DEF Inv, TypeOK
<1>2. req[r].sent # req[r].sent + 1
  BY DEF Inv, TypeOK, Request
<1> QED
  BY <1>1, <1>2, ReturnStep, Zenon DEF Leading, Return

\* The personal access token is looked up, in the cache or by a call.
LEMMA WhoAmIStep == ASSUME NEW r \in Requests, Inv, WhoAmICached(r) \/ WhoAmI(r) PROVE Inv'
<1>1. /\ materials' \subseteq Identities \ Pats
      /\ UNCHANGED <<expired, tasks, flights, result, rejected>>
  BY DEF WhoAmICached, WhoAmI, Inv, TypeOK
<1>2. Pat(req[r]) /\ ~req[r].late /\ req[r].pc \in {"authorize", "whoami"}
  <2>1. Pat(req[r]) /\ req[r].pc \in {"authorize", "whoami"}
    BY Fields, Zenon DEF WhoAmICached, WhoAmI, At, HandInv, Pat, IsPersonalAccessToken, id
  <2>2. req[r].late => req[r].key[1] \in expired
    BY Fields DEF LateInv
  <2> QED
    BY <2>1, <2>2 DEF Inv, TypeOK, Pat
<1>3. CASE WhoAmICached(r)
  <2>1. whoami' \subseteq Pats
    BY <1>3 DEF WhoAmICached, Inv, TypeOK
  <2> QED
    BY <1>1, <1>2, <1>3, <2>1, GotoStep DEF WhoAmICached, Pcs, Started, Leading
<1>4. CASE WhoAmI(r) /\ Goto(r, "send")
  <2>1. whoami' \subseteq Pats
    BY <1>2, <1>4, GotoFacts DEF WhoAmI, Inv, TypeOK, Pat, id, Return, Goto
  <2> QED
    BY <1>1, <1>2, <1>4, <2>1, GotoStep DEF Pcs, Started, Leading
<1>5. CASE WhoAmI(r) /\ Return(r) /\ UNCHANGED whoami
  BY <1>5, FailStep DEF WhoAmI, At
<1> QED
  BY <1>3, <1>4, <1>5 DEF WhoAmICached, WhoAmI

\* The cached material is used, or dropped because it has expired.
LEMMA MaterialStep == ASSUME NEW r \in Requests, Inv, material(r) PROVE Inv'
<1>1. /\ UNCHANGED <<expired, tasks, flights, result, rejected>> /\ whoami' \subseteq Pats
      /\ req[r].pc = "authorize" /\ ~Pat(req[r])
  BY DEF material, Inv, TypeOK, At, IsPersonalAccessToken, id, Pat
<1>2. materials' \subseteq Identities \ Pats
  BY DEF material, Inv, TypeOK
<1>3. HandInv(req[r]) /\ LateInv(req[r])
  BY Fields
<1>4. CASE id(r) \in materials /\ id(r) \notin expired
  <2>1. ~req[r].late
    BY <1>3, <1>4 DEF LateInv, id
  <2>2. Goto(r, "task")
    BY <1>4 DEF material
  <2> QED
    BY <1>1, <1>2, <2>1, <2>2, GotoStep DEF Pcs, Started, Leading
<1>5. CASE ~(id(r) \in materials /\ id(r) \notin expired)
  <2>1. PICK ok \in BOOLEAN : ok = (id(r) \notin expired)
    BY Zenon
  <2> DEFINE q == [req[r] EXCEPT !.pc = "parse", !.ok = ok]
  <2>2. req' = [req EXCEPT ![r] = q]
    BY <1>5, <2>1 DEF material, VerifyJWT
  <2>3. /\ q \in Request /\ SameRequest(q, req[r]) /\ q.pc = "parse" /\ q.ok = ok
        /\ q.flight = req[r].flight
    <3>1. req[r] \in Request
      BY Fields
    <3>2. q \in Request
      BY <3>1, Zenon DEF Request, Pcs
    <3>3. q.pc = "parse" /\ q.ok = ok /\ q.flight = req[r].flight
      BY <3>1 DEF Request
    <3>4. SameRequest(q, req[r])
      BY <3>1 DEF Request, SameRequest
    <3> QED
      BY <3>2, <3>3, <3>4
  <2>4. req[r].late => ~ok
    BY <1>3, <2>1, Zenon DEF LateInv, id
  <2> HIDE DEF q
  <2>5. HandInv(q)
    BY <1>1, <1>3, <2>3 DEF HandInv, SameRequest, Pat
  <2>6. LateInv(q)
    BY <1>3, <2>3, <2>4 DEF LateInv, SameRequest
  <2> QED
    BY <1>1, <1>2, <2>2, <2>3, <2>5, <2>6, SameStep, Zenon DEF Started, Leading
<1> QED
  BY <1>4, <1>5

\* The token is verified and its material cached, or refused.
LEMMA ParseStep == ASSUME NEW r \in Requests, Inv, ParseWithCache(r) PROVE Inv'
<1>1. /\ UNCHANGED <<expired, tasks, flights, result, rejected>> /\ whoami' \subseteq Pats
      /\ req[r].pc = "parse" /\ id(r) \in Identities
  BY Fields DEF ParseWithCache, Inv, TypeOK, At
<1>2. HandInv(req[r]) /\ LateInv(req[r])
  BY Fields
<1>3. ~Pat(req[r]) /\ id(r) \notin Pats
  BY <1>1, <1>2 DEF HandInv, Pat, id
<1> DEFINE q == [req[r] EXCEPT !.pc = "task", !.ok = FALSE]
<1>4. CASE req[r].ok /\ materials' = materials \cup {id(r)} /\ req' = [req EXCEPT ![r] = q]
  <2>1. materials' \subseteq Identities \ Pats
    BY <1>1, <1>3, <1>4 DEF Inv, TypeOK
  <2>2. /\ q \in Request /\ SameRequest(q, req[r]) /\ q.pc = "task" /\ q.ok = FALSE
        /\ q.flight = req[r].flight
    BY OkFacts, Zenon DEF Pcs
  <2> HIDE DEF q
  <2>3. HandInv(q)
    BY <1>2, <1>3, <2>2, Zenon DEF HandInv, SameRequest, Pat
  <2>4. LateInv(q)
    BY <1>2, <1>4, <2>2 DEF LateInv, SameRequest
  <2> QED
    BY <1>1, <1>4, <2>1, <2>2, <2>3, <2>4, SameStep, Zenon DEF Started, Leading
<1>5. CASE Return(r) /\ UNCHANGED materials
  BY <1>1, <1>5, FailStep DEF ParseWithCache
<1> QED
  BY <1>4, <1>5 DEF ParseWithCache

\* A request that asks for its task: PATs never do, and no flight it can join
\* has been rejected.
LEMMA TaskStep == ASSUME NEW r \in Requests, Inv, TaskCached(r) \/ JoinFlight(r) PROVE Inv'
<1>1. /\ UNCHANGED <<materials, whoami, expired, tasks, flights, result, rejected>>
      /\ req[r].pc = "task" /\ req[r].key \in TaskKeys
  BY Fields, Zenon DEF TaskCached, JoinFlight, At
<1>2. materials' \subseteq Identities \ Pats /\ whoami' \subseteq Pats
  BY <1>1 DEF Inv, TypeOK
<1>3. HandInv(req[r]) /\ LateInv(req[r])
  BY Fields
<1>4. ~Pat(req[r]) /\ req[r].stale \subseteq rejected
  BY <1>1, <1>3 DEF HandInv
<1>5. CASE TaskCached(r)
  <2>0. PICK f \in Flights : f = tasks[req[r].key]
    BY <1>1, <1>5 DEF TaskCached, taskKey, Inv, TypeOK
  <2> DEFINE q == [req[r] EXCEPT !.pc = "send", !.flight = f]
  <2>1. f # None /\ req' = [req EXCEPT ![r] = q]
    BY <1>5, <2>0 DEF TaskCached, taskKey, Move
  <2>2. result[f] = "ok" /\ f \notin rejected /\ KeyOf(f) = req[r].key
    BY <1>1, <2>0, <2>1 DEF Inv, TaskInv
  <2>3. /\ q \in Request /\ SameRequest(q, req[r]) /\ q.pc = "send"
        /\ q.ok = req[r].ok /\ q.flight = f
    BY MoveFacts, Zenon DEF Pcs
  <2> HIDE DEF q
  <2>4. HandInv(q)
    BY <1>3, <1>4, <2>1, <2>2, <2>3, Zenon DEF HandInv, SameRequest, Pat
  <2>5. LateInv(q)
    BY <1>1, <1>3, <2>3 DEF LateInv, SameRequest
  <2> QED
    BY <1>1, <1>2, <2>1, <2>3, <2>4, <2>5, SameStep, Zenon DEF Started, Leading
<1>6. CASE JoinFlight(r)
  <2>0. PICK f \in Flights : f = flights[req[r].key]
    BY <1>1, <1>6 DEF JoinFlight, taskKey, Inv, TypeOK
  <2> DEFINE q == [req[r] EXCEPT !.pc = "wait", !.flight = f]
  <2>1. f # None /\ req' = [req EXCEPT ![r] = q]
    BY <1>6, <2>0 DEF JoinFlight, taskKey, Move
  <2>2. KeyOf(f) = req[r].key /\ req[f[1]].pc \in Leading /\ req[f[1]].flight = f
    BY <1>1, <2>0, <2>1, Zenon DEF Inv, FlightInv
  <2>3. f \notin rejected
    <3>1. f[1] \in Requests
      BY DEF Flights
    <3>2. result[f] = "open"
      BY <2>2, <3>1 DEF Inv, FlightInv
    <3> QED
      BY <3>2 DEF Inv, TaskInv
  <2>4. /\ q \in Request /\ SameRequest(q, req[r]) /\ q.pc = "wait"
        /\ q.ok = req[r].ok /\ q.flight = f
    BY MoveFacts, ZenonT(30) DEF Pcs
  <2> HIDE DEF q
  <2>5. HandInv(q)
    BY <1>3, <1>4, <2>1, <2>2, <2>3, <2>4, Zenon DEF HandInv, SameRequest, Pat
  <2>6. LateInv(q)
    BY <1>1, <1>3, <2>4 DEF LateInv, SameRequest
  <2> QED
    BY <1>1, <1>2, <2>1, <2>4, <2>5, <2>6, SameStep, Zenon DEF Started, Leading
<1> QED
  BY <1>5, <1>6

\* A registration attempt ends.
LEMMA RegisterStep == ASSUME NEW r \in Requests, Inv, RegisterTask(r) PROVE Inv'
<1>1. /\ UNCHANGED <<materials, whoami, expired, tasks, flights, result, rejected>>
      /\ req[r].pc = "register"
  BY Zenon DEF RegisterTask, At
<1>2. materials' \subseteq Identities \ Pats /\ whoami' \subseteq Pats
  BY <1>1 DEF Inv, TypeOK
<1>3. HandInv(req[r]) /\ LateInv(req[r])
  BY Fields
<1>4. ~Pat(req[r]) /\ ~req[r].late
  BY <1>1, <1>3 DEF HandInv, LateInv
<1>5. CASE req[r].attempt < registerAttempts /\ Goto(r, "backoff")
  BY <1>1, <1>2, <1>4, <1>5, GotoStep, Zenon DEF Pcs, Started, Leading
<1>6. ASSUME NEW ok \in BOOLEAN, req' = [req EXCEPT ![r] = [@ EXCEPT !.pc = "store", !.ok = ok]]
      PROVE  Inv'
  <2> DEFINE q == [req[r] EXCEPT !.pc = "store", !.ok = ok]
  <2>1. req' = [req EXCEPT ![r] = q]
    BY <1>6
  <2>2. /\ q \in Request /\ SameRequest(q, req[r]) /\ q.pc = "store" /\ q.ok = ok
        /\ q.flight = req[r].flight
    <3>1. req[r] \in Request
      BY Fields
    <3>2. q \in Request
      BY <3>1, Zenon DEF Request, Pcs
    <3>3. q.pc = "store" /\ q.ok = ok /\ q.flight = req[r].flight
      BY <3>1 DEF Request
    <3>4. SameRequest(q, req[r])
      BY <3>1 DEF Request, SameRequest
    <3> QED
      BY <3>2, <3>3, <3>4
  <2> HIDE DEF q
  <2>3. HandInv(q)
    BY <1>3, <1>4, <2>2, Zenon DEF HandInv, SameRequest, Pat
  <2>4. LateInv(q)
    BY <1>4, <2>2 DEF LateInv, SameRequest
  <2> QED
    BY <1>1, <1>2, <2>1, <2>2, <2>3, <2>4, SameStep, Zenon DEF Started, Leading
<1> QED
  BY <1>5, <1>6, Zenon DEF RegisterTask

\* The next attempt of a registration starts.
LEMMA BackoffStep == ASSUME NEW r \in Requests, Inv, Backoff(r) PROVE Inv'
<1> DEFINE q == [req[r] EXCEPT !.pc = "register", !.attempt = req[r].attempt + 1]
<1>1. /\ UNCHANGED <<materials, whoami, expired, tasks, flights, result, rejected>>
      /\ req[r].pc = "backoff" /\ req' = [req EXCEPT ![r] = q]
  BY DEF Backoff, At
<1>2. materials' \subseteq Identities \ Pats /\ whoami' \subseteq Pats
  BY <1>1 DEF Inv, TypeOK
<1>3. req[r] \in Request /\ HandInv(req[r]) /\ LateInv(req[r])
  BY Fields
<1>4. req[r].attempt + 1 \in 1..registerAttempts
  BY <1>1, <1>3 DEF HandInv, Request, registerAttempts
<1>5. q \in Request
  BY <1>3, <1>4, Zenon DEF Request, Pcs
<1>6. q.pc = "register" /\ q.ok = req[r].ok /\ q.flight = req[r].flight
  BY <1>3 DEF Request
<1>7. SameRequest(q, req[r])
  BY <1>3 DEF Request, SameRequest
<1> HIDE DEF q
<1>8. HandInv(q)
  BY <1>1, <1>3, <1>6, <1>7, Zenon DEF HandInv, SameRequest, Pat
<1>9. LateInv(q)
  BY <1>1, <1>3, <1>6, <1>7 DEF LateInv, SameRequest
<1> QED
  BY <1>1, <1>2, <1>5, <1>6, <1>7, <1>8, <1>9, SameStep, Zenon DEF Started, Leading

\* The two branches of a select: a flight is done, or the client has gone.
LEMMA SelectStep == ASSUME NEW r \in Requests, Inv, AwaitFlight(r) \/ ContextDone(r) PROVE Inv'
<1>1. UNCHANGED <<materials, whoami, expired, tasks, flights, result, rejected>>
  BY DEF AwaitFlight, ContextDone
<1>2. materials' \subseteq Identities \ Pats /\ whoami' \subseteq Pats
  BY <1>1 DEF Inv, TypeOK
<1>3. HandInv(req[r]) /\ LateInv(req[r])
  BY Fields
<1>4. CASE At(r, "wait") /\ result[req[r].flight] = "ok" /\ Goto(r, "send")
  <2>1. ~Pat(req[r]) /\ ~req[r].late
    BY <1>3, <1>4 DEF HandInv, LateInv, At
  <2> QED
    BY <1>1, <1>2, <1>4, <2>1, GotoStep DEF At, Pcs, Started, Leading
<1>5. CASE At(r, "wait") /\ Return(r)
  BY <1>1, <1>5, FailStep DEF At
<1>6. CASE At(r, "backoff") /\ Goto(r, "store")
  <2>1. ~Pat(req[r]) /\ ~req[r].late
    BY <1>3, <1>6 DEF HandInv, LateInv, At
  <2> QED
    BY <1>1, <1>2, <1>6, <2>1, GotoStep, Zenon DEF At, Pcs, Started, Leading
<1> QED
  BY <1>4, <1>5, <1>6 DEF AwaitFlight, ContextDone

\* A token expires.
LEMMA ExpireStep == ASSUME NEW i \in Identities, Inv, Expire(i) PROVE Inv'
<1>1. /\ UNCHANGED <<materials, whoami, tasks, flights, result, req, rejected>>
      /\ expired' = expired \cup {i} /\ i \notin Pats
  BY DEF Expire
<1>2. TypeOK'
  BY <1>1 DEF Inv, TypeOK
<1>3. FlightInv' /\ TaskInv'
  BY <1>1, SMTT(30) DEF Inv, FlightInv, TaskInv, KeyOf, Unled
<1>4. \A r \in Requests : HandInv(req[r])' /\ SentInv(req[r])'
  BY <1>1, ZenonT(30) DEF Inv, HandInv, SentInv, KeyOf, Pat
<1>5. \A r \in Requests : LateInv(req[r])'
  BY <1>1 DEF Inv, LateInv
<1> QED
  BY <1>2, <1>3, <1>4, <1>5 DEF Inv

-----------------------------------------------------------------------------
(* Steps that change the shared maps                                       *)

\* What such a step must leave alone: keys, successful flights, rejections.
LEMMA RequestsFrame ==
    ASSUME Inv, NEW r \in Requests, NEW q \in Request, req' = [req EXCEPT ![r] = q],
           q.key = req[r].key, rejected \subseteq rejected', UNCHANGED expired,
           \A f \in Flights : result[f] = "ok" => result'[f] = "ok",
           HandInv(q)', SentInv(q), LateInv(q)
    PROVE  /\ req' \in [Requests -> Request] /\ req'[r] = q
           /\ \A s \in Requests : s # r => req'[s] = req[s]
           /\ \A s \in Requests : req'[s].key = req[s].key
           /\ \A f \in Flights : KeyOf(f)' = KeyOf(f)
           /\ \A s \in Requests : HandInv(req[s])' /\ SentInv(req[s])' /\ LateInv(req[s])'
<1>0. /\ req' \in [Requests -> Request] /\ req'[r] = q
      /\ \A s \in Requests : s # r => req'[s] = req[s]
  BY DEF Inv, TypeOK
<1>1. \A s \in Requests : req'[s].key = req[s].key
  BY <1>0
<1>2. \A f \in Flights : KeyOf(f)' = KeyOf(f)
  BY <1>1 DEF KeyOf, Flights
<1>3. ASSUME NEW s \in Requests
      PROVE  HandInv(req[s])' /\ SentInv(req[s])' /\ LateInv(req[s])'
  <2>1. CASE s = r
    <3>1. HandInv(req[s])'
      BY <1>0, <2>1, Zenon DEF HandInv, KeyOf, Pat
    <3>2. SentInv(req[s])' /\ LateInv(req[s])'
      BY <1>0, <2>1 DEF SentInv, LateInv, Pat
    <3> QED
      BY <3>1, <3>2
  <2>2. CASE s # r
    <3>1. req'[s] = req[s] /\ req[s].flight \in Flights \cup {None}
      BY <1>0, <2>2, Fields, Zenon
    <3>2. HandInv(req[s]) /\ SentInv(req[s]) /\ LateInv(req[s])
      BY Fields
    <3>3. HandInv(req[s])'
      BY <1>2, <3>1, <3>2, Zenon DEF HandInv, Pat
    <3>4. SentInv(req[s])' /\ LateInv(req[s])'
      BY <3>1, <3>2 DEF SentInv, LateInv, Pat
    <3> QED
      BY <3>3, <3>4
  <2> QED
    BY <2>1, <2>2
<1> QED
  BY <1>0, <1>1, <1>2, <1>3, Zenon

\* The flights in the map are led, each by the request it names.
LEMMA LedFlights ==
    ASSUME Inv, NEW k \in TaskKeys, flights[k] # None
    PROVE  /\ flights[k] \in Flights /\ flights[k][1] \in Requests
           /\ req[flights[k][1]].key = k
           /\ req[flights[k][1]].pc \in Leading /\ req[flights[k][1]].flight = flights[k]
BY DEF Inv, TypeOK, FlightInv, Flights, KeyOf

\* A leading request and its flight.
LEMMA LeaderFacts ==
    ASSUME Inv, NEW r \in Requests, req[r].pc \in Leading
    PROVE  /\ req[r].flight = <<r, req[r].round>> /\ req[r].flight \in Flights
           /\ req[r].flight # None /\ result[req[r].flight] = "open"
           /\ flights[req[r].key] = req[r].flight /\ tasks[req[r].key] = None
<1>1. req[r].flight = <<r, req[r].round>> /\ req[r].round \in {1, 2}
  BY Fields, Zenon DEF Inv, FlightInv
<1> QED
  BY <1>1, NoFlightAssumption DEF Inv, FlightInv, Flights

\* A request without task and flight leads a flight.
LEMMA LeadStep == ASSUME NEW r \in Requests, Inv, LeadFlight(r) PROVE Inv'
<1>0. PICK f : f = <<r, req[r].round>>
  BY Zenon
<1>q. PICK q : q = [req[r] EXCEPT !.pc = "register", !.attempt = 1, !.ok = FALSE, !.flight = f]
  OBVIOUS
<1>1. /\ UNCHANGED <<materials, whoami, expired, tasks, result, rejected>>
      /\ req[r].pc = "task" /\ req' = [req EXCEPT ![r] = q]
      /\ flights' = [flights EXCEPT ![req[r].key] = f]
      /\ tasks[req[r].key] = None /\ flights[req[r].key] = None
  BY <1>0, <1>q DEF LeadFlight, Lead, At, taskKey
<1>2. /\ req[r] \in Request /\ HandInv(req[r]) /\ SentInv(req[r]) /\ LateInv(req[r])
      /\ req[r].key \in TaskKeys /\ req[r].round \in {1, 2}
  BY Fields, Zenon
<1>3. f \in Flights /\ f # None
  BY <1>0, <1>2, NoFlightAssumption DEF Flights
<1>4. q \in Request
  <2>1. 1 \in 1..registerAttempts /\ "register" \in Pcs /\ f \in Flights \cup {None}
    BY <1>3 DEF Pcs, registerAttempts
  <2> QED
    BY <1>q, <1>2, <2>1, Zenon DEF Request
<1>5. q.pc = "register" /\ q.ok = FALSE /\ q.flight = f
  BY <1>q, <1>2 DEF Request
<1>6. SameRequest(q, req[r])
  BY <1>q, <1>2 DEF Request, SameRequest
<1>7. HandInv(q)'
  BY <1>1, <1>2, <1>5, <1>6, Zenon DEF HandInv, SameRequest, Pat
<1>8. SentInv(q)
  BY <1>1, <1>2, <1>5, <1>6, Zenon DEF SentInv, SameRequest, Pat
<1>9. LateInv(q)
  BY <1>1, <1>2, <1>5, <1>6, Zenon DEF LateInv, SameRequest
<1>10. /\ req' \in [Requests -> Request] /\ req'[r] = q
       /\ \A s \in Requests : s # r => req'[s] = req[s]
       /\ \A s \in Requests : req'[s].key = req[s].key
       /\ \A g \in Flights : KeyOf(g)' = KeyOf(g)
       /\ \A s \in Requests : HandInv(req[s])' /\ SentInv(req[s])' /\ LateInv(req[s])'
  BY <1>1, <1>4, <1>6, <1>7, <1>8, <1>9, RequestsFrame, Zenon DEF SameRequest
<1>11. TypeOK'
  BY <1>1, <1>2, <1>3, <1>10, Zenon DEF Inv, TypeOK
<1>12. FlightInv'
  <2>1. ASSUME NEW s \in Requests, NEW n \in {1, 2}, Unled(req'[s], n)
        PROVE  result'[<<s, n>>] = "open"
    <3>1. Unled(req[s], n)
      BY <1>1, <1>5, <1>6, <1>10, <2>1, Zenon DEF Unled, Started, SameRequest
    <3> QED
      BY <1>1, <3>1, Zenon DEF Inv, FlightInv
  <2>2. ASSUME NEW s \in Requests, req'[s].pc \in Leading
        PROVE  /\ req'[s].flight = <<s, req'[s].round>>
               /\ result'[req'[s].flight] = "open"
               /\ flights'[req'[s].key] = req'[s].flight
               /\ tasks'[req'[s].key] = None
    <3>1. CASE s = r
      <4>1. Unled(req[r], req[r].round)
        BY <1>1, Zenon DEF Unled, Started
      <4>2. result[f] = "open"
        BY <1>0, <1>2, <4>1, Zenon DEF Inv, FlightInv
      <4> QED
        BY <1>0, <1>1, <1>2, <1>5, <1>6, <1>10, <3>1, <4>2, Zenon DEF SameRequest, Inv, TypeOK
    <3>2. CASE s # r
      <4>1. req'[s] = req[s] /\ req[s].pc \in Leading
        BY <1>10, <2>2, <3>2
      <4>2. req[s].key # req[r].key
        BY <1>1, <4>1, LeaderFacts, Zenon
      <4> QED
        BY <1>1, <4>1, <4>2, LeaderFacts DEF Inv, TypeOK
    <3> QED
      BY <3>1, <3>2, Zenon
  <2>3. ASSUME NEW k \in TaskKeys, flights'[k] # None
        PROVE  /\ KeyOf(flights[k])' = k
               /\ req'[flights'[k][1]].pc \in Leading
               /\ req'[flights'[k][1]].flight = flights'[k]
    <3>1. CASE k = req[r].key
      <4>1. flights'[k] = f
        BY <1>1, <3>1 DEF Inv, TypeOK
      <4> QED
        BY <1>0, <1>5, <1>6, <1>10, <3>1, <4>1 DEF KeyOf, SameRequest, Leading
    <3>2. CASE k # req[r].key
      <4>1. flights'[k] = flights[k]
        BY <1>1, <3>2 DEF Inv, TypeOK
      <4>2. flights[k][1] # r
        BY <1>1, <2>3, <4>1, LedFlights, Zenon DEF Leading
      <4> QED
        BY <1>10, <2>3, <4>1, <4>2, LedFlights DEF KeyOf
    <3> QED
      BY <3>1, <3>2
  <2> QED
    BY <2>1, <2>2, <2>3, Zenon DEF FlightInv, Unled, KeyOf
<1>13. TaskInv'
  BY <1>1, <1>10 DEF Inv, TypeOK, TaskInv
<1> QED
  BY <1>10, <1>11, <1>12, <1>13 DEF Inv

\* The end of a flight, whatever the leader does next with q.
LEMMA FinishMaps ==
    ASSUME Inv, NEW r \in Requests, FinishFlight(r), NEW q \in Request,
           req' = [req EXCEPT ![r] = q], q.key = req[r].key,
           q.pc = "done" \/ (q.pc = "send" /\ q.round = req[r].round),
           HandInv(q)', SentInv(q), LateInv(q)
    PROVE  Inv'
<1>0. PICK f \in Flights : f = req[r].flight
  BY Fields, LeaderFacts, Zenon DEF FinishFlight, At, Leading
<1>1. /\ req[r].pc = "store" /\ req[r].key \in TaskKeys /\ req[r].round \in {1, 2}
      /\ f = <<r, req[r].round>> /\ result[f] = "open" /\ f # None
      /\ flights[req[r].key] = f /\ KeyOf(f) = req[r].key
  <2>1. req[r].pc = "store" /\ req[r].pc \in Leading
    BY Zenon DEF FinishFlight, At, Leading
  <2>2. req[r].key \in TaskKeys /\ req[r].round \in {1, 2}
    BY Fields
  <2>3. /\ f = <<r, req[r].round>> /\ result[f] = "open" /\ f # None
        /\ flights[req[r].key] = f
    BY <1>0, <2>1, LeaderFacts
  <2>4. f[1] = r
    BY <2>3
  <2> QED
    BY <2>1, <2>2, <2>3, <2>4, Zenon DEF KeyOf
<1>2. /\ UNCHANGED <<materials, whoami, expired, rejected>>
      /\ tasks' = IF req[r].ok THEN [tasks EXCEPT ![req[r].key] = f] ELSE tasks
      /\ flights' = [flights EXCEPT ![req[r].key] = None]
      /\ result' = [result EXCEPT ![f] = IF req[r].ok THEN "ok" ELSE "failed"]
  BY <1>0, Zenon DEF FinishFlight, taskKey
<1>3. \A g \in Flights : g # f => result'[g] = result[g]
  BY <1>2 DEF Inv, TypeOK
<1>4. \A g \in Flights : result[g] = "ok" => g # f /\ result'[g] = "ok"
  BY <1>1, <1>3, Zenon
<1>5. /\ req' \in [Requests -> Request] /\ req'[r] = q
      /\ \A s \in Requests : s # r => req'[s] = req[s]
      /\ \A s \in Requests : req'[s].key = req[s].key
      /\ \A g \in Flights : KeyOf(g)' = KeyOf(g)
      /\ \A s \in Requests : HandInv(req[s])' /\ SentInv(req[s])' /\ LateInv(req[s])'
  BY <1>2, <1>4, RequestsFrame, Zenon
<1>6. TypeOK'
  BY <1>1, <1>2, <1>5, Zenon DEF Inv, TypeOK
<1>7. FlightInv'
  <2>1. ASSUME NEW s \in Requests, NEW n \in {1, 2}, Unled(req'[s], n)
        PROVE  result'[<<s, n>>] = "open"
    <3>1. Unled(req[s], n) /\ <<s, n>> # f
      BY <1>1, <1>5, <2>1 DEF Unled, Started
    <3>2. <<s, n>> \in Flights /\ result[<<s, n>>] = "open"
      BY <3>1, Zenon DEF Inv, FlightInv, Flights
    <3> QED
      BY <1>3, <3>1, <3>2, Zenon
  <2>2. ASSUME NEW s \in Requests, req'[s].pc \in Leading
        PROVE  /\ req'[s].flight = <<s, req'[s].round>>
               /\ result'[req'[s].flight] = "open"
               /\ flights'[req'[s].key] = req'[s].flight
               /\ tasks'[req'[s].key] = None
    <3>1. s # r /\ req'[s] = req[s] /\ req[s].pc \in Leading
      BY <1>5, <2>2 DEF Leading
    <3>2. /\ req[s].flight = <<s, req[s].round>> /\ req[s].flight \in Flights
          /\ result[req[s].flight] = "open"
          /\ flights[req[s].key] = req[s].flight /\ tasks[req[s].key] = None
      BY <3>1, LeaderFacts, Zenon
    <3>3. req[s].flight # f
      BY <1>1, <3>1, <3>2
    <3>4. req[s].key # req[r].key /\ req[s].key \in TaskKeys
      BY <1>1, <3>2, <3>3, Fields, Zenon
    <3>5. flights'[req[s].key] = flights[req[s].key] /\ tasks'[req[s].key] = tasks[req[s].key]
      BY <1>2, <3>4 DEF Inv, TypeOK
    <3> QED
      BY <1>3, <3>1, <3>2, <3>3, <3>5, Zenon
  <2>3. ASSUME NEW k \in TaskKeys, flights'[k] # None
        PROVE  /\ KeyOf(flights[k])' = k
               /\ req'[flights'[k][1]].pc \in Leading
               /\ req'[flights'[k][1]].flight = flights'[k]
    <3>1. k # req[r].key /\ flights'[k] = flights[k]
      BY <1>1, <1>2, <2>3, Zenon DEF Inv, TypeOK
    <3>2. flights[k][1] # r
      BY <2>3, <3>1, LedFlights, Zenon
    <3> QED
      BY <1>5, <2>3, <3>1, <3>2, LedFlights DEF KeyOf
  <2> QED
    BY <2>1, <2>2, <2>3, Zenon DEF FlightInv, Unled, KeyOf
<1>8. TaskInv'
  <2>1. f \notin rejected
    BY <1>1, Zenon DEF Inv, TaskInv
  <2>2. ASSUME NEW k \in TaskKeys, tasks'[k] # None
        PROVE  result'[tasks'[k]] = "ok" /\ tasks'[k] \notin rejected /\ KeyOf(tasks'[k]) = k /\ tasks'[k] \in Flights
    <3>1. CASE k = req[r].key /\ req[r].ok
      <4>1. tasks'[k] = f /\ result'[f] = "ok"
        BY <1>1, <1>2, <3>1, Zenon DEF Inv, TypeOK
      <4> QED
        BY <1>1, <2>1, <3>1, <4>1, Zenon
    <3>2. CASE ~(k = req[r].key /\ req[r].ok)
      <4>1. tasks'[k] = tasks[k] /\ tasks[k] \in Flights
        BY <1>2, <2>2, <3>2 DEF Inv, TypeOK
      <4> QED
        BY <1>4, <2>2, <4>1, Zenon DEF Inv, TaskInv
    <3> QED
      BY <3>1, <3>2, Zenon
  <2>3. \A g \in rejected : result'[g] = "ok"
    BY <1>4 DEF Inv, TypeOK, TaskInv
  <2>4. \A k \in TaskKeys : tasks'[k] # None => KeyOf(tasks[k])' = KeyOf(tasks'[k])
    BY <1>5, <2>2, Zenon DEF KeyOf, Flights
  <2> QED
    BY <1>2, <2>2, <2>3, <2>4, Zenon DEF TaskInv
<1> QED
  BY <1>5, <1>6, <1>7, <1>8 DEF Inv

\* A leader ends its flight.
LEMMA FinishStep == ASSUME NEW r \in Requests, Inv, FinishFlight(r) PROVE Inv'
<1>1. /\ req[r] \in Request /\ HandInv(req[r]) /\ SentInv(req[r]) /\ LateInv(req[r])
      /\ req[r].pc = "store" /\ UNCHANGED rejected
  BY Fields, Zenon DEF FinishFlight, At
<1>2. PICK f \in Flights : f = req[r].flight /\ result[f] = "open" /\ f # None /\ KeyOf(f) = req[r].key
  BY <1>1, LeaderFacts DEF Leading, KeyOf
<1>3. CASE req[r].ok
  <2>q. PICK q : q = [req[r] EXCEPT !.pc = "send", !.attempt = 1, !.ok = FALSE, !.flight = f]
    OBVIOUS
  <2>1. req' = [req EXCEPT ![r] = q]
    BY <1>2, <1>3, <2>q DEF FinishFlight, Deliver
  <2>2. q \in Request
    <3>1. 1 \in 1..registerAttempts /\ "send" \in Pcs /\ f \in Flights \cup {None}
      BY DEF Pcs, registerAttempts
    <3> QED
      BY <1>1, <2>q, <3>1, Zenon DEF Request
  <2>3. q.pc = "send" /\ q.ok = FALSE /\ q.flight = f
    BY <1>1, <2>q DEF Request
  <2>4. SameRequest(q, req[r])
    BY <1>1, <2>q DEF Request, SameRequest
  <2>5. f \notin rejected /\ result'[f] = "ok"
    BY <1>2, <1>3 DEF FinishFlight, Inv, TaskInv, TypeOK
  <2>6. KeyOf(f)' = q.key
    BY <1>1, <1>2, <2>1, <2>4, Zenon DEF KeyOf, SameRequest, Flights, Inv, TypeOK
  <2>7. HandInv(q)'
    BY <1>1, <1>2, <2>3, <2>4, <2>5, <2>6, Zenon DEF HandInv, SameRequest, Pat
  <2>8. SentInv(q)
    BY <1>1, <2>3, <2>4, Zenon DEF SentInv, SameRequest, Pat
  <2>9. LateInv(q)
    BY <1>1, <2>3, <2>4 DEF LateInv, SameRequest
  <2> QED
    BY <2>1, <2>2, <2>3, <2>4, <2>7, <2>8, <2>9, FinishMaps, Zenon DEF SameRequest
<1>4. CASE ~req[r].ok
  <2>q. PICK q : q = Returned(r, req[r].sent, req[r].refused)
    OBVIOUS
  <2>1. req' = [req EXCEPT ![r] = q]
    BY <1>4, <2>q DEF FinishFlight, Return
  <2>2. /\ req[r].key \in TaskKeys /\ req[r].replayable \in BOOLEAN
        /\ req[r].sent \in 0..2 /\ req[r].refused \in BOOLEAN
    BY <1>1 DEF Request
  <2>3. q \in Request
    BY <2>q, <2>2, OutsideFacts DEF Returned, Pcs
  <2>4. /\ q.pc = "done" /\ q.key = req[r].key /\ q.round = 1 /\ q.flight = None
        /\ q.sent = req[r].sent /\ q.refused = req[r].refused /\ q.replayable = req[r].replayable
        /\ q.stale = {} /\ q.late = FALSE /\ q.ok = FALSE
    BY <2>q, Zenon DEF Returned, Outside
  <2>5. HandInv(q)'
    BY <2>4 DEF HandInv, Pat
  <2>6. SentInv(q)
    BY <1>1, <2>4 DEF SentInv, Pat
  <2>7. LateInv(q)
    BY <2>4 DEF LateInv
  <2> QED
    BY <2>1, <2>3, <2>4, <2>5, <2>6, <2>7, FinishMaps, Zenon
<1> QED
  BY <1>3, <1>4

\* A 401: the key loses its task, whatever the request does next with q.
LEMMA UnauthorizedMaps ==
    ASSUME Inv, NEW r \in Requests, Unauthorized(r), NEW q \in Request,
           req' = [req EXCEPT ![r] = q], q.key = req[r].key,
           q.pc = "done" \/ (q.pc = "authorize" /\ q.round = 2),
           HandInv(q)', SentInv(q), LateInv(q)
    PROVE  Inv'
<1>1. /\ req[r].pc = "send" /\ ~Pat(req[r]) /\ req[r].round = 1 /\ req[r].key \in TaskKeys
      /\ HandInv(req[r])
  BY Fields, Zenon DEF Unauthorized, MayRetry, At, IsPersonalAccessToken, Pat, id
<1>2. PICK f \in Flights : f = req[r].flight /\ KeyOf(f) = req[r].key /\ result[f] = "ok"
  BY <1>1, Fields, Zenon DEF HandInv
<1>3. /\ UNCHANGED <<materials, whoami, expired, flights, result>>
      /\ tasks' = [tasks EXCEPT ![req[r].key] = None]
      /\ rejected' = rejected \cup {f}
  BY <1>2, Zenon DEF Unauthorized, taskKey
<1>4. /\ req' \in [Requests -> Request] /\ req'[r] = q
      /\ \A s \in Requests : s # r => req'[s] = req[s]
      /\ \A s \in Requests : req'[s].key = req[s].key
      /\ \A g \in Flights : KeyOf(g)' = KeyOf(g)
      /\ \A s \in Requests : HandInv(req[s])' /\ SentInv(req[s])' /\ LateInv(req[s])'
  BY <1>3, RequestsFrame, Zenon
<1>5. TypeOK'
  BY <1>1, <1>3, <1>4, Zenon DEF Inv, TypeOK
<1>6. FlightInv'
  <2>1. ASSUME NEW s \in Requests, NEW n \in {1, 2}, Unled(req'[s], n)
        PROVE  result'[<<s, n>>] = "open"
    <3>1. Unled(req[s], n)
      BY <1>1, <1>4, <2>1 DEF Unled, Started
    <3> QED
      BY <1>3, <3>1, Zenon DEF Inv, FlightInv
  <2>2. ASSUME NEW s \in Requests, req'[s].pc \in Leading
        PROVE  /\ req'[s].flight = <<s, req'[s].round>>
               /\ result'[req'[s].flight] = "open"
               /\ flights'[req'[s].key] = req'[s].flight
               /\ tasks'[req'[s].key] = None
    <3>1. req'[s] = req[s] /\ req[s].pc \in Leading /\ req[s].key \in TaskKeys
      BY <1>4, <2>2, Fields DEF Leading
    <3> QED
      BY <1>3, <3>1, LeaderFacts, Zenon DEF Inv, TypeOK
  <2>3. ASSUME NEW k \in TaskKeys, flights'[k] # None
        PROVE  /\ KeyOf(flights[k])' = k
               /\ req'[flights'[k][1]].pc \in Leading
               /\ req'[flights'[k][1]].flight = flights'[k]
    <3>1. flights'[k] = flights[k] /\ flights[k][1] # r
      BY <1>1, <1>3, <2>3, LedFlights, Zenon DEF Leading
    <3> QED
      <4>1. /\ flights[k] \in Flights /\ flights[k][1] \in Requests
            /\ req[flights[k][1]].key = k /\ req[flights[k][1]].pc \in Leading
            /\ req[flights[k][1]].flight = flights[k]
        BY <2>3, <3>1, LedFlights, Zenon
      <4>2. req'[flights[k][1]] = req[flights[k][1]]
        BY <1>4, <3>1, <4>1, Zenon
      <4> QED
        BY <3>1, <4>1, <4>2, Zenon DEF KeyOf
  <2> QED
    BY <2>1, <2>2, <2>3, Zenon DEF FlightInv, Unled, KeyOf
<1>7. TaskInv'
  <2>1. ASSUME NEW k \in TaskKeys, tasks'[k] # None
        PROVE  result'[tasks'[k]] = "ok" /\ tasks'[k] \notin rejected' /\ KeyOf(tasks[k])' = k
    <3>1. k # req[r].key /\ tasks'[k] = tasks[k] /\ tasks[k] \in Flights
      BY <1>3, <2>1 DEF Inv, TypeOK
    <3>2. result[tasks[k]] = "ok" /\ tasks[k] \notin rejected /\ KeyOf(tasks[k]) = k
      BY <2>1, <3>1 DEF Inv, TaskInv
    <3>3. KeyOf(tasks[k])' = KeyOf(tasks[k])
      BY <1>4, <3>1, Zenon DEF KeyOf, Flights
    <3> QED
      BY <1>2, <1>3, <3>1, <3>2, <3>3
  <2>2. \A g \in rejected' : result'[g] = "ok"
    BY <1>2, <1>3, Zenon DEF Inv, TaskInv
  <2> QED
    BY <2>1, <2>2, Zenon DEF TaskInv
<1> QED
  BY <1>4, <1>5, <1>6, <1>7 DEF Inv

\* What a request carries into its second authorisation.
LEMMA RetriedFacts ==
    ASSUME NEW p \in Request, NEW stale \in SUBSET Flights, NEW i, NEW S
    PROVE  [p EXCEPT !.pc = "authorize", !.round = 2, !.flight = None, !.sent = 1,
                     !.refused = TRUE, !.stale = stale, !.late = i \in S] \in Request
<1>1. "authorize" \in Pcs /\ 2 \in {1, 2} /\ 1 \in 0..2 /\ TRUE \in BOOLEAN
  BY DEF Pcs
<1>2. PICK late \in BOOLEAN : late = (i \in S)
  <2> WITNESS (i \in S) \in BOOLEAN
  <2> QED
    OBVIOUS
<1>3. [p EXCEPT !.pc = "authorize", !.round = 2, !.flight = None, !.sent = 1,
                !.refused = TRUE, !.stale = stale, !.late = late] \in Request
  BY <1>1, Zenon DEF Request
<1> QED
  BY <1>2, <1>3, Zenon

\* A 401 invalidates the task and the request starts again or ends.
LEMMA UnauthorizedStep == ASSUME NEW r \in Requests, Inv, Unauthorized(r) PROVE Inv'
<1>1. /\ req[r] \in Request /\ HandInv(req[r]) /\ SentInv(req[r]) /\ LateInv(req[r])
      /\ req[r].pc = "send" /\ ~Pat(req[r]) /\ req[r].round = 1
      /\ UNCHANGED <<expired, result>>
  BY Fields, Zenon DEF Unauthorized, MayRetry, At, IsPersonalAccessToken, Pat, id
<1>2. req[r].sent = 0
  BY <1>1, Zenon DEF SentInv
<1>3. rejected' \subseteq Flights
  BY <1>1, Fields, Zenon DEF Unauthorized, HandInv, Inv, TypeOK
<1>4. CASE req[r].replayable
  <2>q. PICK q : q = [req[r] EXCEPT !.pc = "authorize", !.round = 2, !.flight = None,
                                    !.sent = 1, !.refused = TRUE,
                                    !.stale = rejected', !.late = id(r) \in expired]
    OBVIOUS
  <2>1. req' = [req EXCEPT ![r] = q]
    BY <1>2, <1>4, <2>q DEF Unauthorized, Retry
  <2>2. q \in Request
    BY <1>1, <1>3, <2>q, RetriedFacts, Zenon
  <2>3. q.pc = "authorize" /\ q.round = 2 /\ q.flight = None /\ q.sent = 1
    BY <1>1, <2>q DEF Request
  <2>4. q.refused = TRUE /\ q.stale = rejected' /\ q.late = (id(r) \in expired)
    BY <1>1, <2>q DEF Request
  <2>5. q.key = req[r].key /\ q.ok = req[r].ok /\ q.replayable = req[r].replayable
    BY <1>1, <2>q DEF Request
  <2>6. HandInv(q)'
    BY <1>1, <2>3, <2>4, <2>5, Zenon DEF HandInv, Pat
  <2>7. SentInv(q)
    BY <1>1, <1>4, <2>3, <2>4, <2>5, Zenon DEF SentInv, Pat
  <2>8. LateInv(q)
    BY <1>1, <2>3, <2>4, <2>5, Zenon DEF LateInv, id
  <2> QED
    BY <2>1, <2>2, <2>3, <2>5, <2>6, <2>7, <2>8, UnauthorizedMaps, Zenon
<1>5. CASE ~req[r].replayable
  <2>q. PICK q : q = Returned(r, req[r].sent + 1, TRUE)
    BY Zenon
  <2>1. req' = [req EXCEPT ![r] = q]
    BY <1>5, <2>q, Zenon DEF Unauthorized, Retry
  <2>2. req[r].key \in TaskKeys /\ req[r].replayable \in BOOLEAN /\ req[r].sent + 1 = 1
    BY <1>1, <1>2 DEF Request
  <2>3. q \in Request
    <3>1. TRUE \in BOOLEAN /\ "done" \in Pcs /\ 1 \in 0..2
      BY DEF Pcs
    <3>2. Outside("done", req[r].key, req[r].replayable, 1, TRUE) \in Request
      BY <2>2, <3>1, OutsideFacts, Zenon
    <3> QED
      BY <2>q, <2>2, <3>2, Zenon DEF Returned
  <2>4. /\ q.pc = "done" /\ q.key = req[r].key /\ q.round = 1 /\ q.flight = None
        /\ q.sent = 1 /\ q.stale = {} /\ q.late = FALSE /\ q.ok = FALSE
    BY <2>q, <2>2, Zenon DEF Returned, Outside
  <2>5. HandInv(q)'
    BY <2>4, Zenon DEF HandInv, Pat
  <2>6. SentInv(q)
    BY <1>1, <2>4 DEF SentInv, Pat
  <2>7. LateInv(q)
    BY <2>4 DEF LateInv
  <2> QED
    BY <2>1, <2>3, <2>4, <2>5, <2>6, <2>7, UnauthorizedMaps, Zenon
<1> QED
  BY <1>4, <1>5

-----------------------------------------------------------------------------
(* The theorems                                                            *)

\* Every step keeps the invariant.
LEMMA NextInv == Inv /\ [Next]_vars => Inv'
<1> SUFFICES ASSUME Inv, [Next]_vars PROVE Inv'
  OBVIOUS
<1>1. ASSUME NEW r \in Requests, Admit(r) \/ Refuse(r) \/ Handle(r) \/ ContextDone(r) PROVE Inv'
  BY <1>1, AdmitStep, RefuseStep, WhoAmIStep, MaterialStep, ParseStep, TaskStep, LeadStep,
     RegisterStep, BackoffStep, FinishStep, SelectStep, UnauthorizedStep DEF Handle
<1>2. ASSUME NEW i \in Identities, Expire(i) PROVE Inv'
  BY <1>2, ExpireStep
<1>3. CASE UNCHANGED vars
  <2>1. TypeOK'
    BY <1>3 DEF Inv, TypeOK, vars
  <2>2. FlightInv'
    BY <1>3, Zenon DEF Inv, FlightInv, KeyOf, Unled, vars
  <2>3. TaskInv'
    BY <1>3, Zenon DEF Inv, TaskInv, KeyOf, vars
  <2>4. \A r \in Requests : HandInv(req[r])' /\ SentInv(req[r])' /\ LateInv(req[r])'
    BY <1>3, ZenonT(30) DEF Inv, HandInv, SentInv, LateInv, KeyOf, Pat, vars
  <2> QED
    BY <2>1, <2>2, <2>3, <2>4, Zenon DEF Inv
<1> QED
  BY <1>1, <1>2, <1>3 DEF Next

\* Inv is an invariant of the authorisation of any set of concurrent requests.
THEOREM TaskInvariant == Spec => []Inv
BY InitInv, NextInv, PTL DEF Spec

\* Every variable of Manager and of the handlers keeps its type.
THEOREM TypeCorrect == Spec => []TypeOK
<1>1. Inv => TypeOK
  BY DEF Inv
<1> QED
  BY <1>1, TaskInvariant, PTL

\* At most one registration runs per task key, and every flight has a leader.
THEOREM OneFlightPerKey == Spec => []SingleFlight
<1>1. ASSUME Inv PROVE SingleFlight
  <2>1. ASSUME NEW r \in Requests, NEW s \in Requests, req[r].pc \in Leading,
               req[s].pc \in Leading, req[r].key = req[s].key
        PROVE  r = s
    <3>1. req[r].flight = <<r, req[r].round>> /\ flights[req[r].key] = req[r].flight
      BY <1>1, <2>1, LeaderFacts, Zenon
    <3>2. req[s].flight = <<s, req[s].round>> /\ flights[req[s].key] = req[s].flight
      BY <1>1, <2>1, LeaderFacts
    <3> QED
      BY <2>1, <3>1, <3>2
  <2>2. ASSUME NEW r \in Requests, req[r].pc \in Leading
        PROVE  flights[req[r].key] = req[r].flight /\ tasks[req[r].key] = None
    BY <1>1, <2>2, LeaderFacts, Zenon
  <2>3. ASSUME NEW k \in TaskKeys, flights[k] # None
        PROVE  \E r \in Requests : req[r].pc \in Leading /\ req[r].flight = flights[k]
    BY <1>1, <2>3, LedFlights
  <2> QED
    BY <2>1, <2>2, <2>3, Zenon DEF SingleFlight, taskKey
<1> QED
  BY <1>1, TaskInvariant, PTL

\* No authorisation that starts after a 401 sends the task it invalidated.
THEOREM RejectedTaskNotReused == Spec => []NoStaleTask
<1>1. ASSUME Inv PROVE NoStaleTask
  <2>1. ASSUME NEW r \in Requests, req[r].pc = "send" PROVE req[r].flight \notin req[r].stale
    <3>1. HandInv(req[r]) /\ req[r].stale \subseteq Flights
      BY <1>1, Fields, Zenon DEF Request
    <3> QED
      BY <2>1, <3>1, NoFlightAssumption, Zenon DEF HandInv
  <2> QED
    BY <2>1 DEF NoStaleTask, At
<1> QED
  BY <1>1, TaskInvariant, PTL

\* A request is sent only with a task of its own identity and session.
THEOREM TaskIsOwn == Spec => []OwnTask
<1>1. ASSUME Inv PROVE OwnTask
  <2>1. ASSUME NEW r \in Requests, req[r].pc = "send", req[r].flight # None
        PROVE  req[req[r].flight[1]].key = req[r].key
    BY <1>1, <2>1, Fields, Zenon DEF HandInv, KeyOf
  <2> QED
    BY <2>1 DEF OwnTask, At
<1> QED
  BY <1>1, TaskInvariant, PTL

\* A request is sent at most twice, and twice only after a 401 to a replayable
\* Agent Identity request.
THEOREM RetriedOnce == Spec => []AtMostOneRetry
<1>1. ASSUME Inv PROVE AtMostOneRetry
  <2>1. ASSUME NEW r \in Requests
        PROVE  LET total == req[r].sent + (IF req[r].pc = "send" THEN 1 ELSE 0) IN
               /\ total <= 2
               /\ total = 2 => req[r].refused /\ req[r].replayable /\ ~Pat(req[r])
    <3>1. req[r].sent \in 0..2 /\ req[r].round \in {1, 2} /\ SentInv(req[r])
      BY <1>1, Fields DEF Request
    <3> QED
      BY <3>1 DEF SentInv
  <2> QED
    BY <2>1, Zenon DEF AtMostOneRetry, At, IsPersonalAccessToken, Pat, id
<1> QED
  BY <1>1, TaskInvariant, PTL

\* A request whose JWT had expired when its authorisation began is not sent.
THEOREM ExpiredIsRefused == Spec => []ExpiredNotSent
<1>1. ASSUME Inv PROVE ExpiredNotSent
  BY <1>1, Fields DEF ExpiredNotSent, LateInv, At
<1> QED
  BY <1>1, TaskInvariant, PTL

-----------------------------------------------------------------------------
(* The task cache implements TaskSlots                                     *)

Busy == {k \in TaskKeys : flights[k] # None}
Issued == {f \in Flights : result[f] = "ok"}

\* A step that leaves the task manager's maps alone is a stutter of the slots.
LEMMA QuietSlots ==
    ASSUME UNCHANGED <<tasks, flights, result>>
    PROVE  UNCHANGED Slots!vars
BY DEF Slots!vars

\* Leading a flight starts to fill the slot.
LEMMA LeadSlots ==
    ASSUME Inv, NEW r \in Requests, NEW k \in TaskKeys, k = req[r].key, LeadFlight(r)
    PROVE  Slots!Register(k)
<1>1. /\ <<r, req[r].round>> # None
      /\ tasks[k] = None /\ flights[k] = None
      /\ flights' = [flights EXCEPT ![k] = <<r, req[r].round>>]
      /\ UNCHANGED <<tasks, result>>
  BY Fields, NoFlightAssumption DEF LeadFlight, Lead, taskKey, Flights
<1>2. Busy' = Busy \cup {k}
  BY <1>1 DEF Busy, Inv, TypeOK
<1> QED
  BY <1>1, <1>2, Zenon DEF Slots!Register, Busy

\* Ending a flight fills the slot or gives it up.
LEMMA FinishSlots ==
    ASSUME Inv, NEW r \in Requests, NEW k \in TaskKeys, k = req[r].key, FinishFlight(r)
    PROVE  Slots!Issue(k) \/ Slots!Fail(k)
<1>1. PICK f \in Flights : f = req[r].flight /\ result[f] = "open" /\ f # None /\ flights[k] = f
  BY LeaderFacts, Zenon DEF FinishFlight, At, Leading
<1>2. /\ tasks' = IF req[r].ok THEN [tasks EXCEPT ![k] = f] ELSE tasks
      /\ flights' = [flights EXCEPT ![k] = None]
      /\ result' = [result EXCEPT ![f] = IF req[r].ok THEN "ok" ELSE "failed"]
  BY <1>1, Fields, Zenon DEF FinishFlight, taskKey
<1>3. k \in Busy /\ Busy' = Busy \ {k}
  BY <1>1, <1>2 DEF Busy, Inv, TypeOK
<1>4. CASE req[r].ok
  <2>1. f \in Flights \ Issued /\ Issued' = Issued \cup {f}
    BY <1>1, <1>2, <1>4, Zenon DEF Issued, Inv, TypeOK
  <2> QED
    BY <1>2, <1>3, <1>4, <2>1, Zenon DEF Slots!Issue, Busy, Issued
<1>5. CASE ~req[r].ok
  <2>1. Issued' = Issued
    BY <1>1, <1>2, <1>5, Zenon DEF Issued, Inv, TypeOK
  <2> QED
    BY <1>2, <1>3, <1>5, <2>1 DEF Slots!Fail, Busy, Issued
<1> QED
  BY <1>4, <1>5

\* Invalidating a task empties the slot or is a stutter.
LEMMA UnauthorizedSlots ==
    ASSUME Inv, NEW r \in Requests, NEW k \in TaskKeys, k = req[r].key, Unauthorized(r)
    PROVE  Slots!Drop(k) \/ UNCHANGED Slots!vars
<1>1. /\ tasks' = [tasks EXCEPT ![k] = None]
      /\ UNCHANGED <<flights, result>>
  BY Fields, Zenon DEF Unauthorized, taskKey
<1>2. CASE tasks[k] = None
  <2>1. tasks' = tasks
    BY <1>1, <1>2 DEF Inv, TypeOK
  <2> QED
    BY <1>1, <2>1, QuietSlots
<1>3. CASE tasks[k] # None
  BY <1>1, <1>3 DEF Slots!Drop
<1> QED
  BY <1>2, <1>3

\* Every step is a step of the slots or a stutter.
LEMMA SlotsNext == Inv /\ [Next]_vars => [Slots!Next]_(Slots!vars)
<1> SUFFICES ASSUME Inv, [Next]_vars PROVE [Slots!Next]_(Slots!vars)
  OBVIOUS
<1>1. ASSUME NEW r \in Requests, LeadFlight(r) \/ FinishFlight(r) \/ Unauthorized(r)
      PROVE  [Slots!Next]_(Slots!vars)
  <2>1. PICK k \in TaskKeys : k = req[r].key
    BY Fields
  <2>2. Slots!Register(k) \/ (Slots!Issue(k) \/ Slots!Fail(k)) \/ (Slots!Drop(k) \/ UNCHANGED Slots!vars)
    BY <1>1, <2>1, LeadSlots, FinishSlots, UnauthorizedSlots
  <2> QED
    BY <2>2, Zenon DEF Slots!Next
<1>2. ASSUME NEW r \in Requests,
             \/ Admit(r) \/ Refuse(r) \/ WhoAmICached(r) \/ WhoAmI(r) \/ material(r)
             \/ ParseWithCache(r) \/ TaskCached(r) \/ JoinFlight(r) \/ RegisterTask(r)
             \/ Backoff(r) \/ AwaitFlight(r) \/ Answer(r) \/ ContextDone(r)
      PROVE  UNCHANGED <<tasks, flights, result>>
  BY <1>2, Zenon DEF Admit, Refuse, WhoAmICached, WhoAmI, material, ParseWithCache, TaskCached,
     JoinFlight, RegisterTask, Backoff, AwaitFlight, Answer, ContextDone
<1>3. ASSUME NEW i \in Identities, Expire(i) PROVE UNCHANGED <<tasks, flights, result>>
  BY <1>3 DEF Expire
<1>4. CASE UNCHANGED vars
  BY <1>4, QuietSlots DEF vars
<1> QED
  BY <1>1, <1>2, <1>3, <1>4, QuietSlots DEF Next, Handle

\* Manager.tasks and Manager.flights implement TaskSlots: seen from outside, a key
\* is empty, registering or holding one task, and no dropped task comes back.
THEOREM RefinesSlots == Spec => ImplementsSlots
<1>1. Init => Slots!Init
  BY DEF Init, Slots!Init
<1> QED
  BY <1>1, SlotsNext, TaskInvariant, PTL DEF Spec, ImplementsSlots, Slots!SafeSpec
-----------------------------------------------------------------------------
(* How many registrations a key pays for                                   *)

\* The successful registrations of key k, and its requests that met a 401.
Paid(k) == {f \in Flights : result[f] = "ok" /\ KeyOf(f) = k}
Met(k) == {r \in Requests : req[r].refused /\ req[r].key = k}

\* A key that holds no task has paid at most once per 401; a refused request
\* has been sent, so that its first 401 is counted once.
CountInv ==
    /\ \A k \in TaskKeys :
         Cardinality(Paid(k)) <= Cardinality(Met(k)) + (IF tasks[k] = None THEN 0 ELSE 1)
    /\ \A r \in Requests : req[r].refused => req[r].sent # 0

\* The state q counts as p does.
CountsAs(q, p) == q.key = p.key /\ q.refused = p.refused /\ (q.sent = 0 => p.sent = 0)

\* Both sets are finite.
LEMMA CountsFinite ==
    ASSUME NEW k
    PROVE  /\ IsFiniteSet(Paid(k)) /\ IsFiniteSet(Met(k))
           /\ Cardinality(Paid(k)) \in Nat /\ Cardinality(Met(k)) \in Nat
<1>1. IsFiniteSet({1, 2})
  <2>1. IsFiniteSet({} \cup {1})
    BY FS_EmptySet, FS_AddElement, Zenon
  <2>2. IsFiniteSet(({} \cup {1}) \cup {2})
    BY <2>1, FS_AddElement, Zenon
  <2>3. ({} \cup {1}) \cup {2} = {1, 2}
    OBVIOUS
  <2> QED
    BY <2>2, <2>3, Zenon
<1>2. IsFiniteSet(Flights)
  BY <1>1, FiniteAssumption, FS_Product, Zenon DEF Flights
<1>3. Paid(k) \subseteq Flights /\ Met(k) \subseteq Requests
  BY DEF Paid, Met
<1>4. IsFiniteSet(Paid(k)) /\ IsFiniteSet(Met(k))
  BY <1>2, <1>3, FiniteAssumption, FS_Subset, Zenon
<1> QED
  BY <1>4, FS_CardinalityType, Zenon

\* A step that neither completes a registration nor meets a 401.
LEMMA QuietCount ==
    ASSUME Inv, CountInv, UNCHANGED <<tasks, result>>,
           \A s \in Requests : CountsAs(req'[s], req[s])
    PROVE  CountInv'
<1>1. \A f \in Flights : KeyOf(f)' = KeyOf(f)
  BY DEF KeyOf, Flights, CountsAs
<1>2. ASSUME NEW k PROVE Paid(k)' = Paid(k) /\ Met(k)' = Met(k)
  BY <1>1, Zenon DEF Paid, Met, CountsAs
<1>3. \A r \in Requests : req'[r].refused => req'[r].sent # 0
  BY Zenon DEF CountInv, CountsAs
<1> QED
  BY <1>2, <1>3, Zenon DEF CountInv

\* Returning counts nothing.
LEMMA ReturnedCounts ==
    ASSUME NEW r \in Requests, NEW n, n = 0 => req[r].sent = 0
    PROVE  CountsAs(Returned(r, n, req[r].refused), req[r])
BY Zenon DEF CountsAs, Returned, Outside

\* The steps of a handler that neither complete a registration nor meet a 401.
LEMMA QuietStep ==
    ASSUME Inv, NEW r \in Requests,
           \/ Admit(r) \/ Refuse(r) \/ WhoAmICached(r) \/ WhoAmI(r) \/ material(r)
           \/ ParseWithCache(r) \/ TaskCached(r) \/ JoinFlight(r) \/ LeadFlight(r)
           \/ RegisterTask(r) \/ Backoff(r) \/ AwaitFlight(r) \/ Answer(r) \/ ContextDone(r)
    PROVE  UNCHANGED <<tasks, result>> /\ \A s \in Requests : CountsAs(req'[s], req[s])
<1>1. req \in [Requests -> Request] /\ req[r] \in Request
  BY DEF Inv, TypeOK
<1>2. UNCHANGED <<tasks, result>>
  BY Zenon DEF Admit, Refuse, WhoAmICached, WhoAmI, material, ParseWithCache, TaskCached, JoinFlight,
         LeadFlight, Lead, RegisterTask, Backoff, AwaitFlight, Answer, ContextDone
<1>3. ASSUME NEW q, req' = [req EXCEPT ![r] = q], CountsAs(q, req[r])
      PROVE  \A s \in Requests : CountsAs(req'[s], req[s])
  BY <1>1, <1>3 DEF CountsAs
<1>4. ASSUME Return(r) PROVE \A s \in Requests : CountsAs(req'[s], req[s])
  BY <1>3, <1>4, ReturnedCounts, Zenon DEF Return
<1>5. ASSUME NEW pc, Goto(r, pc) PROVE \A s \in Requests : CountsAs(req'[s], req[s])
  <2>1. CountsAs([req[r] EXCEPT !.pc = pc], req[r])
    BY <1>1 DEF CountsAs, Request
  <2> QED
    BY <1>3, <1>5, <2>1, Zenon DEF Goto
<1>6. ASSUME NEW pc, NEW f, Move(r, pc, f) PROVE \A s \in Requests : CountsAs(req'[s], req[s])
  <2>1. CountsAs([req[r] EXCEPT !.pc = pc, !.flight = f], req[r])
    BY <1>1 DEF CountsAs, Request
  <2> QED
    BY <1>3, <1>6, <2>1, Zenon DEF Move
<1>7. ASSUME NEW pc, NEW ok, req' = [req EXCEPT ![r] = [@ EXCEPT !.pc = pc, !.ok = ok]]
      PROVE  \A s \in Requests : CountsAs(req'[s], req[s])
  <2>1. CountsAs([req[r] EXCEPT !.pc = pc, !.ok = ok], req[r])
    BY <1>1, SMTT(30) DEF CountsAs, Request
  <2> QED
    BY <1>3, <1>7, <2>1, Zenon
<1>8. ASSUME Admit(r) \/ Backoff(r) \/ LeadFlight(r)
      PROVE  \A s \in Requests : CountsAs(req'[s], req[s])
  <2>1. CASE Admit(r)
    <3>1. CountsAs([req[r] EXCEPT !.pc = "authorize", !.round = 1, !.flight = None,
                                  !.stale = rejected, !.late = id(r) \in expired], req[r])
      BY <1>1 DEF CountsAs, Request
    <3> QED
      BY <1>3, <2>1, <3>1, Zenon DEF Admit, Begin
  <2>2. CASE Backoff(r)
    <3>1. CountsAs([req[r] EXCEPT !.pc = "register", !.attempt = req[r].attempt + 1], req[r])
      BY <1>1 DEF CountsAs, Request
    <3> QED
      BY <1>3, <2>2, <3>1, Zenon DEF Backoff
  <2>3. CASE LeadFlight(r)
    <3>1. CountsAs([req[r] EXCEPT !.pc = "register", !.attempt = 1, !.ok = FALSE,
                                  !.flight = <<r, req[r].round>>], req[r])
      BY <1>1 DEF CountsAs, Request
    <3> QED
      BY <1>3, <2>3, <3>1, Zenon DEF LeadFlight, Lead
  <2> QED
    BY <1>8, <2>1, <2>2, <2>3, Zenon
<1>9. ASSUME Answer(r) PROVE \A s \in Requests : CountsAs(req'[s], req[s])
  <2>1. req[r].sent + 1 # 0
    BY <1>1 DEF Request
  <2> QED
    BY <1>3, <1>9, <2>1, ReturnedCounts, Zenon DEF Answer
<1>10. ASSUME Refuse(r) \/ WhoAmICached(r) \/ WhoAmI(r) \/ AwaitFlight(r) \/ ContextDone(r)
       PROVE  \A s \in Requests : CountsAs(req'[s], req[s])
  BY <1>4, <1>5, <1>10, Zenon DEF Refuse, WhoAmICached, WhoAmI, AwaitFlight, ContextDone
<1>11. ASSUME material(r) \/ ParseWithCache(r) \/ RegisterTask(r)
       PROVE  \A s \in Requests : CountsAs(req'[s], req[s])
  BY <1>4, <1>5, <1>7, <1>11, Zenon DEF material, ParseWithCache, RegisterTask
<1>12. ASSUME TaskCached(r) \/ JoinFlight(r) PROVE \A s \in Requests : CountsAs(req'[s], req[s])
  BY <1>6, <1>12, Zenon DEF TaskCached, JoinFlight
<1>13. \A s \in Requests : CountsAs(req'[s], req[s])
  BY <1>8, <1>9, <1>10, <1>11, <1>12, Zenon
<1> QED
  BY <1>2, <1>13, Zenon

\* A registration ends: a success pays for the task its key now holds.
LEMMA FinishCount == ASSUME NEW r \in Requests, Inv, CountInv, FinishFlight(r) PROVE CountInv'
<1>1. /\ req[r] \in Request /\ req \in [Requests -> Request] /\ req[r].pc = "store"
      /\ req[r].key \in TaskKeys /\ tasks \in [TaskKeys -> Flights \cup {None}]
      /\ result \in [Flights -> {"open", "ok", "failed"}]
  BY Fields, Zenon DEF Inv, TypeOK, FinishFlight, At
<1>2. PICK f \in Flights : /\ f = req[r].flight /\ f # None /\ result[f] = "open"
                           /\ tasks[req[r].key] = None /\ f[1] = r
  <2>1. req[r].pc \in Leading
    BY <1>1 DEF Leading
  <2> QED
    BY <2>1, LeaderFacts
<1>3. \A s \in Requests : CountsAs(req'[s], req[s])
  <2>1. ASSUME NEW q, req' = [req EXCEPT ![r] = q], CountsAs(q, req[r])
        PROVE  \A s \in Requests : CountsAs(req'[s], req[s])
    BY <1>1, <2>1 DEF CountsAs
  <2>2. CountsAs([req[r] EXCEPT !.pc = "send", !.attempt = 1, !.ok = FALSE, !.flight = f], req[r])
    BY <1>1 DEF CountsAs, Request
  <2> QED
    BY <1>2, <2>1, <2>2, ReturnedCounts, Zenon DEF FinishFlight, Deliver, Return
<1>4. \A g \in Flights : KeyOf(g)' = KeyOf(g)
  BY <1>3 DEF KeyOf, Flights, CountsAs
<1>5. KeyOf(f) = req[r].key
  BY <1>2 DEF KeyOf
<1>6. ASSUME NEW k PROVE Met(k)' = Met(k)
  BY <1>3 DEF Met, CountsAs
<1>7. \A s \in Requests : req'[s].refused => req'[s].sent # 0
  BY <1>3, Zenon DEF CountInv, CountsAs
<1>8. ASSUME NEW k \in TaskKeys
      PROVE  Cardinality(Paid(k)') <= Cardinality(Met(k)) + (IF tasks'[k] = None THEN 0 ELSE 1)
  <2>1. /\ Cardinality(Paid(k)) <= Cardinality(Met(k)) + (IF tasks[k] = None THEN 0 ELSE 1)
        /\ IsFiniteSet(Paid(k)) /\ Cardinality(Paid(k)) \in Nat /\ Cardinality(Met(k)) \in Nat
    BY CountsFinite, Zenon DEF CountInv
  <2>2. CASE req[r].ok /\ k = req[r].key
    <3>1. Paid(k)' = Paid(k) \cup {f} /\ f \notin Paid(k)
      BY <1>1, <1>2, <1>4, <1>5, <2>2, Zenon DEF Paid, FinishFlight
    <3>2. Cardinality(Paid(k)') = Cardinality(Paid(k)) + 1
      BY <2>1, <3>1, FS_AddElement, Zenon
    <3>3. tasks'[k] # None /\ tasks[k] = None
      BY <1>1, <1>2, <2>2, Zenon DEF FinishFlight, taskKey
    <3> QED
      BY <2>1, <3>2, <3>3
  <2>3. CASE ~(req[r].ok /\ k = req[r].key)
    <3>1. Paid(k)' = Paid(k)
      BY <1>1, <1>2, <1>4, <1>5, <2>3, Zenon DEF Paid, FinishFlight
    <3>2. tasks'[k] = tasks[k]
      BY <1>1, <1>2, <2>3, Zenon DEF FinishFlight, taskKey
    <3> QED
      BY <2>1, <3>1, <3>2, Zenon
  <2> QED
    BY <2>2, <2>3, Zenon
<1> QED
  BY <1>6, <1>7, <1>8, Zenon DEF CountInv

\* A first 401 empties the key and is counted.
LEMMA UnauthorizedCount == ASSUME NEW r \in Requests, Inv, CountInv, Unauthorized(r) PROVE CountInv'
<1>1. /\ req[r] \in Request /\ req \in [Requests -> Request] /\ req[r].key \in TaskKeys
      /\ tasks \in [TaskKeys -> Flights \cup {None}] /\ SentInv(req[r])
      /\ UNCHANGED result /\ tasks' = [tasks EXCEPT ![req[r].key] = None]
      /\ req[r].pc = "send" /\ req[r].round = 1
  BY Fields, Zenon DEF Inv, TypeOK, Unauthorized, MayRetry, At, taskKey
<1>2. req[r].sent = 0 /\ ~req[r].refused
  BY <1>1, Zenon DEF SentInv, CountInv
<1>3. /\ req'[r].key = req[r].key /\ req'[r].refused /\ req'[r].sent # 0
      /\ \A s \in Requests : s # r => req'[s] = req[s]
  <2>1. ASSUME NEW q, req' = [req EXCEPT ![r] = q], q.key = req[r].key, q.refused, q.sent # 0
        PROVE  /\ req'[r].key = req[r].key /\ req'[r].refused /\ req'[r].sent # 0
               /\ \A s \in Requests : s # r => req'[s] = req[s]
    BY <1>1, <2>1
  <2>2. CASE req[r].replayable
    <3>q. PICK q : q = [req[r] EXCEPT !.pc = "authorize", !.round = 2, !.flight = None,
                            !.sent = req[r].sent + 1, !.refused = TRUE,
                            !.stale = rejected', !.late = id(r) \in expired]
      OBVIOUS
    <3>1. req' = [req EXCEPT ![r] = q]
      BY <2>2, <3>q, Zenon DEF Unauthorized, Retry
    <3>2. q.key = req[r].key /\ q.refused /\ q.sent # 0
      BY <1>1, <1>2, <3>q DEF Request
    <3> QED
      BY <2>1, <3>1, <3>2, Zenon
  <2>3. CASE ~req[r].replayable
    <3>q. PICK q : q = Returned(r, req[r].sent + 1, TRUE)
      BY Zenon
    <3>1. req' = [req EXCEPT ![r] = q]
      BY <2>3, <3>q, Zenon DEF Unauthorized, Retry
    <3>2. q.key = req[r].key /\ q.refused /\ q.sent # 0
      BY <1>2, <3>q DEF Returned, Outside
    <3> QED
      BY <2>1, <3>1, <3>2, Zenon
  <2> QED
    BY <2>2, <2>3, Zenon
<1>4. \A g \in Flights : KeyOf(g)' = KeyOf(g)
  BY <1>3 DEF KeyOf, Flights
<1>5. ASSUME NEW k PROVE Paid(k)' = Paid(k)
  BY <1>1, <1>4, Zenon DEF Paid
<1>6. \A s \in Requests : req'[s].refused => req'[s].sent # 0
  BY <1>3, Zenon DEF CountInv
<1>7. ASSUME NEW k \in TaskKeys
      PROVE  Cardinality(Paid(k)) <= Cardinality(Met(k)') + (IF tasks'[k] = None THEN 0 ELSE 1)
  <2>1. /\ Cardinality(Paid(k)) <= Cardinality(Met(k)) + (IF tasks[k] = None THEN 0 ELSE 1)
        /\ IsFiniteSet(Met(k)) /\ Cardinality(Paid(k)) \in Nat /\ Cardinality(Met(k)) \in Nat
    BY CountsFinite, Zenon DEF CountInv
  <2>2. CASE k = req[r].key
    <3>1. Met(k)' = Met(k) \cup {r} /\ r \notin Met(k)
      BY <1>2, <1>3, <2>2, Zenon DEF Met
    <3>2. Cardinality(Met(k)') = Cardinality(Met(k)) + 1
      BY <2>1, <3>1, FS_AddElement, Zenon
    <3> QED
      BY <1>1, <2>1, <2>2, <3>2
  <2>3. CASE k # req[r].key
    <3>1. Met(k)' = Met(k)
      BY <1>3, <2>3, Zenon DEF Met
    <3>2. tasks'[k] = tasks[k]
      BY <1>1, <2>3
    <3> QED
      BY <2>1, <3>1, <3>2, Zenon
  <2> QED
    BY <2>2, <2>3, Zenon
<1> QED
  BY <1>5, <1>6, <1>7, Zenon DEF CountInv

\* A key consumes one registration, plus at most one per request that met a 401,
\* however many requests race for it and however the registrations end.
THEOREM PaidPer401 == Spec => []RegistrationsBounded
<1>1. ASSUME Init PROVE CountInv
  <2>1. \A f \in Flights : result[f] # "ok"
    BY <1>1 DEF Init
  <2>2. \A r \in Requests : ~req[r].refused
    BY <1>1 DEF Init, Outside
  <2>3. ASSUME NEW k \in TaskKeys
        PROVE  Cardinality(Paid(k)) <= Cardinality(Met(k)) + (IF tasks[k] = None THEN 0 ELSE 1)
    <3>1. Paid(k) = {}
      BY <2>1 DEF Paid
    <3>2. Cardinality(Paid(k)) = 0 /\ Cardinality(Met(k)) \in Nat
      BY <3>1, FS_EmptySet, CountsFinite, Zenon
    <3> QED
      BY <3>2
  <2> QED
    BY <2>2, <2>3, Zenon DEF CountInv
<1>2. ASSUME Inv, CountInv, [Next]_vars PROVE CountInv'
  <2>1. ASSUME NEW r \in Requests, Admit(r) \/ Refuse(r) \/ Handle(r) \/ ContextDone(r)
        PROVE  CountInv'
    BY <1>2, <2>1, QuietStep, QuietCount, FinishCount, UnauthorizedCount, Zenon DEF Handle
  <2>2. CASE UNCHANGED vars \/ \E i \in Identities : Expire(i)
    <3>1. UNCHANGED <<tasks, result, req>>
      BY <2>2 DEF vars, Expire
    <3> QED
      BY <1>2, <3>1, QuietCount DEF CountsAs
  <2> QED
    BY <1>2, <2>1, <2>2 DEF Next
<1>3. ASSUME CountInv PROVE RegistrationsBounded
  <2>1. ASSUME NEW k \in TaskKeys PROVE Cardinality(Paid(k)) <= 1 + Cardinality(Met(k))
    BY <1>3, CountsFinite DEF CountInv
  <2> QED
    BY <2>1 DEF RegistrationsBounded, Paid, Met, KeyOf
<1> QED
  BY <1>1, <1>2, <1>3, TaskInvariant, PTL DEF Spec
====
