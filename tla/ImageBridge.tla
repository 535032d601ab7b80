----------------------------- MODULE ImageBridge -----------------------------
(***************************************************************************)
(* The direct image bridge of internal/server/direct_images.go: a request  *)
(* for an image becomes a Responses call, and the event stream that comes  *)
(* back is either collected into one answer or passed on frame by frame.   *)
(*                                                                         *)
(* The upstream sends any lines in any order, stops in the middle of a     *)
(* block, breaks off or falls silent; the client's timeout then ends the   *)
(* reading.                                                                *)
(*                                                                         *)
(* Abstractions.  An event is what the accumulator looks at: the image of  *)
(* its item, those of its response, the two kinds of usage, a partial      *)
(* image.  A response without a field and one with a null there are the    *)
(* same, except for image usage, where they differ.  A data line is a      *)
(* whole event, either half of one, or Noise (the end marker, text that    *)
(* does not decode); other lines are skipped by the scanner and left out.  *)
(* Sizes, formats, prompts and time stamps are left out.                   *)
(***************************************************************************)
EXTENDS Naturals, Sequences

CONSTANTS
    Images,       \* encoded images
    Usages,       \* token counts
    None,         \* no image, no event
    Null,         \* a JSON null, or no usage at all
    Missing,      \* no such field
    Events,       \* the events the upstream sends ...
    Split,        \* ... among them those it spreads over two data lines
    MaxLines      \* bound: lines of one answer

Event == [type : {"partial", "completed", "other"}, item : Images \cup {None},
          partial : Images \cup {None}, output : Seq(Images),
          image_gen : Usages \cup {Null, Missing}, usage : Usages \cup {Null}]

ASSUME ImagesAssumption == None \notin Images
ASSUME UsagesAssumption == Null \notin Usages /\ Missing \notin Usages /\ Null # Missing
ASSUME EventsAssumption == Events \subseteq Event /\ None \notin Events /\ Split \subseteq Events
ASSUME MaxLinesAssumption == MaxLines \in Nat

Blank == [kind |-> "blank", event |-> None]
Noise == [kind |-> "noise", event |-> None]
Lines == [kind : {"whole"}, event : Events] \cup [kind : {"first", "rest"}, event : Split]
          \cup {Blank, Noise}

Frame == [type : {"partial", "completed"}, image : Images, usage : Usages \cup {Null}]
          \cup [type : {"error"}, message : {"no output", "incomplete"}]

VARIABLES
    pc,          \* the place in handleCodexDirectImage
    stream,      \* the client asked for a stream
    scan,        \* scanCodexResponsesSSE and the accumulator it feeds
    frames,      \* what has been streamed to the client, by the line it was written at
    answer,      \* status and body once the handler has returned
    lines,       \* history: the lines read
    whole        \* history: they were read to their end

vars == <<pc, stream, scan, frames, answer, lines, whole>>

NoAnswer == [status |-> 0, images |-> <<>>, usage |-> Null]
Status(code) == [NoAnswer EXCEPT !.status = code]

Init ==
    /\ pc = "arrived"
    /\ stream = FALSE
    /\ scan = [dataLines |-> <<>>, results |-> <<>>, usage |-> Null, completed |-> FALSE]
    /\ frames = <<>>
    /\ answer = NoAnswer
    /\ lines = <<>>
    /\ whole = FALSE

-----------------------------------------------------------------------------
(* codexImageAccumulator                                                   *)

appendItem(results, image) ==
    IF image = None \/ \E k \in DOMAIN results : results[k] = image THEN results
    ELSE Append(results, image)

appendItems(results, output) ==
    LET upTo[k \in 0..Len(output)] ==
          IF k = 0 THEN results ELSE appendItem(upTo[k - 1], output[k])
    IN  upTo[Len(output)]

\* Mutant: general usage replaces image usage that came before it.
consumeLatestUsage(s, e) ==
    LET image == IF e.image_gen = Missing THEN s.usage ELSE e.image_gen
    IN [s EXCEPT !.usage = IF e.usage # Null /\ e.image_gen = Missing THEN e.usage ELSE image,
                 !.results = appendItems(appendItem(s.results, e.item), e.output)]

consume(s, e) ==
    LET image == IF e.image_gen = Missing THEN s.usage ELSE e.image_gen
    IN [s EXCEPT !.usage = IF image = Null THEN e.usage ELSE image,
                 !.results = appendItems(appendItem(s.results, e.item), e.output)]

-----------------------------------------------------------------------------
(* scanCodexResponsesSSE and the two functions it calls back               *)

\* The first JSON value of a block of data lines, if there is one: what follows
\* it in the block is not looked at.
Decode(block) ==
    IF block = <<>> THEN None
    ELSE IF block[1].kind = "whole" THEN block[1].event
    ELSE IF Len(block) > 1 /\ block[1].kind = "first" /\ block[2] = [block[1] EXCEPT !.kind = "rest"]
    THEN block[1].event
    ELSE None

Error(message) == [type |-> "error", message |-> message]

\* writeCodexImageSSEFrame for each result of the accumulator s.
CompletedFrames(s) ==
    [i \in DOMAIN s.results |-> [type |-> "completed", image |-> s.results[i], usage |-> s.usage]]

\* The frames streamCodexImageResponse writes for event e, s including it.
FramesFor(s, e) ==
    CASE e.type = "partial" /\ e.partial # None ->
           <<[type |-> "partial", image |-> e.partial, usage |-> Null]>>
      [] e.type = "completed" -> CompletedFrames(s)
      [] OTHER -> <<>>

\* A flushed block: the scan after it, the frames it adds, and whether the
\* callback ends the scan with an error.  Only the stream's callback does.
Flush ==
    LET e == Decode(scan.dataLines)
        clear == [scan EXCEPT !.dataLines = <<>>]
        s == [consume(clear, e) EXCEPT !.completed = @ \/ e.type = "completed"]
    IN IF e = None THEN [scan |-> clear, frames |-> <<>>, failed |-> FALSE]
       ELSE [scan |-> s, frames |-> IF stream THEN FramesFor(s, e) ELSE <<>>,
             failed |-> stream /\ e.type = "completed" /\ s.results = <<>>]

-----------------------------------------------------------------------------
(* handleCodexDirectImage                                                  *)

Answer(a) == pc' = "answered" /\ answer' = a

\* The method, the body, the prompt and, for an edit, the input images.  A body
\* that does not decode has no prompt.
Request == [post : BOOLEAN, body : {"ok", "unreadable", "large"}, prompt : BOOLEAN,
            edit : BOOLEAN, inputs : 0..1, stream : BOOLEAN]

readReplayableRequestBody(q) == q.body = "ok"

buildCodexImageResponsesRequest(q) == q.prompt /\ (q.edit => q.inputs > 0)

Prepare(q) ==
    /\ pc = "arrived"
    /\ IF ~q.post THEN Answer(Status(405)) /\ UNCHANGED stream
       ELSE IF ~readReplayableRequestBody(q) \/ ~buildCodexImageResponsesRequest(q)
       THEN Answer(Status(400)) /\ UNCHANGED stream
       ELSE pc' = "upstream" /\ stream' = q.stream /\ UNCHANGED answer
    /\ UNCHANGED <<scan, frames, lines, whole>>

\* The call fails, is refused (the upstream's status is passed on unless its body
\* cannot be read), or is accepted; then a stream's header is sent.
Call ==
    /\ pc = "upstream"
    /\ \/ \E code \in {502, 429} : Answer(Status(code))
       \/ pc' = "reading" /\ answer' = IF stream THEN Status(200) ELSE NoAnswer
    /\ UNCHANGED <<stream, scan, frames, lines, whole>>

\* writeCodexImageStreamError after what the last block added.
EndStream(flushed, errors) ==
    /\ frames' = frames \o <<flushed.frames, errors>>
    /\ pc' = "answered"
    /\ UNCHANGED answer

\* The scanner's loop: a data line is kept, an empty one flushes the block.
ReadLine(l) ==
    /\ pc = "reading" /\ Len(lines) < MaxLines
    /\ lines' = Append(lines, l)
    /\ IF l # Blank
       THEN /\ scan' = [scan EXCEPT !.dataLines = Append(@, l)]
            /\ frames' = Append(frames, <<>>)
            /\ UNCHANGED <<pc, answer>>
       ELSE /\ scan' = Flush.scan
            /\ IF Flush.failed THEN EndStream(Flush, <<Error("no output")>>)
               ELSE frames' = Append(frames, Flush.frames) /\ UNCHANGED <<pc, answer>>
    /\ UNCHANGED <<stream, whole>>

\* codexImageResponseFromResponsesStream on the whole body.
Collected(s) ==
    IF ~s.completed \/ s.results = <<>> THEN Status(502)
    ELSE [status |-> 200, images |-> s.results, usage |-> s.usage]

\* Mutant: a stream that ends early is not reported.
EndOfBodySilently ==
    /\ pc = "reading"
    /\ whole' = TRUE
    /\ scan' = Flush.scan
    /\ IF stream THEN EndStream(Flush, IF Flush.failed THEN <<Error("no output")>> ELSE <<>>)
       ELSE Answer(Collected(Flush.scan)) /\ UNCHANGED frames
    /\ UNCHANGED <<stream, lines>>

EndOfBody ==
    /\ pc = "reading"
    /\ whole' = TRUE
    /\ scan' = Flush.scan
    /\ IF stream
       THEN EndStream(Flush, IF Flush.failed THEN <<Error("no output")>>
                             ELSE IF Flush.scan.completed THEN <<>> ELSE <<Error("incomplete")>>)
       ELSE Answer(Collected(Flush.scan)) /\ UNCHANGED frames
    /\ UNCHANGED <<stream, lines>>

\* Mutant: only the end of the body ends the reading.
BrokenOnlyAtLimit ==
    /\ pc = "reading" /\ Len(lines) = MaxLines
    /\ IF stream THEN scan' = Flush.scan /\ EndStream(Flush, <<Error("no output")>>)
       ELSE Answer(Status(502)) /\ UNCHANGED <<scan, frames>>
    /\ UNCHANGED <<stream, lines, whole>>

\* The connection breaks, a limit is exceeded, or three minutes are over.  The
\* scanner still hands over what it has; a collected body is dropped.
Broken ==
    /\ pc = "reading"
    /\ IF stream THEN scan' = Flush.scan /\ EndStream(Flush, <<Error("no output")>>)
       ELSE Answer(Status(502)) /\ UNCHANGED <<scan, frames>>
    /\ UNCHANGED <<stream, lines, whole>>

Next ==
    \/ \E q \in Request : Prepare(q)
    \/ Call
    \/ \E l \in Lines : ReadLine(l)
    \/ EndOfBody \/ Broken

Spec == Init /\ [][Next]_vars

\* The handler runs, calls return, and the timeout fires; nothing makes the
\* upstream send a line or end its answer.
FairSpec ==
    /\ Spec
    /\ WF_vars(\E q \in Request : Prepare(q)) /\ WF_vars(Call) /\ WF_vars(Broken)

-----------------------------------------------------------------------------
(* What the lines mean, independently of how they are scanned              *)

\* The first line of the block before line t, or t if there is none.
BlockBefore(ls, t) ==
    CHOOSE s \in 1..t : (s > 1 => ls[s - 1] = Blank) /\ \A r \in s..(t - 1) : ls[r] # Blank

\* The event of the block that ends at t, an empty line or the end of ls.
EventAt(ls, t) ==
    LET s == BlockBefore(ls, t)
        first == ls[s]
    IN IF s = t \/ (t <= Len(ls) /\ ls[t] # Blank) THEN None
       ELSE IF first.kind = "whole" THEN first.event
       ELSE IF first.kind = "first" /\ s + 1 < t /\ ls[s + 1] = [first EXCEPT !.kind = "rest"]
       THEN first.event
       ELSE None

EventsOf(ls) == [t \in 1..(Len(ls) + 1) |-> EventAt(ls, t)]

\* The places for images in the events that end by line n: an event's item, then
\* the output of its response.
Places(ev, n) ==
    UNION {{<<t, j>> : j \in 0..Len(ev[t].output)} : t \in {u \in 1..n : ev[u] # None}}
ImageAt(ev, p) == IF p[2] = 0 THEN ev[p[1]].item ELSE ev[p[1]].output[p[2]]
Before(p, q) == p[1] < q[1] \/ (p[1] = q[1] /\ p[2] < q[2])

\* The images are those of the events that end by line n, each of them once, in the
\* order of their first appearance.
AreImages(ev, images, n) ==
    /\ \A x \in Images :
         (\E p \in Places(ev, n) : ImageAt(ev, p) = x) <=> \E k \in DOMAIN images : images[k] = x
    /\ \A k, l \in DOMAIN images : k < l =>
         \E p \in Places(ev, n) :
           /\ ImageAt(ev, p) = images[k]
           /\ \A q \in Places(ev, n) : ImageAt(ev, q) = images[l] => Before(p, q)

StatesImageUsage(ev, t) == ev[t] # None /\ ev[t].image_gen # Missing
StatesUsage(ev, t) == ev[t] # None /\ ev[t].usage # Null

\* The general usage that these events state first at line m or later.
IsFirstUsage(ev, usage, m, n) ==
    \/ usage = Null /\ \A t \in m..n : ~StatesUsage(ev, t)
    \/ \E g \in m..n : /\ StatesUsage(ev, g) /\ usage = ev[g].usage
                       /\ \A t \in m..(g - 1) : ~StatesUsage(ev, t)

\* Their usage: the image usage stated last, wherever it stands; if that is null or
\* there is none, the first general usage stated since.
IsUsage(ev, usage, n) ==
    \/ (\A t \in 1..n : ~StatesImageUsage(ev, t)) /\ IsFirstUsage(ev, usage, 1, n)
    \/ \E last \in 1..n :
         /\ StatesImageUsage(ev, last) /\ \A t \in (last + 1)..n : ~StatesImageUsage(ev, t)
         /\ IF ev[last].image_gen = Null THEN IsFirstUsage(ev, usage, last, n)
            ELSE usage = ev[last].image_gen

Completes(ev, t) == ev[t] # None /\ ev[t].type = "completed"
HasImage(ev, n) == \E p \in Places(ev, n) : ImageAt(ev, p) # None

\* These are the frames of a stream for the event that ends at line t.
AreFrames(ev, fs, t) ==
    IF Completes(ev, t)
    THEN /\ \A k \in DOMAIN fs : fs[k].type = "completed" /\ IsUsage(ev, fs[k].usage, t)
         /\ AreImages(ev, [k \in DOMAIN fs |-> fs[k].image], t)
    ELSE fs = IF ev[t] # None /\ ev[t].type = "partial" /\ ev[t].partial # None
              THEN <<[type |-> "partial", image |-> ev[t].partial, usage |-> Null]>> ELSE <<>>

-----------------------------------------------------------------------------
(* Properties                                                              *)

\* Every variable stays within its type.
TypeOK ==
    /\ pc \in {"arrived", "upstream", "reading", "answered"}
    /\ stream \in BOOLEAN /\ whole \in BOOLEAN
    /\ scan \in [dataLines : Seq(Lines), results : Seq(Images), usage : Usages \cup {Null},
                 completed : BOOLEAN]
    /\ frames \in Seq(Seq(Frame))
    /\ answer \in [status : {0, 200, 400, 405, 429, 502}, images : Seq(Images),
                   usage : Usages \cup {Null}]
    /\ lines \in Seq(Lines)

\* A collected answer is a success exactly when the whole body was read, some
\* response in it completed and it holds an image; it then has every image of the
\* stream once, in the order of first appearance, and the usage the events agree
\* on, however they were ordered, split over lines or repeated.
CollectedAnswer ==
    LET n == Len(lines) + 1
        ev == EventsOf(lines)
    IN
    (pc = "answered" /\ ~stream /\ answer.status \in {200, 502}) =>
      IF whole /\ HasImage(ev, n) /\ \E t \in 1..n : Completes(ev, t)
      THEN answer.status = 200 /\ AreImages(ev, answer.images, n) /\ IsUsage(ev, answer.usage, n)
      ELSE answer = Status(502)

\* A streamed answer is, event by event and as soon as the event is complete, what
\* the collected one would have been at that point: every completion repeats all
\* images so far with the usage so far.  It ends with one error frame unless the
\* stream was read to its end, had a completion, and every completion had an image.
StreamedAnswer ==
    LET n == Len(lines) + 1
        ev == EventsOf(lines)
        completions == {t \in 1..n : Completes(ev, t)}
        ending == IF ~whole THEN <<Error("no output")>>
                  ELSE IF completions = {} THEN <<Error("incomplete")>>
                  ELSE IF \A t \in completions : HasImage(ev, t) THEN <<>> ELSE <<Error("no output")>>
    IN (pc = "answered" /\ stream /\ answer.status = 200) =>
         /\ \A t \in 1..n : t < Len(frames) => AreFrames(ev, frames[t], t)
         /\ \A t \in 1..n : t >= Len(frames) => ev[t] = None
         /\ Len(frames) <= n + 1 /\ frames # <<>> /\ frames[Len(frames)] = ending

\* The client is never left without an answer, nor a stream without its last
\* frame, although the upstream may fall silent at any point.
EventuallyAnswered == <>(pc = "answered")
=============================================================================
