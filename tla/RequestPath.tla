----------------------------- MODULE RequestPath -----------------------------
(***************************************************************************)
(* One captured request inside the server: the verdict                      *)
(* (packages/server/src/server.ts `handle`, rpc/dispatcher.ts), the         *)
(* handlers that serve a method or decline it, the proxy that asks the      *)
(* official API (upstream/proxy.ts), and the response as exchange.ts writes *)
(* it, with every error path down to the socket being destroyed.            *)
(*                                                                         *)
(* An action is what runs between two awaits, or one callback of the        *)
(* upstream request.  Bodies are a number of parts; what a handler computes *)
(* is the choice between serving, declining and throwing.                   *)
(***************************************************************************)
EXTENDS Naturals

CONSTANT MaxParts  \* bound: parts of an answer that is streamed

ASSUME PartsAssumption == MaxParts \in Nat

VARIABLES
  request,   \* what was asked
  body,      \* its body: "coming", "whole" or "broken"
  gone,      \* the client's connection is lost
  stage,     \* where the promise of `handle` stands
  answer,    \* the response: its phase, who wrote it, the parts sent
  upstream,  \* the official API's answer to the last request
  given,     \* parts of it that came
  asked,     \* requests sent to the official API
  fetched    \* what `fetch` gave a handler

vars == <<request, body, gone, stage, answer, upstream, given, asked, fetched>>
client == <<request, body, gone>>
source == <<upstream, given, asked, fetched>>

\* Methods with a handler, and what is forwarded without one: paths that are
\* no RPC, methods left to the official API, methods that lack a handler.
Handled == {"blobs", "knowledge", "append", "run", "models"}
Unclaimed == {"path", "upstream", "unimplemented"}
Paths == Handled \union Unclaimed
           \union {"openai", "control", "events", "stub", "empty"}

\* `trailers`: gRPC over HTTP/2, where a local answer needs trailers sent.
Requests ==
  {r \in [path : Paths, upgrade : {"none", "header", "handshake"}, trailers : BOOLEAN] :
     r.trailers => r.upgrade = "none"
                   /\ r.path \in Handled \union {"upstream", "unimplemented", "empty"}}

Stages == {"arrived", "reads", "waits", "streams", "fetches", "asks",
           "forwards", "relays", "finished"}
Upstreams == {"idle", "asked", "answering", "broken", "aborted", "complete", "closed"}

TypeOK ==
  /\ request \in Requests
  /\ body \in {"coming", "whole", "broken"}
  /\ gone \in BOOLEAN
  /\ stage \in Stages
  /\ answer \in [phase : {"none", "open", "whole", "cut"},
                 from : {"server", "upstream"}, sent : 0..MaxParts]
  /\ upstream \in Upstreams
  /\ given \in 0..MaxParts
  /\ asked \in 0..2
  /\ fetched \in {"unasked", "nothing", "answer"}

Init ==
  /\ request \in Requests
  /\ body \in {"coming", "whole"}
  /\ gone = FALSE
  /\ stage = "arrived"
  /\ answer = [phase |-> "none", from |-> "server", sent |-> 0]
  /\ upstream = "idle"
  /\ given = 0
  /\ asked = 0
  /\ fetched = "unasked"
-----------------------------------------------------------------------------
(* Writing the response *)

\* exchange.sendJson: a second head is refused.
SendJson ==
  /\ answer.phase = "none"
  /\ answer' = [answer EXCEPT !.phase = "whole"]

\* Faulty: what sendJson throws is swallowed.
SendJsonOrNothing ==
  \/ SendJson
  \/ answer.phase # "none" /\ UNCHANGED answer

\* sendJson, and where a head already went out the connection is destroyed.
SendJsonOrDestroy ==
  \/ SendJson
  \/ answer.phase # "none" /\ answer' = [answer EXCEPT !.phase = "cut"]

\* exchange.send of a local answer: over HTTP/2 the trailers are refused at
\* this point, with the head out, and what catches that can only destroy.
SendAnswer ==
  /\ answer.phase = "none"
  /\ answer' = [answer EXCEPT !.phase = IF request.trailers THEN "cut" ELSE "whole"]

BeginStream(writer) ==
  /\ answer.phase = "none"
  /\ answer' = [answer EXCEPT !.phase = "open", !.from = writer]

WritePart ==
  /\ answer.phase = "open"
  /\ answer.sent < MaxParts
  /\ answer' = [answer EXCEPT !.sent = @ + 1]

\* writer.end, without effect on a response that was destroyed.
EndStream ==
  \/ answer.phase = "open" /\ answer' = [answer EXCEPT !.phase = "whole"]
  \/ answer.phase # "open" /\ UNCHANGED answer

\* Faulty: a handler that failed is taken for one that declined.
ThrowsOn ==
  \/ request.path \in Handled /\ stage' = "forwards" /\ UNCHANGED answer
  \/ request.path \notin Handled /\ SendJsonOrDestroy /\ stage' = "finished"

\* An error leaves a handler, or what the dispatcher ran after it declined, as
\* an RPC error; anything else as a 500.
Throws ==
  /\ \/ request.path \in Handled /\ SendAnswer
     \/ request.path \notin Handled /\ SendJsonOrDestroy
  /\ stage' = "finished"
-----------------------------------------------------------------------------
(* The verdict *)

Arrived == stage = "arrived" /\ request.upgrade # "handshake"

\* Node hands an upgrade to a listener of its own, whatever the path.
RefuseHandshake ==
  /\ stage = "arrived"
  /\ request.upgrade = "handshake"
  /\ SendJson
  /\ stage' = "finished"
  /\ UNCHANGED <<client, source>>

\* The control surface comes before the policy for upgrades; a toggle that
\* cannot be saved is answered with a 500.
Control ==
  /\ Arrived
  /\ request.path = "control"
  /\ SendJson
  /\ stage' = "finished"
  /\ UNCHANGED <<client, source>>

\* The configuration stream stays open for as long as its client.
Subscribe ==
  /\ Arrived
  /\ request.path = "events"
  /\ BeginStream("server")
  /\ stage' = "finished"
  /\ UNCHANGED <<client, source>>

Passed == Arrived /\ request.path \notin {"openai", "control", "events"}

RefuseUpgrade ==
  /\ Passed
  /\ request.upgrade = "header"
  /\ SendJson
  /\ stage' = "finished"
  /\ UNCHANGED <<client, source>>

AnswerAtOnce ==
  /\ Passed
  /\ request.upgrade = "none"
  /\ request.path \in {"stub", "empty"}
  /\ SendAnswer
  /\ stage' = "finished"
  /\ UNCHANGED <<client, source>>

\* proxy.forward up to its first await; the policy may refuse it.
Forward ==
  \/ stage' = "forwards" /\ UNCHANGED answer
  \/ SendJson /\ stage' = "finished"

ForwardUnclaimed ==
  /\ Passed
  /\ request.upgrade = "none"
  /\ request.path \in Unclaimed
  /\ Forward
  /\ UNCHANGED <<client, source>>

CallHandler ==
  /\ \/ Arrived /\ request.path = "openai"
     \/ Passed /\ request.upgrade = "none" /\ request.path \in Handled \ {"models"}
  /\ stage' = "reads"
  /\ UNCHANGED <<client, answer, source>>

\* The OpenAI endpoint lists its models without reading, and the agent's
\* handlers decline without reading while no schema or model is there.
NotRead ==
  /\ \/ Arrived /\ request.path = "openai" /\ SendJson /\ stage' = "finished"
     \/ /\ Passed
        /\ request.upgrade = "none"
        /\ request.path \in {"append", "run"}
        /\ Forward
  /\ UNCHANGED <<client, source>>

CallModels ==
  /\ Passed
  /\ request.upgrade = "none"
  /\ request.path = "models"
  /\ stage' = "fetches"
  /\ UNCHANGED <<client, answer, source>>
-----------------------------------------------------------------------------
(* The handlers *)

\* A body is collected once and cached: a handler that declines leaves it to
\* the proxy.
HandlerReads ==
  /\ stage = "reads"
  /\ body = "whole"
  /\ \/ request.path = "openai" /\ SendJson /\ stage' = "finished"
     \/ request.path \in {"openai", "run"} /\ stage' = "waits" /\ UNCHANGED answer
     \/ request.path \in {"knowledge", "append"} /\ SendAnswer /\ stage' = "finished"
     \/ request.path \in {"knowledge", "append", "blobs", "run"} /\ Forward
     \/ request.path \in {"knowledge", "append", "run"} /\ Throws
  /\ UNCHANGED <<client, source>>

\* Collecting a body that breaks off throws; only the OpenAI endpoint catches
\* it itself.
BodyFails ==
  /\ stage \in {"reads", "fetches", "forwards"}
  /\ body = "broken"
  /\ \/ request.path = "openai" /\ SendJson /\ stage' = "finished"
     \/ request.path # "openai" /\ Throws
  /\ UNCHANGED <<client, source>>

\* A turn starts to answer, or is declined: no run request came for it.  The
\* OpenAI endpoint may answer it in one piece.
TurnBegins ==
  /\ stage = "waits"
  /\ \/ BeginStream("server") /\ stage' = "streams"
     \/ request.path = "openai" /\ SendJson /\ stage' = "finished"
     \/ request.path = "run" /\ (Forward \/ Throws)
  /\ UNCHANGED <<client, source>>

TurnWrites ==
  /\ stage = "streams"
  /\ WritePart
  /\ UNCHANGED <<client, stage, source>>

\* Errors of a running turn travel inside the stream, which then ends.
TurnEnds ==
  /\ stage = "streams"
  /\ EndStream
  /\ stage' = "finished"
  /\ UNCHANGED <<client, source>>

\* Faulty: a list that could not be fetched is fetched again.
ServeModelsLater ==
  /\ stage = "asks"
  /\ fetched # "unasked"
  /\ fetched = "nothing" /\ stage' = "fetches" /\ UNCHANGED answer
  /\ UNCHANGED <<client, source>>

\* The model list: built here, replayed as upstream gave it, or left to the
\* proxy, which then asks again.
ServeModels ==
  /\ stage = "asks"
  /\ fetched # "unasked"
  /\ \/ SendAnswer /\ stage' = "finished"
     \/ /\ fetched = "answer"
        /\ answer' = [phase |-> "whole", from |-> "upstream", sent |-> given]
        /\ stage' = "finished"
     \/ fetched = "nothing" /\ Forward
     \/ Throws
  /\ UNCHANGED <<client, source>>
-----------------------------------------------------------------------------
(* The proxy *)

Ask ==
  /\ body = "whole"
  /\ asked' = asked + 1
  /\ upstream' = "asked"
  /\ given' = 0

FetchAsks ==
  /\ stage = "fetches"
  /\ Ask
  /\ stage' = "asks"
  /\ UNCHANGED <<client, answer, fetched>>

ForwardAsks ==
  /\ stage = "forwards"
  /\ Ask
  /\ stage' = "relays"
  /\ UNCHANGED <<client, answer, fetched>>

Asking == stage = "asks" /\ fetched = "unasked"
Relaying == stage = "relays"

HeadArrives ==
  /\ upstream = "asked"
  /\ \/ Asking /\ UNCHANGED answer
     \/ Relaying /\ BeginStream("upstream")
  /\ upstream' = "answering"
  /\ UNCHANGED <<client, stage, given, asked, fetched>>

Part ==
  /\ upstream = "answering"
  /\ given < MaxParts
  /\ \/ Asking /\ UNCHANGED answer
     \/ Relaying /\ WritePart
  /\ given' = given + 1
  /\ UNCHANGED <<client, stage, upstream, asked, fetched>>

\* What `fetch` resolves to; its handler goes on from there.
Fetched(result) ==
  /\ Asking
  /\ fetched' = result
  /\ UNCHANGED <<answer, stage>>

Relayed ==
  /\ Relaying
  /\ stage' = "finished"
  /\ UNCHANGED fetched

AnswerComplete ==
  /\ upstream = "answering"
  /\ Fetched("answer") \/ (Relayed /\ EndStream)
  /\ upstream' = "complete"
  /\ UNCHANGED <<client, given, asked>>

\* Upstream closes its connection within its answer: only the response hears
\* of it, and a relayed answer is ended as if it were complete.
AnswerClosed ==
  /\ upstream = "answering"
  /\ Fetched("nothing") \/ (Relayed /\ EndStream)
  /\ upstream' = "closed"
  /\ UNCHANGED <<client, given, asked>>

\* Faulty: the failure is logged and the relay given up.
NoAnswerLogged ==
  /\ upstream = "asked"
  /\ Fetched("nothing") \/ (Relayed /\ UNCHANGED answer)
  /\ upstream' = "aborted"
  /\ UNCHANGED <<client, given, asked>>

\* No answer: refused, closed, or silent until the timeout.
NoAnswer ==
  /\ upstream = "asked"
  /\ Fetched("nothing") \/ (Relayed /\ SendJsonOrDestroy)
  /\ upstream' = "aborted"
  /\ UNCHANGED <<client, given, asked>>

\* The connection fails or goes silent within an answer: the request hears of
\* it first, the response after it.
AnswerBreaks ==
  /\ upstream = "answering"
  /\ Fetched("nothing") \/ (Relayed /\ SendJsonOrDestroy)
  /\ upstream' = "broken"
  /\ UNCHANGED <<client, given, asked>>

AnswerAborted ==
  /\ upstream = "broken"
  /\ EndStream
  /\ upstream' = "aborted"
  /\ UNCHANGED <<client, stage, given, asked, fetched>>
-----------------------------------------------------------------------------
(* The client *)

BodyArrives ==
  /\ body = "coming"
  /\ body' = "whole"
  /\ UNCHANGED <<request, gone, stage, answer, source>>

ClientLeaves ==
  /\ ~gone
  /\ gone' = TRUE
  /\ body' = IF body = "coming" THEN "broken" ELSE body
  /\ UNCHANGED <<request, stage, answer, source>>

Verdict ==
  \/ RefuseHandshake \/ Control \/ Subscribe \/ RefuseUpgrade \/ AnswerAtOnce
  \/ ForwardUnclaimed \/ CallHandler \/ NotRead \/ CallModels

Handler ==
  \/ HandlerReads \/ BodyFails \/ TurnBegins \/ TurnWrites \/ TurnEnds \/ ServeModels
  \/ FetchAsks \/ ForwardAsks

OfficialApi ==
  \/ HeadArrives \/ Part \/ AnswerComplete \/ AnswerClosed \/ NoAnswer \/ AnswerBreaks
  \/ AnswerAborted

Next == Verdict \/ Handler \/ OfficialApi \/ BodyArrives \/ ClientLeaves

Spec == Init /\ [][Next]_vars

\* A turn runs: its provider decides when it goes on, and behind a silent proxy it
\* never does (AgentTurn).  The wait of an agent's stream for its run request is no
\* part of that, as it has a timeout.
InTurn == stage = "streams" \/ (stage = "waits" /\ request.path = "openai")

\* The server's own steps are run, a turn's apart; upstream answers or its timeout
\* fires; a client that stays sends its body.
Fairness ==
  /\ WF_vars(~InTurn /\ (Verdict \/ Handler))
  /\ WF_vars(OfficialApi)
  /\ WF_vars(BodyArrives)

FairSpec == Spec /\ Fairness
-----------------------------------------------------------------------------
(* What the request path promises *)

(* The official API is asked once and with the whole body of the request:  *)
(* a second time only by the proxy, for the model list, when the first     *)
(* request brought nothing (proxy.ts `fetch` and `forward`, and the        *)
(* handlers of server.ts that read a body they then leave to the proxy).   *)
AskedOnce ==
  /\ asked > 0 => body = "whole"
  /\ asked > 1 => request.path = "models" /\ fetched = "nothing"

(* The response is one honest answer: one head, what upstream gave in its   *)
(* order, and an end only when upstream is done, as far as a closed         *)
(* connection tells; what broke is cut (proxy.ts `forward`, exchange.ts).   *)
Answer == INSTANCE HonestAnswer WITH
  phase <- answer.phase,
  from <- answer.from,
  sent <- answer.sent,
  source <- IF upstream \in {"idle", "asked", "answering"} THEN "running"
            ELSE IF upstream = "aborted" THEN "broken" ELSE upstream

ImplementsHonestAnswer == Answer!Spec

(* Every client that stays gets an answer that ends, as complete or by a     *)
(* destroyed connection, unless the turn that serves it never ends; the      *)
(* configuration stream is opened (dispatcher.ts, server.ts `handle`, and    *)
(* the error handlers of proxy.ts).                                          *)
Settles ==
  \/ <>(\/ gone
        \/ answer.phase \in {"whole", "cut"}
        \/ request.path = "events" /\ answer.phase = "open")
  \/ <>[]InTurn
=============================================================================
