------------------------------ MODULE AgentTurn ------------------------------
(***************************************************************************)
(* One chat turn: the runner that asks a provider, runs the server's own    *)
(* tools and asks again (packages/server/src/agent/turn.ts), the HTTP call  *)
(* with its retries underneath (packages/providers/src/transport/http.ts),  *)
(* and the three consumers that write the response: the native agent stream *)
(* (rpc/handlers/agent-run.ts), and the OpenAI endpoint streaming and       *)
(* buffered (openai/routes.ts).                                             *)
(*                                                                         *)
(* The runner is a generator its consumer pulls, so a provider event, the   *)
(* runner's reaction and the consumer's are one action; the client may      *)
(* leave between any two.  Events carry no text: what matters is their      *)
(* kind.  A client that left before the response began is an initial state. *)
(*                                                                         *)
(* Behind a proxy a peer may fall silent for good: neither the wait for the *)
(* answer to CONNECT nor a request on a socket of its own has a timeout.    *)
(* The attempt itself is ProxyTunnel's.                                     *)
(***************************************************************************)
EXTENDS Naturals

CONSTANTS
  MaxRounds,     \* MAX_SERVER_TOOL_ROUNDS
  Attempts,      \* HTTP attempts per provider call
  AnswerLength,  \* bound: events of one provider answer before its last
  Ingresses      \* the consumers considered

ASSUME TurnAssumption ==
  /\ MaxRounds \in Nat
  /\ Attempts \in Nat \ {0}
  /\ AnswerLength \in Nat
  /\ Ingresses \subseteq {"agent", "stream", "buffered"}

VARIABLES
  ingress,    \* who consumes the turn
  route,      \* how the provider is reached: "direct", "proxied" or "tunnelled"
  silent,     \* the peer of the wait in progress says nothing more, ever
  phase,      \* where the runner is
  round,      \* rounds of server tool calls so far
  attempt,    \* HTTP attempts of the current provider call
  deaf,       \* the request in flight was issued after the abort
  events,     \* events of the current provider answer
  pending,    \* server tool calls of the current answer
  answered,   \* of which have a result in the conversation
  handedOff,  \* the current answer calls a client tool
  emitted,    \* the runner yielded something after turn-start
  closed,     \* the client is gone
  reply,      \* the response: "none", "open", "ended" or "failed"
  shown,      \* the response shows a part of the answer
  finished,   \* the consumer was given `done`
  made,       \* client tool calls the provider made, by whether the agent
              \* protocol has a message for the tool
  delivered,  \* of which written to the response as a call
  named,      \* of which written to it as a line of text that names the tool
  late        \* work begun after the agent client left

answer == <<events, pending, answered, handedOff>>
handed == <<made, delivered, named>>
tally == <<shown, handed>>
output == <<tally, finished>>
line == <<route, silent>>
vars == <<line, ingress, phase, round, attempt, deaf, answer, emitted, closed, reply, output, late>>

Routes == {"direct", "proxied", "tunnelled"}
CallKinds == {"known", "unknown"}
Phases == {"resolving", "tunnel", "asking", "backoff", "streaming", "tools", "over"}

TypeOK ==
  /\ ingress \in Ingresses
  /\ route \in Routes
  /\ silent \in BOOLEAN
  /\ phase \in Phases
  /\ round \in 0..MaxRounds
  /\ attempt \in 0..Attempts
  /\ deaf \in BOOLEAN
  /\ events \in 0..AnswerLength
  /\ pending \in 0..events
  /\ answered \in 0..pending
  /\ handedOff \in BOOLEAN
  /\ emitted \in BOOLEAN
  /\ closed \in BOOLEAN
  /\ reply \in {"none", "open", "ended", "failed"}
  /\ shown \in BOOLEAN
  /\ finished \in BOOLEAN
  /\ made \in [CallKinds -> Nat]
  /\ delivered \in Nat
  /\ named \in Nat
  /\ late \in [asks : Nat, requests : Nat, tools : Nat]

\* The agent handler opens its response before it runs the turn.
Init ==
  /\ ingress \in Ingresses
  /\ route \in Routes
  /\ silent = FALSE
  /\ phase = "resolving"
  /\ round = 0
  /\ attempt = 0
  /\ deaf = FALSE
  /\ events = 0
  /\ pending = 0
  /\ answered = 0
  /\ handedOff = FALSE
  /\ emitted = FALSE
  /\ closed \in BOOLEAN
  /\ reply = IF ingress = "agent" THEN "open" ELSE "none"
  /\ shown = FALSE
  /\ finished = FALSE
  /\ made = [kind \in CallKinds |-> 0]
  /\ delivered = 0
  /\ named = 0
  /\ late = [asks |-> 0, requests |-> 0, tools |-> 0]

-----------------------------------------------------------------------------
(* The consumers.                                                          *)

\* Only the agent handler watches its client: it breaks off at the next
\* event, and its abort signal reaches the provider call.
Gone == ingress = "agent" /\ closed

\* The end of the turn as the consumer writes it, when the runner returned.
Finish ==
  /\ phase' = "over"
  /\ reply' = IF Gone THEN reply ELSE "ended"

\* The end of the turn when the runner threw.  The streaming endpoint closes
\* an answer it began with the finish reason "error".
Throw ==
  /\ phase' = "over"
  /\ reply' = IF ingress = "stream" /\ reply # "none" THEN "ended"
              ELSE IF Gone THEN reply ELSE "failed"
  /\ finished' = (ingress = "stream" /\ reply # "none")

\* A part of the answer reaches the consumer.  The streaming endpoint opens
\* its response on the first; the buffered one keeps it for the end.
Show ==
  /\ reply' = IF ingress = "stream" THEN "open" ELSE reply
  /\ shown' = (shown \/ (ingress # "buffered" /\ ~closed))

-----------------------------------------------------------------------------
(* Asking the provider.                                                    *)

\* An attempt begins: through a tunnel with the wait for its proxy, which no
\* abort reaches.
Issue ==
  /\ phase' = IF route = "tunnelled" THEN "tunnel" ELSE "asking"
  /\ deaf' = Gone

\* A provider call begins, with its first HTTP attempt.
Ask ==
  /\ Issue
  /\ attempt' = 1
  /\ events' = 0
  /\ pending' = 0
  /\ answered' = 0
  /\ handedOff' = FALSE
  /\ late' = IF Gone THEN [late EXCEPT !.asks = @ + 1] ELSE late

\* The model is looked up, and turn-start yielded: a consumer whose client is
\* gone breaks off there.
Resolve ==
  /\ phase = "resolving"
  /\ \/ ~Gone /\ Ask /\ UNCHANGED <<reply, finished>>
     \/ Gone /\ Finish /\ UNCHANGED <<attempt, deaf, answer, finished, late>>
     \/ Throw /\ UNCHANGED <<attempt, deaf, answer, late>>
  /\ UNCHANGED <<line, ingress, round, emitted, closed, tally>>

\* The request in flight was destroyed by the abort.
Destroyed == phase \in {"asking", "streaming"} /\ Gone /\ ~deaf

\* The proxy agreed to the tunnel: the request is issued, whether or not the
\* client left meanwhile.
TunnelOpens ==
  /\ phase = "tunnel"
  /\ ~silent
  /\ phase' = "asking"
  /\ deaf' = Gone
  /\ UNCHANGED <<line, ingress, round, attempt, answer, emitted, closed, reply, output, late>>

\* The upstream answers with a success status: the stream begins.
AttemptAnswered ==
  /\ phase = "asking"
  /\ ~silent
  /\ ~Destroyed
  /\ phase' = "streaming"
  /\ UNCHANGED <<line, ingress, round, attempt, deaf, answer, emitted, closed, reply, output, late>>

\* A retryable status or a connection failure, of the proxy's too, with attempts
\* left.  An abort that breaks off the body of an error status is one as well.
AttemptFails ==
  /\ phase \in {"tunnel", "asking"}
  /\ silent => Destroyed
  /\ attempt < Attempts
  /\ phase' = "backoff"
  /\ silent' = FALSE
  /\ UNCHANGED <<route, ingress, round, attempt, deaf, answer, emitted, closed, reply, output, late>>

\* The pause is over: the next attempt is issued, whether or not the client
\* left meanwhile.
Retry ==
  /\ phase = "backoff"
  /\ Issue
  /\ attempt' = attempt + 1
  /\ late' = IF Gone THEN [late EXCEPT !.requests = @ + 1] ELSE late
  /\ UNCHANGED <<line, ingress, round, answer, emitted, closed, reply, output>>

\* Faulty: every failure is thrown on.
CaughtAlways == Throw /\ UNCHANGED tally

\* The runner catches a failure: thrown on before anything was yielded, an
\* error event and `done` afterwards.  The buffered endpoint answers 502 at
\* the error event.
Caught ==
  IF ~emitted
    THEN Throw /\ UNCHANGED tally
    ELSE /\ phase' = "over"
         /\ reply' = IF Gone THEN reply
                     ELSE IF ingress = "buffered" THEN "failed" ELSE "ended"
         /\ finished' = (~Gone /\ ingress # "buffered")
         /\ UNCHANGED <<shown, handed>>

\* The call fails for good: not retryable, out of attempts, refused by the
\* proxy, or aborted, which ends a silent wait as well.
AskFails ==
  /\ phase \in {"tunnel", "asking"}
  /\ silent => Destroyed
  /\ Caught
  /\ UNCHANGED <<line, ingress, round, attempt, deaf, answer, emitted, closed, late>>

-----------------------------------------------------------------------------
(* The provider's answer: any events, then `done`.                         *)

Streaming ==
  /\ phase = "streaming"
  /\ ~silent
  /\ events < AnswerLength
  /\ events' = events + 1

\* An event the runner passes on; a consumer whose client is gone breaks off.
Forward ==
  /\ emitted' = TRUE
  /\ phase' = IF Gone THEN "over" ELSE phase

Text ==
  /\ Streaming
  /\ Forward
  /\ Show
  /\ UNCHANGED <<line, ingress, round, attempt, deaf, pending, answered, handedOff, closed,
                 finished, handed, late>>

Usage ==
  /\ Streaming
  /\ Forward
  /\ UNCHANGED <<line, ingress, round, attempt, deaf, pending, answered, handedOff, closed, reply,
                 shown, finished, handed, late>>

\* Faulty: a client call is kept back like a server call.
ClientCallKept(kind) ==
  /\ Streaming
  /\ handedOff' = TRUE
  /\ made' = [made EXCEPT ![kind] = @ + 1]
  /\ UNCHANGED <<line, ingress, phase, round, attempt, deaf, pending, answered, emitted, closed,
                 reply, shown, finished, delivered, named, late>>

\* encodeEvent has no message for a tool the agent protocol does not know, nor
\* for an MCP tool without the struct types: a line of text names it instead.
AsLine(kind) == ingress = "agent" /\ kind = "unknown"

\* A call of a tool that is not the server's is passed on, and counts as the
\* client's even where its tool is nobody's.
ClientCall(kind) ==
  /\ Streaming
  /\ Forward
  /\ Show
  /\ handedOff' = TRUE
  /\ made' = [made EXCEPT ![kind] = @ + 1]
  /\ delivered' = IF closed \/ AsLine(kind) THEN delivered ELSE delivered + 1
  /\ named' = IF ~closed /\ AsLine(kind) THEN named + 1 ELSE named
  /\ UNCHANGED <<line, ingress, round, attempt, deaf, pending, answered, closed, finished, late>>

\* A call of a tool the server added is kept back.
ServerCall ==
  /\ Streaming
  /\ pending' = pending + 1
  /\ UNCHANGED <<line, ingress, phase, round, attempt, deaf, answered, handedOff, emitted,
                 closed, reply, output, late>>

\* The stream breaks, the service reports an error inside it, or the abort
\* destroys it.
StreamFails ==
  /\ phase = "streaming"
  /\ silent => Destroyed
  /\ Caught
  /\ UNCHANGED <<line, ingress, round, attempt, deaf, answer, emitted, closed, late>>

-----------------------------------------------------------------------------
(* The end of an answer.                                                   *)

\* The client will run a tool and come back with a new request.
HandsOver == handedOff

\* `done` is passed on, and the turn is over: no server tool was called, or a
\* client tool was called as well.
AnswerEnds ==
  /\ phase = "streaming"
  /\ ~silent
  /\ pending = 0 \/ HandsOver
  /\ emitted' = TRUE
  /\ finished' = ~Gone
  /\ Finish
  /\ UNCHANGED <<line, ingress, round, attempt, deaf, answer, closed, shown, handed, late>>

\* Faulty: `done` is passed on although server calls are pending.
ToolsBeginLoudly ==
  /\ phase = "streaming"
  /\ ~silent
  /\ pending > 0
  /\ ~HandsOver
  /\ round < MaxRounds
  /\ round' = round + 1
  /\ phase' = "tools"
  /\ finished' = ~Gone
  /\ late' = IF Gone THEN [late EXCEPT !.tools = @ + 1] ELSE late
  /\ UNCHANGED <<line, ingress, attempt, deaf, answer, emitted, closed, reply, shown, handed>>

\* Server tools were called: `done` is withheld, the calls join the
\* conversation, and the first of them runs.
ToolsBegin ==
  /\ phase = "streaming"
  /\ ~silent
  /\ pending > 0
  /\ ~HandsOver
  /\ round < MaxRounds
  /\ round' = round + 1
  /\ phase' = "tools"
  /\ late' = IF Gone THEN [late EXCEPT !.tools = @ + 1] ELSE late
  /\ UNCHANGED <<line, ingress, attempt, deaf, answer, emitted, closed, reply, output>>

\* One round too many: a note and `done` end the turn.
RoundsSpent ==
  /\ phase = "streaming"
  /\ ~silent
  /\ pending > 0
  /\ ~HandsOver
  /\ round = MaxRounds
  /\ phase' = "over"
  /\ reply' = IF Gone THEN reply ELSE "ended"
  /\ shown' = (shown \/ (ingress # "buffered" /\ ~closed))
  /\ finished' = ~Gone
  /\ UNCHANGED <<line, ingress, round, attempt, deaf, answer, emitted, closed, handed, late>>

-----------------------------------------------------------------------------
(* Server tools.                                                           *)

\* Faulty: the consumer looks at its client only between provider events.
ToolEndsUnwatched ==
  /\ phase = "tools"
  /\ silent => Gone
  /\ emitted' = TRUE
  /\ IF answered + 1 < pending
       THEN /\ answered' = answered + 1
            /\ late' = IF Gone THEN [late EXCEPT !.tools = @ + 1] ELSE late
            /\ UNCHANGED <<phase, attempt, deaf, events, pending, handedOff>>
       ELSE Ask
  /\ shown' = (shown \/ (ingress = "agent" /\ ~closed))
  /\ UNCHANGED <<line, ingress, round, closed, reply, finished, handed>>

\* Faulty: the runner waits for one result more than there are calls.
ToolEndsOneShort ==
  /\ phase = "tools"
  /\ silent => Gone
  /\ emitted' = TRUE
  /\ IF Gone
       THEN phase' = "over" /\ UNCHANGED <<attempt, deaf, answer, late>>
       ELSE /\ answered + 1 < pending
            /\ answered' = answered + 1
            /\ UNCHANGED <<phase, attempt, deaf, events, pending, handedOff, late>>
  /\ shown' = (shown \/ (ingress = "agent" /\ ~closed))
  /\ UNCHANGED <<line, ingress, round, closed, reply, finished, handed>>

\* A server tool has run (a failure is a result too), and the consumer is
\* told: the agent stream shows a notice.  Its result joins the conversation;
\* the next call runs, or the provider is asked again.  A tool held by a proxy
\* of its own may hear the abort.
ToolEnds ==
  /\ phase = "tools"
  /\ silent => Gone
  /\ emitted' = TRUE
  /\ IF Gone
       THEN phase' = "over" /\ UNCHANGED <<attempt, deaf, answer, late>>
       ELSE IF answered + 1 < pending
         THEN /\ answered' = answered + 1
              /\ UNCHANGED <<phase, attempt, deaf, events, pending, handedOff, late>>
         ELSE Ask
  /\ shown' = (shown \/ (ingress = "agent" /\ ~closed))
  /\ UNCHANGED <<line, ingress, round, closed, reply, finished, handed>>

-----------------------------------------------------------------------------
\* The client's connection goes away.
ClientLeaves ==
  /\ phase # "over"
  /\ ~closed
  /\ closed' = TRUE
  /\ UNCHANGED <<line, ingress, phase, round, attempt, deaf, answer, emitted, reply, output, late>>

\* The proxy, or what is behind it, says nothing more and keeps the connection:
\* the timeout of http.ts:104 is armed by the connections Node makes itself.
\* The server's tools have a proxy where the environment names one.
FallsSilent ==
  /\ \/ route # "direct" /\ phase \in {"tunnel", "asking", "streaming"}
     \/ phase = "tools"
  /\ ~silent
  /\ silent' = TRUE
  /\ UNCHANGED <<route, ingress, phase, round, attempt, deaf, answer, emitted, closed, reply,
                 output, late>>

Provider ==
  \/ TunnelOpens \/ AttemptAnswered \/ AttemptFails \/ AskFails \/ StreamFails
  \/ Text \/ Usage \/ ServerCall
  \/ \E kind \in CallKinds : ClientCall(kind)
  \/ AnswerEnds \/ ToolsBegin \/ RoundsSpent

Step == Resolve \/ Provider \/ Retry \/ ToolEnds

Next == Step \/ ClientLeaves \/ FallsSilent

Spec == Init /\ [][Next]_vars

\* A wait that nothing ends: the peer is silent, and no abort was heard.
Held == silent /\ ~Destroyed

\* The runner is never idle, and what it waits for has a timeout of its own: a
\* direct request, a pause, and a tool; all but a wait that is held.
FairSpec == Spec /\ WF_vars(~Held /\ Step)

-----------------------------------------------------------------------------
(* Properties.                                                             *)

\* Once the agent's client is gone no provider is asked again, at most one
\* server tool is started (the answer was complete before anybody looked), and
\* of the HTTP attempts only the retries of the call in progress go out
\* (agent-run.ts:148, turn.ts:179; the abort listener of http.ts:126 does not
\* hear an abort that came before it).
NoNewWorkAfterClose ==
  /\ late.asks = 0
  /\ late.tools <= 1
  /\ late.requests < Attempts

\* A response that ended well carries every call of a client's tool that the model
\* made, in all rounds and each once: as a call, or on the agent's stream, for a
\* tool its protocol has no message for, as a line that names it (turn.ts:138-149,
\* protocol.ts:361-385).
CallsReachClient ==
  phase = "over" /\ reply = "ended" /\ ~closed =>
    IF ingress = "agent"
      THEN delivered = made["known"] /\ named = made["unknown"]
      ELSE delivered = made["known"] + made["unknown"] /\ named = 0

\* `done` is the last thing a consumer is told, and a response that ends well
\* was told it: the follow-up rounds come before (turn.ts:147).
DoneIsLast ==
  /\ finished => phase = "over"
  /\ phase = "over" /\ reply = "ended" /\ ~closed => finished

\* Every turn that found its model comes to an end, however often the model calls
\* server tools, unless a wait behind a proxy holds it; and where the abort is
\* heard, which is in an issued request and in its answer, the client's leaving
\* ends that wait too (http.ts:124-126).
TurnEnds == (phase # "resolving") ~> (phase = "over" \/ Held)

\* What the client sees is the contract of TurnReply: one end, and never a
\* protocol error after a part of the answer was shown (turn.ts:84-87).
Reply == INSTANCE TurnReply
ImplementsReply == Reply!Spec
=============================================================================
